-------------------------- MODULE MCClaimLifecycle --------------------------
(***************************************************************************)
(* Instances of ClaimLifecycle for TLC.  Two firm users: a clerk, whose    *)
(* authority is low, and a manager, who has no limit.  Totals reach at     *)
(* most MaxBase * Cardinality(Lines).                                      *)
(***************************************************************************)
EXTENDS ClaimLifecycle, TLC

CONSTANTS clerk, manager, viewer, l1, l2, l3, p1, p2, s1, s2

\* The clerk signs off a total of at most 1; the manager any total.
MCAuthority ==
  [u \in Users |-> IF u = manager THEN 0 .. MaxBase * Cardinality(Lines) ELSE 0 .. 1]

\* No category: carbon relevant, and no GL account.
Unmapped == [carbon |-> TRUE, gl |-> FALSE]

\* A category that names a GL account and is not carbon relevant.
Office == [carbon |-> FALSE, gl |-> TRUE]

MCOneCategory == {Unmapped}

MCTwoCategories == {Unmapped, Office}

\* One page prices; the other is in a foreign currency that has no rate yet.
MCReads ==
  [p \in Pages |-> [base |-> IF p = p1 THEN 1 ELSE NoBase, category |-> Unmapped]]

LineSymmetry == Permutations(Lines)

LineAndSessionSymmetry == Permutations(Lines) \cup Permutations(Sessions)
=============================================================================
