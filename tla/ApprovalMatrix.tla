--------------------------- MODULE ApprovalMatrix ---------------------------
(***************************************************************************)
(* The approval authority matrix of one client: which rule governs an      *)
(* amount, and which roles may sign it off (services/sod.py; the bands of  *)
(* the starter templates, web/routes.py).                                  *)
(*                                                                         *)
(* Amounts keep their order only: 1 and 2 stand for 1000.00 and 1000.01,   *)
(* 3 and 4 for 2000.00 and 2000.01, 5 and 6 for 10000.00 and 10000.01, and *)
(* 0 for anything below.  A matrix is a sequence of rules, by identity; a  *)
(* rule that was deleted is not live.  The scopes that the editor never    *)
(* writes (department, category, a named person) are left out.             *)
(***************************************************************************)
EXTENDS Naturals, Sequences, FiniteSets

CONSTANT None   \* SQL NULL

Amounts == 0 .. 6
Modules == {"eclaim", "ap"}

\* _ROLE_RANK: a higher role satisfies a rule that requires a lower one.
Rank == [viewer |-> 0, approver |-> 1, manager |-> 2, partner |-> 3]
Roles == DOMAIN Rank

\* NULL is no value of a column.
ASSUME MatrixAssumption == None \notin Amounts /\ None \notin Modules /\ None \notin Roles

Band(min, max, role) == [min |-> min, max |-> max, role |-> role]

\* Mutant: the band above starts on the ceiling of the band below.
Templates_Touching ==
  [starter |-> <<Band(None, None, "manager")>>,
   small   |-> <<Band(None, 3, "manager"), Band(3, None, "partner")>>,
   growing |-> <<Band(None, 1, "manager"), Band(2, 5, "partner"), Band(6, None, "partner")>>]

\* APPROVAL_TEMPLATES; "enterprise" seeds the rows of "growing".
Templates ==
  [starter |-> <<Band(None, None, "manager")>>,
   small   |-> <<Band(None, 3, "manager"), Band(4, None, "partner")>>,
   growing |-> <<Band(None, 1, "manager"), Band(2, 5, "partner"), Band(6, None, "partner")>>]

\* The row that the editor and the templates insert.
Rule(band, module) ==
  [min |-> band.min, max |-> band.max, role |-> band.role, module |-> module, live |-> TRUE]

InBand(r, amount) ==
  /\ r.min # None => amount >= r.min
  /\ r.max # None => amount <= r.max

\* The live rules of a matrix that apply to a module.
Scoped(rules, module) ==
  {i \in DOMAIN rules : rules[i].live /\ rules[i].module \in {None, module}}

Matching(rules, module, amount) ==
  {i \in Scoped(rules, module) : InBand(rules[i], amount)}

\* rules_for_client reads in the order of the floors, NULL last.
Before(r, q) == r.min # None /\ (q.min = None \/ r.min < q.min)

\* select_matrix_rule: a rule for the module before one for all, then the
\* lowest floor; the result is the set of the rules that may come first.
Governing(rules, module, amount) ==
  LET fit  == Matching(rules, module, amount)
      own  == {i \in fit : rules[i].module # None}
      best == IF own # {} THEN own ELSE fit
  IN {i \in best : \A j \in best : ~Before(rules[j], rules[i])}

\* _matrix_gap: at or above the lowest floor, an amount without a band is
\* denied; below it, it is not governed.
Gap(rules, module, amount) ==
  \E i \in Scoped(rules, module) : rules[i].min = None \/ amount >= rules[i].min

\* _rule_satisfied; a rule without a role is for any approver.
Satisfies(role, r) == r.role # None => Rank[role] >= Rank[r.role]

\* The roles that the matrix lets sign off the amount (matrix_rule_for, then
\* check_can_approve), whichever of the governing rules comes first.
SignedBy(rules, module, amount) ==
  LET first == Governing(rules, module, amount) IN
  {role \in Roles \ {"viewer"} :
     IF first = {} THEN ~Gap(rules, module, amount)
     ELSE \A i \in first : Satisfies(role, rules[i])}
=============================================================================
