------------------------------ MODULE ErpLine ------------------------------
(***************************************************************************)
(* What ERP Sync makes of one file of AP lines: validation, rule matching, *)
(* valuation, the cross-channel screen and the status a line is staged     *)
(* with (erpsync/pipeline.py and the stages it calls).  Pure definitions;  *)
(* ErpSync imports files with them.                                        *)
(*                                                                         *)
(* Codes and names are compared after the code's own normalisation (strip, *)
(* case), so they are values here.  A vendor rule matches a substring: its *)
(* code is the set of the vendor names that contain it.                    *)
(***************************************************************************)
EXTENDS Integers, FiniteSets, Sequences

CONSTANTS
  Ruleset,     \* the client's mapping rules, in file order
  Factors,     \* emission factors, by reference
  Ownership,   \* the channel that owns a carbon category
  EclaimDocs,  \* document numbers already captured in e-Claim
  Grain,       \* how many units of a figure make one unit of the ledger's
  None,        \* a blank cell, an absent reference
  Bad          \* a cell that does not parse as a number

Dimensions == <<"item", "vendor", "gl">>

ASSUME ErpLineAssumption ==
  /\ Grain \in Nat \ {0} /\ DOMAIN Ruleset \subseteq Nat /\ None \notin EclaimDocs
  /\ \A n \in DOMAIN Ruleset :
       /\ Ruleset[n].dim \in {"item", "vendor", "gl"}
       /\ Ruleset[n].category # "UNMAPPED"   \* the word for a line with no rule
       /\ Ruleset[n].factor \in DOMAIN Factors \ {None}
       /\ Ruleset[n].fallback \in DOMAIN Factors \cup {None}
  /\ \A f \in DOMAIN Factors : Factors[f].value \in Int

-----------------------------------------------------------------------------
(* validate_rows. *)

Malformed(raw) ==
  \/ None \in {raw.doc_entry, raw.vendor, raw.amount}
  \/ Bad \in {raw.line_num, raw.amount, raw.quantity}

\* The line key within one client; a blank line number is 0.
LineKey(raw) == <<raw.doc_entry, IF raw.line_num = None THEN 0 ELSE raw.line_num>>

Verdict(file, known, i) ==
  IF Malformed(file[i]) THEN "rejected"
  ELSE IF \/ LineKey(file[i]) \in known
          \/ \E j \in 1 .. i - 1 : ~Malformed(file[j]) /\ LineKey(file[j]) = LineKey(file[i])
       THEN "duplicate" ELSE "accepted"

Accepted(file, known) == {i \in DOMAIN file : Verdict(file, known, i) = "accepted"}

\* One malformed row blocks the whole file.
Committable(file) == \A i \in DOMAIN file : ~Malformed(file[i])

-----------------------------------------------------------------------------
(* match_rule: item before vendor before GL, then file order. *)

Matches(raw, rule) ==
  CASE rule.dim = "item"   -> raw.item # None /\ raw.item = rule.code
    [] rule.dim = "vendor" -> raw.vendor \in rule.code
    [] rule.dim = "gl"     -> raw.gl # None /\ raw.gl = rule.code

Rank(rule) == CHOOSE d \in DOMAIN Dimensions : Dimensions[d] = rule.dim

\* Mutant: the first rule of the file that matches.
MatchRule_FileOrder(raw) ==
  LET hits == {n \in DOMAIN Ruleset : Matches(raw, Ruleset[n])} IN
  IF hits = {} THEN 0 ELSE CHOOSE n \in hits : \A k \in hits : n <= k

\* The position of the rule that classifies the line, 0 when none does.
MatchRule(raw) ==
  LET hits == {n \in DOMAIN Ruleset : Matches(raw, Ruleset[n])}
      best == {n \in hits : \A k \in hits : Rank(Ruleset[n]) <= Rank(Ruleset[k])}
  IN IF hits = {} THEN 0 ELSE CHOOSE n \in best : \A k \in best : n <= k

-----------------------------------------------------------------------------
(* resolve and compute. *)

\* The line has a quantity in the unit of the rule's activity factor.
Measurable(raw, rule) ==
  /\ rule.basis = "activity"
  /\ raw.quantity # None /\ raw.quantity > 0
  /\ raw.uom # None /\ raw.uom = Factors[rule.factor].uom

\* The basis, data quality, factor and units of a line; no factor when it can
\* be valued neither by quantity nor by amount.
Resolve(raw, rule) ==
  IF rule.basis = "spend" THEN
    [basis |-> "spend", quality |-> "estimated", factor |-> rule.factor, units |-> raw.amount]
  ELSE IF Measurable(raw, rule) THEN
    [basis |-> "activity", quality |-> "measured", factor |-> rule.factor, units |-> raw.quantity]
  ELSE IF rule.fallback # None THEN
    [basis |-> "spend", quality |-> "estimated", factor |-> rule.fallback, units |-> raw.amount]
  ELSE
    [basis |-> "spend", quality |-> "flagged", factor |-> None, units |-> raw.amount]

\* Mutant: the figure is truncated.
Tonnes_Truncated(units, value) == (units * value) \div Grain

\* core.carbon.tco2e: scaled down, rounded half away from zero.
Tonnes(units, value) ==
  LET product == units * value IN
  IF product >= 0 THEN (2 * product + Grain) \div (2 * Grain)
  ELSE -((2 * (-product) + Grain) \div (2 * Grain))

-----------------------------------------------------------------------------
(* _build_entry, screen and _stage_status. *)

\* The entry of an accepted line.  A line valued by quantity keeps no amount.
Entry(raw) ==
  LET n == MatchRule(raw) IN
  IF n = 0 THEN
    [key |-> LineKey(raw), doc |-> raw.doc, category |-> "UNMAPPED", quality |-> "flagged",
     amount |-> raw.amount, tco2e |-> 0]
  ELSE
    LET r == Resolve(raw, Ruleset[n]) IN
    [key |-> LineKey(raw), doc |-> raw.doc, category |-> Ruleset[n].category,
     quality |-> r.quality,
     amount |-> IF r.basis = "activity" THEN None ELSE raw.amount,
     tco2e |-> IF r.factor = None THEN 0 ELSE Tonnes(r.units, Factors[r.factor].value)]

\* Mutant: only the ownership matrix is consulted.
Held_ByOwnerOnly(entry) ==
  entry.category \in DOMAIN Ownership /\ Ownership[entry.category] # "erpsync"

\* screen: e-Claim owns the category, or has captured the document.
Held(entry) ==
  \/ entry.category \in DOMAIN Ownership /\ Ownership[entry.category] # "erpsync"
  \/ entry.doc # None /\ entry.doc \in EclaimDocs

\* Mutant: a status that ck_erpsync_entry_status does not know.
StageStatus_Duplicate(entry) == IF Held(entry) THEN "rejected_duplicate" ELSE "clean"

\* The erpsync_entry status of an accepted line.
StageStatus(entry) ==
  IF Held(entry) THEN "held"
  ELSE IF entry.quality = "measured" THEN "clean" ELSE "flagged"

-----------------------------------------------------------------------------
(* carbon_leaf_state: what the reviewer is told that a row will do. *)

Leaf(status, category) ==
  IF category = "UNMAPPED" THEN
    IF status \in {"clean", "approved", "released"} THEN "posts_no_figure" ELSE "not_carbon"
  ELSE CASE status = "dismissed"              -> "never_posts"
         [] status = "released"               -> "posted"
         [] status \in {"clean", "approved"}  -> "posts_on_release"
         [] status \in {"held", "flagged"}    -> "posts_once_approved"
=============================================================================
