--------------------------- MODULE ErpSyncProofs ---------------------------
(***************************************************************************)
(* What holds of the ERP Sync channel for every ruleset, every file and    *)
(* every number of reviewers and sessions: of a line's figure and of the   *)
(* ledger's lines whatever overlaps and crashes, of batches and imports    *)
(* while requests do not overlap.                                          *)
(***************************************************************************)
EXTENDS ErpSync, TLAPS, FiniteSetTheorems, WellFoundedInduction, NaturalsInduction

-----------------------------------------------------------------------------
(* The rule that classifies a line, and the figure it gives.               *)

LEMMA LeastOf ==
  ASSUME NEW S, S \subseteq Nat, S # {}
  PROVE  \E n \in S : \A k \in S : n <= k
  <1> DEFINE R == OpToRel(<, Nat)
  <1>1. IsWellFoundedOn(R, Nat)
    BY NatLessThanWellFounded
  <1>2. PICK n \in S : \A k \in S : ~ (<<k, n>> \in R)
    BY <1>1, WFMin
  <1>3. ASSUME NEW k \in S
        PROVE  n <= k
    <2>1. k \in Nat /\ n \in Nat
      OBVIOUS
    <2>2. k < n => <<k, n>> \in R
      BY <2>1, Zenon DEF OpToRel
    <2>3. ~ (k < n)
      BY <1>2, <2>2
    <2>4. QED
      BY <2>1, <2>3
  <1>4. QED
    BY <1>3

LEMMA RankIsPlace ==
  ASSUME NEW n \in DOMAIN Ruleset
  PROVE  Rank(Ruleset[n]) \in 1 .. 3
  <1>1. \E d \in DOMAIN Dimensions : Dimensions[d] = Ruleset[n].dim
    BY ErpLineAssumption DEF Dimensions
  <1>2. DOMAIN Dimensions = 1 .. 3
    BY DEF Dimensions
  <1>3. QED
    BY <1>1, <1>2 DEF Rank

\* The classifying rule takes precedence among the rules that match.
LEMMA RuleTakesPrecedence ==
  ASSUME NEW raw, MatchRule(raw) # 0
  PROVE  /\ MatchRule(raw) \in DOMAIN Ruleset
         /\ Matches(raw, Ruleset[MatchRule(raw)])
         /\ \A k \in DOMAIN Ruleset : Matches(raw, Ruleset[k]) =>
              \/ Rank(Ruleset[MatchRule(raw)]) < Rank(Ruleset[k])
              \/ Rank(Ruleset[MatchRule(raw)]) = Rank(Ruleset[k]) /\ MatchRule(raw) <= k
  <1> DEFINE hits == {n \in DOMAIN Ruleset : Matches(raw, Ruleset[n])}
             best == {n \in hits : \A k \in hits : Rank(Ruleset[n]) <= Rank(Ruleset[k])}
             ranks == {Rank(Ruleset[n]) : n \in hits}
  <1>1. hits # {} /\ MatchRule(raw) = CHOOSE n \in best : \A k \in best : n <= k
    BY DEF MatchRule
  <1>2. ranks \subseteq Nat /\ ranks # {}
    BY <1>1, RankIsPlace
  <1>3. PICK r \in ranks : \A q \in ranks : r <= q
    BY <1>2, LeastOf
  <1>4. best # {}
    BY <1>3
  <1>5. best \subseteq Nat
    BY ErpLineAssumption
  <1>6. \E n \in best : \A k \in best : n <= k
    BY <1>4, <1>5, LeastOf
  <1>7. /\ MatchRule(raw) \in best
        /\ \A k \in best : MatchRule(raw) <= k
    BY <1>1, <1>6
  <1>8. ASSUME NEW k \in hits
        PROVE  \/ Rank(Ruleset[MatchRule(raw)]) < Rank(Ruleset[k])
               \/ Rank(Ruleset[MatchRule(raw)]) = Rank(Ruleset[k]) /\ MatchRule(raw) <= k
    <2>1. Rank(Ruleset[MatchRule(raw)]) <= Rank(Ruleset[k])
      BY <1>7
    <2>2. Rank(Ruleset[MatchRule(raw)]) \in 1 .. 3 /\ Rank(Ruleset[k]) \in 1 .. 3
      BY <1>7, RankIsPlace
    <2>3. CASE Rank(Ruleset[MatchRule(raw)]) = Rank(Ruleset[k])
      <3>1. k \in best
        BY <1>7, <2>3
      <3>2. QED
        BY <1>7, <2>3, <3>1
    <2>4. QED
      BY <2>1, <2>2, <2>3
  <1>9. QED
    BY <1>7, <1>8

LEMMA Division ==
  ASSUME NEW a \in Int, NEW b \in Nat \ {0}
  PROVE  /\ a \div b \in Int
         /\ b * (a \div b) <= a /\ a < b * (a \div b) + b
  <1>1. a = b * (a \div b) + (a % b) /\ a % b \in 0 .. b - 1
    OBVIOUS
  <1>2. QED
    BY <1>1

LEMMA Products ==
  ASSUME NEW g \in Int, NEW q \in Int
  PROVE  q * g \in Int /\ (2 * g) * q = 2 * (q * g) /\ (-q) * g = -(q * g)
  OBVIOUS

\* The figure is the product to the nearest unit of the ledger.
LEMMA FigureIsNearest ==
  ASSUME NEW units \in Int, NEW value \in Int
  PROVE  LET error == Tonnes(units, value) * Grain - units * value
         IN  2 * error <= Grain /\ -2 * error <= Grain
  <1> DEFINE product == units * value
  <1>1. product \in Int /\ Grain \in Nat \ {0}
    BY ErpLineAssumption
  <1> HIDE DEF product
  <1>2. CASE product >= 0
    <2> DEFINE a == 2 * product + Grain
               b == 2 * Grain
               q == a \div b
    <2>0. a \in Int /\ b \in Nat \ {0}
      BY <1>1
    <2> HIDE DEF a, b
    <2>1. q \in Int /\ b * q <= a /\ a < b * q + b
      BY <2>0, Division
    <2> HIDE DEF q
    <2>2. b * q = 2 * (q * Grain) /\ q * Grain \in Int
      BY <1>1, <2>1, Products DEF b
    <2>3. 2 * (q * Grain - product) <= Grain /\ -2 * (q * Grain - product) <= Grain
      BY <1>1, <2>1, <2>2 DEF a, b
    <2>4. Tonnes(units, value) = q
      BY <1>2 DEF Tonnes, product, q, a, b
    <2>5. QED
      BY <2>3, <2>4 DEF product
  <1>3. CASE product < 0
    <2> DEFINE a == 2 * (-product) + Grain
               b == 2 * Grain
               q == a \div b
    <2>0. a \in Int /\ b \in Nat \ {0}
      BY <1>1
    <2> HIDE DEF a, b
    <2>1. q \in Int /\ b * q <= a /\ a < b * q + b
      BY <2>0, Division
    <2> HIDE DEF q
    <2>2. b * q = 2 * (q * Grain) /\ q * Grain \in Int /\ (-q) * Grain = -(q * Grain)
      BY <1>1, <2>1, Products DEF b
    <2>3. 2 * ((-q) * Grain - product) <= Grain /\ -2 * ((-q) * Grain - product) <= Grain
      BY <1>1, <2>1, <2>2 DEF a, b
    <2>4. Tonnes(units, value) = -q
      BY <1>1, <1>3 DEF Tonnes, product, q, a, b
    <2>5. QED
      BY <2>3, <2>4 DEF product
  <1>4. QED
    BY <1>1, <1>2, <1>3

-----------------------------------------------------------------------------
(* Rows and what sessions hold.                                            *)

\* A well-formed line of an AP listing.
IsLine(raw) == \E file \in Files : \E i \in DOMAIN file : ~Malformed(file[i]) /\ raw = file[i]

\* The status with which a line is staged.
Origin(raw) == StageStatus(Entry(raw))

\* The row was staged clean and still says what was staged.
AsStaged(row, tco2e) ==
  /\ IsLine(row.raw) /\ Origin(row.raw) = "clean"
  /\ row.category = Entry(row.raw).category /\ tco2e = Entry(row.raw).tco2e

Seen(row, tco2e) == row.reviewed # None \/ AsStaged(row, tco2e)

RowInv(row) ==
  row.st # "absent" =>
    /\ row.reviewed # None => row.reviewed # row.edited
    /\ Origin(row.raw) = "clean" =>
         row.st \in {"clean", "released"} /\ AsStaged(row, row.tco2e)
    /\ Origin(row.raw) # "clean" /\ row.reviewed = None => row.st \in Reviewable

Fields == {"st", "category", "amount", "tco2e", "edited", "reviewed", "raw"}

Reviews == {"approve", "dismiss", "remap"}

\* A key that is released, or about to be, has a row that a reviewer saw or
\* that is as it was staged.
Cleared(table, key, tco2e) ==
  key \in Keys /\ table[key].st # "absent" /\ Seen(table[key], tco2e)

ReviewHeld(table, t) ==
  /\ t.key \in Keys /\ table[t.key].st # "absent" /\ Origin(table[t.key].raw) # "clean"
  /\ DOMAIN t.write \subseteq Fields \ {"raw"}
  /\ t.op = "remap" => "st" \notin DOMAIN t.write /\ "reviewed" \notin DOMAIN t.write
  /\ t.op # "remap" => /\ {"st", "reviewed"} \subseteq DOMAIN t.write
                       /\ t.write.st # "absent" /\ t.write.reviewed # None

ImportHeld(t) ==
  \A k \in DOMAIN t.new :
    DOMAIN t.new[k] = Fields /\ t.new[k].st # "absent" /\ RowInv(t.new[k])

ReleaseHeld(table, t) ==
  /\ \A d \in t.digest : Cleared(table, d.key, d.tco2e)
  /\ \A d, e \in t.digest : d.key = e.key => d = e

HeldSound(table, t) ==
  /\ t.op \in Reviews => ReviewHeld(table, t)
  /\ t.op \in {"import", "stage"} => ImportHeld(t)
  /\ t.op = "release" => ReleaseHeld(table, t)

TableSound(table) ==
  DOMAIN table = Keys /\ \A k \in Keys : DOMAIN table[k] = Fields /\ RowInv(table[k])

\* The inductive invariant.
EInv ==
  /\ DOMAIN txn = Sessions
  /\ TableSound(rows)
  /\ \A e \in ledger : Cleared(rows, e.key, e.tco2e)
  /\ \A e, f \in ledger : e.key = f.key => e = f
  /\ \A s \in Sessions : HeldSound(rows, txn[s])

\* How a row may change: it stays, it keeps its line, a review is not undone,
\* and a row that was staged clean keeps its category.
Evolves(old, new) ==
  \A k \in Keys : old[k].st # "absent" =>
    /\ new[k].st # "absent" /\ new[k].raw = old[k].raw
    /\ old[k].reviewed # None => new[k].reviewed # None
    /\ Origin(old[k].raw) = "clean" => new[k].category = old[k].category

LEMMA ClearedStays ==
  ASSUME NEW old, NEW new, Evolves(old, new), NEW key, NEW tco2e, Cleared(old, key, tco2e)
  PROVE  Cleared(new, key, tco2e)
  BY DEF Evolves, Cleared, Seen, AsStaged

LEMMA HeldStays ==
  ASSUME NEW old, NEW new, Evolves(old, new), NEW t, HeldSound(old, t)
  PROVE  HeldSound(new, t)
  BY ClearedStays DEF Evolves, HeldSound, ReviewHeld, ReleaseHeld

\* A step that leaves the tables alone.
LEMMA SessionStep ==
  ASSUME EInv, NEW s \in Sessions, rows' = rows, ledger' = ledger,
         txn' = [txn EXCEPT ![s] = txn'[s]], HeldSound(rows, txn'[s])
  PROVE  EInv'
  <1>1. \A r \in Sessions \ {s} : txn'[r] = txn[r]
    BY DEF EInv
  <1>2. \A r \in Sessions : HeldSound(rows', txn'[r])
    BY <1>1 DEF EInv
  <1>3. QED
    BY <1>2 DEF EInv

\* A step that changes the tables and leaves its session idle.
LEMMA CommitStep ==
  ASSUME EInv, NEW s \in Sessions, txn' = [txn EXCEPT ![s] = Idle],
         TableSound(rows'), Evolves(rows, rows'),
         \A e \in ledger' \ ledger : Cleared(rows', e.key, e.tco2e),
         \A e, f \in ledger' : e.key = f.key => e = f
  PROVE  EInv'
  <1>1. \A e \in ledger' : Cleared(rows', e.key, e.tco2e)
    BY ClearedStays DEF EInv
  <1>2. HeldSound(rows', Idle)
    BY DEF HeldSound, Idle, Reviews
  <1>3. ASSUME NEW r \in Sessions
        PROVE  HeldSound(rows', txn'[r])
    <2>1. CASE r = s
      BY <1>2, <2>1 DEF EInv
    <2>2. CASE r # s
      <3>1. txn'[r] = txn[r] /\ HeldSound(rows, txn[r])
        BY <2>2 DEF EInv
      <3>2. QED
        BY <3>1, HeldStays
    <2>3. QED
      BY <2>1, <2>2
  <1>4. QED
    BY <1>1, <1>3 DEF EInv

\* A line that is staged clean is measured, and belongs to this channel.
LEMMA CleanLine ==
  ASSUME NEW raw, IsLine(raw), Origin(raw) = "clean"
  PROVE  /\ Measured(raw, Entry(raw).tco2e)
         /\ raw.doc \notin EclaimDocs
         /\ Entry(raw).category \in DOMAIN Ownership =>
              Ownership[Entry(raw).category] = "erpsync"
  <1> DEFINE n == MatchRule(raw)
             rule == Ruleset[n]
  <1>1. ~Held(Entry(raw)) /\ Entry(raw).quality = "measured"
    BY DEF Origin, StageStatus
  <1>2. Entry(raw).doc = raw.doc
    BY DEF Entry
  <1>3. n # 0
    BY <1>1 DEF Entry
  <1>4. /\ Entry(raw).quality = Resolve(raw, rule).quality
        /\ Entry(raw).tco2e =
              LET r == Resolve(raw, rule) IN
              IF r.factor = None THEN 0 ELSE Tonnes(r.units, Factors[r.factor].value)
    BY <1>3 DEF Entry
  <1>5. rule.basis # "spend" /\ Measurable(raw, rule)
    BY <1>1, <1>4 DEF Resolve
  <1>6. Resolve(raw, rule).factor = rule.factor /\ Resolve(raw, rule).units = raw.quantity
    BY <1>5 DEF Resolve
  <1>7. rule.factor \in DOMAIN Factors /\ Factors[rule.factor].value \in Int
    BY <1>3, RuleTakesPrecedence, ErpLineAssumption
  <1>8. raw.quantity \in Int
    <2>1. PICK file \in Files : \E i \in DOMAIN file : ~Malformed(file[i]) /\ raw = file[i]
      BY DEF IsLine
    <2>2. raw.quantity \in Int \cup {None, Bad} /\ raw.quantity # Bad
      BY <2>1, ErpSyncAssumption DEF Malformed
    <2>3. QED
      BY <1>5, <2>2 DEF Measurable
  <1>9. rule.factor # None
    BY <1>3, RuleTakesPrecedence, ErpLineAssumption
  <1>10. Entry(raw).tco2e = Tonnes(raw.quantity, Factors[rule.factor].value)
    BY <1>4, <1>6, <1>9
  <1>11. Measured(raw, Entry(raw).tco2e)
    <2>1. /\ n \in DOMAIN Ruleset /\ Matches(raw, rule)
          /\ \A k \in DOMAIN Ruleset : Matches(raw, Ruleset[k]) =>
               Rank(rule) < Rank(Ruleset[k]) \/ (Rank(rule) = Rank(Ruleset[k]) /\ n <= k)
      BY <1>3, RuleTakesPrecedence
    <2>2. rule.basis = "activity" /\ raw.uom = Factors[rule.factor].uom
      BY <1>5 DEF Measurable
    <2>3. LET error == Entry(raw).tco2e * Grain - raw.quantity * Factors[rule.factor].value
          IN  2 * error <= Grain /\ -2 * error <= Grain
      BY <1>7, <1>8, <1>10, FigureIsNearest
    <2>4. QED
      BY <2>1, <2>2, <2>3 DEF Measured
  <1>12. QED
    BY <1>1, <1>2, <1>11, ErpLineAssumption DEF Held

-----------------------------------------------------------------------------
(* The actions.                                                            *)

LEMMA StagedRowsSound ==
  ASSUME NEW file \in Files, NEW known, Committable(file), NEW k \in DOMAIN StagedRows(file, known)
  PROVE  LET row == StagedRows(file, known)[k] IN
         DOMAIN row = Fields /\ row.st # "absent" /\ RowInv(row)
  <1> DEFINE lines == Accepted(file, known)
             i == CHOOSE j \in lines : LineKey(file[j]) = k
             e == Entry(file[i])
             row == StagedRows(file, known)[k]
  <1>1. k \in {LineKey(file[j]) : j \in lines}
    BY DEF StagedRows
  <1>2. i \in lines
    BY <1>1
  <1>3. i \in DOMAIN file /\ ~Malformed(file[i])
    BY <1>2 DEF Accepted, Committable
  <1>4. row = [NoRow EXCEPT !.st = StageStatus(e), !.category = e.category,
                            !.amount = e.amount, !.tco2e = e.tco2e, !.raw = file[i]]
    BY <1>1 DEF StagedRows
  <1> HIDE DEF row, i
  <1>5. /\ DOMAIN row = Fields /\ row.st = Origin(row.raw) /\ row.raw = file[i]
        /\ row.category = Entry(row.raw).category /\ row.tco2e = Entry(row.raw).tco2e
        /\ row.reviewed = None
    BY <1>4 DEF NoRow, Fields, Origin
  <1>6. Origin(row.raw) \in {"held", "clean", "flagged"}
    BY DEF Origin, StageStatus
  <1>7. IsLine(row.raw)
    BY <1>3, <1>5 DEF IsLine
  <1>8. QED
    BY <1>5, <1>6, <1>7 DEF RowInv, AsStaged, Reviewable, row

LEMMA ImportKeeps ==
  ASSUME EInv, NEW s \in Sessions, NEW file \in Files, BeginImport(s, file)
  PROVE  EInv'
  <1> DEFINE t == [op |-> "import", file |-> file, known |-> store,
                   new |-> StagedRows(file, store)]
  <1>1. /\ txn' = [txn EXCEPT ![s] = t] /\ rows' = rows /\ ledger' = ledger
        /\ Committable(file)
    BY DEF BeginImport
  <1>2. ImportHeld(t)
    BY <1>1, StagedRowsSound DEF ImportHeld
  <1>3. HeldSound(rows, t)
    BY <1>2 DEF HeldSound, Reviews
  <1> HIDE DEF t
  <1>4. txn'[s] = t
    BY <1>1 DEF EInv
  <1>5. QED
    BY <1>1, <1>3, <1>4, SessionStep

LEMMA PersistKeeps ==
  ASSUME EInv, NEW s \in Sessions, PersistStore(s)
  PROVE  EInv'
  <1>1. /\ txn[s].op = "import" /\ txn' = [txn EXCEPT ![s].op = "stage"]
        /\ rows' = rows /\ ledger' = ledger
    BY DEF PersistStore
  <1>2. txn'[s] = [txn[s] EXCEPT !.op = "stage"]
    BY <1>1 DEF EInv
  <1>3. ImportHeld(txn[s])
    BY <1>1 DEF EInv, HeldSound
  <1>4. txn'[s].op \in {"import", "stage"} /\ txn'[s].new = txn[s].new
    BY <1>1, <1>2
  <1>5. HeldSound(rows, txn'[s])
    BY <1>3, <1>4 DEF HeldSound, Reviews, ImportHeld
  <1>6. txn' = [txn EXCEPT ![s] = txn'[s]]
    BY <1>1, <1>2
  <1>7. QED
    BY <1>1, <1>5, <1>6, SessionStep

LEMMA StageKeeps ==
  ASSUME EInv, NEW s \in Sessions, Stage(s)
  PROVE  EInv'
  <1> DEFINE t == txn[s]
  <1>1. /\ t.op = "stage" /\ ledger' = ledger /\ txn' = [txn EXCEPT ![s] = Idle]
        /\ rows' = [k \in Keys |-> IF k \in Inserted(t.new) THEN t.new[k] ELSE rows[k]]
    BY DEF Stage
  <1>2. ImportHeld(t)
    BY <1>1 DEF EInv, HeldSound
  <1> HIDE DEF t
  <1>3. TableSound(rows')
    BY <1>1, <1>2 DEF EInv, TableSound, ImportHeld, Inserted
  <1>4. \A k \in Keys : rows[k].st # "absent" => rows'[k] = rows[k]
    BY <1>1 DEF Inserted, Staged
  <1>5. Evolves(rows, rows')
    BY <1>4 DEF Evolves
  <1>6. QED
    BY <1>1, <1>3, <1>5, CommitStep DEF EInv

LEMMA ReviewBegins ==
  ASSUME EInv, NEW s \in Sessions, NEW u \in Users, NEW k \in Keys,
         \/ BeginApprove(s, u, k)
         \/ BeginDismiss(s, u, k)
         \/ \E m \in Remaps : BeginRemap(s, u, k, m)
  PROVE  EInv'
  <1> DEFINE Held_(op, write) == HeldSound(rows, [op |-> op, key |-> k, write |-> write])
  <1>1. ASSUME NEW op \in Reviews, NEW write, Review(s, u, k, op, write), Held_(op, write)
        PROVE  EInv'
    <2> DEFINE t == [op |-> op, key |-> k, write |-> write]
    <2>1. txn' = [txn EXCEPT ![s] = t] /\ rows' = rows /\ ledger' = ledger
      BY <1>1 DEF Review
    <2>2. HeldSound(rows, t)
      BY <1>1
    <2> HIDE DEF t
    <2>3. txn'[s] = t
      BY <2>1 DEF EInv
    <2>4. QED
      BY <2>1, <2>2, <2>3, SessionStep
  <1>2. ASSUME rows[k].st \in Reviewable
        PROVE  rows[k].st # "absent" /\ Origin(rows[k].raw) # "clean"
    BY <1>2 DEF EInv, TableSound, RowInv, Reviewable
  <1>3. u # None
    BY ErpSyncAssumption
  <1>4. ASSUME NEW st \in {"approved", "dismissed"}, NEW op \in {"approve", "dismiss"},
               rows[k].st \in Reviewable, Review(s, u, k, op, [st |-> st, reviewed |-> u])
        PROVE  EInv'
    <2>1. Held_(op, [st |-> st, reviewed |-> u])
      BY <1>2, <1>3, <1>4 DEF HeldSound, ReviewHeld, Reviews, Fields
    <2>2. QED
      BY <1>1, <1>4, <2>1 DEF Reviews
  <1>5. ASSUME NEW m \in Remaps, BeginRemap(s, u, k, m)
        PROVE  EInv'
    <2> DEFINE write == [category |-> m.category, tco2e |-> Tonnes(Units(m), m.value),
                         edited |-> u,
                         amount |-> IF m.amount = None THEN rows[k].amount ELSE m.amount]
    <2>1. rows[k].st \in Reviewable /\ Review(s, u, k, "remap", write)
      BY <1>5 DEF BeginRemap, Remappable, Reviewable
    <2>2. DOMAIN write = {"category", "tco2e", "edited", "amount"}
      OBVIOUS
    <2> HIDE DEF write
    <2>3. Held_("remap", write)
      BY <1>2, <2>1, <2>2 DEF HeldSound, ReviewHeld, Reviews, Fields
    <2>4. QED
      BY <1>1, <2>1, <2>3 DEF Reviews
  <1>6. QED
    BY <1>4, <1>5 DEF BeginApprove, BeginDismiss

LEMMA ReviewKeeps ==
  ASSUME EInv, NEW s \in Sessions, CommitReview(s)
  PROVE  EInv'
  <1> DEFINE t == txn[s]
             k == t.key
             new == [c \in DOMAIN NoRow |-> IF c \in DOMAIN t.write THEN t.write[c] ELSE rows[k][c]]
  <1>1. /\ t.op \in Reviews /\ Apart(new)
        /\ rows' = [rows EXCEPT ![k] = new] /\ ledger' = ledger
        /\ txn' = [txn EXCEPT ![s] = Idle]
    BY DEF CommitReview, Reviews
  <1>2. ReviewHeld(rows, t)
    BY <1>1 DEF EInv, HeldSound
  <1>3. /\ k \in Keys /\ rows[k].st # "absent" /\ Origin(rows[k].raw) # "clean"
        /\ DOMAIN rows[k] = Fields /\ RowInv(rows[k])
    BY <1>2 DEF ReviewHeld, EInv, TableSound
  <1>4. DOMAIN NoRow = Fields
    BY DEF NoRow, Fields
  <1>5. /\ DOMAIN new = Fields /\ new.raw = rows[k].raw /\ new.st # "absent"
        /\ rows[k].reviewed # None => new.reviewed # None
        /\ new.reviewed = None => new.st = rows[k].st /\ rows[k].reviewed = None
    BY <1>2, <1>3, <1>4 DEF ReviewHeld, Fields
  <1> HIDE DEF new, k, t
  <1>6. RowInv(new)
    BY <1>1, <1>3, <1>5 DEF RowInv, Apart
  <1>7. \A j \in Keys : rows'[j] = IF j = k THEN new ELSE rows[j]
    BY <1>1 DEF EInv, TableSound
  <1>8. TableSound(rows')
    BY <1>1, <1>5, <1>6, <1>7 DEF EInv, TableSound
  <1>9. Evolves(rows, rows')
    BY <1>3, <1>5, <1>7 DEF Evolves
  <1>10. QED
    BY <1>1, <1>8, <1>9, CommitStep DEF EInv

LEMMA ReleaseBegins ==
  ASSUME EInv, NEW s \in Sessions, NEW u \in Users, BeginRelease(s, u)
  PROVE  EInv'
  <1> DEFINE taken == {k \in Staged : rows[k].st \in Releasable}
             t == [op |-> "release", digest |-> Digest(taken)]
  <1>1. txn' = [txn EXCEPT ![s] = t] /\ rows' = rows /\ ledger' = ledger
    BY DEF BeginRelease
  <1>2. \A k \in taken : Cleared(rows, k, rows[k].tco2e)
    BY DEF EInv, TableSound, RowInv, Cleared, Seen, AsStaged, Staged, Releasable, Reviewable
  <1> HIDE DEF taken
  <1>3. ReleaseHeld(rows, t)
    BY <1>2 DEF ReleaseHeld, Digest
  <1>4. HeldSound(rows, t)
    BY <1>3 DEF HeldSound, Reviews
  <1> HIDE DEF t
  <1>5. txn'[s] = t
    BY <1>1 DEF EInv
  <1>6. QED
    BY <1>1, <1>4, <1>5, SessionStep

LEMMA ReleaseKeeps ==
  ASSUME EInv, NEW s \in Sessions, CommitRelease(s)
  PROVE  EInv'
  <1> DEFINE digest == txn[s].digest
             id == Cardinality(batches) + 1
             fresh == {e \in digest : ~Entered(e.key)}
  <1>1. /\ txn[s].op = "release"
        /\ ledger' = ledger \cup {[key |-> d.key, tco2e |-> d.tco2e, batch |-> id] : d \in fresh}
        /\ rows' = [k \in Keys |->
              IF \E d \in digest : d.key = k THEN [rows[k] EXCEPT !.st = "released"] ELSE rows[k]]
        /\ txn' = [txn EXCEPT ![s] = Idle]
    BY DEF CommitRelease
  <1>2. ReleaseHeld(rows, txn[s])
    BY <1>1 DEF EInv, HeldSound
  <1> HIDE DEF digest, id
  <1>3. /\ \A d \in digest : Cleared(rows, d.key, d.tco2e)
        /\ \A d, e \in digest : d.key = e.key => d = e
    BY <1>2 DEF ReleaseHeld, digest
  <1>4. ASSUME NEW k \in Keys
        PROVE  /\ DOMAIN rows'[k] = Fields /\ RowInv(rows'[k])
               /\ rows[k].st # "absent" => rows'[k].st # "absent"
               /\ rows'[k].raw = rows[k].raw /\ rows'[k].reviewed = rows[k].reviewed
               /\ rows'[k].category = rows[k].category
    <2>1. DOMAIN rows[k] = Fields /\ RowInv(rows[k])
      BY DEF EInv, TableSound
    <2>2. CASE \E d \in digest : d.key = k
      <3>1. rows'[k] = [rows[k] EXCEPT !.st = "released"]
        BY <1>1, <2>2
      <3>2. /\ DOMAIN rows'[k] = Fields /\ rows'[k].st = "released"
            /\ \A c \in Fields \ {"st"} : rows'[k][c] = rows[k][c]
        BY <2>1, <3>1 DEF Fields
      <3>3. /\ rows'[k].raw = rows[k].raw /\ rows'[k].reviewed = rows[k].reviewed
            /\ rows'[k].category = rows[k].category /\ rows'[k].edited = rows[k].edited
            /\ rows'[k].tco2e = rows[k].tco2e
        BY <3>2 DEF Fields
      <3>4. rows[k].st # "absent" /\ (rows[k].reviewed # None \/ Origin(rows[k].raw) = "clean")
        BY <1>3, <2>2 DEF Cleared, Seen, AsStaged
      <3>5. RowInv(rows'[k])
        BY <2>1, <3>2, <3>3, <3>4 DEF RowInv, AsStaged
      <3>6. QED
        BY <3>2, <3>3, <3>5
    <2>3. CASE ~ \E d \in digest : d.key = k
      BY <1>1, <2>1, <2>3
    <2>4. QED
      BY <2>2, <2>3
  <1>5. TableSound(rows')
    BY <1>1, <1>4 DEF TableSound
  <1>6. Evolves(rows, rows')
    BY <1>4 DEF Evolves
  <1>7. \A e \in ledger' \ ledger : Cleared(rows', e.key, e.tco2e)
    <2>1. ASSUME NEW d \in fresh
          PROVE  Cleared(rows', d.key, d.tco2e)
      BY <1>3, <1>6, ClearedStays
    <2>2. QED
      BY <1>1, <2>1
  <1>8. \A e, f \in ledger' : e.key = f.key => e = f
    <2>1. \A e \in ledger, d \in fresh : e.key # d.key
      BY DEF Entered
    <2>2. QED
      BY <1>1, <1>3, <2>1 DEF EInv
  <1>9. QED
    BY <1>1, <1>5, <1>6, <1>7, <1>8, CommitStep

LEMMA EInvStep ==
  ASSUME EInv, [Next]_vars
  PROVE  EInv'
  <1>1. CASE UNCHANGED vars
    BY <1>1 DEF vars, EInv
  <1>2. ASSUME NEW s \in Sessions, AnsweredBefore(s) \/ Abort(s)
        PROVE  EInv'
    <2>1. txn' = [txn EXCEPT ![s] = Idle] /\ rows' = rows /\ ledger' = ledger
      BY <1>2 DEF AnsweredBefore, Abort
    <2>2. txn'[s] = Idle /\ HeldSound(rows, Idle)
      BY <2>1 DEF EInv, HeldSound, Idle, Reviews
    <2>3. QED
      BY <2>1, <2>2, SessionStep
  <1>3. QED
    BY <1>1, <1>2, ImportKeeps, PersistKeeps, StageKeeps, ReviewBegins, ReviewKeeps,
       ReleaseBegins, ReleaseKeeps DEF Next

LEMMA EInvInit ==
  ASSUME Init
  PROVE  EInv
  <1>1. DOMAIN NoRow = Fields /\ RowInv(NoRow)
    BY DEF NoRow, Fields, RowInv
  <1>2. TableSound(rows)
    BY <1>1 DEF Init, TableSound
  <1>3. \A s \in Sessions : HeldSound(rows, txn[s])
    BY DEF Init, HeldSound, Idle, Reviews
  <1>4. QED
    BY <1>2, <1>3 DEF Init, EInv

LEMMA EInvAlways == Spec => []EInv
  BY EInvInit, EInvStep, PTL DEF Spec

-----------------------------------------------------------------------------
(* What follows.                                                           *)

\* Whatever requests overlap or crash, a line in the ledger was measured, to
\* the nearest unit, on a document and in a category that are this channel's,
\* or a reviewer other than its editor decided on it.
THEOREM LedgerLinesAccounted == Spec => []SeenOrMeasured
  <1>1. ASSUME EInv, NEW e \in ledger
        PROVE  LET row == rows[e.key] IN
               IF row.reviewed = None
               THEN /\ Measured(row.raw, e.tco2e)
                    /\ row.raw.doc \notin EclaimDocs
                    /\ row.category \in DOMAIN Ownership => Ownership[row.category] = "erpsync"
               ELSE row.reviewed # row.edited
    <2> DEFINE row == rows[e.key]
    <2>1. e.key \in Keys /\ row.st # "absent" /\ Seen(row, e.tco2e)
      BY <1>1 DEF EInv, Cleared
    <2>2. RowInv(row)
      BY <1>1, <2>1 DEF EInv, TableSound
    <2> HIDE DEF row
    <2>3. CASE row.reviewed = None
      <3>1. AsStaged(row, e.tco2e)
        BY <2>1, <2>3 DEF Seen
      <3>2. QED
        BY <2>3, <3>1, CleanLine DEF AsStaged, row
    <2>4. CASE row.reviewed # None
      BY <2>1, <2>2, <2>4 DEF RowInv, row
    <2>5. QED
      BY <2>3, <2>4
  <1>2. EInv => SeenOrMeasured
    BY <1>1 DEF SeenOrMeasured
  <1>3. QED
    BY <1>2, EInvAlways, PTL

\* Whatever requests overlap, the channel keeps the promise of the shared
\* ledger: an entry stays as it was written, and a source row has one at most.
THEOREM LedgerKept == Spec => LedgerPromise
  <1>1. Init => Promise!Init
    BY DEF Init, Promise!Init
  <1>2. ASSUME EInv, EInv', [Next]_vars
        PROVE  [Promise!Post]_ledger
    <2>1. Promise!OncePerSource(ledger')
      BY <1>2 DEF EInv, Promise!OncePerSource
    <2>2. ledger \subseteq ledger'
      <3>1. ASSUME NEW s \in Sessions, CommitRelease(s)
            PROVE  ledger \subseteq ledger'
        BY <3>1 DEF CommitRelease
      <3>2. ASSUME NEW s \in Sessions,
                   \/ \E file \in Files : BeginImport(s, file)
                   \/ PersistStore(s) \/ Stage(s) \/ CommitReview(s)
                   \/ \E u \in Users : BeginRelease(s, u)
                   \/ AnsweredBefore(s) \/ Abort(s)
            PROVE  ledger' = ledger
        BY <3>2 DEF BeginImport, PersistStore, Stage, CommitReview, BeginRelease,
                    AnsweredBefore, Abort
      <3>3. ASSUME NEW s \in Sessions, NEW u \in Users, NEW k \in Keys,
                   \/ BeginApprove(s, u, k) \/ BeginDismiss(s, u, k)
                   \/ \E m \in Remaps : BeginRemap(s, u, k, m)
            PROVE  ledger' = ledger
        BY <3>3 DEF BeginApprove, BeginDismiss, BeginRemap, Review
      <3>4. CASE UNCHANGED vars
        BY <3>4 DEF vars
      <3>5. QED
        BY <1>2, <3>1, <3>2, <3>3, <3>4 DEF Next
    <2>3. QED
      BY <2>1, <2>2 DEF Promise!Post
  <1>3. QED
    BY <1>1, <1>2, EInvAlways, PTL DEF Spec, LedgerPromise, Promise!Spec

-----------------------------------------------------------------------------
(* Sums of figures: the fold of the community modules, in any order.       *)

\* The total of a set of records with a figure.
Figures(S) == MapThenSumSet(LAMBDA d : d.tco2e, S)

First(S) == CHOOSE x \in S : TRUE

\* g sums up every subset of S, one element at a time.
Sums(S, g) ==
  g = [s \in SUBSET S |-> IF s = {} THEN 0 ELSE First(s).tco2e + g[s \ {First(s)}]]

Summed(S) == CHOOSE g : Sums(S, g)

LEMMA FiguresFold ==
  ASSUME NEW S
  PROVE  Figures(S) = Summed(S)[S]
  BY DEF Figures, MapThenSumSet, MapThenFoldSet, Summed, Sums, First

LEMMA FirstIn ==
  ASSUME NEW S, S # {}
  PROVE  First(S) \in S
  BY DEF First

LEMMA Smallest ==
  ASSUME NEW T, IsFiniteSet(T), NEW C, C \subseteq SUBSET T, C # {}
  PROVE  \E s \in C : \A r \in C : r \subseteq s => r = s
  <1> DEFINE sizes == {Cardinality(s) : s \in C}
  <1>1. \A s \in C : IsFiniteSet(s) /\ Cardinality(s) \in Nat
    BY FS_Subset, FS_CardinalityType
  <1>2. sizes \subseteq Nat /\ sizes # {}
    BY <1>1
  <1> HIDE DEF sizes
  <1>3. PICK n \in sizes : \A m \in sizes : n <= m
    BY <1>2, LeastOf
  <1>4. PICK s \in C : Cardinality(s) = n
    BY <1>3 DEF sizes
  <1>5. ASSUME NEW r \in C, r \subseteq s, r # s
        PROVE  FALSE
    <2>1. Cardinality(r) < Cardinality(s)
      BY <1>1, <1>5, FS_Subset
    <2>2. n <= Cardinality(r)
      BY <1>3 DEF sizes
    <2>3. QED
      BY <1>1, <1>4, <2>1, <2>2
  <1>6. QED
    BY <1>5

LEMMA SumsPart ==
  ASSUME NEW S, NEW g, Sums(S, g), NEW U \in SUBSET S
  PROVE  Sums(U, [s \in SUBSET U |-> g[s]])
  <1> DEFINE h == [s \in SUBSET U |-> g[s]]
  <1>1. ASSUME NEW s \in SUBSET U
        PROVE  h[s] = IF s = {} THEN 0 ELSE First(s).tco2e + h[s \ {First(s)}]
    <2>1. s \in SUBSET S /\ s \ {First(s)} \in SUBSET U
      OBVIOUS
    <2>2. g[s] = IF s = {} THEN 0 ELSE First(s).tco2e + g[s \ {First(s)}]
      BY <2>1 DEF Sums
    <2>3. QED
      BY <2>1, <2>2
  <1>2. h = [s \in SUBSET U |-> h[s]]
    OBVIOUS
  <1> HIDE DEF h
  <1>3. QED
    BY <1>1, <1>2 DEF Sums, h

LEMMA SumsUnique ==
  ASSUME NEW S, IsFiniteSet(S), NEW g, NEW h, Sums(S, g), Sums(S, h)
  PROVE  g = h
  <1> DEFINE apart == {s \in SUBSET S : g[s] # h[s]}
  <1>1. /\ \A s \in SUBSET S : g[s] = IF s = {} THEN 0 ELSE First(s).tco2e + g[s \ {First(s)}]
        /\ \A s \in SUBSET S : h[s] = IF s = {} THEN 0 ELSE First(s).tco2e + h[s \ {First(s)}]
    BY DEF Sums
  <1>2. ASSUME apart # {}
        PROVE  FALSE
    <2>1. PICK s \in apart : \A r \in apart : r \subseteq s => r = s
      <3>1. apart \subseteq SUBSET S
        OBVIOUS
      <3> HIDE DEF apart
      <3>2. QED
        BY <1>2, <3>1, Smallest
    <2>2. s # {}
      BY <1>1, <2>1
    <2>3. First(s) \in s
      BY <2>2, FirstIn
    <2>4. s \ {First(s)} \in SUBSET S /\ s \ {First(s)} \notin apart
      BY <2>1, <2>3
    <2>5. QED
      BY <1>1, <2>1, <2>2, <2>4
  <1>3. \A s \in SUBSET S : g[s] = h[s]
    BY <1>2
  <1>4. g = [s \in SUBSET S |-> g[s]] /\ h = [s \in SUBSET S |-> h[s]]
    BY DEF Sums
  <1>5. QED
    BY <1>3, <1>4

LEMMA SumsExist ==
  ASSUME NEW T, IsFiniteSet(T), NEW S \in SUBSET T
  PROVE  Sums(S, Summed(S))
  <1> DEFINE without == {s \in SUBSET T : ~ \E g : Sums(s, g)}
  <1>1. ASSUME without # {}
        PROVE  FALSE
    <2>1. PICK s \in without : \A r \in without : r \subseteq s => r = s
      <3>1. without \subseteq SUBSET T
        OBVIOUS
      <3> HIDE DEF without
      <3>2. QED
        BY <1>1, <3>1, Smallest
    <2>2. \A r \in SUBSET s : r # s => Sums(r, Summed(r))
      BY <2>1 DEF Summed
    <2> DEFINE below == s \ {First(s)}
               g == [r \in SUBSET s |->
                       IF r # s THEN Summed(r)[r]
                       ELSE IF s = {} THEN 0
                       ELSE First(s).tco2e + Summed(below)[below]]
    <2>3. ASSUME NEW r \in SUBSET s
          PROVE  g[r] = IF r = {} THEN 0 ELSE First(r).tco2e + g[r \ {First(r)}]
      <3>1. CASE r = {}
        <4>1. CASE r = s
          BY <3>1, <4>1
        <4>2. CASE r # s
          <5>1. Summed(r)[r] = 0
            BY <2>2, <3>1, <4>2 DEF Sums
          <5>2. QED
            BY <3>1, <4>2, <5>1
        <4>3. QED
          BY <4>1, <4>2
      <3>2. CASE r # {}
        <4> DEFINE q == r \ {First(r)}
        <4>1. First(r) \in r /\ q \in SUBSET s /\ q # s
          BY <3>2, FirstIn
        <4>2. g[q] = Summed(q)[q]
          BY <4>1
        <4>3. CASE r = s
          BY <3>2, <4>2, <4>3
        <4>4. CASE r # s
          <5>1. Sums(r, Summed(r)) /\ Sums(q, Summed(q))
            BY <2>2, <4>1, <4>4
          <5>2. Summed(r)[r] = First(r).tco2e + Summed(r)[q]
            BY <3>2, <5>1 DEF Sums
          <5>3. Sums(q, [x \in SUBSET q |-> Summed(r)[x]])
            <6>1. q \in SUBSET r
              OBVIOUS
            <6> HIDE DEF q
            <6>2. QED
              BY <5>1, <6>1, SumsPart
          <5>4. IsFiniteSet(q)
            BY <2>1, <4>1, FS_Subset
          <5>5. [x \in SUBSET q |-> Summed(r)[x]] = Summed(q)
            BY <5>1, <5>3, <5>4, SumsUnique
          <5>6. Summed(r)[q] = Summed(q)[q]
            BY <5>5
          <5>7. g[r] = Summed(r)[r]
            BY <4>4
          <5>8. QED
            BY <3>2, <4>2, <5>2, <5>6, <5>7
        <4>5. QED
          BY <4>3, <4>4
      <3>3. QED
        BY <3>1, <3>2
    <2>4. g = [r \in SUBSET s |-> g[r]]
      OBVIOUS
    <2> HIDE DEF g
    <2>5. Sums(s, g)
      BY <2>3, <2>4 DEF Sums
    <2>6. QED
      BY <2>1, <2>5
  <1>2. \E g : Sums(S, g)
    BY <1>1
  <1>3. QED
    BY <1>2 DEF Summed

LEMMA FiguresStep ==
  ASSUME NEW S, IsFiniteSet(S)
  PROVE  Figures(S) = IF S = {} THEN 0 ELSE First(S).tco2e + Figures(S \ {First(S)})
  <1> DEFINE q == S \ {First(S)}
  <1>1. Sums(S, Summed(S)) /\ Sums(q, Summed(q)) /\ IsFiniteSet(q)
    BY SumsExist, FS_Subset
  <1>2. Summed(S)[S] = IF S = {} THEN 0 ELSE First(S).tco2e + Summed(S)[q]
    BY <1>1 DEF Sums
  <1>3. Sums(q, [x \in SUBSET q |-> Summed(S)[x]])
    BY <1>1, SumsPart
  <1>4. [x \in SUBSET q |-> Summed(S)[x]] = Summed(q)
    BY <1>1, <1>3, SumsUnique
  <1>5. Summed(S)[q] = Summed(q)[q]
    BY <1>4
  <1>6. QED
    BY <1>2, <1>5, FiguresFold

LEMMA FiguresInt ==
  ASSUME NEW T, IsFiniteSet(T), \A d \in T : d.tco2e \in Int
  PROVE  \A S \in SUBSET T : Figures(S) \in Int
  <1> DEFINE wrong == {s \in SUBSET T : Figures(s) \notin Int}
  <1>1. ASSUME wrong # {}
        PROVE  FALSE
    <2>1. PICK s \in wrong : \A r \in wrong : r \subseteq s => r = s
      <3>1. wrong \subseteq SUBSET T
        OBVIOUS
      <3> HIDE DEF wrong
      <3>2. QED
        BY <1>1, <3>1, Smallest
    <2>2. IsFiniteSet(s)
      BY <2>1, FS_Subset
    <2>3. s # {}
      <3>1. ASSUME s = {}
            PROVE  Figures(s) = 0
        BY <2>2, <3>1, FiguresStep
      <3>2. QED
        BY <2>1, <3>1
    <2>4. First(s) \in s
      BY <2>3, FirstIn
    <2>5. Figures(s \ {First(s)}) \in Int /\ First(s).tco2e \in Int
      BY <2>1, <2>4
    <2>6. QED
      BY <2>1, <2>2, <2>3, <2>5, FiguresStep
  <1>2. QED
    BY <1>1

\* The order of a sum does not matter: any element may be taken first.
LEMMA FiguresTake ==
  ASSUME NEW T, IsFiniteSet(T), \A d \in T : d.tco2e \in Int, NEW y \in T
  PROVE  Figures(T) = y.tco2e + Figures(T \ {y})
  <1> DEFINE wrong == {s \in SUBSET T : \E x \in s : Figures(s) # x.tco2e + Figures(s \ {x})}
  <1>1. ASSUME wrong # {}
        PROVE  FALSE
    <2>1. PICK s \in wrong : \A r \in wrong : r \subseteq s => r = s
      <3>1. wrong \subseteq SUBSET T
        OBVIOUS
      <3> HIDE DEF wrong
      <3>2. QED
        BY <1>1, <3>1, Smallest
    <2>2. PICK x \in s : Figures(s) # x.tco2e + Figures(s \ {x})
      BY <2>1
    <2> DEFINE f == First(s)
    <2>3. f \in s /\ IsFiniteSet(s) /\ s \in SUBSET T
      BY <2>1, <2>2, FirstIn, FS_Subset
    <2>4. Figures(s) = f.tco2e + Figures(s \ {f})
      BY <2>2, <2>3, FiguresStep
    <2> HIDE DEF f
    <2>5. x # f
      BY <2>2, <2>4
    <2>6. s \ {f} \notin wrong /\ s \ {x} \notin wrong
      BY <2>1, <2>2, <2>3
    <2>7. Figures(s \ {f}) = x.tco2e + Figures((s \ {f}) \ {x})
      BY <2>2, <2>3, <2>5, <2>6
    <2>8. Figures(s \ {x}) = f.tco2e + Figures((s \ {x}) \ {f})
      BY <2>2, <2>3, <2>5, <2>6
    <2>9. (s \ {f}) \ {x} = (s \ {x}) \ {f}
      OBVIOUS
    <2> DEFINE rest == Figures((s \ {x}) \ {f})
    <2>10. rest \in Int /\ x.tco2e \in Int /\ f.tco2e \in Int
      BY <2>2, <2>3, FiguresInt
    <2> HIDE DEF rest
    <2>11. Figures(s) = f.tco2e + (x.tco2e + rest)
      BY <2>4, <2>7, <2>9 DEF rest
    <2>12. Figures(s \ {x}) = f.tco2e + rest
      BY <2>8 DEF rest
    <2>13. QED
      BY <2>2, <2>10, <2>11, <2>12
  <1>2. T \notin wrong
    BY <1>1
  <1>3. QED
    BY <1>2

\* The entries that a batch makes of the rows it takes.
EntriesOf(S, id) == {[key |-> d.key, tco2e |-> d.tco2e, batch |-> id] : d \in S}

\* They are as many as the rows, and have their total.
LEMMA EntriesAddUp ==
  ASSUME NEW T, IsFiniteSet(T), NEW id,
         \A d \in T : d.tco2e \in Int,
         \A d, e \in T : d.key = e.key => d = e
  PROVE  /\ IsFiniteSet(EntriesOf(T, id))
         /\ Cardinality(EntriesOf(T, id)) = Cardinality(T)
         /\ Figures(EntriesOf(T, id)) = Figures(T)
  <1> DEFINE Same(s) == /\ IsFiniteSet(EntriesOf(s, id))
                        /\ Cardinality(EntriesOf(s, id)) = Cardinality(s)
                        /\ Figures(EntriesOf(s, id)) = Figures(s)
             wrong == {s \in SUBSET T : ~Same(s)}
  <1>1. ASSUME wrong # {}
        PROVE  FALSE
    <2>1. PICK s \in wrong : \A r \in wrong : r \subseteq s => r = s
      <3>1. wrong \subseteq SUBSET T
        OBVIOUS
      <3> HIDE DEF wrong
      <3>2. QED
        BY <1>1, <3>1, Smallest
    <2>2. ASSUME s = {}
          PROVE  FALSE
      <3>1. EntriesOf(s, id) = s
        BY <2>2 DEF EntriesOf
      <3>2. Same(s)
        BY <2>2, <3>1, FS_EmptySet
      <3>3. QED
        BY <2>1, <3>2
    <2>3. PICK d \in s : TRUE
      BY <2>2
    <2> DEFINE e == [key |-> d.key, tco2e |-> d.tco2e, batch |-> id]
               r == s \ {d}
    <2>4. Same(r)
      BY <2>1, <2>3
    <2>5. /\ EntriesOf(s, id) = EntriesOf(r, id) \cup {e}
          /\ e \notin EntriesOf(r, id)
      <3>1. EntriesOf(s, id) = EntriesOf(r, id) \cup {e}
        BY <2>3 DEF EntriesOf
      <3>2. ASSUME NEW c \in r
            PROVE  c.key # d.key
        BY <2>1, <2>3
      <3>3. e \notin EntriesOf(r, id)
        BY <3>2 DEF EntriesOf
      <3>4. QED
        BY <3>1, <3>3
    <2>6. EntriesOf(r, id) = EntriesOf(s, id) \ {e} /\ e \in EntriesOf(s, id)
      BY <2>5
    <2>7. /\ s \in SUBSET T /\ IsFiniteSet(s)
          /\ IsFiniteSet(EntriesOf(s, id))
          /\ Cardinality(EntriesOf(s, id)) = Cardinality(EntriesOf(r, id)) + 1
      <3>1. s \in SUBSET T /\ IsFiniteSet(s)
        BY <2>1, FS_Subset
      <3> DEFINE old == EntriesOf(r, id)
                 all == EntriesOf(s, id)
      <3>2. IsFiniteSet(old) /\ all = old \cup {e} /\ e \notin old
        BY <2>4, <2>5
      <3> HIDE DEF old, all, e
      <3>3. IsFiniteSet(all) /\ Cardinality(all) = Cardinality(old) + 1
        BY <3>2, FS_AddElement
      <3>4. QED
        BY <3>1, <3>3 DEF old, all
    <2>8. Cardinality(EntriesOf(s, id)) = Cardinality(s)
      <3>2. r \cup {d} = s /\ d \notin r /\ IsFiniteSet(r)
        BY <2>3, <2>7, FS_Subset
      <3>3. Cardinality(s) = Cardinality(r) + 1
        BY <3>2, FS_AddElement
      <3>4. QED
        BY <2>4, <2>7, <3>3
    <2>9. Figures(EntriesOf(s, id)) = Figures(s)
      <3>1. \A c \in EntriesOf(s, id) : c.tco2e \in Int
        BY <2>7 DEF EntriesOf
      <3>2. Figures(EntriesOf(s, id)) = e.tco2e + Figures(EntriesOf(s, id) \ {e})
        BY <2>6, <2>7, <3>1, FiguresTake
      <3>3. Figures(s) = d.tco2e + Figures(r)
        BY <2>3, <2>7, FiguresTake
      <3>4. QED
        BY <2>4, <2>6, <3>2, <3>3
    <2>10. QED
      BY <2>1, <2>7, <2>8, <2>9
  <1>2. Same(T)
    BY <1>1
  <1>3. QED
    BY <1>2

-----------------------------------------------------------------------------
(* The typed and the serial part of the invariant.                         *)

RowTyped(row) ==
  /\ row.st \in Status /\ row.tco2e \in Int
  /\ row.edited \in Users \cup {None} /\ row.reviewed \in Users \cup {None}
  /\ row.category = "UNMAPPED" /\ row.edited = None => row.tco2e = 0

LinesOf(file) == {LineKey(file[i]) : i \in DOMAIN file}

\* What a session holds has the types of what it will write.
ImportTyped(t) ==
  /\ LinesOf(t.file) \subseteq Keys
  /\ DOMAIN t.new \subseteq Keys /\ IsFiniteSet(DOMAIN t.new)
  /\ \A k \in DOMAIN t.new : RowTyped(t.new[k]) /\ t.new[k].st = Origin(t.new[k].raw)
  /\ t.op = "import" => t.known \subseteq Keys

WriteTyped(t) ==
  IF t.op = "remap"
  THEN /\ DOMAIN t.write = {"category", "tco2e", "edited", "amount"}
       /\ t.write.tco2e \in Int /\ t.write.edited \in Users
  ELSE /\ DOMAIN t.write = {"st", "reviewed"}
       /\ t.write.st \in {"approved", "dismissed"} /\ t.write.reviewed \in Users

DigestTyped(t) ==
  IsFiniteSet(t.digest) /\ \A d \in t.digest : d.key \in Keys /\ d.tco2e \in Int

HeldTyped(t) ==
  /\ t.op \in {"import", "stage"} => ImportTyped(t)
  /\ t.op \in Reviews => WriteTyped(t)
  /\ t.op = "release" => DigestTyped(t)

TypedInv ==
  /\ world \in Worlds /\ store \subseteq Keys /\ reported \subseteq Keys
  /\ \A k \in Keys : RowTyped(rows[k])
  /\ IsFiniteSet(Staged)
  /\ \A e \in ledger : e.key \in Keys /\ e.tco2e \in Int
  /\ IsFiniteSet(batches) /\ \A b \in batches : b.id \in Nat /\ b.count \in Nat
  /\ \A s \in Sessions : HeldTyped(txn[s])
  /\ \A s \in Sessions \ world.sessions : txn[s] = Idle

\* While requests do not overlap, what a session has read is what is there.
HeldFresh(table, t) ==
  /\ t.op \in Reviews => table[t.key].st \in IF t.op = "remap" THEN Remappable ELSE Reviewable
  /\ t.op = "release" =>
       \A d \in t.digest : table[d.key].st \in Releasable /\ d.tco2e = table[d.key].tco2e

\* A batch counts and totals the entries that were made for it.
Own(entries, id) == {e \in entries : e.batch = id}

Balanced(entries, b) ==
  /\ b.count = Cardinality(Own(entries, b.id))
  /\ b.total = MapThenSumSet(LAMBDA d : d.tco2e, Own(entries, b.id))

SerialInv ==
  /\ \A k \in Keys : rows[k].st = "released" <=> Entered(k)
  /\ \A e \in ledger : e.tco2e = rows[e.key].tco2e /\ e.batch \in 1 .. Cardinality(batches)
  /\ \A b \in batches : Balanced(ledger, b) /\ b.id \in 1 .. Cardinality(batches)
  /\ \A s \in Sessions : HeldFresh(rows, txn[s])

\* An import that does not crash has told the store what it goes on to stage.
ImportFresh(known, t) ==
  /\ t.op = "import" => t.known = known
  /\ t.op = "stage" => StoreKeys(t.new) \subseteq known
  /\ t.op \in {"import", "stage"} => LinesOf(t.file) \subseteq known \cup DOMAIN t.new

ImportInv ==
  /\ reported \subseteq Staged
  /\ \A k \in Staged \ store : Held(Entry(rows[k].raw))
  /\ \A k \in store \ Staged : \E s \in Sessions : txn[s].op = "stage" /\ k \in DOMAIN txn[s].new
  /\ \A s \in Sessions : ImportFresh(store, txn[s])

SyncInv ==
  /\ EInv /\ TypedInv
  /\ Serial => SerialInv
  /\ Serial /\ ~world.crash => ImportInv

\* Only one session is busy while requests do not overlap.
LEMMA OthersIdle ==
  ASSUME TypedInv, Serial, NEW s \in Sessions, s \in world.sessions
  PROVE  \A r \in Sessions \ {s} : txn[r] = Idle
  <1>1. IsFiniteSet(world.sessions)
    BY ErpSyncAssumption DEF TypedInv
  <1>2. PICK x : world.sessions = {x}
    BY <1>1, FS_Singleton DEF Serial
  <1>3. QED
    BY <1>2 DEF TypedInv

LEMMA IdleHolds ==
  ASSUME NEW table
  PROVE  HeldTyped(Idle) /\ HeldFresh(table, Idle) /\ ImportFresh(table, Idle)
  BY DEF Idle, HeldTyped, HeldFresh, ImportFresh, Reviews

\* A step that changes only what one session holds.
LEMMA HoldStep ==
  ASSUME SyncInv, EInv', NEW s \in world.sessions, s \in Sessions,
         UNCHANGED <<world, store, rows, ledger, batches, reported>>,
         txn' = [txn EXCEPT ![s] = txn'[s]],
         HeldTyped(txn'[s]),
         Serial => HeldFresh(rows, txn'[s]),
         Serial /\ ~world.crash => ImportFresh(store, txn'[s]) /\ txn[s].op # "stage"
  PROVE  SyncInv'
  <1>1. \A r \in Sessions \ {s} : txn'[r] = txn[r]
    BY DEF SyncInv, EInv
  <1>2. Staged' = Staged /\ Serial' = Serial
    BY DEF Staged, Serial
  <1>3. TypedInv'
    <2>1. \A r \in Sessions : HeldTyped(txn'[r])
      BY <1>1 DEF SyncInv, TypedInv
    <2>2. \A r \in Sessions \ world.sessions : txn'[r] = Idle
      BY <1>1 DEF SyncInv, TypedInv
    <2>3. QED
      BY <1>2, <2>1, <2>2 DEF SyncInv, TypedInv
  <1>4. ASSUME Serial
        PROVE  SerialInv'
    <2>1. \A r \in Sessions : HeldFresh(rows, txn'[r])
      BY <1>1, <1>4 DEF SyncInv, SerialInv
    <2>2. \A k \in Keys : Entered(k)' = Entered(k)
      BY DEF Entered
    <2>3. QED
      BY <1>4, <2>1, <2>2 DEF SyncInv, SerialInv
  <1>5. ASSUME Serial, ~world.crash
        PROVE  ImportInv'
    <2>1. \A r \in Sessions : ImportFresh(store, txn'[r])
      BY <1>1, <1>5 DEF SyncInv, ImportInv
    <2>3. ASSUME NEW k \in store \ Staged
          PROVE  \E r \in Sessions : txn'[r].op = "stage" /\ k \in DOMAIN txn'[r].new
      <3>1. PICK r \in Sessions : txn[r].op = "stage" /\ k \in DOMAIN txn[r].new
        BY <1>5 DEF SyncInv, ImportInv
      <3>2. r # s
        BY <1>5, <3>1
      <3>3. QED
        BY <1>1, <3>1, <3>2
    <2>4. QED
      BY <1>2, <1>5, <2>1, <2>3 DEF SyncInv, ImportInv
  <1>6. QED
    BY <1>2, <1>3, <1>4, <1>5 DEF SyncInv

\* A step that changes the tables and leaves its session idle: what the lemmas
\* on the commits have to show.
LEMMA DoneStep ==
  ASSUME SyncInv, EInv', NEW s \in world.sessions, s \in Sessions,
         world' = world, txn' = [txn EXCEPT ![s] = Idle],
         store' \subseteq Keys, reported' \subseteq Keys,
         \A k \in Keys : RowTyped(rows'[k]), IsFiniteSet(Staged'),
         \A e \in ledger' : e.key \in Keys /\ e.tco2e \in Int,
         IsFiniteSet(batches'), \A b \in batches' : b.id \in Nat /\ b.count \in Nat,
         Serial =>
           /\ \A k \in Keys : rows'[k].st = "released" <=> \E e \in ledger' : e.key = k
           /\ \A e \in ledger' :
                e.tco2e = rows'[e.key].tco2e /\ e.batch \in 1 .. Cardinality(batches')
           /\ \A b \in batches' : Balanced(ledger', b) /\ b.id \in 1 .. Cardinality(batches'),
         Serial /\ ~world.crash =>
           /\ reported' \subseteq Staged' /\ store' \subseteq Staged'
           /\ \A k \in Staged' \ store' : Held(Entry(rows'[k].raw))
  PROVE  SyncInv'
  <1>1. \A r \in Sessions : txn'[r] = IF r = s THEN Idle ELSE txn[r]
    BY DEF SyncInv, EInv
  <1>2. Serial' = Serial
    BY DEF Serial
  <1>3. TypedInv'
    <2>1. \A r \in Sessions : HeldTyped(txn'[r])
      BY <1>1, IdleHolds DEF SyncInv, TypedInv
    <2>2. \A r \in Sessions \ world.sessions : txn'[r] = Idle
      BY <1>1 DEF SyncInv, TypedInv
    <2>3. QED
      BY <2>1, <2>2 DEF SyncInv, TypedInv
  <1>4. ASSUME Serial
        PROVE  \A r \in Sessions : txn'[r] = Idle
    BY <1>1, <1>4, OthersIdle DEF SyncInv
  <1>5. ASSUME Serial
        PROVE  SerialInv'
    <2>1. \A r \in Sessions : HeldFresh(rows', txn'[r])
      BY <1>4, <1>5, IdleHolds
    <2>2. QED
      BY <1>5, <2>1 DEF SerialInv, Entered
  <1>6. ASSUME Serial, ~world.crash
        PROVE  ImportInv'
    <2>1. \A r \in Sessions : ImportFresh(store', txn'[r])
      BY <1>4, <1>6, IdleHolds
    <2>2. QED
      BY <1>6, <2>1 DEF ImportInv
  <1>7. QED
    BY <1>2, <1>3, <1>5, <1>6 DEF SyncInv

-----------------------------------------------------------------------------
(* Imports.                                                                *)

LEMMA TonnesInt ==
  ASSUME NEW units \in Int, NEW value \in Int
  PROVE  Tonnes(units, value) \in Int
  <1> DEFINE product == units * value
             b == 2 * Grain
  <1>1. product \in Int /\ Grain \in Nat \ {0} /\ b \in Nat \ {0}
    BY ErpLineAssumption
  <1> HIDE DEF product, b
  <1>2. 2 * product + Grain \in Int /\ 2 * (-product) + Grain \in Int
    BY <1>1
  <1>3. (2 * product + Grain) \div b \in Int /\ (2 * (-product) + Grain) \div b \in Int
    BY <1>1, <1>2, Division
  <1>4. QED
    BY <1>3 DEF Tonnes, product, b

\* The entry of a well-formed line has a figure, and none when no rule applies.
LEMMA EntryTyped ==
  ASSUME NEW file \in Files, NEW i \in DOMAIN file, ~Malformed(file[i])
  PROVE  /\ Entry(file[i]).tco2e \in Int
         /\ Entry(file[i]).category = "UNMAPPED" => Entry(file[i]).tco2e = 0
  <1> DEFINE raw == file[i]
             n == MatchRule(raw)
             rule == Ruleset[n]
             r == Resolve(raw, rule)
  <1>1. CASE n = 0
    BY <1>1 DEF Entry
  <1>2. CASE n # 0
    <2>1. /\ Entry(raw).category = rule.category
          /\ Entry(raw).tco2e = IF r.factor = None THEN 0
                                ELSE Tonnes(r.units, Factors[r.factor].value)
      BY <1>2 DEF Entry
    <2>2. rule.category # "UNMAPPED" /\ {rule.factor, rule.fallback} \subseteq DOMAIN Factors \cup {None}
      BY <1>2, RuleTakesPrecedence, ErpLineAssumption
    <2>3. raw.amount \in Int /\ (raw.quantity # None => raw.quantity \in Int)
      BY ErpSyncAssumption DEF Malformed
    <2> HIDE DEF raw, rule
    <2>4. r.factor \in DOMAIN Factors \cup {None} /\ r.units \in Int
      BY <2>2, <2>3 DEF Resolve, Measurable
    <2> HIDE DEF r
    <2>5. r.factor # None => Factors[r.factor].value \in Int
      BY <2>4, ErpLineAssumption
    <2>6. Entry(raw).tco2e \in Int
      <3>1. CASE r.factor = None
        BY <2>1, <3>1 DEF r
      <3>2. CASE r.factor # None
        <4>1. Tonnes(r.units, Factors[r.factor].value) \in Int
          BY <2>4, <2>5, <3>2, TonnesInt
        <4>2. QED
          BY <2>1, <3>2, <4>1 DEF r
      <3>3. QED
        BY <3>1, <3>2
    <2>7. QED
      BY <2>1, <2>2, <2>6 DEF raw
  <1>3. QED
    BY <1>1, <1>2

\* An import stages rows of its lines, with the status of their lines.
LEMMA StagedRowsTyped ==
  ASSUME NEW file \in Files, NEW known, Committable(file)
  PROVE  /\ LinesOf(file) \subseteq Keys
         /\ DOMAIN StagedRows(file, known) \subseteq Keys
         /\ IsFiniteSet(DOMAIN StagedRows(file, known))
         /\ \A k \in DOMAIN StagedRows(file, known) :
              LET row == StagedRows(file, known)[k] IN
              RowTyped(row) /\ row.st = Origin(row.raw)
  <1> DEFINE lines == Accepted(file, known)
  <1>1. LinesOf(file) \subseteq Keys
    BY DEF LinesOf, Keys, Committable
  <1>2. DOMAIN StagedRows(file, known) = {LineKey(file[j]) : j \in lines}
    BY DEF StagedRows
  <1>3. lines \subseteq DOMAIN file
    BY DEF Accepted
  <1>4. IsFiniteSet({LineKey(file[j]) : j \in lines})
    <2>1. Len(file) \in Nat /\ DOMAIN file = 1 .. Len(file)
      BY ErpSyncAssumption
    <2>2. IsFiniteSet(1 .. Len(file))
      BY <2>1, FS_Interval
    <2> HIDE DEF lines
    <2>3. IsFiniteSet(lines)
      BY <1>3, <2>1, <2>2, FS_Subset
    <2> DEFINE keys == {LineKey(file[j]) : j \in lines}
               f == [j \in lines |-> LineKey(file[j])]
    <2>4. f \in Surjection(lines, keys)
      BY DEF Surjection
    <2> HIDE DEF keys, f
    <2>5. IsFiniteSet(keys)
      BY <2>3, <2>4, FS_Surjection
    <2>6. QED
      BY <2>5 DEF keys
  <1>5. ASSUME NEW k \in DOMAIN StagedRows(file, known)
        PROVE  LET row == StagedRows(file, known)[k] IN
               RowTyped(row) /\ row.st = Origin(row.raw)
    <2> DEFINE i == CHOOSE j \in lines : LineKey(file[j]) = k
               e == Entry(file[i])
               row == StagedRows(file, known)[k]
    <2>1. k \in {LineKey(file[j]) : j \in lines}
      BY <1>2
    <2>2. i \in lines
      BY <2>1
    <2>3. i \in DOMAIN file /\ ~Malformed(file[i])
      BY <2>2 DEF Accepted, Committable
    <2>4. row = [NoRow EXCEPT !.st = StageStatus(e), !.category = e.category,
                              !.amount = e.amount, !.tco2e = e.tco2e, !.raw = file[i]]
      BY <2>1 DEF StagedRows
    <2> HIDE DEF row, i, lines
    <2>5. /\ row.st = Origin(row.raw) /\ row.raw = file[i]
          /\ row.category = Entry(file[i]).category /\ row.tco2e = Entry(file[i]).tco2e
          /\ row.reviewed = None /\ row.edited = None
      BY <2>4 DEF NoRow, Origin
    <2>6. Origin(row.raw) \in Status
      BY DEF Origin, StageStatus, Status
    <2>7. RowTyped(row)
      BY <2>3, <2>5, <2>6, EntryTyped DEF RowTyped
    <2>8. QED
      BY <2>5, <2>7 DEF row
  <1>6. QED
    BY <1>1, <1>2, <1>3, <1>4, <1>5 DEF LinesOf

\* Every line of a file is known to the store or staged: of the lines with one
\* key the first is, and the others are its duplicates.
LEMMA LinesStaged ==
  ASSUME NEW file \in Files, NEW known, Committable(file)
  PROVE  LinesOf(file) \subseteq known \cup DOMAIN StagedRows(file, known)
  <1> SUFFICES ASSUME NEW i \in DOMAIN file, LineKey(file[i]) \notin known
               PROVE  LineKey(file[i]) \in DOMAIN StagedRows(file, known)
    BY DEF LinesOf
  <1> DEFINE same == {j \in DOMAIN file : LineKey(file[j]) = LineKey(file[i])}
  <1>1. Len(file) \in Nat /\ DOMAIN file = 1 .. Len(file)
    BY ErpSyncAssumption
  <1>2. same \subseteq Nat /\ same # {}
    BY <1>1
  <1>3. PICK n \in same : \A j \in same : n <= j
    BY <1>2, LeastOf
  <1>4. ASSUME NEW j \in 1 .. n - 1
        PROVE  LineKey(file[j]) # LineKey(file[n])
    BY <1>1, <1>3
  <1>5. n \in Accepted(file, known)
    BY <1>3, <1>4 DEF Accepted, Verdict, Committable
  <1>6. QED
    BY <1>3, <1>5 DEF StagedRows

LEMMA SyncImport ==
  ASSUME SyncInv, EInv', NEW s \in Sessions, NEW file \in Files, BeginImport(s, file)
  PROVE  SyncInv'
  <1> DEFINE t == [op |-> "import", file |-> file, known |-> store,
                   new |-> StagedRows(file, store)]
  <1>1. /\ txn' = [txn EXCEPT ![s] = t] /\ Committable(file) /\ txn[s] = Idle
        /\ s \in world.sessions
        /\ UNCHANGED <<world, store, rows, ledger, batches, reported>>
    BY DEF BeginImport, Asks
  <1>2. HeldTyped(t)
    BY <1>1, StagedRowsTyped DEF HeldTyped, ImportTyped, Reviews, SyncInv, TypedInv
  <1>3. HeldFresh(rows, t)
    BY DEF HeldFresh, Reviews
  <1>4. ImportFresh(store, t)
    BY <1>1, LinesStaged DEF ImportFresh
  <1> HIDE DEF t
  <1>5. txn'[s] = t /\ txn[s].op # "stage"
    BY <1>1 DEF SyncInv, EInv, Idle
  <1>6. QED
    BY <1>1, <1>2, <1>3, <1>4, <1>5, HoldStep

LEMMA SyncPersist ==
  ASSUME SyncInv, EInv', NEW s \in Sessions, PersistStore(s)
  PROVE  SyncInv'
  <1> DEFINE t == txn[s]
             u == [t EXCEPT !.op = "stage"]
  <1>1. /\ t.op = "import" /\ txn' = [txn EXCEPT ![s].op = "stage"]
        /\ store' = Replaced(t)
        /\ UNCHANGED <<world, rows, ledger, batches, reported>>
    BY DEF PersistStore
  <1>2. /\ \A r \in Sessions : txn'[r] = IF r = s THEN u ELSE txn[r]
        /\ u.op = "stage" /\ u.new = t.new /\ u.file = t.file
    BY <1>1 DEF SyncInv, EInv
  <1>3. s \in world.sessions
    BY <1>1 DEF SyncInv, TypedInv, Idle
  <1>4. HeldTyped(t)
    BY DEF SyncInv, TypedInv
  <1> HIDE DEF t, u
  <1>5. ImportTyped(t)
    BY <1>1, <1>4 DEF HeldTyped
  <1>6. HeldTyped(u)
    BY <1>2, <1>5 DEF HeldTyped, ImportTyped, Reviews
  <1>7. store' \subseteq Keys
    BY <1>1, <1>5 DEF Replaced, StoreKeys, ImportTyped, SyncInv, TypedInv
  <1>8. Staged' = Staged /\ Serial' = Serial
    BY <1>1 DEF Staged, Serial
  <1>9. TypedInv'
    <2>1. \A r \in Sessions : HeldTyped(txn'[r])
      BY <1>2, <1>6 DEF SyncInv, TypedInv
    <2>2. \A r \in Sessions \ world.sessions : txn'[r] = Idle
      BY <1>2, <1>3 DEF SyncInv, TypedInv
    <2>3. QED
      BY <1>1, <1>7, <1>8, <2>1, <2>2 DEF SyncInv, TypedInv
  <1>10. ASSUME Serial
         PROVE  SerialInv'
    <2>1. HeldFresh(rows, u)
      BY <1>2 DEF HeldFresh, Reviews
    <2>2. \A r \in Sessions : HeldFresh(rows, txn'[r])
      BY <1>2, <1>10, <2>1 DEF SyncInv, SerialInv
    <2>3. \A k \in Keys : Entered(k)' = Entered(k)
      BY <1>1 DEF Entered
    <2>4. QED
      BY <1>1, <1>10, <2>2, <2>3 DEF SyncInv, SerialInv
  <1>11. ASSUME Serial, ~world.crash
         PROVE  ImportInv'
    <2>1. /\ t.known = store /\ LinesOf(t.file) \subseteq store \cup DOMAIN t.new
          /\ store \subseteq Staged
      <3>1. ImportFresh(store, t)
        BY <1>11 DEF SyncInv, ImportInv, t
      <3>2. \A r \in Sessions : txn[r].op # "stage"
        BY <1>1, <1>3, <1>11, OthersIdle DEF SyncInv, Idle, t
      <3>3. QED
        BY <1>1, <1>11, <3>1, <3>2 DEF SyncInv, ImportInv, ImportFresh
    <2>2. store' = store \cup StoreKeys(t.new)
      BY <1>1, <2>1 DEF Replaced
    <2>3. ImportFresh(store', u)
      BY <1>2, <2>1, <2>2 DEF ImportFresh
    <2>4. \A r \in Sessions : ImportFresh(store', txn'[r])
      BY <1>2, <1>3, <1>11, <2>3, OthersIdle, IdleHolds DEF SyncInv
    <2>5. \A k \in store' \ Staged : k \in DOMAIN txn'[s].new /\ txn'[s].op = "stage"
      BY <1>2, <2>1, <2>2 DEF StoreKeys
    <2>6. \A k \in Staged \ store' : Held(Entry(rows[k].raw))
      BY <1>11, <2>2 DEF SyncInv, ImportInv
    <2>7. QED
      BY <1>1, <1>8, <1>11, <2>4, <2>5, <2>6 DEF SyncInv, ImportInv
  <1>12. QED
    BY <1>1, <1>8, <1>9, <1>10, <1>11 DEF SyncInv

\* A commit that leaves the ledger alone and no row it changes in the ledger
\* keeps the two in agreement.
LEMMA LedgerApart ==
  ASSUME SyncInv, Serial, ledger' = ledger, batches' = batches,
         \A k \in Keys : rows'[k] # rows[k] => rows[k].st # "released" /\ rows'[k].st # "released"
  PROVE  /\ \A k \in Keys : rows'[k].st = "released" <=> \E e \in ledger' : e.key = k
         /\ \A e \in ledger' :
              e.tco2e = rows'[e.key].tco2e /\ e.batch \in 1 .. Cardinality(batches')
         /\ \A b \in batches' : Balanced(ledger', b) /\ b.id \in 1 .. Cardinality(batches')
  <1>1. SerialInv
    BY DEF SyncInv
  <1>2. ASSUME NEW e \in ledger
        PROVE  rows'[e.key] = rows[e.key]
    BY <1>1, <1>2 DEF SerialInv, Entered, SyncInv, TypedInv
  <1>3. QED
    BY <1>1, <1>2 DEF SerialInv, Entered

LEMMA SyncStage ==
  ASSUME SyncInv, EInv', NEW s \in Sessions, Stage(s)
  PROVE  SyncInv'
  <1> DEFINE t == txn[s]
  <1>1. /\ t.op = "stage" /\ txn' = [txn EXCEPT ![s] = Idle]
        /\ rows' = [k \in Keys |-> IF k \in Inserted(t.new) THEN t.new[k] ELSE rows[k]]
        /\ reported' = reported \cup LinesOf(t.file)
        /\ UNCHANGED <<world, store, ledger, batches>>
    BY DEF Stage, LinesOf
  <1>2. s \in world.sessions
    BY <1>1 DEF SyncInv, TypedInv, Idle
  <1>3. ImportTyped(t)
    BY <1>1 DEF SyncInv, TypedInv, HeldTyped
  <1>4. \A k \in DOMAIN t.new : t.new[k].st # "absent"
    BY <1>1 DEF SyncInv, EInv, HeldSound, ImportHeld
  <1>5. ASSUME Serial, ~world.crash
        PROVE  /\ StoreKeys(t.new) \subseteq store /\ LinesOf(t.file) \subseteq store \cup DOMAIN t.new
               /\ store \subseteq Staged \cup DOMAIN t.new
               /\ reported \subseteq Staged
               /\ \A k \in Staged \ store : Held(Entry(rows[k].raw))
    <2>1. \A r \in Sessions \ {s} : txn[r].op # "stage"
      BY <1>2, <1>5, OthersIdle DEF SyncInv, Idle
    <2>2. ImportInv /\ ImportFresh(store, t)
      BY <1>5 DEF SyncInv, ImportInv
    <2>3. QED
      BY <1>1, <2>1, <2>2 DEF ImportInv, ImportFresh
  <1> HIDE DEF t
  <1>6. \A k \in Keys : rows'[k] = IF k \in DOMAIN t.new /\ rows[k].st = "absent" THEN t.new[k] ELSE rows[k]
    BY <1>1 DEF Inserted, Staged
  <1>7. Staged' = Staged \cup DOMAIN t.new
    BY <1>3, <1>4, <1>6 DEF Staged, ImportTyped
  <1>8. IsFiniteSet(Staged')
    BY <1>3, <1>7, FS_Union DEF ImportTyped, SyncInv, TypedInv
  <1>9. \A k \in Keys : RowTyped(rows'[k])
    BY <1>3, <1>6 DEF ImportTyped, SyncInv, TypedInv
  <1>10. \A k \in Keys : rows'[k] # rows[k] => rows[k].st # "released" /\ rows'[k].st # "released"
    <2>1. \A k \in DOMAIN t.new : t.new[k].st # "released"
      BY <1>3 DEF ImportTyped, Origin, StageStatus
    <2>2. QED
      BY <1>6, <2>1
  <1>11. ASSUME Serial, ~world.crash
         PROVE  /\ reported' \subseteq Staged' /\ store' \subseteq Staged'
                /\ \A k \in Staged' \ store' : Held(Entry(rows'[k].raw))
    <2>1. reported' \subseteq Staged' /\ store' \subseteq Staged'
      BY <1>1, <1>5, <1>7, <1>11
    <2>2. ASSUME NEW k \in Staged' \ store'
          PROVE  Held(Entry(rows'[k].raw))
      <3>1. k \in Keys
        BY DEF Staged
      <3>2. CASE k \in Staged
        <4>1. rows'[k] = rows[k]
          BY <1>6, <3>1, <3>2 DEF Staged
        <4>2. QED
          BY <1>1, <1>5, <1>11, <3>2, <4>1
      <3>3. CASE k \notin Staged
        <4>1. k \in DOMAIN t.new /\ rows'[k] = t.new[k]
          BY <1>6, <1>7, <3>1, <3>3 DEF Staged
        <4>2. t.new[k].st = "held"
          BY <1>1, <1>5, <1>11, <4>1 DEF StoreKeys
        <4>3. StageStatus(Entry(t.new[k].raw)) = "held"
          BY <1>3, <4>1, <4>2 DEF ImportTyped, Origin
        <4>4. QED
          BY <4>1, <4>3 DEF StageStatus
      <3>4. QED
        BY <3>2, <3>3
    <2>3. QED
      BY <2>1, <2>2
  <1>12. reported' \subseteq Keys
    BY <1>1, <1>3 DEF ImportTyped, SyncInv, TypedInv
  <1>13. QED
    <2>1. /\ store' \subseteq Keys /\ IsFiniteSet(batches')
          /\ \A e \in ledger' : e.key \in Keys /\ e.tco2e \in Int
          /\ \A b \in batches' : b.id \in Nat /\ b.count \in Nat
      BY <1>1 DEF SyncInv, TypedInv
    <2>2. Serial =>
           /\ \A k \in Keys : rows'[k].st = "released" <=> \E e \in ledger' : e.key = k
           /\ \A e \in ledger' :
                e.tco2e = rows'[e.key].tco2e /\ e.batch \in 1 .. Cardinality(batches')
           /\ \A b \in batches' : Balanced(ledger', b) /\ b.id \in 1 .. Cardinality(batches')
      BY <1>1, <1>10, LedgerApart
    <2>3. QED
      BY <1>1, <1>2, <1>8, <1>9, <1>11, <1>12, <2>1, <2>2, DoneStep

-----------------------------------------------------------------------------
(* Reviews.                                                                *)

LEMMA SyncAsk ==
  ASSUME SyncInv, EInv', NEW s \in Sessions, NEW u \in Users, NEW k \in Keys,
         NEW op \in Reviews, NEW write, Review(s, u, k, op, write),
         HeldTyped([op |-> op, key |-> k, write |-> write]),
         rows[k].st \in IF op = "remap" THEN Remappable ELSE Reviewable
  PROVE  SyncInv'
  <1> DEFINE t == [op |-> op, key |-> k, write |-> write]
  <1>1. /\ txn' = [txn EXCEPT ![s] = t] /\ txn[s] = Idle /\ s \in world.sessions
        /\ UNCHANGED <<world, store, rows, ledger, batches, reported>>
    BY DEF Review, Asks
  <1>2. HeldFresh(rows, t)
    BY DEF HeldFresh, Reviews
  <1>3. ImportFresh(store, t)
    BY DEF ImportFresh, Reviews
  <1> HIDE DEF t
  <1>4. txn'[s] = t /\ txn[s].op # "stage"
    BY <1>1 DEF SyncInv, EInv, Idle
  <1>5. HeldTyped(t)
    BY DEF t
  <1>6. QED
    BY <1>1, <1>2, <1>3, <1>4, <1>5, HoldStep

LEMMA SyncReview ==
  ASSUME SyncInv, EInv', NEW s \in Sessions, NEW u \in Users, NEW k \in Keys,
         \/ BeginApprove(s, u, k)
         \/ BeginDismiss(s, u, k)
         \/ \E m \in Remaps : BeginRemap(s, u, k, m)
  PROVE  SyncInv'
  <1>1. ASSUME NEW st \in {"approved", "dismissed"}, NEW op \in {"approve", "dismiss"},
               rows[k].st \in Reviewable, Review(s, u, k, op, [st |-> st, reviewed |-> u])
        PROVE  SyncInv'
    <2> DEFINE write == [st |-> st, reviewed |-> u]
               t == [op |-> op, key |-> k, write |-> write]
    <2>1. op \in Reviews /\ op # "remap"
      BY DEF Reviews
    <2>2. DOMAIN write = {"st", "reviewed"} /\ write.st = st /\ write.reviewed = u
      OBVIOUS
    <2>3. Review(s, u, k, op, write)
      BY <1>1
    <2> HIDE DEF write
    <2>4. HeldTyped(t)
      BY <2>1, <2>2 DEF HeldTyped, WriteTyped, Reviews
    <2>5. QED
      BY <1>1, <2>1, <2>3, <2>4, SyncAsk
  <1>2. ASSUME NEW m \in Remaps, BeginRemap(s, u, k, m)
        PROVE  SyncInv'
    <2> DEFINE write == [category |-> m.category, tco2e |-> Tonnes(Units(m), m.value),
                         edited |-> u,
                         amount |-> IF m.amount = None THEN rows[k].amount ELSE m.amount]
               t == [op |-> "remap", key |-> k, write |-> write]
    <2>1. rows[k].st \in Remappable /\ Units(m) # None /\ Review(s, u, k, "remap", write)
      BY <1>2 DEF BeginRemap
    <2>2. Units(m) \in Int /\ m.value \in Int
      BY <2>1, ErpSyncAssumption DEF Units
    <2>3. Tonnes(Units(m), m.value) \in Int
      BY <2>2, TonnesInt
    <2>4. /\ DOMAIN write = {"category", "tco2e", "edited", "amount"}
          /\ write.tco2e \in Int /\ write.edited \in Users
      BY <2>2, <2>3
    <2> HIDE DEF write
    <2>5. HeldTyped(t)
      BY <2>4 DEF HeldTyped, WriteTyped, Reviews
    <2>6. "remap" \in Reviews
      BY DEF Reviews
    <2>7. QED
      BY <2>1, <2>5, <2>6, SyncAsk
  <1>3. QED
    BY <1>1, <1>2 DEF BeginApprove, BeginDismiss

LEMMA SyncDecide ==
  ASSUME SyncInv, EInv', NEW s \in Sessions, CommitReview(s)
  PROVE  SyncInv'
  <1> DEFINE t == txn[s]
             j == t.key
             new == [c \in DOMAIN NoRow |-> IF c \in DOMAIN t.write THEN t.write[c] ELSE rows[j][c]]
  <1>1. /\ t.op \in Reviews /\ rows' = [rows EXCEPT ![j] = new]
        /\ txn' = [txn EXCEPT ![s] = Idle]
        /\ UNCHANGED <<world, store, ledger, batches, reported>>
    BY DEF CommitReview, Reviews
  <1>2. s \in world.sessions
    BY <1>1 DEF SyncInv, TypedInv, Idle, Reviews
  <1>3. ReviewHeld(rows, t) /\ WriteTyped(t)
    BY <1>1 DEF SyncInv, EInv, HeldSound, TypedInv, HeldTyped
  <1>4. Serial => rows[j].st \in IF t.op = "remap" THEN Remappable ELSE Reviewable
    BY <1>1 DEF SyncInv, SerialInv, HeldFresh
  <1>5. j \in Keys /\ rows[j].st # "absent"
    BY <1>3 DEF ReviewHeld
  <1>6. RowTyped(rows[j])
    BY <1>5 DEF SyncInv, TypedInv
  <1>7. DOMAIN NoRow = Fields
    BY DEF NoRow, Fields
  <1>8. \A c \in Fields : new[c] = IF c \in DOMAIN t.write THEN t.write[c] ELSE rows[j][c]
    BY <1>7
  <1> HIDE DEF t, j, new
  <1>9. /\ RowTyped(new) /\ new.raw = rows[j].raw /\ new.st # "absent"
        /\ Serial => new.st # "released"
    <2>1. CASE t.op = "remap"
      <3>1. /\ new.st = rows[j].st /\ new.raw = rows[j].raw /\ new.reviewed = rows[j].reviewed
            /\ new.tco2e = t.write.tco2e /\ new.edited = t.write.edited
            /\ new.category = t.write.category
        BY <1>3, <1>8, <2>1 DEF WriteTyped, Fields
      <3>2. new.tco2e \in Int /\ new.edited \in Users /\ new.edited # None
        BY <1>3, <2>1, <3>1, ErpSyncAssumption DEF WriteTyped
      <3>3. RowTyped(new)
        BY <1>6, <3>1, <3>2 DEF RowTyped
      <3>4. QED
        BY <1>4, <1>5, <2>1, <3>1, <3>3 DEF Remappable
    <2>2. CASE t.op # "remap"
      <3>1. /\ new.st = t.write.st /\ new.raw = rows[j].raw /\ new.reviewed = t.write.reviewed
            /\ new.tco2e = rows[j].tco2e /\ new.edited = rows[j].edited
            /\ new.category = rows[j].category
        BY <1>3, <1>8, <2>2 DEF WriteTyped, Fields
      <3>2. QED
        BY <1>3, <1>6, <2>2, <3>1 DEF WriteTyped, RowTyped, Status
    <2>3. QED
      BY <2>1, <2>2
  <1>10. \A k \in Keys : rows'[k] = IF k = j THEN new ELSE rows[k]
    BY <1>1 DEF SyncInv, EInv, TableSound
  <1>11. Staged' = Staged
    BY <1>5, <1>9, <1>10 DEF Staged
  <1>12. \A k \in Keys : RowTyped(rows'[k])
    BY <1>9, <1>10 DEF SyncInv, TypedInv
  <1>13. ASSUME Serial
         PROVE  \A k \in Keys : rows'[k] # rows[k] => rows[k].st # "released" /\ rows'[k].st # "released"
    BY <1>4, <1>9, <1>10, <1>13 DEF Remappable, Reviewable
  <1>14. ASSUME Serial, ~world.crash
         PROVE  /\ reported' \subseteq Staged' /\ store' \subseteq Staged'
                /\ \A k \in Staged' \ store' : Held(Entry(rows'[k].raw))
    <2>1. \A r \in Sessions : txn[r].op # "stage"
      BY <1>1, <1>2, <1>14, OthersIdle DEF SyncInv, Idle, Reviews, t
    <2>2. store \subseteq Staged /\ reported \subseteq Staged
      BY <1>14, <2>1 DEF SyncInv, ImportInv
    <2>3. \A k \in Staged : rows'[k].raw = rows[k].raw
      BY <1>9, <1>10 DEF Staged
    <2>4. QED
      BY <1>1, <1>11, <1>14, <2>2, <2>3 DEF SyncInv, ImportInv
  <1>15. QED
    <2>1. /\ store' \subseteq Keys /\ IsFiniteSet(batches') /\ reported' \subseteq Keys
          /\ \A e \in ledger' : e.key \in Keys /\ e.tco2e \in Int
          /\ \A b \in batches' : b.id \in Nat /\ b.count \in Nat
          /\ IsFiniteSet(Staged')
      BY <1>1, <1>11 DEF SyncInv, TypedInv
    <2>2. Serial =>
           /\ \A k \in Keys : rows'[k].st = "released" <=> \E e \in ledger' : e.key = k
           /\ \A e \in ledger' :
                e.tco2e = rows'[e.key].tco2e /\ e.batch \in 1 .. Cardinality(batches')
           /\ \A b \in batches' : Balanced(ledger', b) /\ b.id \in 1 .. Cardinality(batches')
      BY <1>1, <1>13, LedgerApart
    <2>3. QED
      BY <1>1, <1>2, <1>12, <1>14, <2>1, <2>2, DoneStep

-----------------------------------------------------------------------------
(* Releases.                                                               *)

LEMMA SyncReleaseBegins ==
  ASSUME SyncInv, EInv', NEW s \in Sessions, NEW u \in Users, BeginRelease(s, u)
  PROVE  SyncInv'
  <1> DEFINE taken == {k \in Staged : rows[k].st \in Releasable}
             t == [op |-> "release", digest |-> Digest(taken)]
  <1>1. /\ txn' = [txn EXCEPT ![s] = t] /\ txn[s] = Idle /\ s \in world.sessions
        /\ UNCHANGED <<world, store, rows, ledger, batches, reported>>
    BY DEF BeginRelease, Asks
  <1>2. IsFiniteSet(taken)
    BY FS_Subset DEF SyncInv, TypedInv
  <1>3. \A k \in taken : k \in Keys /\ rows[k].st \in Releasable /\ rows[k].tco2e \in Int
    BY DEF Staged, SyncInv, TypedInv, RowTyped
  <1> HIDE DEF taken
  <1>4. \A d \in Digest(taken) : d.key \in taken /\ d.tco2e = rows[d.key].tco2e
    BY DEF Digest
  <1>5. IsFiniteSet(Digest(taken))
    <2> DEFINE f == [k \in taken |-> [key |-> k, tco2e |-> rows[k].tco2e]]
    <2>1. f \in Surjection(taken, Digest(taken))
      BY DEF Surjection, Digest
    <2> HIDE DEF f
    <2>2. QED
      BY <1>2, <2>1, FS_Surjection
  <1>6. HeldTyped(t) /\ HeldFresh(rows, t) /\ ImportFresh(store, t)
    BY <1>3, <1>4, <1>5 DEF HeldTyped, DigestTyped, HeldFresh, ImportFresh, Reviews
  <1> HIDE DEF t
  <1>7. txn'[s] = t /\ txn[s].op # "stage"
    BY <1>1 DEF SyncInv, EInv, Idle
  <1>8. QED
    BY <1>1, <1>6, <1>7, HoldStep

LEMMA SyncRelease ==
  ASSUME SyncInv, EInv', NEW s \in Sessions, CommitRelease(s)
  PROVE  SyncInv'
  <1> DEFINE t == txn[s]
             digest == t.digest
             size == Cardinality(batches)
             id == size + 1
             fresh == {e \in digest : ~Entered(e.key)}
             batch == [id |-> id, digest |-> digest, count |-> Cardinality(digest),
                       total |-> MapThenSumSet(LAMBDA d : d.tco2e, digest)]
  <1>1. /\ t.op = "release" /\ txn' = [txn EXCEPT ![s] = Idle]
        /\ batches' = batches \cup {batch}
        /\ ledger' = ledger \cup EntriesOf(fresh, id)
        /\ rows' = [k \in Keys |->
              IF \E d \in digest : d.key = k THEN [rows[k] EXCEPT !.st = "released"] ELSE rows[k]]
        /\ UNCHANGED <<world, store, reported>>
    BY DEF CommitRelease, EntriesOf
  <1>2. s \in world.sessions
    BY <1>1 DEF SyncInv, TypedInv, Idle
  <1>3. /\ IsFiniteSet(digest) /\ \A d \in digest : d.key \in Keys /\ d.tco2e \in Int
        /\ \A d \in digest : rows[d.key].st # "absent"
        /\ \A d, e \in digest : d.key = e.key => d = e
    <2>1. HeldTyped(t) /\ HeldSound(rows, t)
      BY DEF SyncInv, TypedInv, EInv
    <2>2. QED
      BY <1>1, <2>1 DEF HeldTyped, DigestTyped, HeldSound, ReleaseHeld, Cleared
  <1>4. ASSUME Serial
        PROVE  \A d \in digest : rows[d.key].st \in Releasable /\ d.tco2e = rows[d.key].tco2e
    BY <1>1, <1>4 DEF SyncInv, SerialInv, HeldFresh
  <1>5. size \in Nat /\ IsFiniteSet(batches)
    BY FS_CardinalityType DEF SyncInv, TypedInv
  <1>6. Cardinality(digest) \in Nat
    BY <1>3, FS_CardinalityType
  <1>7. /\ batch.id = id /\ batch.count = Cardinality(digest)
        /\ batch.total = MapThenSumSet(LAMBDA d : d.tco2e, digest)
    OBVIOUS
  <1>8. fresh \subseteq digest /\ \A d \in digest : d \in fresh <=> ~Entered(d.key)
    OBVIOUS
  <1> HIDE DEF batch, t, digest, size, fresh
  <1>9. ASSUME NEW k \in Keys
        PROVE  /\ rows'[k].st = IF \E d \in digest : d.key = k THEN "released" ELSE rows[k].st
               /\ rows'[k].tco2e = rows[k].tco2e /\ rows'[k].raw = rows[k].raw
               /\ rows'[k].category = rows[k].category
               /\ rows'[k].edited = rows[k].edited /\ rows'[k].reviewed = rows[k].reviewed
    <2>1. DOMAIN rows[k] = Fields
      BY DEF SyncInv, EInv, TableSound
    <2>2. CASE \E d \in digest : d.key = k
      <3>1. rows'[k] = [rows[k] EXCEPT !.st = "released"]
        BY <1>1, <2>2
      <3>2. QED
        BY <2>1, <2>2, <3>1 DEF Fields
    <2>3. CASE ~ \E d \in digest : d.key = k
      BY <1>1, <2>3
    <2>4. QED
      BY <2>2, <2>3
  <1>10. Staged' = Staged
    BY <1>3, <1>9 DEF Staged
  <1>11. \A k \in Keys : RowTyped(rows'[k])
    BY <1>9 DEF RowTyped, Status, SyncInv, TypedInv
  <1>12. \A e \in EntriesOf(fresh, id) : /\ e.batch = id /\ e.tco2e \in Int
                                        /\ \E d \in fresh : e.key = d.key /\ e.tco2e = d.tco2e
    BY <1>3, <1>8 DEF EntriesOf
  <1>13. \A e \in ledger' : e.key \in Keys /\ e.tco2e \in Int
    BY <1>1, <1>3, <1>8, <1>12 DEF SyncInv, TypedInv
  <1>14. IsFiniteSet(batches') /\ \A b \in batches' : b.id \in Nat /\ b.count \in Nat
    BY <1>1, <1>5, <1>6, <1>7, FS_AddElement DEF SyncInv, TypedInv
  <1>15. ASSUME Serial
         PROVE  /\ \A k \in Keys : rows'[k].st = "released" <=> \E e \in ledger' : e.key = k
                /\ \A e \in ledger' :
                     e.tco2e = rows'[e.key].tco2e /\ e.batch \in 1 .. Cardinality(batches')
                /\ \A b \in batches' : Balanced(ledger', b) /\ b.id \in 1 .. Cardinality(batches')
    <2>1. /\ \A k \in Keys : rows[k].st = "released" <=> Entered(k)
          /\ \A e \in ledger : e.tco2e = rows[e.key].tco2e /\ e.batch \in 1 .. size
          /\ \A b \in batches : Balanced(ledger, b) /\ b.id \in 1 .. size
      BY <1>15 DEF SyncInv, SerialInv, size
    <2>2. fresh = digest
      BY <1>3, <1>4, <1>8, <1>15, <2>1 DEF Releasable
    <2>3. batch \notin batches /\ Cardinality(batches') = size + 1
      <3>1. batch \notin batches
        BY <1>5, <1>7, <2>1
      <3>2. QED
        BY <1>1, <1>5, <3>1, FS_AddElement DEF size
    <2>4. ASSUME NEW k \in Keys
          PROVE  rows'[k].st = "released" <=> \E e \in ledger' : e.key = k
      <3>1. (\E e \in EntriesOf(digest, id) : e.key = k) <=> \E d \in digest : d.key = k
        <4>1. ASSUME NEW d \in digest, d.key = k
              PROVE  \E e \in EntriesOf(digest, id) : e.key = k
          <5> DEFINE e == [key |-> d.key, tco2e |-> d.tco2e, batch |-> id]
          <5>1. e \in EntriesOf(digest, id) /\ e.key = k
            BY <4>1 DEF EntriesOf
          <5> HIDE DEF e
          <5>2. QED
            BY <5>1
        <4>2. QED
          BY <1>12, <2>2, <4>1
      <3>2. QED
        BY <1>1, <1>9, <2>1, <2>2, <3>1 DEF Entered
    <2>5. ASSUME NEW e \in ledger'
          PROVE  e.tco2e = rows'[e.key].tco2e /\ e.batch \in 1 .. Cardinality(batches')
      <3>1. e.key \in Keys
        BY <1>13
      <3>2. CASE e \in ledger
        BY <1>5, <1>9, <2>1, <2>3, <3>1, <3>2
      <3>3. CASE e \in EntriesOf(fresh, id)
        <4>1. e.batch = id /\ e.tco2e = rows[e.key].tco2e
          BY <1>4, <1>8, <1>12, <1>15, <3>3
        <4>2. QED
          BY <1>5, <1>9, <2>3, <3>1, <4>1
      <3>4. QED
        BY <1>1, <3>2, <3>3
    <2>6. Own(ledger', id) = EntriesOf(digest, id)
      BY <1>1, <1>5, <1>12, <2>1, <2>2 DEF Own
    <2>7. ASSUME NEW b \in batches
          PROVE  Own(ledger', b.id) = Own(ledger, b.id)
      <3>1. b.id # id
        BY <1>5, <2>1
      <3>2. QED
        BY <1>1, <1>12, <3>1 DEF Own
    <2>8. Balanced(ledger', batch)
      <3>1. /\ Cardinality(EntriesOf(digest, id)) = Cardinality(digest)
            /\ Figures(EntriesOf(digest, id)) = Figures(digest)
        BY <1>3, EntriesAddUp
      <3>2. QED
        BY <1>7, <2>6, <3>1 DEF Balanced, Figures
    <2>9. ASSUME NEW b \in batches'
          PROVE  Balanced(ledger', b) /\ b.id \in 1 .. Cardinality(batches')
      <3>1. CASE b \in batches
        <4>1. Balanced(ledger', b)
          BY <2>1, <2>7, <3>1 DEF Balanced
        <4>2. QED
          BY <1>5, <2>1, <2>3, <3>1, <4>1
      <3>2. CASE b = batch
        BY <1>5, <1>7, <2>3, <2>8, <3>2
      <3>3. QED
        BY <1>1, <3>1, <3>2
    <2>10. QED
      BY <2>4, <2>5, <2>9
  <1>16. ASSUME Serial, ~world.crash
         PROVE  /\ reported' \subseteq Staged' /\ store' \subseteq Staged'
                /\ \A k \in Staged' \ store' : Held(Entry(rows'[k].raw))
    <2>1. \A r \in Sessions : txn[r].op # "stage"
      BY <1>1, <1>2, <1>16, OthersIdle DEF SyncInv, Idle, t
    <2>2. store \subseteq Staged /\ reported \subseteq Staged
      BY <1>16, <2>1 DEF SyncInv, ImportInv
    <2>3. \A k \in Staged : rows'[k].raw = rows[k].raw
      BY <1>9 DEF Staged
    <2>4. QED
      BY <1>1, <1>10, <1>16, <2>2, <2>3 DEF SyncInv, ImportInv
  <1>17. QED
    <2>1. /\ store' \subseteq Keys /\ reported' \subseteq Keys /\ IsFiniteSet(Staged')
      BY <1>1, <1>10 DEF SyncInv, TypedInv
    <2>2. QED
      BY <1>1, <1>2, <1>11, <1>13, <1>14, <1>15, <1>16, <2>1, DoneStep

-----------------------------------------------------------------------------
LEMMA SyncDrop ==
  ASSUME SyncInv, EInv', NEW s \in Sessions, AnsweredBefore(s) \/ Abort(s)
  PROVE  SyncInv'
  <1>1. /\ txn' = [txn EXCEPT ![s] = Idle] /\ txn[s] # Idle
        /\ txn[s].op = "stage" => world.crash
        /\ UNCHANGED <<world, store, rows, ledger, batches, reported>>
    BY DEF AnsweredBefore, Abort, Idle
  <1>2. s \in world.sessions
    BY <1>1 DEF SyncInv, TypedInv
  <1>3. txn'[s] = Idle
    BY <1>1 DEF SyncInv, EInv
  <1>4. QED
    BY <1>1, <1>2, <1>3, IdleHolds, HoldStep

LEMMA SyncStep ==
  ASSUME SyncInv, [Next]_vars
  PROVE  SyncInv'
  <1>1. EInv'
    BY EInvStep DEF SyncInv
  <1>2. CASE UNCHANGED vars
    <2>1. Staged' = Staged /\ Serial' = Serial /\ \A k \in Keys : Entered(k)' = Entered(k)
      BY <1>2 DEF vars, Staged, Serial, Entered
    <2>2. TypedInv' <=> TypedInv
      BY <1>2, <2>1 DEF vars, TypedInv
    <2>3. SerialInv => SerialInv'
      BY <1>2, <2>1 DEF vars, SerialInv
    <2>4. ImportInv => ImportInv'
      BY <1>2, <2>1 DEF vars, ImportInv
    <2>5. QED
      BY <1>1, <1>2, <2>1, <2>2, <2>3, <2>4 DEF vars, SyncInv
  <1>3. QED
    BY <1>1, <1>2, SyncImport, SyncPersist, SyncStage, SyncReview, SyncDecide,
       SyncReleaseBegins, SyncRelease, SyncDrop DEF Next

LEMMA SyncInit ==
  ASSUME Init
  PROVE  SyncInv
  <1>1. EInv
    BY EInvInit
  <1>2. \A k \in Keys : rows[k] = NoRow
    BY DEF Init
  <1>3. Staged = {}
    BY <1>2 DEF Staged, NoRow
  <1>4. RowTyped(NoRow)
    BY DEF RowTyped, NoRow, Status
  <1>5. TypedInv
    BY <1>2, <1>3, <1>4, IdleHolds, FS_EmptySet DEF Init, TypedInv
  <1>6. SerialInv
    BY <1>2, IdleHolds DEF Init, SerialInv, Entered, NoRow
  <1>7. ImportInv
    BY <1>3, IdleHolds DEF Init, ImportInv
  <1>8. QED
    BY <1>1, <1>5, <1>6, <1>7 DEF SyncInv

LEMMA SyncAlways == Spec => []SyncInv
  BY SyncInit, SyncStep, PTL DEF Spec

\* Whatever requests overlap and wherever an import crashes, every variable
\* has its type, the figure of a line included (tco2e, Entry, the re-mapping).
THEOREM ChannelTyped == Spec => []TypeOK
  <1>1. SyncInv => TypeOK
    <2>1. DOMAIN NoRow = Fields
      BY DEF NoRow, Fields
    <2>2. QED
      BY <2>1 DEF SyncInv, EInv, TableSound, TypedInv, RowTyped, TypeOK
  <1>2. QED
    BY <1>1, SyncAlways, PTL

\* While requests do not overlap, the ledger, the batches and the rows tell one
\* story: a row is released exactly when the ledger has it, with its figure;
\* a batch counts and totals its own entries; the reviewer's leaf says what
\* became of the row, and no re-mapping is assumed to name a mapped category.
THEOREM LedgerStaysTrue == Spec => []LedgerAgrees
  <1>1. ASSUME SyncInv, Serial, NEW k \in Staged
        PROVE  LET leaf == Leaf(rows[k].st, rows[k].category) IN
               /\ leaf = "never_posts" => ~Entered(k)
               /\ leaf = "posted" => Entered(k)
               /\ leaf = "posts_no_figure" /\ rows[k].edited = None =>
                    \A e \in ledger : e.key = k => e.tco2e = 0
    <2>1. k \in Keys /\ rows[k].st # "absent" /\ RowTyped(rows[k])
      BY <1>1 DEF Staged, SyncInv, TypedInv
    <2>2. /\ rows[k].st = "released" <=> Entered(k)
          /\ \A e \in ledger : e.key = k => e.tco2e = rows[k].tco2e
      BY <1>1, <2>1 DEF SyncInv, SerialInv
    <2>3. CASE rows[k].category = "UNMAPPED"
      BY <2>1, <2>2, <2>3 DEF Leaf, RowTyped
    <2>4. CASE rows[k].category # "UNMAPPED"
      BY <2>1, <2>2, <2>4 DEF Leaf, RowTyped, Status
    <2>5. QED
      BY <2>3, <2>4
  <1>2. ASSUME SyncInv, Serial
        PROVE  /\ \A k \in Keys : rows[k].st = "released" <=> Entered(k)
               /\ \A e \in ledger : e.tco2e = rows[e.key].tco2e
               /\ \A b \in batches :
                    LET own == {e \in ledger : e.batch = b.id} IN
                    /\ b.count = Cardinality(own)
                    /\ b.total = MapThenSumSet(LAMBDA e : e.tco2e, own)
    BY <1>2 DEF SyncInv, SerialInv, Balanced, Own
  <1>3. SyncInv => LedgerAgrees
    BY <1>1, <1>2 DEF LedgerAgrees
  <1>4. QED
    BY <1>3, SyncAlways, PTL

\* Between imports that neither overlap nor crash, a committed key is staged, a
\* line of an imported file is staged, and a staged line that the store does
\* not know was held back (run_import, Store.commit, PgStagingStore.stage).
THEOREM ImportsAccounted == Spec => []ImportAccounts
  <1>1. SyncInv => ImportAccounts
    BY DEF SyncInv, ImportInv, ImportAccounts
  <1>2. QED
    BY <1>1, SyncAlways, PTL
=============================================================================
