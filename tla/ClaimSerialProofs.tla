-------------------------- MODULE ClaimSerialProofs --------------------------
(***************************************************************************)
(* What holds of ClaimLifecycle when requests on the claim do not overlap, *)
(* for every set of users, lines and pages and every policy.  A request    *)
(* that reads without the lock is two steps even so; the invariant says    *)
(* of its pending write that it will leave a sound claim.                  *)
(***************************************************************************)
EXTENDS ClaimLifecycleProofs

\* At most one request is in progress.
Serial == \A s, t \in Sessions : s = t

-----------------------------------------------------------------------------
(* A sound claim: the row c, its lines ls, the intakes hold. *)

Clean(ls) == \A l \in Lines : ls[l].st = "absent" => ls[l] = NoLine

Payout(ls) == Approved(ls) \cap OutOfPocket(ls)

Added(c, ls) ==
  /\ c.claimed = Total(ls, Present(ls))
  /\ c.status \in Signed \cup Left => c.reimb = Total(ls, Payout(ls))

Decided(c, ls) ==
  /\ c.status = "none" => Present(ls) = {}
  /\ c.status \in Open \cup Signed \cup Left => \E l \in Present(ls) : TRUE
  /\ c.status = "approved" => \A l \in Present(ls) : ls[l].st = "approved"
  /\ c.status = "partially_approved" => \E l \in Present(ls) : ls[l].st = "rejected"
  /\ c.status \in {"partially_approved"} \cup Left =>
       /\ \A l \in Present(ls) : ls[l].st \in {"approved", "rejected"}
       /\ \E l \in Present(ls) : ls[l].st = "approved"
  /\ c.status = "rejected" => \A l \in Present(ls) : ls[l].st = "rejected"

Sound(c, ls) == Clean(ls) /\ Added(c, ls) /\ Decided(c, ls)

\* Of the line old, what a signature covers is what it is on the line new.
SameSigned(old, new) ==
  new = [old EXCEPT !.base = new.base, !.gl = new.gl, !.centre = new.centre]

\* A claim d that is signed was signed as c, by the same user, for the same lines.
Amends(c, d, ls, ms) ==
  d.status \in Signed =>
    /\ c.status \in Signed
    /\ d.approved_by = c.approved_by
    /\ \A l \in Lines : SameSigned(ls[l], ms[l])

Gated(c, ls) ==
  c.status \in Left =>
    /\ c.attested \/ Payout(ls) = {}
    /\ RequireCoding => \A l \in Approved(ls) : PostingReady(c, ls[l])

OnLine(p, ls) == \E l \in Present(ls) : p \in ls[l].pages

Held(p, hold) == \E d \in hold : p \in d.pages

\* No page is in two places, and either no page has been captured or all have.
Placed(ls, hold) ==
  /\ \A l, m \in Present(ls) : l # m => ls[l].pages \cap ls[m].pages = {}
  /\ \A d, e \in hold : d # e => d.pages \cap e.pages = {}
  /\ \A l \in Present(ls), d \in hold : ls[l].pages \cap d.pages = {}
  /\ \/ \A p \in Pages : OnLine(p, ls) \/ Held(p, hold)
     \/ \A p \in Pages : ~OnLine(p, ls) /\ ~Held(p, hold)

\* Nothing is forwarded before release; afterwards the forwarded lines are the
\* relevant ones, and so are the reversed ones, unless nothing is reversed.
Forwards(c, ls, hs) ==
  /\ c.status \notin Left => hs = {}
  /\ c.status \in Left =>
       /\ \A h \in hs : h.line \in Relevant(ls) /\ h.base = ls[h.line].base
       /\ \A l \in Relevant(ls) : [line |-> l, dir |-> "forward", base |-> ls[l].base] \in hs
       /\ \/ \A h \in hs : h.dir # "reversal"
          \/ \A l \in Relevant(ls) : [line |-> l, dir |-> "reversal", base |-> ls[l].base] \in hs

-----------------------------------------------------------------------------
(* What a pending transaction t will leave. *)

AfterLines(ls, t) ==
  [l \in Lines |-> IF t.sql[l] = "delete" THEN NoLine ELSE FlushLine(ls[l], t.rows[l])]

AfterClaim(c, ls, t) ==
  [FlushClaim(c, t.header) EXCEPT !.declared = @ \cap Present(AfterLines(ls, t))]

Pending(t, c, ls, hold) ==
  /\ t.op \in Unlocked =>
       /\ c.status \in Open \cup Signed
       /\ AfterClaim(c, ls, t).status \notin Left
       /\ Sound(AfterClaim(c, ls, t), AfterLines(ls, t))
       /\ Amends(c, AfterClaim(c, ls, t), ls, AfterLines(ls, t))
       /\ Placed(AfterLines(ls, t), hold)
  /\ t.op = "attach" => t.intake \in hold

SerialInv ==
  /\ Sound(claim, lines)
  /\ Gated(claim, lines)
  /\ Placed(lines, holding)
  /\ Forwards(claim, lines, handoffs)
  /\ payments # <<>> => claim.status = "paid"
  /\ \A s \in Sessions : Pending(txn[s], claim, lines, holding)

-----------------------------------------------------------------------------
(* Sums and writes. *)

\* A sum depends on the amounts alone.
LEMMA TotalSame ==
  ASSUME NEW ls, NEW ms, NEW S, \A l \in S : ls[l].base = ms[l].base
  PROVE  Total(ls, S) = Total(ms, S)
  <1> DEFINE A == {u \in S \X (1 .. MaxBase) : ls[u[1]].base # NoBase /\ u[2] <= ls[u[1]].base}
             B == {u \in S \X (1 .. MaxBase) : ms[u[1]].base # NoBase /\ u[2] <= ms[u[1]].base}
  <1>1. A = B
    OBVIOUS
  <1>2. QED
    BY <1>1 DEF Total

\* What a roll-up writes.
LEMMA RolledFields ==
  ASSUME NEW c \in Claim, NEW ls
  PROVE  /\ Rolled(c, ls).claimed = Total(ls, Present(ls))
         /\ Rolled(c, ls).reimb = Total(ls, Payout(ls))
         /\ Rolled(c, ls).attested = c.attested
         /\ Rolled(c, ls).costed = c.costed
         /\ Rolled(c, ls).declared = c.declared
  BY DEF Rolled, Claim, Payout

\* Reading rows, meaning to make them others and writing the difference to the
\* same rows makes them those others.
LEMMA LineBack ==
  ASSUME NEW old \in Line, NEW new \in Line
  PROVE  FlushLine(old, LineUpdate(old, new)) = new
  <1>1. /\ Kept \notin LineStatus /\ Kept \notin BOOLEAN /\ Kept \notin Categories
        /\ Kept \notin Base /\ Kept \notin SUBSET Pages
    <2>1. Base \subseteq Nat \cup {NoBase}
      BY ConstantsAssumption DEF Base
    <2>2. QED
      BY <2>1, ConstantsAssumption
  <1>2. ASSUME NEW a, NEW b, b # Kept PROVE Column(a, Dirty(a, b)) = b
    BY <1>2 DEF Column, Dirty
  <1> DEFINE f == FlushLine(old, LineUpdate(old, new))
  <1>3. /\ new.st # Kept /\ new.base # Kept /\ new.oop # Kept /\ new.category # Kept
        /\ new.gl # Kept /\ new.centre # Kept /\ new.pages # Kept
    BY <1>1 DEF Line
  <1>4. /\ f.st = new.st /\ f.base = new.base /\ f.oop = new.oop
        /\ f.category = new.category /\ f.gl = new.gl /\ f.centre = new.centre
        /\ f.pages = new.pages
    BY <1>2, <1>3 DEF FlushLine, LineUpdate
  <1>5. f \in Line
    BY FlushLineType, LineUpdateType
  <1>6. QED
    BY <1>4, <1>5 DEF Line

LEMMA ClaimBack ==
  ASSUME NEW old \in Claim, NEW new \in Claim, new.created_by = old.created_by
  PROVE  FlushClaim(old, ClaimUpdate(old, new)) = new
  <1>1. /\ Kept \notin Status /\ Kept \notin Users \cup {None} /\ Kept \notin BOOLEAN
        /\ Kept \notin Nat /\ Kept \notin SUBSET Lines
    BY ConstantsAssumption
  <1>2. ASSUME NEW a, NEW b, b # Kept PROVE Column(a, Dirty(a, b)) = b
    BY <1>2 DEF Column, Dirty
  <1> DEFINE f == FlushClaim(old, ClaimUpdate(old, new))
  <1>3. /\ new.status # Kept /\ new.approved_by # Kept /\ new.attested # Kept
        /\ new.declared # Kept /\ new.costed # Kept /\ new.claimed # Kept /\ new.reimb # Kept
    BY <1>1 DEF Claim
  <1>4. /\ f.status = new.status /\ f.created_by = new.created_by
        /\ f.approved_by = new.approved_by /\ f.attested = new.attested
        /\ f.declared = new.declared /\ f.costed = new.costed
        /\ f.claimed = new.claimed /\ f.reimb = new.reimb
    BY <1>2, <1>3 DEF FlushClaim, ClaimUpdate
  <1>5. f \in Claim
    BY FlushClaimType, ClaimUpdateType
  <1>6. QED
    BY <1>4, <1>5 DEF Claim

-----------------------------------------------------------------------------
(* Soundness of rows. *)

\* An open claim is sound when its total is right and it has a line.
LEMMA SoundOpen ==
  ASSUME NEW c, NEW ls, c.status \in Open, Clean(ls),
         c.claimed = Total(ls, Present(ls)), NEW l \in Present(ls)
  PROVE  Sound(c, ls) /\ c.status \notin Left \cup Signed
  BY DEF Sound, Added, Decided, Open, Signed, Left

\* The columns of the header that soundness reads.
LEMMA SoundHeader ==
  ASSUME NEW c, NEW d, NEW ls, Sound(c, ls), d.status = c.status, d.claimed = c.claimed,
         d.reimb = c.reimb, d.approved_by = c.approved_by
  PROVE  Sound(d, ls)
  BY DEF Sound, Added, Decided

LEMMA PresentSame ==
  ASSUME NEW ls, NEW ms, \A l \in Lines : ls[l].st = ms[l].st
  PROVE  Present(ls) = Present(ms) /\ Approved(ls) = Approved(ms)
  BY DEF Present, Approved

LEMMA DecidedSame ==
  ASSUME NEW c, NEW d, NEW ls, NEW ms, c.status = d.status,
         \A l \in Lines : ls[l].st = ms[l].st, Decided(c, ls)
  PROVE  Decided(d, ms)
  BY DEF Decided, Present

\* Where lines and pages are the same, so is where they are placed.
LEMMA PlacedSame ==
  ASSUME NEW ls, NEW ms, NEW hold, Present(ls) = Present(ms),
         \A l \in Present(ls) : ls[l].pages = ms[l].pages, Placed(ls, hold)
  PROVE  Placed(ms, hold)
  <1>1. \A p : OnLine(p, ls) <=> OnLine(p, ms)
    BY DEF OnLine
  <1>2. QED
    BY <1>1 DEF Placed

LEMMA WithStatusRows ==
  ASSUME NEW ls \in Rows, NEW st \in LineStatus \ {"absent"}, Clean(ls)
  PROVE  /\ WithStatus(ls, st) \in Rows
         /\ Clean(WithStatus(ls, st))
         /\ Present(WithStatus(ls, st)) = Present(ls)
         /\ \A l \in Present(ls) : /\ WithStatus(ls, st)[l].st = st
                                   /\ WithStatus(ls, st)[l].base = ls[l].base
                                   /\ WithStatus(ls, st)[l].oop = ls[l].oop
                                   /\ WithStatus(ls, st)[l].pages = ls[l].pages
         /\ Total(WithStatus(ls, st), Present(ls)) = Total(ls, Present(ls))
  <1> DEFINE ms == WithStatus(ls, st)
  <1>1. ms \in Rows
    BY WithStatusType
  <1>2. \A l \in Present(ls) : ms[l] = [ls[l] EXCEPT !.st = st]
    BY DEF WithStatus, Present
  <1>3. \A l \in Lines \ Present(ls) : ms[l] = ls[l]
    BY DEF WithStatus
  <1>4. \A l \in Present(ls) : /\ ms[l].st = st /\ ms[l].base = ls[l].base /\ ms[l].oop = ls[l].oop
                               /\ ms[l].pages = ls[l].pages
    <2>1. \A l \in Present(ls) : ls[l] \in Line
      BY DEF Rows, Present
    <2> HIDE DEF ms
    <2>2. QED
      BY <1>2, <2>1 DEF Line
  <1>5. Present(ms) = Present(ls)
    BY <1>3, <1>4 DEF Present
  <1>6. Clean(ms)
    BY <1>3, <1>4 DEF Clean, Present
  <1>7. Total(ms, Present(ls)) = Total(ls, Present(ls))
    BY <1>4, TotalSame
  <1>8. QED
    BY <1>1, <1>4, <1>5, <1>6, <1>7

-----------------------------------------------------------------------------
(* Beginning an unlocked request. *)

\* What a request that has read the rows may mean to make of them.
Meant(c, ls) ==
  /\ c.created_by = claim.created_by
  /\ claim.status \in Open \cup Signed
  /\ c.status \notin Left
  /\ Sound(c, ls)
  /\ Amends(claim, c, lines, ls)
  /\ Placed(ls, holding)

\* With one request at a time, nothing else is pending.
LEMMA OthersIdle ==
  ASSUME Serial, TypeOK', NEW s \in Sessions, Pending(txn'[s], claim', lines', holding')
  PROVE  \A r \in Sessions : Pending(txn'[r], claim', lines', holding')
  BY DEF Serial

LEMMA IdlePending ==
  ASSUME NEW c, NEW ls, NEW hold
  PROVE  Pending(Idle, c, ls, hold)
  BY DEF Pending, Idle, Unlocked

\* A request that means well leaves a pending write that will leave a sound claim.
LEMMA Begun ==
  ASSUME Serial, TypeOK, SerialInv, NEW s \in Sessions, NEW op \in Unlocked,
         NEW c \in Claim, NEW ls \in Rows, Start(s, op, c, ls), Meant(c, ls)
  PROVE  SerialInv'
  <1> DEFINE t == [op  |-> op, header |-> ClaimUpdate(claim, c),
                   sql |-> [l \in Lines |-> Statement(op, lines[l], ls[l])],
                   rows |-> [l \in Lines |-> LineUpdate(lines[l], ls[l])],
                   known |-> IF Present(ls) \subseteq Present(lines) THEN Lines ELSE Present(lines)]
  <1>1. txn' = [txn EXCEPT ![s] = t]
        /\ UNCHANGED <<claim, lines, holding, handoffs, batches, payments>>
    BY DEF Start
  <1>2. txn'[s] = t
    BY <1>1 DEF TypeOK
  <1>3. claim \in Claim /\ lines \in Rows
    BY DEF TypeOK, Rows
  <1>4. AfterLines(lines, t) = ls
    <2>1. Clean(ls)
      BY DEF Meant, Sound
    <2>2. ASSUME NEW l \in Lines
          PROVE  (IF t.sql[l] = "delete" THEN NoLine ELSE FlushLine(lines[l], t.rows[l])) = ls[l]
      <3>1. lines[l] \in Line /\ ls[l] \in Line
        BY <1>3 DEF Rows
      <3>2. t.sql[l] = Statement(op, lines[l], ls[l]) /\ t.rows[l] = LineUpdate(lines[l], ls[l])
        OBVIOUS
      <3>3. FlushLine(lines[l], t.rows[l]) = ls[l]
        BY <3>1, <3>2, LineBack
      <3>4. t.sql[l] = "delete" => ls[l].st = "absent"
        BY <3>2 DEF Statement
      <3>5. QED
        BY <2>1, <3>3, <3>4 DEF Clean
    <2>3. QED
      BY <2>2 DEF AfterLines, Rows
  <1>5. AfterClaim(claim, lines, t) = [c EXCEPT !.declared = @ \cap Present(ls)]
    <2>1. FlushClaim(claim, ClaimUpdate(claim, c)) = c
      BY <1>3, ClaimBack DEF Meant
    <2>2. t.header = ClaimUpdate(claim, c)
      OBVIOUS
    <2>3. QED
      BY <1>4, <2>1, <2>2 DEF AfterClaim
  <1> DEFINE a == AfterClaim(claim, lines, t)
  <1>6. /\ a.status = c.status /\ a.claimed = c.claimed /\ a.reimb = c.reimb
        /\ a.approved_by = c.approved_by
    BY <1>5 DEF Claim
  <1>7. Sound(a, ls) /\ Amends(claim, a, lines, ls)
    BY <1>6, SoundHeader DEF Meant, Amends
  <1>8. t.op # "attach"
    BY DEF Unlocked
  <1>9. Pending(t, claim, lines, holding)
    BY <1>4, <1>6, <1>7, <1>8 DEF Pending, Meant
  <1> HIDE DEF t
  <1>10. \A r \in Sessions : Pending(txn'[r], claim', lines', holding')
    BY <1>1, <1>2, <1>9 DEF Serial
  <1>11. QED
    BY <1>1, <1>10 DEF SerialInv

\* What a request begins is what it means.
Begins(s) ==
  \E op \in Unlocked, c \in Claim, ls \in Rows : Start(s, op, c, ls) /\ Meant(c, ls)

\* An edit leaves the decision and the pages of the line; an edit of the coding
\* leaves what a signature covers.
LEMMA EditedLine ==
  ASSUME NEW old \in Line, NEW kind \in AllKinds, NEW ln \in Edited(old, kind)
  PROVE  /\ ln \in Line
         /\ ln.st = old.st
         /\ ln.pages = old.pages
         /\ kind \in CodingKinds => SameSigned(old, ln)
  <1>1. CASE kind \in {"amount", "rate", "rerate"}
    <2>1. PICK b \in Base : ln = [old EXCEPT !.base = b]
      BY <1>1 DEF Edited, Line
    <2>2. QED
      BY <2>1 DEF Line, SameSigned
  <1>2. CASE kind = "method"
    BY <1>2 DEF Edited, Line, CodingKinds
  <1>3. CASE kind = "category"
    BY <1>3 DEF Edited, Line, CodingKinds
  <1>4. CASE kind \in {"gl", "centre"}
    BY <1>4 DEF Edited, Line, SameSigned
  <1>5. QED
    BY <1>1, <1>2, <1>3, <1>4 DEF AllKinds

LEMMA EditMeans ==
  ASSUME TypeOK, SerialInv, NEW s \in Sessions, NEW u \in Users, BeginEdit(s, u)
  PROVE  Begins(s)
  <1>1. PICK kind \in EditKinds, l \in Present(lines) :
          /\ claim.status \in Open \cup (IF kind \in CodingKinds THEN Signed ELSE {})
          /\ \E ln \in Edited(lines[l], kind) :
               Start(s, "edit", Rolled(claim, [lines EXCEPT ![l] = ln]), [lines EXCEPT ![l] = ln])
    BY DEF BeginEdit
  <1>2. PICK ln \in Edited(lines[l], kind) :
          Start(s, "edit", Rolled(claim, [lines EXCEPT ![l] = ln]), [lines EXCEPT ![l] = ln])
    BY <1>1
  <1>3. l \in Lines /\ lines[l] \in Line /\ lines[l].st # "absent" /\ kind \in AllKinds
        /\ claim \in Claim /\ lines \in Rows
    BY ConstantsAssumption DEF Present, TypeOK, Rows
  <1>4. /\ ln \in Line /\ ln.st = lines[l].st /\ ln.pages = lines[l].pages
        /\ kind \in CodingKinds => SameSigned(lines[l], ln)
    BY <1>3, EditedLine
  <1> DEFINE ls == [lines EXCEPT ![l] = ln]
             c  == Rolled(claim, ls)
  <1>5. ls \in Rows /\ ls[l] = ln /\ \A m \in Lines \ {l} : ls[m] = lines[m]
    BY <1>3, <1>4 DEF Rows
  <1>6. \A m \in Lines : ls[m].st = lines[m].st /\ ls[m].pages = lines[m].pages
    BY <1>4, <1>5
  <1>7. Start(s, "edit", c, ls)
    BY <1>2
  <1>8. c \in Claim /\ c.status = claim.status /\ c.created_by = claim.created_by
        /\ c.approved_by = claim.approved_by /\ c.claimed = Total(ls, Present(ls))
        /\ c.reimb = Total(ls, Payout(ls))
    BY <1>3, RolledType, RolledFields
  <1> HIDE DEF ls, c
  <1>9. Present(ls) = Present(lines)
    BY <1>6, PresentSame
  <1>10. Clean(ls)
    BY <1>3, <1>4, <1>5 DEF SerialInv, Sound, Clean
  <1>11. Decided(c, ls)
    BY <1>6, <1>8, DecidedSame DEF SerialInv, Sound
  <1>12. Amends(claim, c, lines, ls)
    <2> SUFFICES ASSUME claim.status \in Signed
                 PROVE  \A m \in Lines : SameSigned(lines[m], ls[m])
      BY <1>8 DEF Amends
    <2>1. SameSigned(lines[l], ls[l])
      BY <1>1, <1>4, <1>5 DEF Open, Signed
    <2>2. ASSUME NEW m \in Lines \ {l} PROVE SameSigned(lines[m], ls[m])
      <3>1. ls[m] = lines[m] /\ lines[m] \in Line
        BY <1>3, <1>5 DEF Rows
      <3>2. QED
        BY <3>1 DEF SameSigned, Line
    <2>3. QED
      BY <2>1, <2>2
  <1>13. Sound(c, ls)
    BY <1>8, <1>10, <1>11 DEF Sound, Added
  <1>14. Placed(ls, holding)
    BY <1>6, <1>9, PlacedSame DEF SerialInv, Present
  <1>15. claim.status \in Open \cup Signed /\ c.status \notin Left
    BY <1>1, <1>8 DEF Open, Signed, Left
  <1>16. Meant(c, ls)
    BY <1>8, <1>12, <1>13, <1>14, <1>15 DEF Meant
  <1>17. "edit" \in Unlocked
    BY DEF Unlocked
  <1>18. QED
    BY <1>5, <1>7, <1>8, <1>16, <1>17 DEF Begins

\* Requests that move the header alone within review.
LEMMA HeaderMeans ==
  ASSUME TypeOK, SerialInv, NEW s \in Sessions, NEW u \in Users,
         BeginEditHeader(s, u) \/ BeginResubmit(s, u)
  PROVE  Begins(s)
  <1>1. PICK op \in {"edit_header", "resubmit"}, st \in Open, costed \in BOOLEAN :
          Start(s, op, [claim EXCEPT !.status = st, !.costed = costed], lines)
          /\ claim.status \in Open
    <2>0. claim \in Claim
      BY DEF TypeOK
    <2>1. CASE BeginEditHeader(s, u)
      <3>1. PICK costed \in EventChoice : Start(s, "edit_header", [claim EXCEPT !.costed = costed], lines)
        BY <2>1 DEF BeginEditHeader
      <3>2. [claim EXCEPT !.costed = costed] = [claim EXCEPT !.status = claim.status, !.costed = costed]
        BY <2>0 DEF Claim
      <3>3. costed \in BOOLEAN
        BY ConstantsAssumption DEF EventChoice
      <3>4. claim.status \in Open
        BY <2>1 DEF BeginEditHeader
      <3>5. QED
        BY <3>1, <3>2, <3>3, <3>4
    <2>2. CASE BeginResubmit(s, u)
      <3>1. Start(s, "resubmit", [claim EXCEPT !.status = "in_review"], lines)
        BY <2>2 DEF BeginResubmit
      <3>2. [claim EXCEPT !.status = "in_review"]
              = [claim EXCEPT !.status = "in_review", !.costed = claim.costed]
        BY <2>0 DEF Claim
      <3>3. claim.status \in Open /\ "in_review" \in Open /\ claim.costed \in BOOLEAN
        BY <2>0, <2>2 DEF BeginResubmit, Open, Claim
      <3>4. QED
        BY <3>1, <3>2, <3>3
    <2>3. QED
      BY <2>1, <2>2
  <1> DEFINE c == [claim EXCEPT !.status = st, !.costed = costed]
  <1>2. claim \in Claim /\ lines \in Rows
    BY DEF TypeOK, Rows
  <1>3. c \in Claim /\ c.status \in Open /\ c.created_by = claim.created_by
        /\ c.claimed = claim.claimed
    BY <1>1, <1>2 DEF Claim, Open, Status
  <1> HIDE DEF c
  <1>4. PICK l \in Present(lines) : TRUE
    BY <1>1 DEF SerialInv, Sound, Decided
  <1>5. Clean(lines) /\ c.claimed = Total(lines, Present(lines))
    BY <1>3 DEF SerialInv, Sound, Added
  <1>6. Sound(c, lines) /\ c.status \notin Left \cup Signed
    BY <1>3, <1>4, <1>5, SoundOpen
  <1>7. Meant(c, lines)
    BY <1>1, <1>3, <1>6 DEF Meant, Amends, SerialInv
  <1>8. op \in Unlocked
    BY DEF Unlocked
  <1>9. Start(s, op, c, lines)
    BY <1>1 DEF c
  <1>10. QED
    BY <1>2, <1>3, <1>7, <1>8, <1>9 DEF Begins

\* A line without a page goes to an identity that no row has.
LEMMA AddMileageMeans ==
  ASSUME TypeOK, SerialInv, NEW s \in Sessions, NEW u \in Users, BeginAddMileage(s, u)
  PROVE  Begins(s)
  <1>1. PICK l \in Unused, b \in 1 .. MaxBase :
          Start(s, "add_mileage",
                Rolled([claim EXCEPT !.attested = TRUE,
                                     !.declared = Present([lines EXCEPT ![l] = Trip(b)])],
                       [lines EXCEPT ![l] = Trip(b)]),
                [lines EXCEPT ![l] = Trip(b)])
    BY DEF BeginAddMileage
  <1>2. claim \in Claim /\ lines \in Rows /\ claim.status \in Open
        /\ l \in Lines /\ l \notin Present(lines)
    BY DEF TypeOK, Rows, BeginAddMileage, Unused
  <1> DEFINE ls == [lines EXCEPT ![l] = Trip(b)]
             d  == [claim EXCEPT !.attested = TRUE, !.declared = Present(ls)]
             c  == Rolled(d, ls)
  <1>3. Trip(b) \in Line /\ Trip(b).st = "pending" /\ Trip(b).pages = {}
    BY NewLineTypes DEF Trip
  <1>4. ls \in Rows /\ ls[l] = Trip(b) /\ \A m \in Lines \ {l} : ls[m] = lines[m]
    BY <1>2, <1>3 DEF Rows
  <1>5. Present(ls) \in SUBSET Lines
    BY DEF Present
  <1>6. d \in Claim /\ d.status = claim.status /\ d.created_by = claim.created_by
    BY <1>2, <1>5 DEF Claim
  <1>7. Start(s, "add_mileage", c, ls)
    BY <1>1
  <1> HIDE DEF ls, d
  <1>8. c \in Claim /\ c.status = claim.status /\ c.created_by = claim.created_by
        /\ c.claimed = Total(ls, Present(ls))
    BY <1>6, RolledType, RolledFields
  <1> HIDE DEF c
  <1>9. Present(ls) = Present(lines) \cup {l}
    BY <1>2, <1>3, <1>4 DEF Present
  <1>10. Clean(ls)
    BY <1>3, <1>4 DEF SerialInv, Sound, Clean
  <1>11. Sound(c, ls) /\ c.status \notin Left \cup Signed
    BY <1>2, <1>8, <1>9, <1>10, SoundOpen
  <1>12. Placed(ls, holding)
    <2>1. \A m \in Present(lines) : ls[m].pages = lines[m].pages
      BY <1>2, <1>4 DEF Present
    <2>2. \A p : OnLine(p, ls) <=> OnLine(p, lines)
      BY <1>3, <1>4, <1>9, <2>1 DEF OnLine
    <2>3. QED
      BY <1>3, <1>4, <1>9, <2>1, <2>2 DEF Placed, SerialInv
  <1>13. Meant(c, ls)
    BY <1>2, <1>8, <1>11, <1>12 DEF Meant, Amends
  <1>14. "add_mileage" \in Unlocked
    BY DEF Unlocked
  <1>15. QED
    BY <1>4, <1>7, <1>8, <1>13, <1>14 DEF Begins

\* The survivor takes the pages of the lines that go.
LEMMA MergeMeans ==
  ASSUME TypeOK, SerialInv, NEW s \in Sessions, NEW u \in Users, BeginMerge(s, u)
  PROVE  Begins(s)
  <1>1. PICK M \in SUBSET {l \in Present(lines) : lines[l].pages # {}} : \E survivor \in M :
          LET ls == [l \in Lines |->
                       IF l = survivor
                         THEN [lines[l] EXCEPT !.pages = UNION {lines[m].pages : m \in M}]
                       ELSE IF l \in M THEN NoLine ELSE lines[l]]
          IN Start(s, "merge", Rolled(claim, ls), ls)
    BY DEF BeginMerge
  <1>2. PICK survivor \in M :
          LET ls == [l \in Lines |->
                       IF l = survivor
                         THEN [lines[l] EXCEPT !.pages = UNION {lines[m].pages : m \in M}]
                       ELSE IF l \in M THEN NoLine ELSE lines[l]]
          IN Start(s, "merge", Rolled(claim, ls), ls)
    BY <1>1
  <1> DEFINE all == UNION {lines[m].pages : m \in M}
             ls == [l \in Lines |->
                      IF l = survivor
                        THEN [lines[l] EXCEPT !.pages = UNION {lines[m].pages : m \in M}]
                      ELSE IF l \in M THEN NoLine ELSE lines[l]]
             c  == Rolled(claim, ls)
  <1>3. Start(s, "merge", c, ls)
    BY <1>2
  <1>4. claim \in Claim /\ lines \in Rows /\ claim.status \in Open
        /\ M \subseteq Present(lines) /\ survivor \in Present(lines) /\ survivor \in Lines
    BY DEF TypeOK, Rows, BeginMerge, Present
  <1>5. \A m \in Present(lines) : lines[m] \in Line /\ lines[m].st # "absent"
    BY <1>4 DEF Rows, Present
  <1>6. all \in SUBSET Pages
    <2>1. \A m \in M : lines[m].pages \in SUBSET Pages
      BY <1>4, <1>5 DEF Line
    <2>2. QED
      BY <2>1
  <1>7. /\ ls[survivor] = [lines[survivor] EXCEPT !.pages = all]
        /\ \A l \in M \ {survivor} : ls[l] = NoLine
        /\ \A l \in Lines \ M : ls[l] = lines[l]
    BY <1>4 DEF Present
  <1>8. /\ ls[survivor] \in Line /\ ls[survivor].pages = all
        /\ ls[survivor].st = lines[survivor].st
    BY <1>4, <1>5, <1>6, <1>7 DEF Line
  <1>9. ls \in Rows
    <2>1. \A l \in Lines : ls[l] \in Line
      BY <1>4, <1>7, <1>8, NoLineType DEF Rows
    <2>2. QED
      BY <2>1 DEF Rows
  <1>10. c \in Claim /\ c.status = claim.status /\ c.created_by = claim.created_by
         /\ c.claimed = Total(ls, Present(ls))
    BY <1>4, RolledType, RolledFields
  <1> HIDE DEF ls, c
  <1>11. NoLine.st = "absent"
    BY DEF NoLine
  <1>12. Present(ls) = (Present(lines) \ M) \cup {survivor}
    BY <1>4, <1>5, <1>7, <1>8, <1>11 DEF Present
  <1>13. Clean(ls)
    BY <1>4, <1>5, <1>7, <1>8 DEF SerialInv, Sound, Clean
  <1>14. Sound(c, ls) /\ c.status \notin Left \cup Signed
    BY <1>4, <1>10, <1>12, <1>13, SoundOpen
  <1>15. Placed(ls, holding)
    <2>1. Placed(lines, holding)
      BY DEF SerialInv
    <2>2. \A m \in Present(lines) \ M : ls[m].pages = lines[m].pages
      BY <1>7 DEF Present
    <2>3. \A p : p \in all <=> \E m \in M : p \in lines[m].pages
      OBVIOUS
    <2> HIDE DEF all
    <2>4. \A p : OnLine(p, ls) <=> OnLine(p, lines)
      <3>1. ASSUME NEW p, OnLine(p, ls) PROVE OnLine(p, lines)
        BY <1>4, <1>8, <1>12, <2>2, <2>3, <3>1 DEF OnLine
      <3>2. ASSUME NEW p, OnLine(p, lines) PROVE OnLine(p, ls)
        <4>1. PICK m \in Present(lines) : p \in lines[m].pages
          BY <3>2 DEF OnLine
        <4>2. CASE m \in M
          BY <1>8, <1>12, <2>3, <4>1, <4>2 DEF OnLine
        <4>3. CASE m \notin M
          BY <1>12, <2>2, <4>1, <4>3 DEF OnLine
        <4>4. QED
          BY <4>2, <4>3
      <3>3. QED
        BY <3>1, <3>2
    <2>5. ASSUME NEW l \in Present(ls), NEW m \in Present(ls), l # m
          PROVE  ls[l].pages \cap ls[m].pages = {}
      <3>1. ASSUME NEW k \in Present(lines) \ M
            PROVE  all \cap lines[k].pages = {}
        BY <1>4, <2>1, <2>3, <3>1 DEF Placed
      <3>2. QED
        BY <1>8, <1>12, <2>1, <2>2, <2>5, <3>1 DEF Placed
    <2>6. ASSUME NEW l \in Present(ls), NEW d \in holding
          PROVE  ls[l].pages \cap d.pages = {}
      <3>1. all \cap d.pages = {}
        BY <1>4, <2>1, <2>3 DEF Placed
      <3>2. QED
        BY <1>8, <1>12, <2>1, <2>2, <3>1 DEF Placed
    <2>7. QED
      BY <2>1, <2>4, <2>5, <2>6 DEF Placed
  <1>16. Meant(c, ls)
    BY <1>4, <1>10, <1>14, <1>15 DEF Meant, Amends
  <1>17. "merge" \in Unlocked
    BY DEF Unlocked
  <1>18. QED
    BY <1>3, <1>9, <1>10, <1>16, <1>17 DEF Begins

\* Every page of a line but the first moves to a line of its own.
LEMMA SplitMeans ==
  ASSUME TypeOK, SerialInv, NEW s \in Sessions, NEW u \in Users, BeginSplit(s, u)
  PROVE  Begins(s)
  <1>1. PICK l \in Present(lines) : \E first \in lines[l].pages :
        \E slot \in [lines[l].pages \ {first} -> Unused] :
          LET rest == lines[l].pages \ {first}
              ls == [m \in Lines |->
                       IF m = l THEN [lines[l] EXCEPT !.pages = {first}]
                       ELSE IF m \in Range(slot)
                         THEN SplitOff(lines[l], CHOOSE p \in rest : slot[p] = m)
                       ELSE lines[m]]
          IN /\ \A p, q \in rest : slot[p] = slot[q] => p = q
             /\ Start(s, "split", Rolled(claim, ls), ls)
    BY DEF BeginSplit
  <1>2. PICK first \in lines[l].pages : \E slot \in [lines[l].pages \ {first} -> Unused] :
          LET rest == lines[l].pages \ {first}
              ls == [m \in Lines |->
                       IF m = l THEN [lines[l] EXCEPT !.pages = {first}]
                       ELSE IF m \in Range(slot)
                         THEN SplitOff(lines[l], CHOOSE p \in rest : slot[p] = m)
                       ELSE lines[m]]
          IN /\ \A p, q \in rest : slot[p] = slot[q] => p = q
             /\ Start(s, "split", Rolled(claim, ls), ls)
    BY <1>1
  <1> DEFINE rest == lines[l].pages \ {first}
             split(slot) == [m \in Lines |->
                       IF m = l THEN [lines[l] EXCEPT !.pages = {first}]
                       ELSE IF m \in Range(slot)
                         THEN SplitOff(lines[l], CHOOSE p \in rest : slot[p] = m)
                       ELSE lines[m]]
  <1>3. PICK slot \in [rest -> Unused] :
          /\ \A p, q \in rest : slot[p] = slot[q] => p = q
          /\ Start(s, "split", Rolled(claim, split(slot)), split(slot))
    BY <1>2
  <1> DEFINE ls == split(slot)
             c  == Rolled(claim, ls)
  <1>4. /\ claim \in Claim /\ lines \in Rows /\ claim.status \in Open
        /\ l \in Lines /\ lines[l] \in Line /\ lines[l].st # "absent"
        /\ lines[l].pages \in SUBSET Pages
        /\ \A p \in rest : slot[p] \in Lines /\ slot[p] \notin Present(lines)
    BY DEF TypeOK, Rows, BeginSplit, Present, Unused, Line
  <1>5. \A m : m \in Range(slot) <=> \E p \in rest : slot[p] = m
    BY DEF Range
  <1>6. \A p \in rest : (CHOOSE q \in rest : slot[q] = slot[p]) = p
    BY <1>3
  <1>7. ASSUME NEW p \in rest
        PROVE  /\ SplitOff(lines[l], p) \in Line
               /\ SplitOff(lines[l], p).st = "pending"
               /\ SplitOff(lines[l], p).pages = {p}
    BY <1>4, ConstantsAssumption DEF SplitOff, Line, LineStatus, Base
  <1>8. /\ ls[l] = [lines[l] EXCEPT !.pages = {first}]
        /\ \A p \in rest : ls[slot[p]] = SplitOff(lines[l], p)
        /\ \A m \in Lines : m # l /\ (\A p \in rest : slot[p] # m) => ls[m] = lines[m]
    <2>1. ls[l] = [lines[l] EXCEPT !.pages = {first}]
      BY <1>4
    <2>2. ASSUME NEW p \in rest PROVE ls[slot[p]] = SplitOff(lines[l], p)
      <3>1. slot[p] \in Lines /\ slot[p] # l /\ slot[p] \in Range(slot)
        BY <1>4, <1>5
      <3>2. ls[slot[p]] = SplitOff(lines[l], CHOOSE q \in rest : slot[q] = slot[p])
        BY <3>1
      <3>3. QED
        BY <1>6, <3>2
    <2>3. ASSUME NEW m \in Lines, m # l, \A p \in rest : slot[p] # m
          PROVE  ls[m] = lines[m]
      BY <1>5, <2>3
    <2>4. QED
      BY <2>1, <2>2, <2>3
  <1>9. /\ ls[l] \in Line /\ ls[l].st = lines[l].st /\ ls[l].pages = {first}
    BY <1>4, <1>8 DEF Line
  <1>10. ls \in Rows
    <2>1. ASSUME NEW m \in Lines PROVE ls[m] \in Line
      <3> HIDE DEF ls
      <3>1. CASE \E p \in rest : slot[p] = m
        BY <1>7, <1>8, <3>1
      <3>2. CASE m # l /\ \A p \in rest : slot[p] # m
        BY <1>4, <1>8, <3>2 DEF Rows
      <3>3. QED
        BY <1>9, <3>1, <3>2
    <2>2. QED
      BY <2>1 DEF Rows
  <1>11. c \in Claim /\ c.status = claim.status /\ c.created_by = claim.created_by
         /\ c.claimed = Total(ls, Present(ls))
    BY <1>4, RolledType, RolledFields
  <1>12. Start(s, "split", c, ls)
    BY <1>3
  <1> HIDE DEF ls, c
  <1>13. \A m : m \in Present(ls) <=> m \in Present(lines) \/ \E p \in rest : slot[p] = m
    <2>1. ASSUME NEW m \in Lines
          PROVE  m \in Present(ls) <=> m \in Present(lines) \/ \E p \in rest : slot[p] = m
      <3>1. CASE \E p \in rest : slot[p] = m
        BY <1>7, <1>8, <3>1 DEF Present
      <3>2. CASE m # l /\ \A p \in rest : slot[p] # m
        BY <1>8, <3>2 DEF Present
      <3>3. QED
        BY <1>4, <1>9, <3>1, <3>2 DEF Present
    <2>2. QED
      BY <1>4, <2>1 DEF Present
  <1>14. Clean(ls)
    <2>1. ASSUME NEW m \in Lines, ls[m].st = "absent" PROVE ls[m] = NoLine
      <3>1. m # l /\ \A p \in rest : slot[p] # m
        BY <1>4, <1>7, <1>8, <1>9, <2>1
      <3>2. QED
        BY <1>8, <2>1, <3>1 DEF SerialInv, Sound, Clean
    <2>2. QED
      BY <2>1 DEF Clean
  <1>15. Sound(c, ls) /\ c.status \notin Left \cup Signed
    <2>1. l \in Present(ls)
      BY <1>13
    <2>2. QED
      BY <1>4, <1>11, <1>14, <2>1, SoundOpen
  <1>16. Placed(ls, holding)
    <2>1. Placed(lines, holding)
      BY DEF SerialInv
    <2>2. ASSUME NEW m \in Present(ls)
          PROVE  \/ m = l /\ ls[m].pages = {first}
                 \/ \E p \in rest : m = slot[p] /\ ls[m].pages = {p}
                 \/ m \in Present(lines) \ {l} /\ ls[m].pages = lines[m].pages
      <3>1. CASE \E p \in rest : slot[p] = m
        BY <1>7, <1>8, <3>1
      <3>2. CASE m # l /\ \A p \in rest : slot[p] # m
        BY <1>8, <1>13, <3>2 DEF Present
      <3>3. QED
        BY <1>9, <3>1, <3>2
    <2>3. \A p \in rest : slot[p] \in Present(ls) /\ ls[slot[p]].pages = {p}
      BY <1>7, <1>8, <1>13
    <2>4. \A m \in Present(lines) \ {l} : m \in Present(ls) /\ ls[m].pages = lines[m].pages
      <3>1. \A m \in Present(lines) : m \in Lines /\ \A p \in rest : slot[p] # m
        BY <1>4 DEF Present
      <3>2. QED
        BY <1>8, <1>13, <3>1
    <2>5. l \in Present(ls) /\ first \in lines[l].pages
      BY <1>13
    <2>6. \A p : p \in rest <=> p \in lines[l].pages /\ p # first
      OBVIOUS
    <2> HIDE DEF rest
    <2>7. \A p : OnLine(p, ls) <=> OnLine(p, lines)
      <3>1. ASSUME NEW p, OnLine(p, ls) PROVE OnLine(p, lines)
        BY <2>2, <2>5, <2>6, <3>1 DEF OnLine
      <3>2. ASSUME NEW p, OnLine(p, lines) PROVE OnLine(p, ls)
        <4>1. PICK m \in Present(lines) : p \in lines[m].pages
          BY <3>2 DEF OnLine
        <4>2. CASE m = l /\ p = first
          BY <1>9, <2>5, <4>2 DEF OnLine
        <4>3. CASE m = l /\ p # first
          BY <2>3, <2>6, <4>1, <4>3 DEF OnLine
        <4>4. CASE m # l
          BY <2>4, <4>1, <4>4 DEF OnLine
        <4>5. QED
          BY <4>2, <4>3, <4>4
      <3>3. QED
        BY <3>1, <3>2
    <2>8. ASSUME NEW k \in Present(ls), NEW m \in Present(ls), k # m
          PROVE  ls[k].pages \cap ls[m].pages = {}
      <3>1. \A n \in Present(lines) \ {l} : lines[l].pages \cap lines[n].pages = {}
        BY <2>1 DEF Placed
      <3>2. ASSUME NEW x, x \in ls[k].pages, x \in ls[m].pages
            PROVE  FALSE
        <4>1. CASE k = l
          BY <2>2, <2>5, <2>6, <2>8, <3>1, <3>2, <4>1
        <4>2. CASE k # l /\ \E p \in rest : k = slot[p]
          <5>1. CASE m = l
            BY <2>2, <2>6, <2>8, <3>2, <4>2, <5>1, <1>9, <2>3
          <5>2. CASE m # l
            BY <2>2, <2>3, <2>6, <2>8, <3>1, <3>2, <4>2, <5>2
          <5>3. QED
            BY <5>1, <5>2
        <4>3. CASE k # l /\ \A p \in rest : k # slot[p]
          <5>1. k \in Present(lines) \ {l} /\ ls[k].pages = lines[k].pages
            BY <2>2, <4>3
          <5>2. QED
            BY <2>1, <2>2, <2>5, <2>6, <2>8, <3>1, <3>2, <5>1 DEF Placed
        <4>4. QED
          BY <4>1, <4>2, <4>3
      <3>3. QED
        BY <3>2
    <2>9. ASSUME NEW m \in Present(ls), NEW d \in holding
          PROVE  ls[m].pages \cap d.pages = {}
      BY <2>1, <2>2, <2>5, <2>6 DEF Placed
    <2>10. QED
      BY <2>1, <2>7, <2>8, <2>9 DEF Placed
  <1>17. Meant(c, ls)
    BY <1>4, <1>11, <1>15, <1>16 DEF Meant, Amends
  <1>18. "split" \in Unlocked
    BY DEF Unlocked
  <1>19. QED
    BY <1>10, <1>11, <1>12, <1>17, <1>18 DEF Begins

\* Requests that give every line one status.
LEMMA StatusMeans ==
  ASSUME TypeOK, SerialInv, NEW s \in Sessions, NEW u \in Users,
         BeginSendBack(s, u) \/ BeginReject(s, u) \/ BeginUnapprove(s, u)
  PROVE  Begins(s)
  <1>1. claim \in Claim /\ lines \in Rows /\ Clean(lines) /\ Placed(lines, holding)
        /\ claim.claimed = Total(lines, Present(lines))
    BY DEF TypeOK, Rows, SerialInv, Sound, Added
  <1>2. claim.status \in Open \cup Signed
    BY DEF BeginSendBack, BeginReject, BeginUnapprove, Open, Signed, Reopenable
  <1>3. PICK l \in Present(lines) : TRUE
    BY <1>2 DEF SerialInv, Sound, Decided
  <1>4. ASSUME NEW st \in {"pending", "rejected"}
        PROVE  Placed(WithStatus(lines, st), holding)
    BY <1>1, WithStatusRows, PlacedSame DEF LineStatus
  <1>5. "send_back" \in Unlocked /\ "reject" \in Unlocked /\ "unapprove" \in Unlocked
    BY DEF Unlocked
  <1>6. CASE BeginSendBack(s, u)
    <2> DEFINE c  == [claim EXCEPT !.status = "submitted"]
               ls == WithStatus(lines, "pending")
    <2>1. Start(s, "send_back", c, ls)
      BY <1>6 DEF BeginSendBack
    <2>2. c \in Claim /\ c.status \in Open /\ c.claimed = claim.claimed
          /\ c.created_by = claim.created_by
      BY <1>1 DEF Claim, Status, Open
    <2>3. ls \in Rows /\ Clean(ls) /\ Present(ls) = Present(lines)
          /\ Total(ls, Present(ls)) = Total(lines, Present(lines))
      BY <1>1, WithStatusRows DEF LineStatus
    <2> HIDE DEF c, ls
    <2>4. Sound(c, ls) /\ c.status \notin Left \cup Signed
      BY <1>1, <1>3, <2>2, <2>3, SoundOpen
    <2>5. Meant(c, ls)
      BY <1>2, <1>4, <2>2, <2>4 DEF Meant, Amends, ls
    <2>6. QED
      BY <1>5, <2>1, <2>2, <2>3, <2>5 DEF Begins
  <1>7. CASE BeginReject(s, u)
    <2> DEFINE c  == [claim EXCEPT !.status = "rejected"]
               ls == WithStatus(lines, "rejected")
    <2>1. Start(s, "reject", c, ls)
      BY <1>7 DEF BeginReject
    <2>2. c \in Claim /\ c.status = "rejected" /\ c.claimed = claim.claimed
          /\ c.created_by = claim.created_by
      BY <1>1 DEF Claim, Status
    <2>3. ls \in Rows /\ Clean(ls) /\ Present(ls) = Present(lines)
          /\ Total(ls, Present(ls)) = Total(lines, Present(lines))
          /\ \A m \in Present(lines) : ls[m].st = "rejected"
      BY <1>1, WithStatusRows DEF LineStatus
    <2> HIDE DEF c, ls
    <2>4. Sound(c, ls) /\ c.status \notin Left \cup Signed
      BY <1>1, <2>2, <2>3 DEF Sound, Added, Decided, Open, Signed, Left
    <2>5. Meant(c, ls)
      BY <1>2, <1>4, <2>2, <2>4 DEF Meant, Amends, ls
    <2>6. QED
      BY <1>5, <2>1, <2>2, <2>3, <2>5 DEF Begins
  <1>8. CASE BeginUnapprove(s, u)
    <2> DEFINE d  == [claim EXCEPT !.status = "in_review", !.approved_by = None]
               ls == WithStatus(lines, "pending")
               c  == Rolled(d, ls)
    <2>1. Start(s, "unapprove", c, ls)
      BY <1>8 DEF BeginUnapprove
    <2>2. d \in Claim /\ d.status \in Open /\ d.created_by = claim.created_by
      BY <1>1 DEF Claim, Status, Open
    <2> HIDE DEF d, ls
    <2>3. c \in Claim /\ c.status \in Open /\ c.created_by = claim.created_by
          /\ c.claimed = Total(ls, Present(ls))
      BY <2>2, RolledType, RolledFields
    <2>4. ls \in Rows /\ Clean(ls) /\ Present(ls) = Present(lines)
      BY <1>1, WithStatusRows DEF LineStatus, ls
    <2> HIDE DEF c
    <2>5. Sound(c, ls) /\ c.status \notin Left \cup Signed
      BY <1>3, <2>3, <2>4, SoundOpen
    <2>6. Meant(c, ls)
      BY <1>2, <1>4, <2>3, <2>5 DEF Meant, Amends, ls
    <2>7. QED
      BY <1>5, <2>1, <2>3, <2>4, <2>6 DEF Begins
  <1>9. QED
    BY <1>6, <1>7, <1>8

-----------------------------------------------------------------------------
(* Requests that end, and requests of one step. *)

\* With nothing pending, the invariant is soundness.
LEMMA Ended ==
  ASSUME Serial, NEW s \in Sessions, txn'[s] = Idle, Sound(claim, lines)', Gated(claim, lines)',
         Placed(lines, holding)', Forwards(claim, lines, handoffs)',
         payments' # <<>> => claim'.status = "paid"
  PROVE  SerialInv'
  <1>1. \A r \in Sessions : Pending(txn'[r], claim', lines', holding')
    BY IdlePending DEF Serial
  <1>2. QED
    BY <1>1 DEF SerialInv

\* A claim that has not left: no handoff, no payment.
LEMMA NotLeft ==
  ASSUME SerialInv, claim.status \notin Left
  PROVE  handoffs = {} /\ payments = <<>>
  BY DEF SerialInv, Forwards, Left

\* A request that ends with a sound claim that has not left.
LEMMA EndedOpen ==
  ASSUME Serial, SerialInv, NEW s \in Sessions, txn'[s] = Idle, claim.status \notin Left,
         UNCHANGED <<handoffs, payments>>, claim'.status \notin Left,
         Sound(claim, lines)', Placed(lines, holding)'
  PROVE  SerialInv'
  <1>1. handoffs' = {} /\ payments' = <<>>
    BY NotLeft
  <1>2. Gated(claim, lines)' /\ Forwards(claim, lines, handoffs)'
    BY <1>1 DEF Gated, Forwards
  <1>3. QED
    BY <1>1, <1>2, Ended

\* A lock holder is not between two steps.
LEMMA LockedIdle ==
  ASSUME NEW s \in Sessions, NEW op, Locked(s, op)
  PROVE  txn'[s] = Idle
  BY DEF Locked, Ready

LEMMA NewClaimFields ==
  ASSUME NEW ls, NEW u \in Users \cup {None}, NEW st \in Status,
         NEW attested \in BOOLEAN, NEW costed \in BOOLEAN
  PROVE  /\ NewClaim(ls, u, st, attested, costed).status = st
         /\ NewClaim(ls, u, st, attested, costed).claimed = Total(ls, Present(ls))
  <1> DEFINE c == [NoClaim EXCEPT !.status     = st,
                         !.created_by = u,
                         !.costed     = costed,
                         !.attested   = attested /\ OutOfPocket(ls) # {},
                         !.declared   = IF attested /\ OutOfPocket(ls) # {}
                                          THEN Present(ls) ELSE {}]
  <1>1. (attested /\ OutOfPocket(ls) # {}) \in BOOLEAN
    OBVIOUS
  <1>2. (IF attested /\ OutOfPocket(ls) # {} THEN Present(ls) ELSE {}) \in SUBSET Lines
    BY DEF Present
  <1>3. NoClaim \in Claim
    BY DEF NoClaim, Claim, Status
  <1>4. /\ c.status = st /\ c \in Claim
    BY <1>1, <1>2, <1>3 DEF Claim
  <1> HIDE DEF c
  <1>5. QED
    BY <1>4, RolledType, RolledFields DEF NewClaim, c

\* A captured claim is open, with the total of its lines.
LEMMA Captured ==
  ASSUME NEW s \in Sessions, NEW u \in Users \cup {None}, CapturePages(s, u) \/ CaptureTrip(s, u)
  PROVE  claim'.status \in Open /\ claim'.claimed = Total(lines', Present(lines'))
  <1>1. PICK st \in Open, attested \in BOOLEAN, costed \in EventChoice :
          claim' = NewClaim(lines', u, st, attested, costed)
    <2>1. CASE CapturePages(s, u)
      BY <2>1 DEF CapturePages, Open
    <2>2. CASE CaptureTrip(s, u)
      BY <2>2 DEF CaptureTrip, Open
    <2>3. QED
      BY <2>1, <2>2
  <1>2. costed \in BOOLEAN /\ st \in Status
    BY ConstantsAssumption DEF EventChoice, Open, Status
  <1>3. /\ NewClaim(lines', u, st, attested, costed).status = st
        /\ NewClaim(lines', u, st, attested, costed).claimed = Total(lines', Present(lines'))
    BY <1>2, NewClaimFields
  <1>4. QED
    BY <1>1, <1>3

LEMMA CapturePagesSound ==
  ASSUME Serial, TypeOK, SerialInv, NEW s \in Sessions, NEW u \in Users \cup {None},
         CapturePages(s, u)
  PROVE  SerialInv'
  <1>1. PICK L \in (SUBSET Lines) \ {{}} : \E doc \in [L -> (SUBSET Pages) \ {{}}] :
        \E oop, attested \in BOOLEAN, costed \in EventChoice :
          /\ \A l, m \in L : l # m => doc[l] \cap doc[m] = {}
          /\ lines' = [l \in Lines |-> IF l \in L THEN PageLine(doc[l], oop) ELSE NoLine]
          /\ claim' = NewClaim(lines', u, IF SubmitterVerification THEN "submitted" ELSE "in_review",
                               attested, costed)
          /\ holding' = {IntakeOf(PageLine({p}, TRUE)) : p \in Pages \ (UNION Range(doc))}
    BY DEF CapturePages
  <1>2. PICK doc \in [L -> (SUBSET Pages) \ {{}}], oop \in BOOLEAN, attested \in BOOLEAN,
             costed \in EventChoice :
          /\ \A l, m \in L : l # m => doc[l] \cap doc[m] = {}
          /\ lines' = [l \in Lines |-> IF l \in L THEN PageLine(doc[l], oop) ELSE NoLine]
          /\ claim' = NewClaim(lines', u, IF SubmitterVerification THEN "submitted" ELSE "in_review",
                               attested, costed)
          /\ holding' = {IntakeOf(PageLine({p}, TRUE)) : p \in Pages \ (UNION Range(doc))}
    BY <1>1
  <1>4. claim'.status \in Open /\ claim'.claimed = Total(lines', Present(lines'))
    BY Captured
  <1>5. /\ \A l \in L : lines'[l].st = "pending" /\ lines'[l].pages = doc[l]
        /\ \A l \in Lines \ L : lines'[l] = NoLine
    BY <1>2 DEF PageLine
  <1>6. NoLine.st = "absent"
    BY DEF NoLine
  <1>7. Present(lines') = L /\ Clean(lines')
    BY <1>5, <1>6 DEF Present, Clean
  <1>8. Sound(claim', lines') /\ claim'.status \notin Left
    BY <1>4, <1>7, SoundOpen
  <1>9. Placed(lines', holding')
    <2>1. \A l \in L : doc[l] \in SUBSET Pages
      OBVIOUS
    <2>2. UNION Range(doc) = {p \in Pages : \E l \in L : p \in doc[l]}
      BY <2>1 DEF Range
    <2>3. \A p \in Pages : IntakeOf(PageLine({p}, TRUE)).pages = {p}
      BY DEF IntakeOf, PageLine
    <2>4. \A d \in holding' : \E p \in Pages : d = IntakeOf(PageLine({p}, TRUE)) /\ d.pages = {p}
                                              /\ \A l \in L : p \notin doc[l]
      BY <1>2, <2>2, <2>3
    <2>5. \A p \in Pages : (\A l \in L : p \notin doc[l]) =>
                             \E d \in holding' : d.pages = {p}
      BY <1>2, <2>2, <2>3
    <2>6. \A p \in Pages : OnLine(p, lines') \/ Held(p, holding')
      BY <1>5, <1>7, <2>5 DEF OnLine, Held
    <2>7. \A l, m \in Present(lines') : l # m => lines'[l].pages \cap lines'[m].pages = {}
      BY <1>2, <1>5, <1>7
    <2>8. ASSUME NEW l \in Present(lines'), NEW d \in holding'
          PROVE  lines'[l].pages \cap d.pages = {}
      <3>1. PICK p \in Pages : d.pages = {p} /\ \A k \in L : p \notin doc[k]
        BY <2>4
      <3>2. l \in L /\ lines'[l].pages = doc[l]
        BY <1>5, <1>7
      <3>3. QED
        BY <3>1, <3>2
    <2>9. \A d, e \in holding' : d # e => d.pages \cap e.pages = {}
      <3>1. ASSUME NEW d \in holding', NEW e \in holding', d # e PROVE d.pages \cap e.pages = {}
        <4>1. PICK p \in Pages : d = IntakeOf(PageLine({p}, TRUE)) /\ d.pages = {p}
          BY <2>4
        <4>2. PICK q \in Pages : e = IntakeOf(PageLine({q}, TRUE)) /\ e.pages = {q}
          BY <2>4
        <4>3. p # q
          BY <3>1, <4>1, <4>2
        <4>4. QED
          BY <4>1, <4>2, <4>3
      <3>2. QED
        BY <3>1
    <2>10. QED
      BY <2>6, <2>7, <2>8, <2>9 DEF Placed
  <1>10. txn'[s] = Idle /\ claim.status \notin Left /\ UNCHANGED <<handoffs, payments>>
    BY LockedIdle DEF CapturePages, Left
  <1>11. QED
    BY <1>8, <1>9, <1>10, EndedOpen

LEMMA CaptureTripSound ==
  ASSUME Serial, TypeOK, SerialInv, NEW s \in Sessions, NEW u \in Users \cup {None},
         CaptureTrip(s, u)
  PROVE  SerialInv'
  <1>1. PICK l \in Lines, b \in 1 .. MaxBase, costed \in EventChoice :
          /\ lines' = [lines EXCEPT ![l] = Trip(b)]
          /\ claim' = NewClaim(lines', u, "in_review", TRUE, costed)
    BY DEF CaptureTrip
  <1>2. Present(lines) = {} /\ Clean(lines) /\ Placed(lines, holding) /\ lines \in Rows
    BY DEF SerialInv, Sound, Decided, TypeOK, Rows, CaptureTrip
  <1>3. Trip(b).st = "pending" /\ Trip(b).pages = {}
    BY DEF Trip
  <1>4. lines'[l] = Trip(b) /\ \A m \in Lines \ {l} : lines'[m] = lines[m]
    BY <1>1, <1>2 DEF Rows
  <1>5. Present(lines') = {l} /\ Clean(lines')
    BY <1>2, <1>3, <1>4 DEF Present, Clean
  <1>6. claim'.status \in Open /\ claim'.claimed = Total(lines', Present(lines'))
    BY Captured
  <1>7. Sound(claim', lines') /\ claim'.status \notin Left
    BY <1>5, <1>6, SoundOpen
  <1>8. Placed(lines', holding')
    <2>1. holding' = holding
      BY DEF CaptureTrip
    <2>2. \A p : ~OnLine(p, lines') /\ ~OnLine(p, lines)
      BY <1>2, <1>3, <1>4, <1>5 DEF OnLine
    <2>3. QED
      BY <1>2, <1>3, <1>4, <1>5, <2>1, <2>2 DEF Placed
  <1>9. txn'[s] = Idle /\ claim.status \notin Left /\ UNCHANGED <<handoffs, payments>>
    BY LockedIdle DEF CaptureTrip, Left
  <1>10. QED
    BY <1>7, <1>8, <1>9, EndedOpen

\* Reading an open intake before the claim is locked.
LEMMA BeginAttachSound ==
  ASSUME Serial, TypeOK, SerialInv, NEW s \in Sessions, NEW u \in Users, BeginAttach(s, u)
  PROVE  SerialInv'
  <1>1. PICK d \in holding : txn' = [txn EXCEPT ![s] = [op |-> "attach", intake |-> d]]
    BY DEF BeginAttach
  <1>2. UNCHANGED <<claim, lines, holding, handoffs, batches, payments>>
    BY DEF BeginAttach
  <1>3. txn'[s] = [op |-> "attach", intake |-> d]
    BY <1>1 DEF TypeOK
  <1>4. Pending([op |-> "attach", intake |-> d], claim, lines, holding)
    BY DEF Pending, Unlocked
  <1>5. \A r \in Sessions : Pending(txn'[r], claim', lines', holding')
    BY <1>2, <1>3, <1>4 DEF Serial
  <1>6. QED
    BY <1>2, <1>5 DEF SerialInv

\* The page of the intake moves to a line.
LEMMA AttachSound ==
  ASSUME Serial, TypeOK, SerialInv, NEW s \in Sessions, Attach(s)
  PROVE  SerialInv'
  <1> DEFINE d == txn[s].intake
  <1>1. PICK l \in Unused, base \in Base, category \in Categories :
          lines' = [lines EXCEPT ![l] = LineOf(d, base, category)] /\ claim' = Rolled(claim, lines')
    BY Attached
  <1>2. d \in holding
    BY DEF Attach, SerialInv, Pending
  <1>3. /\ l \in Lines /\ l \notin Present(lines) /\ lines \in Rows /\ claim \in Claim
        /\ claim.status \in Open /\ Clean(lines) /\ Placed(lines, holding)
    BY DEF Unused, TypeOK, Rows, Attach, SerialInv, Sound
  <1> DEFINE new == LineOf(d, base, category)
  <1>4. new.st = "pending" /\ new.pages = d.pages
    BY DEF LineOf
  <1>5. lines'[l] = new /\ \A m \in Lines \ {l} : lines'[m] = lines[m]
    BY <1>1, <1>3 DEF Rows
  <1> HIDE DEF d, new
  <1>6. Present(lines') = Present(lines) \cup {l} /\ Clean(lines')
    BY <1>3, <1>4, <1>5 DEF Present, Clean
  <1>7. claim'.status \in Open /\ claim'.claimed = Total(lines', Present(lines'))
    BY <1>1, <1>3, RolledType, RolledFields
  <1>8. Sound(claim', lines') /\ claim'.status \notin Left
    BY <1>6, <1>7, SoundOpen
  <1>9. Placed(lines', holding')
    <2>1. holding' = holding \ {d}
      BY DEF Attach, d
    <2>2. \A m \in Present(lines) : m # l /\ lines'[m].pages = lines[m].pages
      BY <1>3, <1>5 DEF Present
    <2>3. \A p : (OnLine(p, lines') \/ Held(p, holding')) <=> (OnLine(p, lines) \/ Held(p, holding))
      <3>1. \A p : OnLine(p, lines') <=> OnLine(p, lines) \/ p \in d.pages
        BY <1>4, <1>5, <1>6, <2>2 DEF OnLine
      <3>2. \A p : Held(p, holding) <=> Held(p, holding') \/ p \in d.pages
        BY <1>2, <2>1 DEF Held
      <3>3. QED
        BY <3>1, <3>2
    <2>4. \A k, m \in Present(lines') : k # m => lines'[k].pages \cap lines'[m].pages = {}
      BY <1>2, <1>3, <1>4, <1>5, <1>6, <2>2 DEF Placed
    <2>5. \A m \in Present(lines'), e \in holding' : lines'[m].pages \cap e.pages = {}
      BY <1>2, <1>3, <1>4, <1>5, <1>6, <2>1, <2>2 DEF Placed
    <2>6. QED
      BY <1>3, <2>1, <2>3, <2>4, <2>5 DEF Placed
  <1>10. txn'[s] = Idle /\ claim.status \notin Left /\ UNCHANGED <<handoffs, payments>>
    BY <1>3 DEF Attach, TypeOK, Open, Left
  <1>11. QED
    BY <1>8, <1>9, <1>10, EndedOpen

LEMMA CommitSound ==
  ASSUME Serial, TypeOK, SerialInv, NEW s \in Sessions, Commit(s)
  PROVE  SerialInv'
  <1>1. lines' = AfterLines(lines, txn[s])
    BY DEF Commit, AfterLines
  <1>2. claim' = AfterClaim(claim, lines, txn[s])
    BY <1>1 DEF Commit, AfterClaim
  <1>3. Pending(txn[s], claim, lines, holding) /\ txn[s].op \in Unlocked
    BY DEF SerialInv, Commit
  <1>4. /\ claim.status \in Open \cup Signed /\ claim'.status \notin Left
        /\ Sound(claim', lines') /\ Placed(lines', holding)
    BY <1>1, <1>2, <1>3 DEF Pending
  <1>5. txn'[s] = Idle /\ UNCHANGED <<holding, handoffs, payments>>
    BY DEF Commit, TypeOK
  <1>6. claim.status \notin Left
    BY <1>4 DEF Open, Signed, Left
  <1>7. QED
    BY <1>4, <1>5, <1>6, EndedOpen

LEMMA AbortSound ==
  ASSUME Serial, TypeOK, SerialInv, NEW s \in Sessions, Abort(s)
  PROVE  SerialInv'
  <1>1. txn'[s] = Idle /\ UNCHANGED <<claim, lines, holding, handoffs, batches, payments>>
    BY DEF Abort, TypeOK
  <1>2. QED
    BY <1>1, Ended DEF SerialInv

LEMMA HeaderSound ==
  ASSUME Serial, TypeOK, SerialInv, NEW s \in Sessions, NEW u \in Users,
         ConfirmContent(s, u) \/ Attest(s, u)
  PROVE  SerialInv'
  <1>1. claim \in Claim /\ UNCHANGED <<lines, holding, handoffs, payments>>
    BY DEF TypeOK, ConfirmContent, Attest
  <1>2. txn'[s] = Idle
    BY LockedIdle DEF ConfirmContent, Attest
  <1>3. claim.status \notin Left /\ claim'.status \notin Left /\ Sound(claim', lines)
    <2>1. CASE ConfirmContent(s, u)
      <3>1. claim.status \in Open /\ claim'.status \in Open /\ claim'.claimed = claim.claimed
        BY <1>1, <2>1 DEF ConfirmContent, Open, Claim
      <3>2. PICK l \in Present(lines) : TRUE
        BY <3>1 DEF SerialInv, Sound, Decided
      <3>3. QED
        BY <3>1, <3>2, SoundOpen DEF SerialInv, Sound, Added, Open, Left
    <2>2. CASE Attest(s, u)
      <3>1. /\ claim'.status = claim.status /\ claim'.claimed = claim.claimed
            /\ claim'.reimb = claim.reimb /\ claim'.approved_by = claim.approved_by
        BY <1>1, <2>2 DEF Attest, Claim
      <3>2. claim.status \notin Left
        BY <2>2 DEF Attest, Open, Signed, Left
      <3>3. QED
        BY <3>1, <3>2, SoundHeader DEF SerialInv
    <2>3. QED
      BY <2>1, <2>2
  <1>4. Placed(lines', holding')
    BY <1>1 DEF SerialInv
  <1>5. QED
    BY <1>1, <1>2, <1>3, <1>4, EndedOpen

\* A claim that loses a line stays open or is voided, with the total of the rest.
LEMMA Switched ==
  ASSUME TypeOK, NEW s \in Sessions, NEW u \in Users, SwitchToVendorBill(s, u)
  PROVE  /\ claim'.status = IF Present(lines') = {} THEN "rejected" ELSE claim.status
         /\ claim'.claimed = Total(lines', Present(lines'))
  <1>0. PICK l \in Present(lines) :
          claim \in Claim /\ claim' = [Rolled(claim, lines') EXCEPT
                         !.status   = IF Present(lines') = {} THEN "rejected" ELSE @,
                         !.declared = @ \ {l}]
    BY DEF SwitchToVendorBill, TypeOK
  <1>1. /\ Rolled(claim, lines') \in Claim /\ Rolled(claim, lines').status = claim.status
        /\ Rolled(claim, lines').claimed = Total(lines', Present(lines'))
    BY <1>0, RolledType, RolledFields
  <1> DEFINE r == Rolled(claim, lines')
  <1>2. r \in Claim /\ r.status = claim.status /\ r.claimed = Total(lines', Present(lines'))
        /\ claim' = [r EXCEPT !.status   = IF Present(lines') = {} THEN "rejected" ELSE @,
                              !.declared = @ \ {l}]
    BY <1>0, <1>1
  <1> HIDE DEF r
  <1>3. QED
    BY <1>2 DEF Claim

LEMMA SwitchSound ==
  ASSUME Serial, TypeOK, SerialInv, NEW s \in Sessions, NEW u \in Users,
         SwitchToVendorBill(s, u)
  PROVE  SerialInv'
  <1>1. PICK l \in Present(lines) :
          /\ lines[l].pages # {}
          /\ holding' = holding \cup {IntakeOf(lines[l])}
          /\ lines' = [lines EXCEPT ![l] = NoLine]
          /\ claim' = [Rolled(claim, lines') EXCEPT
                         !.status   = IF Present(lines') = {} THEN "rejected" ELSE @,
                         !.declared = @ \ {l}]
    BY DEF SwitchToVendorBill
  <1>2. /\ lines \in Rows /\ claim \in Claim /\ claim.status \in Open /\ l \in Lines
        /\ Clean(lines) /\ Placed(lines, holding)
    BY DEF TypeOK, Rows, SwitchToVendorBill, SerialInv, Sound, Present
  <1>3. lines'[l] = NoLine /\ \A m \in Lines \ {l} : lines'[m] = lines[m]
    BY <1>1, <1>2 DEF Rows
  <1>4. NoLine.st = "absent"
    BY DEF NoLine
  <1>5. Present(lines') = Present(lines) \ {l} /\ Clean(lines')
    BY <1>2, <1>3, <1>4 DEF Present, Clean
  <1>6. /\ claim'.status = IF Present(lines') = {} THEN "rejected" ELSE claim.status
        /\ claim'.claimed = Total(lines', Present(lines'))
    BY Switched
  <1>7. Sound(claim', lines') /\ claim'.status \notin Left
    <2>1. CASE Present(lines') = {}
      BY <1>5, <1>6, <2>1 DEF Sound, Added, Decided, Open, Signed, Left
    <2>2. CASE Present(lines') # {}
      <3>1. PICK m \in Present(lines') : TRUE
        BY <2>2
      <3>2. QED
        BY <1>2, <1>5, <1>6, <2>2, <3>1, SoundOpen
    <2>3. QED
      BY <2>1, <2>2
  <1>8. Placed(lines', holding')
    <2> DEFINE d == IntakeOf(lines[l])
    <2>1. d.pages = lines[l].pages
      BY DEF IntakeOf
    <2>2. holding' = holding \cup {d}
      BY <1>1
    <2> HIDE DEF d
    <2>3. \A m \in Present(lines') : m \in Present(lines) /\ m # l /\ lines'[m].pages = lines[m].pages
      BY <1>3, <1>5 DEF Present
    <2>4. \A p : (OnLine(p, lines') \/ Held(p, holding')) <=> (OnLine(p, lines) \/ Held(p, holding))
      <3>1. \A p : OnLine(p, lines) <=> OnLine(p, lines') \/ p \in d.pages
        BY <1>5, <2>1, <2>3 DEF OnLine
      <3>2. \A p : Held(p, holding') <=> Held(p, holding) \/ p \in d.pages
        BY <2>2 DEF Held
      <3>3. QED
        BY <3>1, <3>2
    <2>5. \A e \in holding : d.pages \cap e.pages = {}
      BY <1>2, <2>1 DEF Placed
    <2>6. \A m \in Present(lines') : lines'[m].pages \cap d.pages = {}
      BY <1>2, <2>1, <2>3 DEF Placed
    <2>7. \A m, n \in Present(lines') : m # n => lines'[m].pages \cap lines'[n].pages = {}
      BY <1>2, <2>3 DEF Placed
    <2>8. \A e, f \in holding' : e # f => e.pages \cap f.pages = {}
      BY <1>2, <2>2, <2>5 DEF Placed
    <2>9. \A m \in Present(lines'), e \in holding' : lines'[m].pages \cap e.pages = {}
      BY <1>2, <2>2, <2>3, <2>6 DEF Placed
    <2>10. \/ \A p \in Pages : OnLine(p, lines') \/ Held(p, holding')
           \/ \A p \in Pages : ~OnLine(p, lines') /\ ~Held(p, holding')
      BY <1>2, <2>4 DEF Placed
    <2>11. QED
      BY <2>7, <2>8, <2>9, <2>10 DEF Placed
  <1>9. txn'[s] = Idle /\ claim.status \notin Left /\ UNCHANGED <<handoffs, payments>>
    BY <1>2, LockedIdle DEF SwitchToVendorBill, Open, Left
  <1>10. QED
    BY <1>7, <1>8, <1>9, EndedOpen

\* What an approval makes of the rows.
LEMMA ApproveRows ==
  ASSUME TypeOK, SerialInv, NEW s \in Sessions, NEW u \in Users, Approve(s, u)
  PROVE  /\ lines' \in Rows /\ Clean(lines')
         /\ Present(lines') = Present(lines)
         /\ \A l \in Present(lines) : /\ lines'[l].st = "approved"
                                     /\ lines'[l].base = lines[l].base
                                     /\ lines'[l].pages = lines[l].pages
         /\ claim'.status = "approved" /\ claim'.approved_by = u
         /\ claim'.claimed = Total(lines', Present(lines'))
         /\ claim'.reimb = Total(lines', Payout(lines'))
  <1> DEFINE ls == WithStatus(lines, "approved")
             c  == [claim EXCEPT !.status = "approved", !.approved_by = u]
  <1>1. lines' = ls /\ claim' = Rolled(c, lines')
    BY DEF Approve
  <1>2. claim \in Claim /\ lines \in Rows /\ Clean(lines) /\ Placed(lines, holding)
        /\ claim.claimed = Total(lines, Present(lines)) /\ claim.status = "in_review"
    BY DEF TypeOK, Rows, SerialInv, Sound, Added, Approve
  <1>3. /\ ls \in Rows /\ Clean(ls) /\ Present(ls) = Present(lines)
        /\ \A l \in Present(lines) : /\ ls[l].st = "approved" /\ ls[l].base = lines[l].base
                                     /\ ls[l].pages = lines[l].pages
        /\ Total(ls, Present(ls)) = Total(lines, Present(lines))
    BY <1>2, WithStatusRows DEF LineStatus
  <1>4. c \in Claim /\ c.status = "approved" /\ c.approved_by = u
    BY <1>2 DEF Claim, Status
  <1> HIDE DEF ls, c
  <1>5. /\ claim'.status = "approved" /\ claim'.approved_by = u
        /\ claim'.claimed = Total(ls, Present(ls)) /\ claim'.reimb = Total(ls, Payout(ls))
    BY <1>1, <1>4, RolledType, RolledFields
  <1>6. QED
    BY <1>1, <1>3, <1>5

LEMMA ApproveSound ==
  ASSUME Serial, TypeOK, SerialInv, NEW s \in Sessions, NEW u \in Users, Approve(s, u)
  PROVE  SerialInv'
  <1>1. /\ claim.status = "in_review" /\ Placed(lines, holding)
        /\ Clean(lines') /\ Present(lines') = Present(lines)
        /\ \A l \in Present(lines) : /\ lines'[l].st = "approved"
                                    /\ lines'[l].pages = lines[l].pages
        /\ claim'.status = "approved"
        /\ claim'.claimed = Total(lines', Present(lines'))
        /\ claim'.reimb = Total(lines', Payout(lines'))
    BY ApproveRows DEF SerialInv, Approve
  <1>2. Decided(claim', lines')
    <2>1. PICK l \in Present(lines) : TRUE
      BY <1>1 DEF SerialInv, Sound, Decided, Open
    <2>2. QED
      BY <1>1, <2>1 DEF Decided, Left
  <1>3. Sound(claim', lines') /\ claim'.status \notin Left
    BY <1>1, <1>2 DEF Sound, Added, Left
  <1>4. Placed(lines', holding')
    BY <1>1, PlacedSame DEF Approve
  <1>5. txn'[s] = Idle /\ claim.status \notin Left /\ UNCHANGED <<handoffs, payments>>
    BY LockedIdle DEF Approve, Left
  <1>6. QED
    BY <1>3, <1>4, <1>5, EndedOpen

\* What the roll-up of the outcomes says of the lines.
LEMMA OutcomeDecided ==
  ASSUME NEW ls \in Rows, NEW k \in Present(ls)
  PROVE  /\ Outcome(ls) \in {"sent_back", "rejected", "partially_approved", "approved"}
         /\ Outcome(ls) = "approved" => \A l \in Present(ls) : ls[l].st = "approved"
         /\ Outcome(ls) = "rejected" => \A l \in Present(ls) : ls[l].st = "rejected"
         /\ Outcome(ls) = "partially_approved" =>
              /\ \A l \in Present(ls) : ls[l].st \in {"approved", "rejected"}
              /\ \E l \in Present(ls) : ls[l].st = "approved"
              /\ \E l \in Present(ls) : ls[l].st = "rejected"
  <1> DEFINE sts == {ls[l].st : l \in Present(ls)}
  <1>1. \A l \in Present(ls) : ls[l].st \in {"pending", "approved", "queried", "rejected"}
                               /\ ls[l].st \in sts
    BY DEF Rows, Line, LineStatus, Present
  <1>2. \A x \in sts : \E l \in Present(ls) : ls[l].st = x
    OBVIOUS
  <1>3. Outcome(ls) = IF "queried" \in sts \/ "pending" \in sts THEN "sent_back"
                      ELSE IF sts = {"rejected"} THEN "rejected"
                      ELSE IF "rejected" \in sts THEN "partially_approved"
                      ELSE "approved"
    BY DEF Outcome
  <1> HIDE DEF sts
  <1>4. CASE "queried" \in sts \/ "pending" \in sts
    BY <1>3, <1>4
  <1>5. CASE "queried" \notin sts /\ "pending" \notin sts /\ sts = {"rejected"}
    BY <1>1, <1>3, <1>5
  <1>6. CASE "queried" \notin sts /\ "pending" \notin sts /\ sts # {"rejected"} /\ "rejected" \in sts
    <2>1. \A l \in Present(ls) : ls[l].st \in {"approved", "rejected"}
      BY <1>1, <1>6
    <2>2. PICK x \in sts : x # "rejected"
      BY <1>6
    <2>3. PICK l \in Present(ls) : ls[l].st = x
      BY <1>2
    <2>4. ls[l].st = "approved"
      BY <2>1, <2>2, <2>3
    <2>5. \E m \in Present(ls) : ls[m].st = "rejected"
      BY <1>2, <1>6
    <2>6. QED
      BY <1>3, <1>6, <2>1, <2>4, <2>5
  <1>7. CASE "queried" \notin sts /\ "pending" \notin sts /\ "rejected" \notin sts
    <2>1. \A l \in Present(ls) : ls[l].st = "approved"
      BY <1>1, <1>7
    <2>2. sts # {"rejected"}
      BY <1>7
    <2>3. QED
      BY <1>3, <1>7, <2>1, <2>2
  <1>8. QED
    BY <1>4, <1>5, <1>6, <1>7

\* What a decision makes of the rows.
LEMMA DecideRows ==
  ASSUME TypeOK, SerialInv, NEW s \in Sessions, NEW u \in Users, Decide(s, u)
  PROVE  /\ lines' \in Rows /\ Clean(lines')
         /\ Present(lines') = Present(lines)
         /\ \A l \in Present(lines) : /\ lines'[l].base = lines[l].base
                                     /\ lines'[l].pages = lines[l].pages
         /\ claim'.status = Outcome(lines')
         /\ claim'.status \in Signed => claim'.approved_by = u
         /\ claim'.claimed = Total(lines', Present(lines'))
         /\ claim'.reimb = Total(lines', Payout(lines'))
  <1>1. PICK D \in SUBSET Present(lines) : \E decision \in [D -> {"approved", "queried", "rejected"}] :
          lines' = [l \in Lines |->
                      IF l \in D THEN [lines[l] EXCEPT !.st = decision[l]] ELSE lines[l]]
    BY DEF Decide
  <1>2. PICK decision \in [D -> {"approved", "queried", "rejected"}] :
          lines' = [l \in Lines |->
                      IF l \in D THEN [lines[l] EXCEPT !.st = decision[l]] ELSE lines[l]]
    BY <1>1
  <1>3. claim \in Claim /\ lines \in Rows /\ lines' \in Rows /\ Clean(lines) /\ Placed(lines, holding)
        /\ claim.claimed = Total(lines, Present(lines)) /\ claim.status = "in_review"
    BY LockedType DEF TypeOK, Rows, SerialInv, Sound, Added, Decide
  <1>4. \A l \in Present(lines) : /\ l \in Lines /\ lines'[l].st # "absent"
                                  /\ lines'[l].base = lines[l].base
                                  /\ lines'[l].pages = lines[l].pages
    <2>1. ASSUME NEW l \in Present(lines)
          PROVE  /\ l \in Lines /\ lines'[l].st # "absent" /\ lines'[l].base = lines[l].base
                 /\ lines'[l].pages = lines[l].pages
      <3>1. l \in Lines /\ lines[l] \in Line /\ lines[l].st # "absent"
        BY <1>3 DEF Present, Rows
      <3>2. CASE l \in D
        <4>1. lines'[l] = [lines[l] EXCEPT !.st = decision[l]]
          BY <1>2, <3>1, <3>2
        <4>2. decision[l] \in {"approved", "queried", "rejected"}
          BY <3>2
        <4>3. QED
          BY <3>1, <4>1, <4>2 DEF Line
      <3>3. CASE l \notin D
        BY <1>2, <3>1, <3>3
      <3>4. QED
        BY <3>2, <3>3
    <2>2. QED
      BY <2>1
  <1>5. \A l \in Lines \ Present(lines) : lines'[l] = lines[l]
    BY <1>2
  <1>6. Present(lines') = Present(lines) /\ Clean(lines')
    BY <1>3, <1>4, <1>5 DEF Present, Clean
  <1>7. Total(lines', Present(lines')) = Total(lines, Present(lines))
    BY <1>4, <1>6, TotalSame
  <1>8. PICK k \in Present(lines') : TRUE
    BY <1>3, <1>6 DEF SerialInv, Sound, Decided, Open
  <1> DEFINE c == [claim EXCEPT !.status      = Outcome(lines'),
                                !.approved_by = IF Outcome(lines') \in Signed THEN u ELSE @]
  <1>9. Outcome(lines') \in Status
    BY <1>3, <1>8, OutcomeDecided DEF Status
  <1>10. c \in Claim /\ c.status = Outcome(lines')
         /\ (Outcome(lines') \in Signed => c.approved_by = u)
    BY <1>3, <1>9 DEF Claim
  <1>11. claim' = Rolled(c, lines')
    BY DEF Decide
  <1> HIDE DEF c
  <1>12. /\ claim'.status = Outcome(lines')
         /\ Outcome(lines') \in Signed => claim'.approved_by = u
         /\ claim'.claimed = Total(lines', Present(lines'))
         /\ claim'.reimb = Total(lines', Payout(lines'))
    BY <1>10, <1>11, RolledType, RolledFields
  <1>13. QED
    BY <1>3, <1>4, <1>6, <1>12

LEMMA DecideSound ==
  ASSUME Serial, TypeOK, SerialInv, NEW s \in Sessions, NEW u \in Users, Decide(s, u)
  PROVE  SerialInv'
  <1>1. /\ claim.status = "in_review" /\ Placed(lines, holding)
        /\ lines' \in Rows /\ Clean(lines') /\ Present(lines') = Present(lines)
        /\ \A l \in Present(lines) : lines'[l].pages = lines[l].pages
        /\ claim'.status = Outcome(lines')
        /\ claim'.claimed = Total(lines', Present(lines'))
        /\ claim'.reimb = Total(lines', Payout(lines'))
    BY DecideRows DEF SerialInv, Decide
  <1>2. PICK k \in Present(lines') : TRUE
    BY <1>1 DEF SerialInv, Sound, Decided, Open
  <1>3. Decided(claim', lines') /\ claim'.status \notin Left
    BY <1>1, <1>2, OutcomeDecided DEF Decided, Left
  <1>4. Sound(claim', lines')
    BY <1>1, <1>3 DEF Sound, Added
  <1>5. Placed(lines', holding')
    BY <1>1, PlacedSame DEF Decide
  <1>6. txn'[s] = Idle /\ claim.status \notin Left /\ UNCHANGED <<handoffs, payments>>
    BY LockedIdle DEF Decide, Left
  <1>7. QED
    BY <1>3, <1>4, <1>5, <1>6, EndedOpen

LEMMA ReleaseSound ==
  ASSUME Serial, TypeOK, SerialInv, NEW s \in Sessions, NEW u \in Users, Release(s, u)
  PROVE  SerialInv'
  <1>1. /\ claim.status \in Signed /\ claim \in Claim /\ AttestationGate /\ PostingGate
        /\ claim' = [claim EXCEPT !.status = "released"]
        /\ UNCHANGED <<lines, holding, payments>>
        /\ handoffs' = handoffs \cup {[line |-> l, dir |-> "forward", base |-> lines[l].base] :
                                        l \in Relevant(lines)}
    BY DEF Release, TypeOK
  <1>2. /\ claim'.status = "released" /\ claim'.claimed = claim.claimed
        /\ claim'.reimb = claim.reimb /\ claim'.approved_by = claim.approved_by
        /\ claim'.attested = claim.attested /\ claim'.costed = claim.costed
    BY <1>1 DEF Claim
  <1>3. handoffs = {} /\ payments = <<>>
    BY <1>1, NotLeft DEF Signed, Left
  <1>4. Sound(claim', lines')
    <2>1. Sound(claim, lines)
      BY DEF SerialInv
    <2>2. Added(claim', lines)
      BY <1>1, <1>2, <2>1 DEF Sound, Added, Left
    <2>3. Decided(claim', lines)
      BY <1>1, <1>2, <2>1 DEF Sound, Decided, Signed, Left
    <2>4. QED
      BY <1>1, <2>1, <2>2, <2>3 DEF Sound
  <1>5. Gated(claim', lines')
    BY <1>1, <1>2 DEF Gated, AttestationGate, PostingGate, Payout, PostingReady
  <1>6. Forwards(claim', lines', handoffs')
    BY <1>1, <1>2, <1>3 DEF Forwards, Left
  <1>7. txn'[s] = Idle
    BY LockedIdle DEF Release
  <1>8. Placed(lines', holding')
    BY <1>1 DEF SerialInv
  <1>9. QED
    BY <1>1, <1>3, <1>4, <1>5, <1>6, <1>7, <1>8, Ended

LEMMA ReverseSound ==
  ASSUME Serial, TypeOK, SerialInv, NEW s \in Sessions, NEW u \in Users, Reverse(s, u)
  PROVE  SerialInv'
  <1>1. /\ claim.status = "released" /\ UNCHANGED <<claim, lines, holding, payments>>
        /\ handoffs' = handoffs \cup {[line |-> l, dir |-> "reversal", base |-> lines[l].base] :
                                        l \in Relevant(lines)}
    BY DEF Reverse
  <1>2. Forwards(claim', lines', handoffs')
    BY <1>1 DEF SerialInv, Forwards, Left
  <1>3. txn'[s] = Idle
    BY LockedIdle DEF Reverse
  <1>4. QED
    BY <1>1, <1>2, <1>3, Ended DEF SerialInv

LEMMA MarkPaidSound ==
  ASSUME Serial, TypeOK, SerialInv, NEW s \in Sessions, NEW u \in Users, MarkPaid(s, u)
  PROVE  SerialInv'
  <1>1. /\ claim.status = "released" /\ claim \in Claim
        /\ claim' = [claim EXCEPT !.status = "paid"]
        /\ UNCHANGED <<lines, holding, handoffs>>
    BY DEF MarkPaid, Payable, TypeOK
  <1>2. /\ claim'.status = "paid" /\ claim'.claimed = claim.claimed
        /\ claim'.reimb = claim.reimb /\ claim'.approved_by = claim.approved_by
        /\ claim'.attested = claim.attested /\ claim'.costed = claim.costed
    BY <1>1 DEF Claim
  <1>3. Sound(claim', lines') /\ Gated(claim', lines')
    BY <1>1, <1>2 DEF SerialInv, Sound, Added, Decided, Gated, Left, Signed, Open,
                      PostingReady
  <1>4. Forwards(claim', lines', handoffs') /\ Placed(lines', holding')
    BY <1>1, <1>2 DEF SerialInv, Forwards, Left
  <1>5. txn'[s] = Idle
    BY LockedIdle DEF MarkPaid
  <1>6. QED
    BY <1>2, <1>3, <1>4, <1>5, Ended

-----------------------------------------------------------------------------
(* The invariant. *)

LEMMA SerialInit == Init => SerialInv
  <1> SUFFICES ASSUME Init PROVE SerialInv
    OBVIOUS
  <1>1. /\ claim = NoClaim /\ lines = [l \in Lines |-> NoLine] /\ holding = {} /\ handoffs = {}
        /\ payments = <<>> /\ txn = [s \in Sessions |-> Idle]
    BY DEF Init
  <1>2. NoLine.st = "absent" /\ NoClaim.status = "none" /\ NoClaim.claimed = 0
    BY DEF NoLine, NoClaim
  <1>3. Present(lines) = {}
    BY <1>1, <1>2 DEF Present
  <1>4. Total(lines, Present(lines)) = 0
    <2>1. Total(lines, {}) = Cardinality({})
      <3>1. {u \in {} \X (1 .. MaxBase) : lines[u[1]].base # NoBase /\ u[2] <= lines[u[1]].base} = {}
        OBVIOUS
      <3>2. QED
        BY <3>1 DEF Total
    <2>2. QED
      BY <1>3, <2>1, FS_EmptySet
  <1>5. Sound(claim, lines)
    BY <1>1, <1>2, <1>3, <1>4 DEF Sound, Clean, Added, Decided, Open, Signed, Left
  <1>6. Gated(claim, lines) /\ Forwards(claim, lines, handoffs)
    BY <1>1, <1>2 DEF Gated, Forwards, Left
  <1>7. Placed(lines, holding)
    BY <1>1, <1>3 DEF Placed, OnLine, Held
  <1>8. QED
    BY <1>1, <1>5, <1>6, <1>7, IdlePending DEF SerialInv

LEMMA SerialStep ==
  ASSUME Serial, TypeOK, SerialInv, [Next]_vars
  PROVE  SerialInv'
  <1>1. CASE UNCHANGED vars
    BY <1>1 DEF vars, SerialInv
  <1>2. CASE Next
    <2>1. PICK s \in Sessions :
            \/ \E u \in Users \cup {None} : CapturePages(s, u) \/ CaptureTrip(s, u)
            \/ \E u \in Users : Request(s, u)
            \/ Attach(s) \/ Commit(s) \/ Abort(s)
      BY <1>2 DEF Next
    <2>2. ASSUME NEW u \in Users \cup {None}, CapturePages(s, u) \/ CaptureTrip(s, u)
          PROVE  SerialInv'
      BY <2>2, CapturePagesSound, CaptureTripSound
    <2>3. ASSUME NEW u \in Users, Request(s, u)
          PROVE  SerialInv'
      <3>1. CASE BeginAttach(s, u)
        BY <3>1, BeginAttachSound
      <3>2. CASE ConfirmContent(s, u) \/ SwitchToVendorBill(s, u) \/ Attest(s, u)
        BY <3>2, HeaderSound, SwitchSound
      <3>3. CASE Approve(s, u) \/ Decide(s, u)
        BY <3>3, ApproveSound, DecideSound
      <3>4. CASE Release(s, u) \/ Reverse(s, u) \/ MarkPaid(s, u)
        BY <3>4, ReleaseSound, ReverseSound, MarkPaidSound
      <3>5. CASE \/ BeginEdit(s, u) \/ BeginEditHeader(s, u) \/ BeginAddMileage(s, u)
                 \/ BeginMerge(s, u) \/ BeginSplit(s, u) \/ BeginSendBack(s, u)
                 \/ BeginReject(s, u) \/ BeginUnapprove(s, u) \/ BeginResubmit(s, u)
        <4>1. Begins(s)
          BY <3>5, EditMeans, HeaderMeans, AddMileageMeans, MergeMeans, SplitMeans, StatusMeans
        <4>2. QED
          BY <4>1, Begun DEF Begins
      <3>6. QED
        BY <2>3, <3>1, <3>2, <3>3, <3>4, <3>5 DEF Request
    <2>4. CASE Attach(s) \/ Commit(s) \/ Abort(s)
      BY <2>4, AttachSound, CommitSound, AbortSound
    <2>5. QED
      BY <2>1, <2>2, <2>3, <2>4
  <1>3. QED
    BY <1>1, <1>2

LEMMA SerialInvariant == ASSUME Serial PROVE Spec => []SerialInv
  <1>1. TypeOK /\ SerialInv /\ [Next]_vars => SerialInv'
    BY SerialStep
  <1>2. QED
    BY <1>1, SerialInit, TypeCorrect, PTL DEF Spec

-----------------------------------------------------------------------------
(* What a step does to a signature. *)

\* Reading leaves the rows.
LEMMA BegunSame ==
  ASSUME NEW s \in Sessions, NEW u \in Users,
         \/ BeginAttach(s, u) \/ BeginEdit(s, u) \/ BeginEditHeader(s, u)
         \/ BeginAddMileage(s, u) \/ BeginMerge(s, u) \/ BeginSplit(s, u)
         \/ BeginSendBack(s, u) \/ BeginReject(s, u) \/ BeginUnapprove(s, u)
         \/ BeginResubmit(s, u)
  PROVE  UNCHANGED <<claim, lines, payments>>
  <1>0. \A op, c, ls : Start(s, op, c, ls) => UNCHANGED <<claim, lines, payments>>
    BY DEF Start
  <1>1. CASE BeginAttach(s, u)
    BY <1>0, <1>1 DEF BeginAttach
  <1>2. CASE BeginEdit(s, u)
    BY <1>0, <1>2 DEF BeginEdit
  <1>3. CASE BeginEditHeader(s, u)
    BY <1>0, <1>3 DEF BeginEditHeader
  <1>4. CASE BeginAddMileage(s, u)
    BY <1>0, <1>4 DEF BeginAddMileage
  <1>5. CASE BeginMerge(s, u)
    BY <1>0, <1>5 DEF BeginMerge
  <1>6. CASE BeginSplit(s, u)
    BY <1>0, <1>6 DEF BeginSplit
  <1>7. CASE BeginSendBack(s, u)
    BY <1>0, <1>7 DEF BeginSendBack
  <1>8. CASE BeginReject(s, u)
    BY <1>0, <1>8 DEF BeginReject
  <1>9. CASE BeginUnapprove(s, u)
    BY <1>0, <1>9 DEF BeginUnapprove
  <1>10. CASE BeginResubmit(s, u)
    BY <1>0, <1>10 DEF BeginResubmit
  <1>11. QED
    BY <1>1, <1>2, <1>3, <1>4, <1>5, <1>6, <1>7, <1>8, <1>9, <1>10

-----------------------------------------------------------------------------
(* The theorems. *)

\* One request at a time, the header total that the authority gate reads is the
\* sum of the lines, and what is reimbursed the sum of the approved ones that
\* were paid out of pocket.
THEOREM TotalsStayTrue == ASSUME Serial PROVE Spec => []TotalsMatchLines
  <1>1. SerialInv => TotalsMatchLines
    <2>1. {l \in Present(lines) : lines[l].st = "approved" /\ lines[l].oop} = Payout(lines)
      BY DEF Payout, Approved, OutOfPocket, Present
    <2>2. QED
      BY <2>1 DEF SerialInv, Sound, Added, TotalsMatchLines
  <1>2. QED
    BY <1>1, SerialInvariant, PTL

\* One request at a time, a claim is signed at an amount within its signer's
\* authority, every line priced; until its release the signature and what it covers
\* stay, whatever is coded and re-rated.
THEOREM AuthorityKept == ASSUME Serial PROVE Spec => SignedWithinAuthority
  <1> DEFINE Signs == claim.status \notin Signed /\ claim'.status \in Signed =>
                        /\ \A l \in Present(lines') : lines'[l].base # NoBase
                        /\ Total(lines', Present(lines')) \in Authority[claim'.approved_by]
             Stays == claim.status \in Signed /\ claim'.status \in Signed \cup Left =>
                        /\ claim'.approved_by = claim.approved_by
                        /\ \A l \in Lines : SameSigned(lines[l], lines'[l])
  <1>1. ASSUME TypeOK, SerialInv, Next PROVE Signs /\ Stays
    <2>0. /\ claim \in Claim /\ lines \in Rows
          /\ claim.claimed = Total(lines, Present(lines))
      BY <1>1 DEF TypeOK, Rows, SerialInv, Sound, Added
    <2>1. PICK s \in Sessions :
            \/ \E u \in Users \cup {None} : CapturePages(s, u) \/ CaptureTrip(s, u)
            \/ \E u \in Users : Request(s, u)
            \/ Attach(s) \/ Commit(s) \/ Abort(s)
      BY <1>1 DEF Next
    <2>2. CASE /\ lines' = lines /\ claim'.approved_by = claim.approved_by
               /\ claim'.status \in Signed => claim.status \in Signed
      <3>1. \A l \in Lines : SameSigned(lines[l], lines'[l])
        BY <2>0, <2>2 DEF SameSigned, Rows, Line
      <3>2. QED
        BY <2>2, <3>1
    <2>3. CASE claim.status \notin Signed /\ claim'.status \notin Signed
      BY <2>3
    <2>4. ASSUME NEW u \in Users \cup {None}, CapturePages(s, u) \/ CaptureTrip(s, u)
          PROVE  Signs /\ Stays
      <3>1. claim.status \notin Signed
        BY <2>4 DEF CapturePages, CaptureTrip, Signed
      <3>2. claim'.status \notin Signed
        BY <2>4, Captured DEF Open, Signed
      <3>3. QED
        BY <2>3, <3>1, <3>2
    <2>5. ASSUME NEW u \in Users, Request(s, u)
          PROVE  Signs /\ Stays
      <3>1. CASE \/ BeginAttach(s, u) \/ BeginEdit(s, u) \/ BeginEditHeader(s, u)
                 \/ BeginAddMileage(s, u) \/ BeginMerge(s, u) \/ BeginSplit(s, u)
                 \/ BeginSendBack(s, u) \/ BeginReject(s, u) \/ BeginUnapprove(s, u)
                 \/ BeginResubmit(s, u)
        BY <2>2, <3>1, BegunSame
      <3>2. CASE ConfirmContent(s, u)
        BY <2>0, <2>3, <3>2 DEF ConfirmContent, Claim, Signed
      <3>3. CASE SwitchToVendorBill(s, u)
        <4>1. claim.status \in Open
          BY <3>3 DEF SwitchToVendorBill
        <4>2. claim'.status \in Open \cup {"rejected"}
          BY <1>1, <3>3, <4>1, Switched
        <4>3. QED
          BY <2>3, <4>1, <4>2 DEF Open, Signed
      <3>4. CASE Attest(s, u)
        BY <2>0, <2>2, <3>4 DEF Attest, Claim
      <3>5. CASE Approve(s, u) \/ Decide(s, u)
        <4>1. /\ claim.status = "in_review" /\ FxResolved(lines) /\ claim.claimed \in Authority[u]
          BY <3>5 DEF Approve, Decide, MayDecide
        <4>2. /\ Present(lines') = Present(lines)
              /\ \A l \in Present(lines) : lines'[l].base = lines[l].base
              /\ claim'.status \in Signed => claim'.approved_by = u
          BY <1>1, <3>5, ApproveRows, DecideRows
        <4>3. Total(lines', Present(lines')) = Total(lines, Present(lines))
          BY <4>2, TotalSame
        <4>4. QED
          BY <2>0, <4>1, <4>2, <4>3 DEF FxResolved, Signed
      <3>6. CASE Release(s, u) \/ Reverse(s, u) \/ MarkPaid(s, u)
        BY <2>0, <2>2, <3>6 DEF Release, Reverse, MarkPaid, Payable, Claim, Signed
      <3>7. QED
        BY <2>5, <3>1, <3>2, <3>3, <3>4, <3>5, <3>6 DEF Request
    <2>6. CASE Attach(s)
      <3>1. claim.status \in Open /\ claim'.status = claim.status
        BY <2>0, <2>6, RolledType DEF Attach
      <3>2. QED
        BY <2>3, <3>1 DEF Open, Signed
    <2>7. CASE Commit(s)
      <3>1. /\ lines' = AfterLines(lines, txn[s]) /\ claim' = AfterClaim(claim, lines, txn[s])
        BY <2>7 DEF Commit, AfterLines, AfterClaim
      <3>2. /\ claim'.status \notin Left
            /\ Amends(claim, claim', lines, lines')
        BY <1>1, <2>7, <3>1 DEF SerialInv, Pending, Commit
      <3>3. QED
        BY <3>2 DEF Amends, Signed, Left
    <2>8. CASE Abort(s)
      BY <2>2, <2>8 DEF Abort
    <2>9. QED
      BY <2>1, <2>4, <2>5, <2>6, <2>7, <2>8
  <1>2. TypeOK /\ SerialInv /\ [Next]_vars => [Signs /\ Stays]_vars
    BY <1>1
  <1>3. (Signs /\ Stays) <=>
          /\ claim.status \notin Signed /\ claim'.status \in Signed =>
               /\ \A l \in Present(lines') : lines'[l].base # NoBase
               /\ Total(lines', Present(lines')) \in Authority[claim'.approved_by]
          /\ claim.status \in Signed /\ claim'.status \in Signed \cup Left =>
               /\ claim'.approved_by = claim.approved_by
               /\ \A l \in Lines :
                    lines'[l] = [lines[l] EXCEPT !.base = lines'[l].base, !.gl = lines'[l].gl,
                                                 !.centre = lines'[l].centre]
    BY DEF SameSigned
  <1> HIDE DEF Signs, Stays
  <1>4. QED
    BY <1>2, <1>3, TypeCorrect, SerialInvariant, PTL DEF Spec, SignedWithinAuthority

\* One request at a time, the header status is what the line decisions say.
THEOREM StatusFollowsLines == ASSUME Serial PROVE Spec => []StatusAgreesWithLines
  <1>1. SerialInv => StatusAgreesWithLines
    <2> SUFFICES ASSUME SerialInv PROVE StatusAgreesWithLines
      OBVIOUS
    <2> DEFINE sts == {lines[l].st : l \in Present(lines)}
    <2>1. Decided(claim, lines)
      BY DEF SerialInv, Sound
    <2>2. claim.status = "approved" => sts = {"approved"}
      BY <2>1 DEF Decided, Signed
    <2>3. claim.status = "partially_approved" => sts = {"approved", "rejected"}
      BY <2>1 DEF Decided
    <2>4. claim.status \in Left => sts = {"approved"} \/ sts = {"approved", "rejected"}
      BY <2>1 DEF Decided
    <2>5. claim.status = "rejected" => sts \subseteq {"rejected"}
      BY <2>1 DEF Decided
    <2>6. QED
      BY <2>2, <2>3, <2>4, <2>5 DEF StatusAgreesWithLines
  <1>2. QED
    BY <1>1, SerialInvariant, PTL

\* One request at a time, out-of-pocket spend that has been released is declared.
THEOREM ReleasedIsDeclared == ASSUME Serial PROVE Spec => []AttestedWhenReimbursed
  <1>1. SerialInv => AttestedWhenReimbursed
    <2>1. \A l : l \in Payout(lines) <=> l \in Present(lines) /\ lines[l].st = "approved"
                                         /\ lines[l].oop
      BY DEF Payout, Approved, OutOfPocket, Present
    <2>2. QED
      BY <2>1 DEF SerialInv, Gated, AttestedWhenReimbursed
  <1>2. QED
    BY <1>1, SerialInvariant, PTL

\* One request at a time and under the coding policy, every approved line of a
\* released claim has a GL account and a cost centre.
THEOREM ReleasedIsCoded == ASSUME Serial PROVE Spec => []CodedWhenReleased
  <1>1. SerialInv => CodedWhenReleased
    <2>1. \A l : l \in Approved(lines) <=> l \in Present(lines) /\ lines[l].st = "approved"
      BY DEF Approved, Present
    <2>2. QED
      BY <2>1 DEF SerialInv, Gated, CodedWhenReleased, PostingReady
  <1>2. QED
    BY <1>1, SerialInvariant, PTL

Sent(dir) == {[line |-> h.line, base |-> h.base] : h \in {g \in handoffs : g.dir = dir}}

Due == {[line |-> l, base |-> lines[l].base] : l \in Relevant(lines)}

\* A direction that has a row for every relevant line has those rows only.
LEMMA SentIsDue ==
  ASSUME SerialInv, claim.status \in Left, NEW dir,
         \A l \in Relevant(lines) : [line |-> l, dir |-> dir, base |-> lines[l].base] \in handoffs
  PROVE  Sent(dir) = Due
  <1>1. \A h \in handoffs : h.line \in Relevant(lines) /\ h.base = lines[h.line].base
    BY DEF SerialInv, Forwards
  <1>2. Sent(dir) \subseteq Due
    BY <1>1 DEF Sent, Due
  <1>3. ASSUME NEW l \in Relevant(lines)
        PROVE  [line |-> l, base |-> lines[l].base] \in Sent(dir)
    <2> DEFINE h == [line |-> l, dir |-> dir, base |-> lines[l].base]
    <2>1. h \in {g \in handoffs : g.dir = dir}
      OBVIOUS
    <2>2. [line |-> h.line, base |-> h.base] = [line |-> l, base |-> lines[l].base]
      OBVIOUS
    <2>3. [line |-> h.line, base |-> h.base] \in Sent(dir)
      BY <2>1 DEF Sent
    <2>4. QED
      BY <2>2, <2>3
  <1>4. QED
    BY <1>2, <1>3 DEF Due

\* One request at a time, the forwarded rows are the approved carbon-relevant
\* lines of the claim as it stands, and nothing is forwarded before release.
THEOREM ForwardedAsApproved == ASSUME Serial PROVE Spec => []ForwardMatchesApproval
  <1>1. SerialInv => ForwardMatchesApproval
    <2> SUFFICES ASSUME SerialInv PROVE ForwardMatchesApproval
      OBVIOUS
    <2>1. Forwards(claim, lines, handoffs)
      BY DEF SerialInv
    <2>2. Relevant(lines) = {m \in Lines : lines[m].st = "approved" /\ lines[m].category.carbon}
      BY DEF Relevant, Approved
    <2>3. CASE claim.status \notin Left
      BY <2>1, <2>3 DEF Forwards, ForwardMatchesApproval
    <2>4. CASE claim.status \in Left
      <3>1. Sent("forward") = Due
        BY <2>1, <2>4, SentIsDue DEF Forwards
      <3>2. QED
        BY <2>2, <2>4, <3>1 DEF ForwardMatchesApproval, Sent, Due
    <2>5. QED
      BY <2>3, <2>4
  <1>2. QED
    BY <1>1, SerialInvariant, PTL

\* One request at a time, a reversal takes back what was forwarded, line by line
\* and amount by amount.
THEOREM ReversalMirrors == ASSUME Serial PROVE Spec => []ReversalMirrorsForward
  <1>1. SerialInv => ReversalMirrorsForward
    <2> SUFFICES ASSUME SerialInv PROVE ReversalMirrorsForward
      OBVIOUS
    <2>1. Forwards(claim, lines, handoffs)
      BY DEF SerialInv
    <2>2. ASSUME Sent("reversal") # {} PROVE Sent("reversal") = Sent("forward")
      <3>1. PICK h \in handoffs : h.dir = "reversal"
        BY <2>2 DEF Sent
      <3>2. claim.status \in Left
        BY <2>1, <3>1 DEF Forwards
      <3>3. Sent("forward") = Due
        BY <2>1, <3>2, SentIsDue DEF Forwards
      <3>4. Sent("reversal") = Due
        BY <2>1, <3>1, <3>2, SentIsDue DEF Forwards
      <3>5. QED
        BY <3>3, <3>4
    <2>3. QED
      BY <2>2 DEF ReversalMirrorsForward, Sent
  <1>2. QED
    BY <1>1, SerialInvariant, PTL

\* One request at a time, both at once: the forwarded rows are the approved
\* relevant lines, and a reversal takes back those rows.
THEOREM HandoffsStayTrue == ASSUME Serial PROVE Spec => []HandoffsMatch
  <1>1. ForwardMatchesApproval /\ ReversalMirrorsForward <=> HandoffsMatch
    BY DEF HandoffsMatch
  <1>2. QED
    BY <1>1, ForwardedAsApproved, ReversalMirrors, PTL

\* One request at a time, merging, splitting, attaching and switching neither lose
\* a page nor file one twice.
THEOREM PagesFiledOnce == ASSUME Serial PROVE Spec => []PageFiledOnce
  <1>1. TypeOK /\ SerialInv => PageFiledOnce
    <2> SUFFICES ASSUME TypeOK, SerialInv PROVE PageFiledOnce
      OBVIOUS
    <2> DEFINE onLines == {lines[l].pages : l \in Present(lines)}
               held    == {d.pages : d \in holding}
    <2>1. Placed(lines, holding)
      BY DEF SerialInv
    <2>2. \A p : p \in UNION onLines <=> OnLine(p, lines)
      BY DEF OnLine
    <2>3. \A p : p \in UNION held <=> Held(p, holding)
      BY DEF Held
    <2>4. \A P, Q \in held : P # Q => P \cap Q = {}
      BY <2>1 DEF Placed
    <2>5. (UNION onLines) \cap (UNION held) = {}
      BY <2>1, <2>2, <2>3 DEF Placed, OnLine, Held
    <2>6. (\A l \in Present(lines) : lines[l].pages \subseteq Pages)
          /\ \A d \in holding : d.pages \subseteq Pages
      BY DEF TypeOK, Line, Intake, Present
    <2>7. UNION onLines \subseteq Pages /\ UNION held \subseteq Pages
      BY <2>2, <2>3, <2>6 DEF OnLine, Held
    <2>8. \A p : p \in UNION (onLines \cup held) <=> OnLine(p, lines) \/ Held(p, holding)
      <3>1. \A p : p \in UNION (onLines \cup held) <=> p \in UNION onLines \/ p \in UNION held
        OBVIOUS
      <3>2. QED
        BY <2>2, <2>3, <3>1
    <2> DEFINE filed == UNION (onLines \cup held)
    <2>9. filed \subseteq Pages
      BY <2>2, <2>3, <2>7, <2>8
    <2> HIDE DEF filed
    <2>10. filed = {} \/ filed = Pages
      <3>1. \A p : p \in filed <=> OnLine(p, lines) \/ Held(p, holding)
        BY <2>8 DEF filed
      <3>2. QED
        BY <2>1, <2>9, <3>1 DEF Placed
    <2>11. UNION (onLines \cup held) \in {{}, Pages}
      BY <2>10 DEF filed
    <2>12. \A l, m \in Present(lines) : l # m => lines[l].pages \cap lines[m].pages = {}
      BY <2>1 DEF Placed
    <2>13. QED
      BY <2>4, <2>5, <2>11, <2>12 DEF PageFiledOnce
  <1>2. QED
    BY <1>1, TypeCorrect, SerialInvariant, PTL

\* One request at a time, a claim that has left is corrected by reversal only, a
\* settled claim is not settled again, a rejected one stays rejected.
THEOREM LeftIsFinal == ASSUME Serial PROVE Spec => ClosedIsFinal
  <1> DEFINE Final == /\ claim.status \in Left =>
                           /\ claim'.status = claim.status \/ claim'.status = "paid"
                           /\ lines' = lines
                           /\ claim'.reimb = claim.reimb
                           /\ claim'.approved_by = claim.approved_by
                      /\ payments # <<>> => payments' = payments
                      /\ claim.status = "rejected" => claim'.status = "rejected"
  <1>1. ASSUME TypeOK, SerialInv, Next
        PROVE  Final
    <2>0. claim \in Claim /\ (payments # <<>> => claim.status = "paid")
      BY <1>1 DEF TypeOK, SerialInv
    <2>1. PICK s \in Sessions :
            \/ \E u \in Users \cup {None} : CapturePages(s, u) \/ CaptureTrip(s, u)
            \/ \E u \in Users : Request(s, u)
            \/ Attach(s) \/ Commit(s) \/ Abort(s)
      BY <1>1 DEF Next
    <2>2. CASE UNCHANGED <<claim, lines, payments>>
      BY <2>2
    <2>3. CASE claim.status \notin Left \cup {"rejected"} /\ payments' = payments
      BY <2>3
    <2>4. ASSUME NEW u \in Users \cup {None}, CapturePages(s, u) \/ CaptureTrip(s, u)
          PROVE  Final
      BY <2>3, <2>4 DEF CapturePages, CaptureTrip, Left
    <2>5. ASSUME NEW u \in Users, Request(s, u)
          PROVE  Final
      <3>1. CASE \/ BeginAttach(s, u) \/ BeginEdit(s, u) \/ BeginEditHeader(s, u)
                 \/ BeginAddMileage(s, u) \/ BeginMerge(s, u) \/ BeginSplit(s, u)
                 \/ BeginSendBack(s, u) \/ BeginReject(s, u) \/ BeginUnapprove(s, u)
                 \/ BeginResubmit(s, u)
        BY <2>2, <3>1, BegunSame
      <3>2. CASE ConfirmContent(s, u) \/ SwitchToVendorBill(s, u) \/ Attest(s, u)
        BY <2>3, <3>2 DEF ConfirmContent, SwitchToVendorBill, Attest, Open, Signed, Left
      <3>3. CASE Approve(s, u) \/ Decide(s, u)
        BY <2>3, <3>3 DEF Approve, Decide, Left
      <3>4. CASE Release(s, u)
        BY <2>3, <3>4 DEF Release, Signed, Left
      <3>5. CASE Reverse(s, u)
        BY <2>2, <3>5 DEF Reverse
      <3>6. CASE MarkPaid(s, u)
        <4>1. claim.status = "released" /\ claim' = [claim EXCEPT !.status = "paid"] /\ lines' = lines
          BY <3>6 DEF MarkPaid, Payable
        <4>2. claim'.status = "paid" /\ claim'.reimb = claim.reimb
              /\ claim'.approved_by = claim.approved_by
          BY <2>0, <4>1 DEF Claim
        <4>3. QED
          BY <2>0, <4>1, <4>2
      <3>7. QED
        BY <2>5, <3>1, <3>2, <3>3, <3>4, <3>5, <3>6 DEF Request
    <2>6. CASE Attach(s)
      BY <2>3, <2>6 DEF Attach, Open, Left
    <2>7. CASE Commit(s)
      <3>1. claim.status \in Open \cup Signed
        BY <1>1, <2>7 DEF SerialInv, Pending, Commit
      <3>2. QED
        BY <2>3, <2>7, <3>1 DEF Commit, Open, Signed, Left
    <2>8. CASE Abort(s)
      BY <2>2, <2>8 DEF Abort
    <2>9. QED
      BY <2>1, <2>4, <2>5, <2>6, <2>7, <2>8
  <1>2. TypeOK /\ SerialInv /\ [Next]_vars => [Final]_vars
    BY <1>1
  <1>3. QED
    BY <1>2, TypeCorrect, SerialInvariant, PTL DEF Spec, ClosedIsFinal
=============================================================================
