--------------------------- MODULE ClaimLifecycle ---------------------------
(***************************************************************************)
(* One expense claim and the requests that act on it (services/claims.py). *)
(*                                                                         *)
(* Every request runs in one database transaction (api/deps.py, get_db) at *)
(* READ COMMITTED.  There are two kinds of request:                        *)
(*                                                                         *)
(*   - those that take the claim's row lock first (_lock, SELECT ... FOR   *)
(*     UPDATE).  They read and write under the lock, so each is one step.  *)
(*                                                                         *)
(*   - those that only read the claim (get).  They are two steps: Begin,   *)
(*     which reads the rows, checks the guards and computes the new        *)
(*     values, and Commit, which writes the columns whose value differs    *)
(*     from the one that was read (the ORM's unit of work).  Any other     *)
(*     request may commit in between.                                      *)
(*                                                                         *)
(* A session is a request in progress: with one session requests never     *)
(* overlap, with two they do.                                              *)
(***************************************************************************)
EXTENDS Naturals, Sequences, FiniteSets, Functions

CONSTANTS
  Sessions,         \* concurrent request transactions
  Users,            \* firm users who hold a grant to the claim's client
  Viewers,          \* the users whose base role is viewer
  Seniors,          \* the users whose base role is manager or partner
  None,             \* SQL NULL in a user column
  Authority,        \* for each user, the totals that the personal limit and
                    \* the approval matrix let that user sign off
  Lines,            \* identities available to the claim's lines
  Pages,            \* captured page images
  MaxBase,          \* bound on one line's home-currency amount
  NoBase,           \* SQL NULL in base_amount: gross known, rate missing
  Kept,             \* in an UPDATE: the column is not written
  Reads,            \* what capture reads off each page
  Categories,       \* what a category of the client, or none, says of a line:
                    \* is it carbon relevant, does it name a GL account
  TripCategory,     \* what the trips of the client are matched to
  EditKinds,        \* the kinds of line edit that requests make
  Ops,              \* the requests that the instance issues
  SubmitterVerification, RequireCoding, AllowDocumentSplit,  \* client policies
  AutoReverse,      \* client policy carbon.auto_reverse
  HasEvents         \* the client has an event that carries a cost centre

Status == {"none", "submitted", "in_review", "sent_back", "approved",
           "partially_approved", "rejected", "released", "paid"}

\* Mutant: a released claim still counts as open.
Open_Released == {"submitted", "in_review", "sent_back", "released"}

\* Review is still open: lines may be changed.
Open == {"submitted", "in_review", "sent_back"}
\* Signed off, not yet handed to another system.
Signed == {"approved", "partially_approved"}
\* Mutant: the handoff is not awaited.
Payable_Signed == {"approved", "partially_approved", "released"}

\* Mutant: settling is not final.
Payable_Paid == {"released", "paid"}

\* What mark_paid settles.
Payable == {"released"}

\* Mutant: a released claim may be reopened.
Reopenable_Released == {"approved", "partially_approved", "released"}

\* What unapprove reopens.
Reopenable == {"approved", "partially_approved"}

\* Integrated downstream.
Left == {"released", "paid"}

LineStatus == {"absent", "pending", "approved", "queried", "rejected"}

Base == 0 .. MaxBase \cup {NoBase}

\* gl and centre: the line names a GL account, a cost centre of its own.
Line == [st : LineStatus, base : Base, oop : BOOLEAN, category : Categories,
         gl : BOOLEAN, centre : BOOLEAN, pages : SUBSET Pages]

\* A claim row.  declared is a history of the attestation: the lines that were
\* on the claim when attested_by was last stamped.
Claim == [status : Status, created_by : Users \cup {None},
          approved_by : Users \cup {None}, attested : BOOLEAN,
          declared : SUBSET Lines, costed : BOOLEAN,
          claimed : Nat, reimb : Nat]

\* An open document_intake row in the vendor-bill holding queue.
Intake == [pages : SUBSET Pages, base : Base]

AllKinds == {"amount", "rate", "rerate", "method", "category", "gl", "centre"}

\* Mutant: the payment method counts as coding.
CodingKinds_Method == {"rate", "rerate", "method", "gl", "centre"}

\* CODING_FIELDS holds fx_rate beside the accounting dimensions, so both edits
\* of the rate remain possible on an approved claim.
CodingKinds == {"rate", "rerate", "gl", "centre"}

Unlocked == {"edit", "edit_header", "add_mileage", "merge", "split",
             "send_back", "reject", "unapprove", "resubmit"}

ASSUME ConstantsAssumption ==
  /\ Viewers \subseteq Users /\ Seniors \subseteq Users /\ None \notin Users
  /\ Authority \in [Users -> SUBSET Nat]
  /\ IsFiniteSet(Lines)
  /\ MaxBase \in Nat /\ NoBase \notin Nat
  /\ Kept \notin Status \cup LineStatus \cup Users \cup {None, NoBase}
  /\ Kept \notin Nat \cup BOOLEAN
  /\ \A S \in (SUBSET Lines) \cup (SUBSET Pages) : S # Kept
  /\ Categories \subseteq [carbon : BOOLEAN, gl : BOOLEAN]
  /\ TripCategory \in Categories /\ Kept \notin Categories
  /\ Reads \in [Pages -> [base : Base, category : Categories]]
  /\ EditKinds \subseteq AllKinds
  /\ SubmitterVerification \in BOOLEAN
  /\ RequireCoding \in BOOLEAN
  /\ AllowDocumentSplit \in BOOLEAN
  /\ AutoReverse \in {"allow", "approver_reason", "off"}
  /\ HasEvents \in BOOLEAN

VARIABLES
  claim,      \* the claim row
  lines,      \* its claim_line rows, by line identity
  holding,    \* open intakes in the holding queue
  handoffs,   \* carbon_handoff rows of the claim (append-only)
  batches,    \* release_batch rows of the claim (append-only)
  txn,        \* what each session has read and means to write
  payments    \* history: who recorded each settlement of the claim

vars == <<claim, lines, holding, handoffs, batches, txn, payments>>

-----------------------------------------------------------------------------
(* Rows and their derived values. *)

NoLine == [st |-> "absent", base |-> 0, oop |-> FALSE, category |-> TripCategory,
           gl |-> FALSE, centre |-> FALSE, pages |-> {}]

NoClaim == [status |-> "none", created_by |-> None, approved_by |-> None,
            attested |-> FALSE, declared |-> {}, costed |-> FALSE,
            claimed |-> 0, reimb |-> 0]

Idle == [op |-> "idle"]

Present(ls) == {l \in Lines : ls[l].st # "absent"}

Approved(ls) == {l \in Lines : ls[l].st = "approved"}

OutOfPocket(ls) == {l \in Present(ls) : ls[l].oop}

\* Mutant: the decision on the line is not looked at.
Relevant_Undecided(ls) == {l \in Present(ls) : ls[l].category.carbon}

\* The approved lines whose category is carbon relevant: what release forwards.
Relevant(ls) == {l \in Approved(ls) : ls[l].category.carbon}

\* The sum of base_amount over S, counted unit by unit; a line without a
\* base_amount contributes nothing.
Total(ls, S) ==
  Cardinality({u \in S \X (1 .. MaxBase) :
                 ls[u[1]].base # NoBase /\ u[2] <= ls[u[1]].base})

\* Mutant: lines paid by corporate card are reimbursed too.
Rolled_Card(c, ls) ==
  [c EXCEPT !.claimed = Total(ls, Present(ls)), !.reimb = Total(ls, Approved(ls))]

\* _recompute_totals: the header totals rolled up from the lines.
Rolled(c, ls) ==
  [c EXCEPT !.claimed = Total(ls, Present(ls)),
            !.reimb   = Total(ls, Approved(ls) \cap OutOfPocket(ls))]

\* Mutant: an unresolved line does not block the decision.
FxResolved_Skipped(ls) == TRUE

\* _require_fx_resolved: the total is complete before the gate reads it.
FxResolved(ls) == \A l \in Present(ls) : ls[l].base # NoBase

WithStatus(ls, st) ==
  [l \in Lines |-> IF l \in Present(ls) THEN [ls[l] EXCEPT !.st = st] ELSE ls[l]]

\* _posting_ready: the line has a GL account, its own or its category's, and a
\* cost centre, its own or the header's.
PostingReady(c, ln) ==
  /\ ln.gl \/ ln.category.gl
  /\ ln.centre \/ c.costed

Writer(u) == u \notin Viewers

\* Mutant: no maker-checker rule.
MayDecide_Maker(c, u) == u \notin Viewers /\ c.claimed \in Authority[u]

\* check_can_approve: the gate on every sign-off, at the stored header total.
MayDecide(c, u) ==
  /\ u \notin Viewers
  /\ u # c.created_by
  /\ c.claimed \in Authority[u]

\* Mutant: neither the lookup nor the UNIQUE key that backs it.
Forwarded_Never(ls) == FALSE

\* first_for_lines, and the UNIQUE idempotency key of the handoffs.
Forwarded(ls) == \E h \in handoffs : h.dir = "forward" /\ h.line \in Present(ls)

\* A line whose handoff exists cannot be deleted (foreign key).
Deletable(l) == \A h \in handoffs : h.line # l

\* add_line on the pages P of one document, read as one image.
PageLine(P, oop) ==
  LET read == Reads[CHOOSE p \in P : TRUE] IN
  [st |-> "pending", base |-> read.base, oop |-> oop, category |-> read.category,
   gl |-> FALSE, centre |-> FALSE, pages |-> P]

\* add_mileage_line: the server computes the amount, there is no image.
Trip(b) == [st |-> "pending", base |-> b, oop |-> TRUE, category |-> TripCategory,
            gl |-> FALSE, centre |-> FALSE, pages |-> {}]

\* The intake holds neither the line's rate nor its category.
IntakeOf(ln) == [pages |-> ln.pages, base |-> ln.base]

\* attach_intake_as_line prices the amount again, matches a category again and
\* leaves payment_method at its default, out_of_pocket.
LineOf(d, base, category) ==
  [st |-> "pending", base |-> base, oop |-> TRUE, category |-> category,
   gl |-> FALSE, centre |-> FALSE, pages |-> d.pages]

-----------------------------------------------------------------------------
(* Sessions. *)

\* Session s is free and the instance issues requests of kind op.
Ready(s, op) == op \in Ops /\ txn[s] = Idle

\* A request that locked the claim row and commits at once.
Locked(s, op) == Ready(s, op) /\ txn' = txn

\* A column is written only when the request changed it.
Dirty(old, new) == IF new = old THEN Kept ELSE new

Column(now, written) == IF written = Kept THEN now ELSE written

\* The UPDATE that makes new of the claim row old, and what it makes of row now.
ClaimUpdate(old, new) ==
  [status   |-> Dirty(old.status, new.status),
   approved_by |-> Dirty(old.approved_by, new.approved_by),
   attested |-> Dirty(old.attested, new.attested),
   declared |-> Dirty(old.declared, new.declared),
   costed   |-> Dirty(old.costed, new.costed),
   claimed  |-> Dirty(old.claimed, new.claimed),
   reimb    |-> Dirty(old.reimb, new.reimb)]

FlushClaim(now, w) ==
  [status   |-> Column(now.status, w.status), created_by |-> now.created_by,
   approved_by |-> Column(now.approved_by, w.approved_by),
   attested |-> Column(now.attested, w.attested),
   declared |-> Column(now.declared, w.declared),
   costed   |-> Column(now.costed, w.costed),
   claimed  |-> Column(now.claimed, w.claimed),
   reimb    |-> Column(now.reimb, w.reimb)]

\* The same for a line row.
LineUpdate(old, new) ==
  [st    |-> Dirty(old.st, new.st),     base   |-> Dirty(old.base, new.base),
   oop   |-> Dirty(old.oop, new.oop),   category |-> Dirty(old.category, new.category),
   gl    |-> Dirty(old.gl, new.gl),     centre |-> Dirty(old.centre, new.centre),
   pages |-> Dirty(old.pages, new.pages)]

FlushLine(now, w) ==
  [st    |-> Column(now.st, w.st),      base   |-> Column(now.base, w.base),
   oop   |-> Column(now.oop, w.oop),    category |-> Column(now.category, w.category),
   gl    |-> Column(now.gl, w.gl),      centre |-> Column(now.centre, w.centre),
   pages |-> Column(now.pages, w.pages)]

\* The statement a request issues for a line; merge and split renumber them all.
Statement(op, old, new) ==
  IF old.st = "absent" THEN IF new.st = "absent" THEN "none" ELSE "insert"
  ELSE IF new.st = "absent" THEN "delete"
  ELSE IF new # old \/ op \in {"merge", "split"} THEN "update" ELSE "none"

\* The lines that transaction t inserts, updates or deletes.
Issues(t, statement) == {l \in Lines : t.sql[l] = statement}

\* An unlocked request has read the rows and will make them c and ls.
Start(s, op, c, ls) ==
  /\ Ready(s, op)
  /\ txn' = [txn EXCEPT ![s] =
       [op  |-> op, header |-> ClaimUpdate(claim, c),
        sql |-> [l \in Lines |-> Statement(op, lines[l], ls[l])],
        rows |-> [l \in Lines |-> LineUpdate(lines[l], ls[l])],
        known |-> IF Present(ls) \subseteq Present(lines) THEN Lines ELSE Present(lines)]]
  /\ UNCHANGED <<claim, lines, holding, handoffs, batches, payments>>

\* The identities that no row has, nor any row that a session still writes.
Unused ==
  {l \in Lines \ Present(lines) :
     \A s \in Sessions : txn[s].op \in Unlocked => txn[s].sql[l] \in {"none", "insert"}}

\* The flush of t fails on a new line whose line_no another request has taken
\* (uq_claim_line_no), an UPDATE of a line that is gone, a DELETE of a line that
\* a handoff references.
CanFlush(t) ==
  /\ Present(lines) \subseteq t.known
  /\ Issues(t, "update") \subseteq Present(lines)
  /\ \A l \in Issues(t, "delete") : Deletable(l)

Commit(s) ==
  /\ txn[s].op \in Unlocked
  /\ CanFlush(txn[s])
  /\ lines' = [l \in Lines |-> IF txn[s].sql[l] = "delete" THEN NoLine
                               ELSE FlushLine(lines[l], txn[s].rows[l])]
  /\ claim' = [FlushClaim(claim, txn[s].header) EXCEPT !.declared = @ \cap Present(lines')]
  /\ txn' = [txn EXCEPT ![s] = Idle]
  /\ UNCHANGED <<holding, handoffs, batches, payments>>

\* get_db rolls back on any exception; a crash or a deadlock victim ends alike.
Abort(s) ==
  /\ txn[s] # Idle
  /\ txn' = [txn EXCEPT ![s] = Idle]
  /\ UNCHANGED <<claim, lines, holding, handoffs, batches, payments>>

-----------------------------------------------------------------------------
(* Capture. *)

\* Whether the claim is attached to such an event.
EventChoice == IF HasEvents THEN BOOLEAN ELSE {FALSE}

\* The claim row that start_claim and submit leave for the lines ls.
NewClaim(ls, u, status, attested, costed) ==
  Rolled([NoClaim EXCEPT !.status     = status,
                         !.created_by = u,
                         !.costed     = costed,
                         !.attested   = attested /\ OutOfPocket(ls) # {},
                         !.declared   = IF attested /\ OutOfPocket(ls) # {}
                                          THEN Present(ls) ELSE {}], ls)

\* One line for each captured document; the pages routed elsewhere are held.
CapturePages(s, u) ==
  /\ Locked(s, "capture")
  /\ claim.status = "none"
  /\ u # None => Writer(u)
  /\ \E L \in (SUBSET Lines) \ {{}} : \E doc \in [L -> (SUBSET Pages) \ {{}}] :
     \E oop, attested \in BOOLEAN, costed \in EventChoice :
       /\ \A l, m \in L : l # m => doc[l] \cap doc[m] = {}
       /\ lines' = [l \in Lines |-> IF l \in L THEN PageLine(doc[l], oop) ELSE NoLine]
       /\ claim' = NewClaim(lines', u, IF SubmitterVerification THEN "submitted" ELSE "in_review",
                            attested, costed)
       /\ holding' = {IntakeOf(PageLine({p}, TRUE)) : p \in Pages \ (UNION Range(doc))}
  /\ UNCHANGED <<handoffs, batches, payments>>

\* A mileage claim is declared when it is keyed and skips verification.
CaptureTrip(s, u) ==
  /\ Locked(s, "capture")
  /\ claim.status = "none"
  /\ u # None => Writer(u)
  /\ \E l \in Lines, b \in 1 .. MaxBase, costed \in EventChoice :
       /\ lines' = [lines EXCEPT ![l] = Trip(b)]
       /\ claim' = NewClaim(lines', u, "in_review", TRUE, costed)
  /\ UNCHANGED <<holding, handoffs, batches, payments>>

-----------------------------------------------------------------------------
(* Requests that lock the claim row. *)

ConfirmContent(s, u) ==
  /\ Locked(s, "confirm")
  /\ Writer(u)
  /\ claim.status = "submitted"
  /\ claim' = [claim EXCEPT !.status = "in_review"]
  /\ UNCHANGED <<lines, holding, handoffs, batches, payments>>

\* The intake row is read, open, before the claim is locked.
BeginAttach(s, u) ==
  /\ Ready(s, "attach")
  /\ Writer(u)
  /\ \E d \in holding : txn' = [txn EXCEPT ![s] = [op |-> "attach", intake |-> d]]
  /\ UNCHANGED <<claim, lines, holding, handoffs, batches, payments>>

\* attach_intake_as_line, then intake.reroute consumes the intake.
Attach(s) ==
  /\ txn[s].op = "attach"
  /\ claim.status \in Open
  /\ \E l \in Unused, category \in Categories :
     \E base \in IF txn[s].intake.base = 0 THEN {0} ELSE Base :
       /\ lines' = [lines EXCEPT ![l] = LineOf(txn[s].intake, base, category)]
       /\ claim' = Rolled(claim, lines')
  /\ holding' = holding \ {txn[s].intake}
  /\ txn' = [txn EXCEPT ![s] = Idle]
  /\ UNCHANGED <<handoffs, batches, payments>>

\* The line becomes an open intake; a claim left without lines is voided.
SwitchToVendorBill(s, u) ==
  /\ Locked(s, "switch")
  /\ Writer(u)
  /\ claim.status \in Open
  /\ \E l \in Present(lines) :
       /\ lines[l].pages # {}
       /\ Deletable(l)
       /\ holding' = holding \cup {IntakeOf(lines[l])}
       /\ lines' = [lines EXCEPT ![l] = NoLine]
       /\ claim' = [Rolled(claim, lines') EXCEPT
                      !.status   = IF Present(lines') = {} THEN "rejected" ELSE @,
                      !.declared = @ \ {l}]
  /\ UNCHANGED <<handoffs, batches, payments>>

Approve(s, u) ==
  /\ Locked(s, "approve")
  /\ claim.status = "in_review"
  /\ FxResolved(lines)
  /\ MayDecide(claim, u)
  /\ lines' = WithStatus(lines, "approved")
  /\ claim' = Rolled([claim EXCEPT !.status = "approved", !.approved_by = u], lines')
  /\ UNCHANGED <<holding, handoffs, batches, payments>>

\* Mutant: a partial rejection wins over a query.
Outcome_Partial(ls) ==
  LET sts == {ls[l].st : l \in Present(ls)}
  IN IF sts = {"rejected"} THEN "rejected"
     ELSE IF "rejected" \in sts THEN "partially_approved"
     ELSE IF "queried" \in sts \/ "pending" \in sts THEN "sent_back"
     ELSE "approved"

\* Mutant: the line's word for the header's.
Outcome_Word(ls) ==
  LET sts == {ls[l].st : l \in Present(ls)}
  IN IF "queried" \in sts \/ "pending" \in sts THEN "queried"
     ELSE IF sts = {"rejected"} THEN "rejected"
     ELSE IF "rejected" \in sts THEN "partially_approved"
     ELSE "approved"

\* How the line outcomes roll up to the header.
Outcome(ls) ==
  LET sts == {ls[l].st : l \in Present(ls)}
  IN IF "queried" \in sts \/ "pending" \in sts THEN "sent_back"
     ELSE IF sts = {"rejected"} THEN "rejected"
     ELSE IF "rejected" \in sts THEN "partially_approved"
     ELSE "approved"

\* Some lines get a decision, the others keep the one they have.
Decide(s, u) ==
  /\ Locked(s, "decide")
  /\ claim.status = "in_review"
  /\ FxResolved(lines)
  /\ MayDecide(claim, u)
  /\ \E D \in SUBSET Present(lines) : \E decision \in [D -> {"approved", "queried", "rejected"}] :
       lines' = [l \in Lines |->
                   IF l \in D THEN [lines[l] EXCEPT !.st = decision[l]] ELSE lines[l]]
  /\ claim' = Rolled([claim EXCEPT
                !.status      = Outcome(lines'),
                !.approved_by = IF Outcome(lines') \in Signed THEN u ELSE @], lines')
  /\ UNCHANGED <<holding, handoffs, batches, payments>>

Attest(s, u) ==
  /\ Locked(s, "attest")
  /\ Writer(u)
  /\ claim.status \in Open \cup Signed
  /\ OutOfPocket(lines) # {}
  /\ ~claim.attested
  /\ claim' = [claim EXCEPT !.attested = TRUE, !.declared = Present(lines)]
  /\ UNCHANGED <<lines, holding, handoffs, batches, payments>>

\* Mutant: a partial approval passes without a declaration.
AttestationGate_Full ==
  \/ claim.attested
  \/ claim.status = "partially_approved"
  \/ Approved(lines) \cap OutOfPocket(lines) = {}

\* Nothing out of pocket is approved, or the claimant has declared it.
AttestationGate ==
  claim.attested \/ Approved(lines) \cap OutOfPocket(lines) = {}

\* Mutant: one coded line is enough.
PostingGate_Some ==
  RequireCoding => \E l \in Approved(lines) : PostingReady(claim, lines[l])

\* With the client policy on, every approved line has its coding.
PostingGate ==
  RequireCoding => \A l \in Approved(lines) : PostingReady(claim, lines[l])

\* What the batch hash covers: each line and its amount.
Amounts(S) == {<<l, lines[l].base>> : l \in S}

\* Forward the relevant approved lines.  A claim already released, or whose
\* batch hash is taken, is an idempotent no-op and makes no step.
Release(s, u) ==
  LET batch == [dir |-> "forward", of |-> Amounts(Relevant(lines))] IN
  /\ Locked(s, "release")
  /\ Writer(u)
  /\ ~Forwarded(lines)
  /\ claim.status \in Signed
  /\ AttestationGate
  /\ PostingGate
  /\ batch \notin batches
  /\ batches' = batches \cup {batch}
  /\ handoffs' = handoffs \cup {[line |-> l, dir |-> "forward", base |-> lines[l].base] :
                                  l \in Relevant(lines)}
  /\ claim' = [claim EXCEPT !.status = "released"]
  /\ UNCHANGED <<lines, holding, payments>>

ReversalAllowed(u) ==
  \/ AutoReverse = "allow"
  \/ AutoReverse = "approver_reason" /\ u \in Seniors

\* Forward the negation of every relevant line; the claim stays released.
Reverse(s, u) ==
  LET batch == [dir |-> "reversal", of |-> Amounts(Relevant(lines))] IN
  /\ Locked(s, "reverse")
  /\ Writer(u)
  /\ ReversalAllowed(u)
  /\ claim.status = "released"
  /\ \A h \in handoffs : h.dir = "reversal" => h.line \notin Relevant(lines)
  /\ batch \notin batches
  /\ batches' = batches \cup {batch}
  /\ handoffs' = handoffs \cup {[line |-> l, dir |-> "reversal", base |-> lines[l].base] :
                                  l \in Relevant(lines)}
  /\ UNCHANGED <<claim, lines, holding, payments>>

MarkPaid(s, u) ==
  /\ Locked(s, "mark_paid")
  /\ Writer(u)
  /\ u # claim.created_by
  /\ claim.status \in Payable
  /\ claim' = [claim EXCEPT !.status = "paid"]
  /\ payments' = Append(payments, u)
  /\ UNCHANGED <<lines, holding, handoffs, batches>>

-----------------------------------------------------------------------------
(* Requests that read the claim without a lock. *)

\* What an edit of the given kind can make of line ln.  An amount or a currency
\* changes base_amount through the rate that applies, or leaves it unresolved.
Edited(ln, kind) ==
  CASE kind = "amount"   -> {[ln EXCEPT !.base = b] : b \in Base}
    [] kind = "rate"     -> {[ln EXCEPT !.base = b] :
                               b \in IF ln.base = NoBase THEN Base ELSE {ln.base}}
    [] kind = "rerate"   -> {[ln EXCEPT !.base = b] : b \in Base}
    [] kind = "method"   -> {[ln EXCEPT !.oop = ~@]}
    [] kind = "category" -> {[ln EXCEPT !.category = c] : c \in Categories}
    [] kind = "gl"       -> {[ln EXCEPT !.gl = ~@]}
    [] kind = "centre"   -> {[ln EXCEPT !.centre = ~@]}

BeginEdit(s, u) ==
  /\ Writer(u)
  /\ \E kind \in EditKinds, l \in Present(lines) :
       /\ claim.status \in Open \cup (IF kind \in CodingKinds THEN Signed ELSE {})
       /\ \E ln \in Edited(lines[l], kind) :
            LET ls == [lines EXCEPT ![l] = ln] IN
            /\ ln # lines[l]
            /\ Start(s, "edit", Rolled(claim, ls), ls)

\* Of the header fields, the event gives the claim a cost centre.
BeginEditHeader(s, u) ==
  /\ Writer(u)
  /\ claim.status \in Open
  /\ \E costed \in EventChoice \ {claim.costed} :
       Start(s, "edit_header", [claim EXCEPT !.costed = costed], lines)

BeginAddMileage(s, u) ==
  /\ Writer(u)
  /\ claim.status \in Open
  /\ \E l \in Unused, b \in 1 .. MaxBase :
       LET ls == [lines EXCEPT ![l] = Trip(b)] IN
       Start(s, "add_mileage",
             Rolled([claim EXCEPT !.attested = TRUE, !.declared = Present(ls)], ls), ls)

\* The survivor keeps its fields and takes every page; the others are deleted.
BeginMerge(s, u) ==
  /\ Writer(u)
  /\ claim.status \in Open
  /\ AllowDocumentSplit
  /\ \E M \in SUBSET {l \in Present(lines) : lines[l].pages # {}} : \E survivor \in M :
       LET ls == [l \in Lines |->
                    IF l = survivor
                      THEN [lines[l] EXCEPT !.pages = UNION {lines[m].pages : m \in M}]
                    ELSE IF l \in M THEN NoLine ELSE lines[l]]
       IN /\ Cardinality(M) >= 2
          /\ Start(s, "merge", Rolled(claim, ls), ls)

\* Mutant: the pages are copied with the other fields.
SplitOff_AllPages(ln, p) ==
  [ln EXCEPT !.st = "pending", !.base = IF @ = 0 THEN 0 ELSE NoBase,
             !.gl = FALSE, !.centre = FALSE]

\* A split-off line copies the amount and the category, but not the rate nor
\* base_amount nor the coding.
SplitOff(ln, p) ==
  [ln EXCEPT !.st = "pending", !.base = IF @ = 0 THEN 0 ELSE NoBase,
             !.gl = FALSE, !.centre = FALSE, !.pages = {p}]

BeginSplit(s, u) ==
  /\ Writer(u)
  /\ claim.status \in Open
  /\ AllowDocumentSplit
  /\ \E l \in Present(lines) : \E first \in lines[l].pages :
     \E slot \in [lines[l].pages \ {first} -> Unused] :
       LET rest == lines[l].pages \ {first}
           ls == [m \in Lines |->
                    IF m = l THEN [lines[l] EXCEPT !.pages = {first}]
                    ELSE IF m \in Range(slot)
                      THEN SplitOff(lines[l], CHOOSE p \in rest : slot[p] = m)
                    ELSE lines[m]]
       IN /\ rest # {}
          /\ \A p, q \in rest : slot[p] = slot[q] => p = q
          /\ Start(s, "split", Rolled(claim, ls), ls)

BeginSendBack(s, u) ==
  /\ claim.status = "in_review"
  /\ MayDecide(claim, u)
  /\ Start(s, "send_back", [claim EXCEPT !.status = "submitted"],
           WithStatus(lines, "pending"))

BeginReject(s, u) ==
  /\ claim.status = "in_review"
  /\ MayDecide(claim, u)
  /\ Start(s, "reject", [claim EXCEPT !.status = "rejected"],
           WithStatus(lines, "rejected"))

\* Reopen a signed claim: no self-check, a reopening is not a sign-off.
BeginUnapprove(s, u) ==
  /\ claim.status \in Reopenable
  /\ Writer(u)
  /\ LET ls == WithStatus(lines, "pending") IN
     Start(s, "unapprove",
           Rolled([claim EXCEPT !.status = "in_review", !.approved_by = None], ls), ls)

BeginResubmit(s, u) ==
  /\ Writer(u)
  /\ claim.status \in {"submitted", "sent_back"}
  /\ Start(s, "resubmit", [claim EXCEPT !.status = "in_review"], lines)

-----------------------------------------------------------------------------
Init ==
  /\ claim = NoClaim
  /\ lines = [l \in Lines |-> NoLine]
  /\ holding = {}
  /\ handoffs = {}
  /\ batches = {}
  /\ txn = [s \in Sessions |-> Idle]
  /\ payments = <<>>

Request(s, u) ==
  \/ ConfirmContent(s, u)
  \/ BeginAttach(s, u)
  \/ SwitchToVendorBill(s, u)
  \/ Approve(s, u)
  \/ Decide(s, u)
  \/ Attest(s, u)
  \/ Release(s, u)
  \/ Reverse(s, u)
  \/ MarkPaid(s, u)
  \/ BeginEdit(s, u)
  \/ BeginEditHeader(s, u)
  \/ BeginAddMileage(s, u)
  \/ BeginMerge(s, u)
  \/ BeginSplit(s, u)
  \/ BeginSendBack(s, u)
  \/ BeginReject(s, u)
  \/ BeginUnapprove(s, u)
  \/ BeginResubmit(s, u)

Next ==
  \E s \in Sessions :
    \/ \E u \in Users \cup {None} : CapturePages(s, u) \/ CaptureTrip(s, u)
    \/ \E u \in Users : Request(s, u)
    \/ Attach(s)
    \/ Commit(s)
    \/ Abort(s)

Spec == Init /\ [][Next]_vars

-----------------------------------------------------------------------------
(* Whatever requests overlap. *)

ClaimWrite ==
  [status : Status \cup {Kept}, approved_by : Users \cup {None, Kept},
   attested : BOOLEAN \cup {Kept}, declared : (SUBSET Lines) \cup {Kept},
   costed : BOOLEAN \cup {Kept}, claimed : Nat \cup {Kept}, reimb : Nat \cup {Kept}]

LineWrite ==
  [st : LineStatus \cup {Kept}, base : Base \cup {Kept}, oop : BOOLEAN \cup {Kept},
   category : Categories \cup {Kept}, gl : BOOLEAN \cup {Kept},
   centre : BOOLEAN \cup {Kept}, pages : (SUBSET Pages) \cup {Kept}]

\* What the transaction of a session holds between its two steps.
Txn ==
  {Idle}
    \cup [op : {"attach"}, intake : Intake]
    \cup [op : Unlocked, header : ClaimWrite, rows : [Lines -> LineWrite],
          sql : [Lines -> {"none", "insert", "update", "delete"}], known : SUBSET Lines]

Handoff == [line : Lines, dir : {"forward", "reversal"}, base : Base]

\* Every variable holds what its column or its session can hold.
TypeOK ==
  /\ claim \in Claim
  /\ lines \in [Lines -> Line]
  /\ holding \subseteq Intake
  /\ handoffs \subseteq Handoff
  /\ batches \subseteq [dir : {"forward", "reversal"}, of : SUBSET (Lines \X Base)]
  /\ txn \in [Sessions -> Txn]
  /\ payments \in Seq(Users)

\* Separation of duties: a claim that is signed off or beyond names a signer
\* other than its maker, and only users other than its maker settled it.  No
\* stale write clears approved_by and leaves the status, or the reverse.
SeparationOfDuties ==
  /\ claim.status \in Signed \cup Left =>
       claim.approved_by \notin Viewers \cup {None, claim.created_by}
  /\ \A u \in Range(payments) : u \notin Viewers \cup {claim.created_by}

\* A line's carbon data is forwarded once and reversed once, even when a stale
\* request reopens a released claim and it is amended and approved again.
ForwardedOnce ==
  \A h, g \in handoffs : h.line = g.line /\ h.dir = g.dir => h = g

\* No settlement without a release: when money has left, the claim's forward
\* batch exists.
NoPayWithoutRelease ==
  payments # <<>> => \E b \in batches : b.dir = "forward"

-----------------------------------------------------------------------------
(* When requests do not overlap. *)

\* A claim that has left is corrected by reversal only: its lines, its totals and
\* its approver stay as they are, released may become paid and nothing else; a
\* settled claim is not settled again, and a rejected claim stays rejected.
ClosedIsFinal ==
  [][/\ claim.status \in Left =>
          /\ claim'.status = claim.status \/ claim'.status = "paid"
          /\ lines' = lines
          /\ claim'.reimb = claim.reimb
          /\ claim'.approved_by = claim.approved_by
     /\ payments # <<>> => payments' = payments
     /\ claim.status = "rejected" => claim'.status = "rejected"]_vars

\* The header total that the authority gate reads is the sum of the lines, and
\* what is reimbursed is the sum of the approved out-of-pocket lines.
TotalsMatchLines ==
  /\ claim.claimed = Total(lines, Present(lines))
  /\ claim.status \in Signed \cup Left =>
       claim.reimb = Total(lines, {l \in Present(lines) :
                                     lines[l].st = "approved" /\ lines[l].oop})

\* A sign-off prices every line, and the amount at which it is given is one that
\* the signer may sign off, by personal limit and by the approval matrix.  From then
\* to the release the signature, the decisions and what was decided on stay: only
\* the coding may change, and the amount of a line through its exchange rate.
SignedWithinAuthority ==
  [][/\ claim.status \notin Signed /\ claim'.status \in Signed =>
          /\ \A l \in Present(lines') : lines'[l].base # NoBase
          /\ Total(lines', Present(lines')) \in Authority[claim'.approved_by]
     /\ claim.status \in Signed /\ claim'.status \in Signed \cup Left =>
          /\ claim'.approved_by = claim.approved_by
          /\ \A l \in Lines :
               lines'[l] = [lines[l] EXCEPT !.base = lines'[l].base, !.gl = lines'[l].gl,
                                            !.centre = lines'[l].centre]]_vars

\* Out-of-pocket spend that has been released has a declaration on file, through
\* decisions, edits of the payment method, added trips and switched lines.
AttestedWhenReimbursed ==
  claim.status \in Left =>
    claim.attested \/ \A l \in Present(lines) : lines[l].st = "approved" => ~lines[l].oop

\* Under the coding policy every approved line of a released claim has a GL account
\* and a cost centre to be booked under, through edits of its coding, its category
\* and the claim's event, reopenings and reversals.
CodedWhenReleased ==
  RequireCoding /\ claim.status \in Left =>
    \A l \in Present(lines) : lines[l].st = "approved" =>
      /\ lines[l].gl \/ lines[l].category.gl
      /\ lines[l].centre \/ claim.costed

\* What was forwarded is exactly the approved carbon-relevant lines of the claim
\* as it stands, at their amounts; before release nothing is forwarded.
ForwardMatchesApproval ==
  {[line |-> h.line, base |-> h.base] : h \in {g \in handoffs : g.dir = "forward"}}
    = IF claim.status \in Left
        THEN {[line |-> l, base |-> lines[l].base] :
                l \in {m \in Lines : lines[m].st = "approved" /\ lines[m].category.carbon}}
        ELSE {}

\* A reversal mirrors the release line by line and amount by amount.
ReversalMirrorsForward ==
  LET Rows(dir) == {[line |-> h.line, base |-> h.base] : h \in {g \in handoffs : g.dir = dir}}
  IN Rows("reversal") # {} => Rows("reversal") = Rows("forward")

\* What the carbon ledger was handed is what was approved, and what a reversal takes
\* back is what was handed.
HandoffsMatch == ForwardMatchesApproval /\ ReversalMirrorsForward

\* The header status is the one that the line decisions roll up to.
StatusAgreesWithLines ==
  LET sts == {lines[l].st : l \in Present(lines)} IN
  /\ claim.status = "approved" => sts = {"approved"}
  /\ claim.status = "partially_approved" => sts = {"approved", "rejected"}
  /\ claim.status \in Left => sts \in {{"approved"}, {"approved", "rejected"}}
  /\ claim.status = "rejected" => sts \subseteq {"rejected"}

\* Merging, splitting, attaching and switching neither lose a captured page nor
\* file one twice: each page is on one line or in one open intake.
PageFiledOnce ==
  LET onLines == {lines[l].pages : l \in Present(lines)}
      held    == {d.pages : d \in holding}
  IN /\ \A l, m \in Present(lines) : l # m => lines[l].pages \cap lines[m].pages = {}
     /\ \A P, Q \in held : P # Q => P \cap Q = {}
     /\ (UNION onLines) \cap (UNION held) = {}
     /\ UNION (onLines \cup held) \in {{}, Pages}

=============================================================================
