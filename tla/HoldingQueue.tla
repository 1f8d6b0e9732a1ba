---------------------------- MODULE HoldingQueue ----------------------------
(***************************************************************************)
(* The queue of captured pages that did not become a claim line: one       *)
(* document_intake row for each page (services/intake.py, routing.py).     *)
(*                                                                         *)
(* No request locks an intake row.  A request is therefore two steps: a    *)
(* Begin action reads the rows, checks the guards and computes the writes; *)
(* a Commit action writes the columns whose value changed, whatever other  *)
(* requests have committed in between.  ApInvoice composes this module     *)
(* with the vendor bills that are filed from the queue.                    *)
(***************************************************************************)
EXTENDS Naturals, FiniteSets

CONSTANTS
  MaxIntakes,   \* bound on the document_intake rows
  Users,        \* firm users who hold a grant to the client
  Viewers,      \* the users whose base role is viewer
  Duties,       \* for each user, the kinds of request the user issues
  Readings,     \* what the recogniser may read off a captured page
  Worlds,       \* [sessions, users, ops, reads, pages]: who overlaps, who asks
                \* for what, what is captured and how many pages at most
  None,         \* SQL NULL
  Kept          \* in an UPDATE: the column is not written

Intakes == 1 .. MaxIntakes

Queues == {"eclaim", "ap_holding", "pending"}

\* AP-side papers that can be filed from; only the first is payable.
HeldTypes == {"vendor_invoice", "delivery_order", "quotation", "purchase_order"}

DocumentTypes == HeldTypes \cup {"expense_receipt", "unknown"}

ASSUME QueueAssumption ==
  /\ MaxIntakes \in Nat
  /\ \A w \in Worlds : /\ w.pages \in 0 .. MaxIntakes /\ w.reads \subseteq Readings
                        /\ IsFiniteSet(w.sessions)
  /\ Viewers \subseteq Users /\ None \notin Users
  /\ \A r \in Readings : r.type \in DocumentTypes /\ r.sure \in BOOLEAN
  /\ Kept \notin Queues \cup {"open", "consumed"}

VARIABLES
  world,      \* the requests of this behaviour; never changes
  intakes,    \* the document_intake rows, by identity
  txn         \* what each session has read and means to write

Sessions == UNION {w.sessions : w \in Worlds}

Idle == [op |-> "idle"]

\* claims counts the expense claims that carry the page as a line.  Two
\* histories: upgraded, the row was reclassified after it was linked or could
\* have been; from_claim, the row came over from a claim (the audit event
\* converted_from_claim).
NoIntake == [st |-> "absent", queue |-> "pending", type |-> "unknown",
             key |-> None, read |-> None, by |-> None, link |-> 0,
             claims |-> 0, upgraded |-> FALSE, from_claim |-> FALSE]

Captured == {i \in Intakes : intakes[i].st # "absent"}

OpenRows == {i \in Intakes : intakes[i].st = "open"}

Earliest(S) == CHOOSE i \in S : \A j \in S : i <= j

\* The identity of the next row: identities are given in order of creation.
NextIntake == Cardinality(Captured) + 1

Serial == Cardinality(world.sessions) = 1

\* Session s is free, and the instance lets user u make a request of kind op.
Asks(s, u, op) ==
  /\ s \in world.sessions /\ txn[s] = Idle
  /\ u \in world.users /\ op \in world.ops \cap Duties[u]
  /\ u \notin Viewers

Pick(old, new) == IF new = Kept THEN old ELSE new

Changed(old, new) == IF new = old THEN Kept ELSE new

-----------------------------------------------------------------------------
(* Routing of one classified page. *)

\* route(): a read below the confidence threshold asks the human, as does an
\* unknown type.
Route(type, sure) ==
  IF ~sure \/ type = "unknown" THEN "pending"
  ELSE IF type = "expense_receipt" THEN "eclaim" ELSE "ap_holding"

\* link_key(): no key unless both the vendor and the reference were read.
LinkKey(r) == IF r.name = None \/ r.ref = None THEN None ELSE <<r.name, r.ref>>

\* Mutant: the page is linked to any paper with its key.
Counterpart_AnyType(i, type, key) ==
  LET mates == {j \in Captured \ {i} :
                  key # None /\ intakes[j].key = key /\ intakes[j].link = 0}
  IN IF mates = {} THEN 0 ELSE Earliest(mates)

\* _link_counterpart: the earliest unlinked paper of the opposite type with
\* the same key; 0 when there is none.
Counterpart(i, type, key) ==
  LET want  == IF type = "vendor_invoice" THEN "delivery_order" ELSE "vendor_invoice"
      mates == {j \in Captured \ {i} :
                  /\ key # None /\ type \in {"vendor_invoice", "delivery_order"}
                  /\ intakes[j].key = key /\ intakes[j].type = want
                  /\ intakes[j].link = 0}
  IN IF mates = {} THEN 0 ELSE Earliest(mates)

\* Both directions of a link are written, in two rows.
Linked(rows, i, j) ==
  IF j = 0 THEN rows ELSE [rows EXCEPT ![i].link = j, ![j].link = i]

-----------------------------------------------------------------------------
(* record_intake: classify, route and keep one captured page. *)

\* Mutant: the queue is not looked up before the insert.
Twins_None(image) == {}

\* The open rows that hold the same image.
Twins(image) == {i \in OpenRows : intakes[i].read.image = image}

\* The page is new to the queue, or became a claim line on capture.
BeginRecord(s, u, r) ==
  LET queue == Route(r.type, r.sure) IN
  /\ Asks(s, u, "record")
  /\ r \in world.reads /\ NextIntake <= world.pages
  /\ queue = "eclaim" \/ Twins(r.image) = {}
  /\ txn' = [txn EXCEPT ![s] =
       [op |-> "record",
        row |-> [NoIntake EXCEPT !.st = IF queue = "eclaim" THEN "consumed" ELSE "open",
                                 !.queue = queue, !.type = r.type, !.key = LinkKey(r),
                                 !.read = r, !.by = u,
                                 !.claims = IF queue = "eclaim" THEN 1 ELSE 0],
        mate |-> Counterpart(NextIntake, r.type, LinkKey(r))]]
  /\ UNCHANGED <<world, intakes>>

\* The same image is already in the queue: the row is kept, and a confident
\* read reclassifies one that was still pending.
BeginSuppress(s, u, r) ==
  LET queue == Route(r.type, r.sure)
      i     == Earliest(Twins(r.image))
      up    == intakes[i].queue = "pending" /\ queue # "pending"
  IN
  /\ Asks(s, u, "record")
  /\ r \in world.reads
  /\ queue # "eclaim" /\ Twins(r.image) # {}
  /\ txn' = [txn EXCEPT ![s] =
       IF up THEN [op |-> "upgrade", intake |-> i, type |-> r.type, queue |-> queue,
                   key |-> LinkKey(r), mate |-> Counterpart(i, r.type, LinkKey(r))]
             ELSE [op |-> "audit_only"]]
  /\ UNCHANGED <<world, intakes>>

CommitRecord(s) ==
  LET i == NextIntake IN
  /\ txn[s].op = "record" /\ i <= world.pages
  /\ intakes' = Linked([intakes EXCEPT ![i] = txn[s].row], i, txn[s].mate)
  /\ txn' = [txn EXCEPT ![s] = Idle]
  /\ UNCHANGED world

CommitUpgrade(s) ==
  LET t == txn[s] IN
  /\ t.op = "upgrade"
  /\ intakes' = Linked([intakes EXCEPT ![t.intake].type = t.type,
                                       ![t.intake].queue = t.queue,
                                       ![t.intake].key = t.key,
                                       ![t.intake].upgraded = TRUE],
                       t.intake, t.mate)
  /\ txn' = [txn EXCEPT ![s] = Idle]
  /\ UNCHANGED world

-----------------------------------------------------------------------------
(* intake_reroute: a reviewer's correction of a route.                     *)

\* Mutant: the page is not marked as processed when it becomes a claim line.
Rerouted_Open(to) == "open"

\* Mutant: a status that ck_document_intake_status does not know.
Rerouted_Filed(to) == IF to = "eclaim" THEN "filed" ELSE "open"

Reroutable(row) == row.st = "open"

\* What the row's status becomes: a page that went to a claim is processed.
Rerouted(to) == IF to = "eclaim" THEN "consumed" ELSE "open"

BeginReroute(s, u, i, to) ==
  /\ Asks(s, u, "reroute")
  /\ Reroutable(intakes[i])
  /\ txn' = [txn EXCEPT ![s] =
       [op |-> "reroute", intake |-> i, queue |-> Changed(intakes[i].queue, to),
        st |-> Changed(intakes[i].st, Rerouted(to)),
        claims |-> IF to = "eclaim" THEN 1 ELSE 0]]
  /\ UNCHANGED <<world, intakes>>

CommitReroute(s) ==
  LET t == txn[s] IN
  /\ t.op = "reroute"
  /\ intakes' = [intakes EXCEPT ![t.intake].queue = Pick(@, t.queue),
                                ![t.intake].st = Pick(@, t.st),
                                ![t.intake].claims = @ + t.claims]
  /\ txn' = [txn EXCEPT ![s] = Idle]
  /\ UNCHANGED world

-----------------------------------------------------------------------------
(* switch_line_to_vendor_bill: a claim line that is really a vendor bill     *)
(* comes back to the queue as a row of its own.  The request holds the lock  *)
(* of the claim from before it reads the line, so it is one step.            *)

\* The row of a line that is switched: no reference to link by, and no lookup
\* of rows that hold the same image.
Returned(read, u) ==
  [NoIntake EXCEPT !.st = "open", !.queue = "ap_holding", !.type = "vendor_invoice",
                   !.read = read, !.by = u, !.from_claim = TRUE]

\* The page of row i became a claim line, and leaves its claim.
SwitchIn(s, u, i) ==
  /\ Asks(s, u, "switch_line")
  /\ intakes[i].claims > 0 /\ NextIntake <= world.pages
  /\ intakes' = [intakes EXCEPT ![i].claims = @ - 1,
                                ![NextIntake] = Returned(intakes[i].read, u)]
  /\ UNCHANGED <<world, txn>>

-----------------------------------------------------------------------------
\* A refusal at flush, or any other error: get_db rolls back.
Abort(s) ==
  /\ txn[s] # Idle
  /\ txn' = [txn EXCEPT ![s] = Idle]
  /\ UNCHANGED <<world, intakes>>

QueueInit ==
  /\ world \in Worlds
  /\ intakes = [i \in Intakes |-> NoIntake]
  /\ txn = [s \in Sessions |-> Idle]

QueueNext ==
  \E s \in Sessions :
    \/ \E u \in Users, r \in Readings : BeginRecord(s, u, r) \/ BeginSuppress(s, u, r)
    \/ \E u \in Users, i \in Intakes, to \in Queues : BeginReroute(s, u, i, to)
    \/ \E u \in Users, i \in Intakes : SwitchIn(s, u, i)
    \/ CommitRecord(s) \/ CommitUpgrade(s) \/ CommitReroute(s) \/ Abort(s)

-----------------------------------------------------------------------------
(* Properties. *)

\* When requests do not overlap, the later of two open rows with one image came
\* over from a claim: the lookup of record_intake suppresses the second capture,
\* also of a page that came back.  (A line that is switched from its claim gets
\* its row without a lookup, and two overlapping captures do add two rows: no
\* UNIQUE key stands behind the lookup.)
OneRowPerImage ==
  Serial => \A i, j \in OpenRows :
    i < j /\ intakes[i].read.image = intakes[j].read.image => intakes[j].from_claim

\* When requests do not overlap, a link joins a delivery order to a vendor
\* invoice with the same vendor and reference, and is mutual, unless one of
\* the two rows was reclassified by a later capture, which links it again
\* without taking the first link back.
LinksPair ==
  Serial => \A i \in Captured :
    LET j == intakes[i].link IN
    j # 0 => \/ intakes[i].upgraded \/ intakes[j].upgraded
             \/ /\ {intakes[i].type, intakes[j].type} = {"vendor_invoice", "delivery_order"}
                /\ intakes[i].key = intakes[j].key
                /\ intakes[j].link = i

\* When requests do not overlap, capture never shows an image twice in the
\* queue, and links pair delivery orders with vendor invoices of the same key.
QueueSound == OneRowPerImage /\ LinksPair
=============================================================================
