----------------------------- MODULE ApInvoice -----------------------------
(***************************************************************************)
(* Vendor bills of one client (services/ap.py, erp.py), composed with the  *)
(* holding queue they are filed from.                                      *)
(*                                                                         *)
(* No request on a bill sees a locked, fresh row.  mark_paid takes the row *)
(* lock, but payables_pay has loaded the bill before, and the lock does    *)
(* not refresh an object the session already holds.  So every request is   *)
(* two steps, as in HoldingQueue: Begin reads the row, checks the guards   *)
(* and computes the new row; Commit writes the columns whose value         *)
(* changed.  The database refuses a commit that breaks ck_ap_invoice_sod,  *)
(* uq_ap_invoice_idem or uq_ap_invoice_line_no (CanFlush, CommitFile).     *)
(***************************************************************************)
EXTENDS HoldingQueue

CONSTANTS
  MaxBills,     \* bound on the ap_invoice rows
  MaxVendors,   \* bound on the vendor rows
  MaxLines,     \* bound on the lines of a bill
  MaxRepeats,   \* bound on how often a bill is paid, posted or converted
  Authority,    \* for each user, the totals that the personal limit and the
                \* approval matrix for bills let that user approve
  DocEdits,     \* document numbers a header correction may enter
  TotalEdits,   \* totals a header correction may enter
  NameEdits     \* vendor names a header correction may enter

Bills   == 1 .. MaxBills
Vendors == 1 .. MaxVendors
LineNos == 1 .. MaxLines

Status == {"absent", "captured", "coded", "pending_approval", "approved",
           "posted", "paid", "held", "rejected"}

Columns == {"st", "doc", "total", "coder", "submitter", "approver", "erp"}

\* The bill may still be coded and corrected.
PreApproval == {"captured", "coded", "held"}

\* _LIVE_STATUSES: a rejected bill is no duplicate of a new one.
Live == Status \ {"absent", "rejected"}

\* Signed off by an approver.
Signed == {"approved", "posted", "paid"}

\* Mutant: a paid bill may be paid again.
Owed_Paid == {"approved", "posted", "paid"}

\* What mark_paid settles.
Owed == {"approved", "posted"}

NotPayable == {"quotation", "purchase_order", "delivery_order"}

ASSUME BillAssumption ==
  /\ MaxBills \in Nat /\ MaxVendors \in Nat /\ MaxLines \in Nat \ {0}
  /\ MaxRepeats \in Nat
  /\ Kept \notin Status \cup Users \cup {None} /\ Kept \notin BOOLEAN
  /\ Kept \notin DocEdits /\ Kept \notin TotalEdits
  /\ None \notin NameEdits /\ None # "Unknown vendor"

VARIABLES
  bills,      \* the ap_invoice rows with their ap_invoice_line rows
  vendors,    \* the vendor rows: their names
  past        \* history: marks of payment and posting, holds that a reviewer
              \* cleared, everyone who coded the bill, claims that carry it

vars == <<world, intakes, txn, bills, vendors, past>>

-----------------------------------------------------------------------------
(* Rows. *)

NoBill == [st |-> "absent", vendor |-> 0, doc |-> None, total |-> None,
           filer |-> None, coder |-> None, submitter |-> None,
           approver |-> None, erp |-> FALSE, intake |-> 0,
           lines |-> [n \in LineNos |-> "none"]]

NoPast == [paid |-> 0, posted |-> 0, cleared |-> FALSE, coders |-> {}, claims |-> 0]

Present(row) == {n \in LineNos : row.lines[n] # "none"}

\* _require_categories: every line carries a category.
Categorised(row) == \A n \in Present(row) : row.lines[n] = "categorised"

Exists == {b \in Bills : bills[b].st # "absent"}

NextBill == Cardinality(Exists) + 1

NamedVendors == {v \in Vendors : vendors[v] # None}

NextVendor == Cardinality(NamedVendors) + 1

VendorName(read) == IF read.name = None THEN "Unknown vendor" ELSE read.name

\* get_or_create_vendor: the row with that name, 0 when one must be created.
VendorOf(name) ==
  LET same == {v \in NamedVendors : vendors[v] = name}
  IN IF same = {} THEN 0 ELSE Earliest(same)

\* Mutant: a new bill is not compared with those that exist.
Duplicates_None(vendor, doc, total, self) == {}

\* find_duplicate: live bills with the vendor, the document number and, when
\* an amount is given, the same amount.
Duplicates(vendor, doc, total, self) ==
  {b \in Bills \ {self} :
     /\ doc # None
     /\ bills[b].st \in Live /\ bills[b].vendor = vendor /\ bills[b].doc = doc
     /\ total # None => bills[b].total = total}

-----------------------------------------------------------------------------
(* create_from_intake. *)

\* Mutant: no UNIQUE idempotency key.
Filed_Never(i) == FALSE

\* uq_ap_invoice_idem: the key of a bill is its intake.
Filed(i) == \E b \in Exists : bills[b].intake = i

\* The row create_invoice inserts: one line for the whole amount, on hold when
\* it looks like a bill that exists.
NewBill(i, vendor) ==
  LET read == intakes[i].read
      copy == vendor # 0 /\ Duplicates(vendor, read.doc, read.total, 0) # {}
  IN [NoBill EXCEPT !.st = IF copy THEN "held" ELSE "captured",
                    !.vendor = vendor, !.doc = read.doc, !.total = read.total,
                    !.filer = intakes[i].by, !.intake = i, !.lines[1] = "bare"]

BeginFile(s, u, i) ==
  /\ Asks(s, u, "file")
  /\ intakes[i].st = "open"
  /\ intakes[i].type \notin NotPayable
  /\ LET v == VendorOf(VendorName(intakes[i].read)) IN
     txn' = [txn EXCEPT ![s] = [op |-> "file", row |-> NewBill(i, v),
                                name |-> VendorName(intakes[i].read)]]
  /\ UNCHANGED <<world, intakes, bills, vendors, past>>

CommitFile(s) ==
  LET t == txn[s]
      v == IF t.row.vendor = 0 THEN NextVendor ELSE t.row.vendor
  IN
  /\ t.op = "file"
  /\ ~Filed(t.row.intake)
  /\ NextBill \in Bills /\ v \in Vendors
  /\ bills' = [bills EXCEPT ![NextBill] = [t.row EXCEPT !.vendor = v]]
  /\ vendors' = [vendors EXCEPT ![v] = IF t.row.vendor = 0 THEN t.name ELSE @]
  /\ intakes' = [intakes EXCEPT ![t.row.intake].st = "consumed"]
  /\ txn' = [txn EXCEPT ![s] = Idle]
  /\ UNCHANGED <<world, past>>

-----------------------------------------------------------------------------
(* Requests that update one bill. *)

\* The columns of b that take another value in new, one changed line (number
\* 0: none) and one renamed vendor (0: none).
Update(s, b, op, new, line, rename) ==
  /\ txn' = [txn EXCEPT ![s] =
       [op |-> op, bill |-> b, line |-> line, rename |-> rename, by |-> new.coder,
        upd |-> [c \in Columns |-> Changed(bills[b][c], new[c])]]]
  /\ UNCHANGED <<world, intakes, bills, vendors, past>>

NoLine == [no |-> 0, to |-> "none"]
NoRename == [vendor |-> 0, name |-> None]

\* code_line: the coder is recorded on every call, a category is optional.
BeginCode(s, u, b, n, category) ==
  /\ Asks(s, u, "code")
  /\ bills[b].st \in PreApproval /\ n \in Present(bills[b])
  /\ Update(s, b, "code",
            [bills[b] EXCEPT !.coder = u,
                             !.st = IF @ = "captured" THEN "coded" ELSE @],
            [no |-> n, to |-> IF category THEN "categorised" ELSE bills[b].lines[n]],
            NoRename)

\* Mutant: the duplicate check is not run again after a correction.
Rechecked_Never(old, new, b) == new

\* A correction of the number or the total runs the duplicate check again,
\* unless the bill is on hold already.
Rechecked(old, new, b) ==
  IF /\ new.doc # old.doc \/ new.total # old.total
     /\ old.st # "held"
     /\ Duplicates(new.vendor, new.doc, new.total, b) # {}
  THEN [new EXCEPT !.st = "held"] ELSE new

\* The vendor is renamed only while this bill is its only one.
MayRename(b, name) ==
  name # vendors[bills[b].vendor] =>
    \A o \in Exists \ {b} : bills[o].vendor # bills[b].vendor

BeginEditHeader(s, u, b, doc, total, name) ==
  LET row == bills[b] IN
  /\ Asks(s, u, "edit_header")
  /\ row.st \in PreApproval
  /\ MayRename(b, name)
  /\ Update(s, b, "edit_header",
            Rechecked(row, [row EXCEPT !.doc = doc, !.total = total], b), NoLine,
            IF name = vendors[row.vendor] THEN NoRename
            ELSE [vendor |-> row.vendor, name |-> name])

BeginAddLine(s, u, b) ==
  LET n == 1 + CHOOSE m \in Present(bills[b]) : \A k \in Present(bills[b]) : k <= m IN
  /\ Asks(s, u, "add_line")
  /\ bills[b].st \in PreApproval /\ Present(bills[b]) # {}
  /\ n \in LineNos
  /\ Update(s, b, "add_line", bills[b], [no |-> n, to |-> "bare"], NoRename)

\* The last line stays.
BeginRemoveLine(s, u, b, n) ==
  /\ Asks(s, u, "remove_line")
  /\ bills[b].st \in PreApproval
  /\ n \in Present(bills[b]) /\ Cardinality(Present(bills[b])) > 1
  /\ Update(s, b, "remove_line", bills[b], [no |-> n, to |-> "none"], NoRename)

BeginSubmit(s, u, b) ==
  /\ Asks(s, u, "submit")
  /\ bills[b].st = "coded" /\ Categorised(bills[b])
  /\ Update(s, b, "submit",
            [bills[b] EXCEPT !.st = "pending_approval", !.submitter = u], NoLine, NoRename)

\* Mutant: the gate does not look at the amount.
MayApprove_AnyTotal(row, u) ==
  row.coder # None /\ u \notin {row.coder, row.filer, row.submitter}

\* check_can_approve_invoice: coded, none of the three preparers, within the
\* personal limit and the matrix band for bills.
MayApprove(row, u) ==
  /\ row.coder # None
  /\ u \notin {row.coder, row.filer, row.submitter}
  /\ row.total \in Authority[u]

BeginApprove(s, u, b) ==
  /\ Asks(s, u, "approve")
  /\ bills[b].st \in {"pending_approval", "coded"} /\ Categorised(bills[b])
  /\ MayApprove(bills[b], u)
  /\ Update(s, b, "approve",
            [bills[b] EXCEPT !.st = "approved", !.approver = u], NoLine, NoRename)

BeginReleaseHold(s, u, b) ==
  /\ Asks(s, u, "release_hold")
  /\ bills[b].st = "held"
  /\ Update(s, b, "release_hold",
            [bills[b] EXCEPT !.st = IF bills[b].coder # None THEN "coded" ELSE "captured"],
            NoLine, NoRename)

\* payables_pay, then mark_paid: the filer does not settle the bill.
BeginPay(s, u, b) ==
  /\ Asks(s, u, "pay")
  /\ u # bills[b].filer
  /\ bills[b].st \in Owed /\ past[b].paid < MaxRepeats
  /\ Update(s, b, "pay", [bills[b] EXCEPT !.st = "paid"], NoLine, NoRename)

\* Mutant: a posted bill may be reopened.
Reopenable_Posted == {"approved", "posted"}

Reopenable == {"approved"}

BeginUnapprove(s, u, b) ==
  /\ Asks(s, u, "unapprove")
  /\ bills[b].st \in Reopenable
  /\ Update(s, b, "unapprove",
            [bills[b] EXCEPT !.st = "coded", !.approver = None], NoLine, NoRename)

\* switch_to_expense: the bill is rejected and a claim carries its page.
BeginSwitch(s, u, b) ==
  /\ Asks(s, u, "switch")
  /\ bills[b].st \in PreApproval /\ past[b].claims < MaxRepeats
  /\ Update(s, b, "switch", [bills[b] EXCEPT !.st = "rejected"], NoLine, NoRename)

\* What the line of the claim that was made of a bill carries of its page: the
\* vendor, number and amount of the bill.
Carried(b) ==
  [intakes[bills[b].intake].read EXCEPT !.name = vendors[bills[b].vendor],
                                        !.doc = bills[b].doc, !.total = bills[b].total]

\* switch_line_to_vendor_bill, of a claim that was made of a bill: the page
\* comes back to the queue, and may become another bill.
SwitchBack(s, u, b) ==
  /\ Asks(s, u, "switch_line")
  /\ past[b].claims > 0 /\ NextIntake <= world.pages
  /\ intakes' = [intakes EXCEPT ![NextIntake] = Returned(Carried(b), u)]
  /\ past' = [past EXCEPT ![b].claims = @ - 1]
  /\ UNCHANGED <<world, txn, bills, vendors>>

BeginReject(s, u, b) ==
  /\ Asks(s, u, "reject")
  /\ bills[b].st \notin {"absent", "posted", "paid"}
  /\ Update(s, b, "reject", [bills[b] EXCEPT !.st = "rejected"], NoLine, NoRename)

\* Mutant: a bill that carries an ERP key is posted again.
Postable_Again(row) == row.st \in {"approved", "paid"}

\* mark_posted, after the connector answered ok: a failed push, or an answer
\* that never comes, changes nothing.
Postable(row) == row.st \in {"approved", "paid"} /\ ~row.erp

BeginPost(s, u, b) ==
  /\ Asks(s, u, "post")
  /\ Postable(bills[b]) /\ past[b].posted < MaxRepeats
  /\ Update(s, b, "post",
            [bills[b] EXCEPT !.erp = TRUE,
                             !.st = IF @ = "approved" THEN "posted" ELSE @],
            NoLine, NoRename)

\* Mutant: no CHECK on the row.
Apart_Any(row) == TRUE

\* ck_ap_invoice_sod, null-safe.
Apart(row) ==
  row.approver # None => row.approver \notin {row.coder, row.filer, row.submitter}

Written(row, t) ==
  [row EXCEPT !.st = Pick(@, t.upd.st), !.doc = Pick(@, t.upd.doc),
              !.total = Pick(@, t.upd.total), !.coder = Pick(@, t.upd.coder),
              !.submitter = Pick(@, t.upd.submitter),
              !.approver = Pick(@, t.upd.approver), !.erp = Pick(@, t.upd.erp),
              !.lines = [n \in LineNos |-> IF n = t.line.no THEN t.line.to ELSE @[n]]]

\* What the database accepts: the CHECK holds, an inserted line number is
\* free, and an updated line still exists.
CanFlush(t) ==
  /\ Apart(Written(bills[t.bill], t))
  /\ t.op = "add_line" => bills[t.bill].lines[t.line.no] = "none"
  /\ t.op = "code" => bills[t.bill].lines[t.line.no] # "none"

UpdateOps == {"code", "edit_header", "add_line", "remove_line", "submit", "approve",
              "release_hold", "pay", "unapprove", "switch", "reject", "post"}

Recorded(p, t) ==
  CASE t.op = "pay"          -> [p EXCEPT !.paid = @ + 1]
    [] t.op = "post"         -> [p EXCEPT !.posted = @ + 1]
    [] t.op = "release_hold" -> [p EXCEPT !.cleared = TRUE]
    [] t.op = "code"         -> [p EXCEPT !.coders = @ \cup {t.by}]
    [] t.op = "switch"       -> [p EXCEPT !.claims = @ + 1]
    [] OTHER                 -> p

CommitUpdate(s) ==
  LET t == txn[s] IN
  /\ t.op \in UpdateOps
  /\ CanFlush(t)
  /\ bills' = [bills EXCEPT ![t.bill] = Written(@, t)]
  /\ vendors' = [v \in Vendors |-> IF v = t.rename.vendor THEN t.rename.name ELSE vendors[v]]
  /\ past' = [past EXCEPT ![t.bill] = Recorded(@, t)]
  /\ txn' = [txn EXCEPT ![s] = Idle]
  /\ UNCHANGED <<world, intakes>>

-----------------------------------------------------------------------------
Init ==
  /\ QueueInit
  /\ bills = [b \in Bills |-> NoBill]
  /\ vendors = [v \in Vendors |-> None]
  /\ past = [b \in Bills |-> NoPast]

BillNext ==
  \E s \in Sessions :
    \/ \E u \in Users, i \in Intakes : BeginFile(s, u, i)
    \/ CommitFile(s)
    \/ \E u \in Users, b \in Exists :
         \/ \E n \in LineNos, category \in BOOLEAN : BeginCode(s, u, b, n, category)
         \/ \E doc \in DocEdits \cup {bills[b].doc}, total \in TotalEdits \cup {bills[b].total},
              name \in NameEdits \cup {vendors[bills[b].vendor]} :
              BeginEditHeader(s, u, b, doc, total, name)
         \/ BeginAddLine(s, u, b)
         \/ \E n \in LineNos : BeginRemoveLine(s, u, b, n)
         \/ BeginSubmit(s, u, b)
         \/ BeginApprove(s, u, b)
         \/ BeginReleaseHold(s, u, b)
         \/ BeginPay(s, u, b)
         \/ BeginUnapprove(s, u, b)
         \/ BeginSwitch(s, u, b)
         \/ SwitchBack(s, u, b)
         \/ BeginReject(s, u, b)
         \/ BeginPost(s, u, b)
    \/ CommitUpdate(s)

Next == (QueueNext /\ UNCHANGED <<bills, vendors, past>>) \/ BillNext

Spec == Init /\ [][Next]_vars

-----------------------------------------------------------------------------
(* Properties.  Those that begin with Serial hold while requests do not    *)
(* overlap; the others hold whatever overlaps.                             *)

\* Every variable has its type.
TypeOK ==
  /\ world \in Worlds
  /\ \A i \in Intakes :
       /\ intakes[i].st \in {"absent", "open", "consumed"}
       /\ intakes[i].queue \in Queues /\ intakes[i].link \in 0 .. MaxIntakes
  /\ \A b \in Bills :
       /\ bills[b].st \in Status /\ bills[b].vendor \in 0 .. MaxVendors
       /\ {bills[b].filer, bills[b].coder, bills[b].submitter, bills[b].approver}
            \subseteq Users \cup {None}
       /\ bills[b].erp \in BOOLEAN /\ bills[b].intake \in 0 .. MaxIntakes
       /\ bills[b].lines \in [LineNos -> {"none", "bare", "categorised"}]
  /\ DOMAIN vendors = Vendors /\ DOMAIN past = Bills /\ DOMAIN txn = Sessions

\* One page becomes one bill at most: two requests that file the same intake
\* at once collide on its idempotency key, and the loser is refused.
BillPerPage ==
  \A b, c \in Exists : bills[b].intake = bills[c].intake => b = c

\* Maker and checker differ on every row: two requests that overlap cannot
\* make the coder, the filer or the submitter of a bill its approver.
SignedApart ==
  \A b \in Exists : bills[b].approver # None =>
    bills[b].approver \notin {bills[b].filer, bills[b].coder, bills[b].submitter}

\* What the database enforces whatever overlaps, although no request locks the
\* row it read: a page is filed as one bill, and maker and checker differ.
KeptByDatabase == BillPerPage /\ SignedApart

\* Two bills of one vendor with the same number and amount are not both paid,
\* unless a reviewer cleared the hold on one of them: the check runs when a
\* bill is created and again when its number or its amount is corrected.
NoDoublePay ==
  Serial => \A b, c \in Bills :
    /\ b # c /\ bills[b].st = "paid" /\ bills[c].st = "paid"
    /\ bills[b].vendor = bills[c].vendor
    /\ bills[b].doc = bills[c].doc /\ bills[b].doc # None
    /\ bills[b].total = bills[c].total
    => past[b].cleared \/ past[c].cleared

\* A bill that is approved, posted or paid was coded, carries a category on
\* every line, and its total is within its approver's authority: nothing that
\* the approver saw changes after the signature.
SignedWhole ==
  Serial => \A b \in Bills : bills[b].st \in Signed =>
    /\ bills[b].coder # None /\ bills[b].approver # None
    /\ Present(bills[b]) # {} /\ Categorised(bills[b])
    /\ bills[b].total \in Authority[bills[b].approver]

\* A bill is settled once and posted to the ERP once, in either order, and is
\* settled exactly when its row says paid.
SettledOnce ==
  Serial => \A b \in Bills :
    /\ past[b].paid <= 1 /\ past[b].posted <= 1
    /\ past[b].paid = 1 <=> bills[b].st = "paid"
    /\ past[b].posted = 1 <=> bills[b].erp

\* A row of the queue is accounted for once: in one live bill, in one claim, or
\* in neither, whichever way its page was routed, filed and converted.  (A page
\* that is switched back from its claim has a new row.)
PageCountedOnce ==
  Serial => \A i \in Captured :
    LET own == {b \in Exists : bills[b].intake = i} IN
    /\ intakes[i].claims + Cardinality({b \in own : bills[b].st # "rejected"}) <= 1
    /\ \A b \in own : intakes[i].claims + past[b].claims <= 1
    /\ \A b \in own : past[b].claims > 0 => bills[b].st = "rejected"

\* What has left for another system is not reopened: a posted bill can only be
\* paid, a paid one keeps its number, amount, lines and signature, and a
\* rejected one never returns.
LeftIsFinal ==
  [][Serial => \A b \in Bills :
       /\ bills[b].st \in {"posted", "paid"} =>
            /\ bills'[b].st \in {bills[b].st, "paid"}
            /\ \A c \in Columns \ {"st", "erp"} : bills'[b][c] = bills[b][c]
            /\ bills'[b].lines = bills[b].lines
       /\ bills[b].st = "rejected" => bills'[b].st = "rejected"]_vars

\* "Two concurrent marks serialise: the loser sees paid" (ap.py, mark_paid).
PaidMarksSerialise == \A b \in Bills : past[b].paid <= 1
=============================================================================
