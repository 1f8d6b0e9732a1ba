-------------------------- MODULE ApInvoiceProofs --------------------------
(***************************************************************************)
(* What holds of the vendor bills for every number of bills, users and     *)
(* sessions, every authority and every overlap of requests.                *)
(***************************************************************************)
EXTENDS ApInvoice, TLAPS, FiniteSetTheorems, WellFoundedInduction

LEMMA BoundsAreNat ==
  /\ MaxIntakes \in Nat /\ MaxBills \in Nat /\ MaxVendors \in Nat
  /\ MaxLines \in Nat \ {0}
  BY QueueAssumption, BillAssumption, Zenon

-----------------------------------------------------------------------------
(* The shape of the rows and of what a session holds. *)

BillFields == {"st", "vendor", "doc", "total", "filer", "coder", "submitter",
               "approver", "erp", "intake", "lines"}

Shape ==
  /\ DOMAIN txn = Sessions
  /\ DOMAIN bills = Bills
  /\ \A b \in Bills : DOMAIN bills[b] = BillFields

\* What a session means to do to a bill: insert an unsigned row, or update a
\* row that exists to one that exists.
Intent(t) ==
  /\ t.op = "file" => /\ DOMAIN t.row = BillFields
                      /\ t.row.approver = None /\ t.row.st # "absent"
  /\ t.op \in UpdateOps => /\ t.bill \in Exists
                           /\ DOMAIN t.upd = Columns /\ t.upd.st # "absent"

Intended == \A s \in Sessions : Intent(txn[s])

\* The inductive invariant.
KInv == Shape /\ Intended /\ KeptByDatabase

LEMMA FieldsOfNewBill ==
  ASSUME NEW i, NEW v
  PROVE  /\ DOMAIN NewBill(i, v) = BillFields
         /\ NewBill(i, v).approver = None
         /\ NewBill(i, v).st \in {"held", "captured"}
         /\ NewBill(i, v).intake = i
  BY DEF NewBill, NoBill, BillFields

\* Every request that updates a bill starts from a row that exists and gives
\* it a status other than "absent".
LEMMA UpdateIntent ==
  ASSUME KInv, NEW s \in Sessions, NEW u, NEW b \in Exists, NEW op \in UpdateOps,
         NEW new, NEW line, NEW rename,
         Update(s, b, op, new, line, rename), new.st # "absent"
  PROVE  KInv'
  <1> DEFINE t == [op |-> op, bill |-> b, line |-> line, rename |-> rename, by |-> new.coder,
                   upd |-> [c \in Columns |-> Changed(bills[b][c], new[c])]]
  <1>1. t.upd.st = Changed(bills[b].st, new.st)
    BY DEF Columns
  <1>2. t.upd.st # "absent"
    BY <1>1, BillAssumption DEF Changed, Status
  <1>3. Intent(t)
    BY <1>2 DEF Intent, UpdateOps
  <1>4. bills' = bills /\ txn' = [txn EXCEPT ![s] = t]
    BY DEF Update
  <1> HIDE DEF t
  <1>5. \A r \in Sessions : txn'[r] = IF r = s THEN t ELSE txn[r]
    BY <1>4 DEF KInv, Shape
  <1>6. Exists' = Exists
    BY <1>4 DEF Exists
  <1>7. Intended'
    BY <1>3, <1>5, <1>6 DEF KInv, Intended, Intent
  <1>8. QED
    BY <1>4, <1>6, <1>7 DEF KInv, Shape, KeptByDatabase, BillPerPage, SignedApart

\* The status that each request gives to its row.
LEMMA BeginUpdate ==
  ASSUME KInv, NEW s \in Sessions, NEW u \in Users, NEW b \in Exists,
         \/ \E n \in LineNos, category \in BOOLEAN : BeginCode(s, u, b, n, category)
         \/ \E doc \in DocEdits \cup {bills[b].doc}, total \in TotalEdits \cup {bills[b].total},
              name \in NameEdits \cup {vendors[bills[b].vendor]} :
              BeginEditHeader(s, u, b, doc, total, name)
         \/ BeginAddLine(s, u, b)
         \/ \E n \in LineNos : BeginRemoveLine(s, u, b, n)
         \/ BeginSubmit(s, u, b)
         \/ BeginApprove(s, u, b)
         \/ BeginReleaseHold(s, u, b)
         \/ BeginPay(s, u, b)
         \/ BeginUnapprove(s, u, b)
         \/ BeginSwitch(s, u, b)
         \/ BeginReject(s, u, b)
         \/ BeginPost(s, u, b)
  PROVE  KInv'
  <1>0. /\ DOMAIN bills[b] = BillFields
        /\ bills[b].st # "absent"
    BY DEF KInv, Shape, Exists
  <1> USE <1>0
  <1>1. CASE \E n \in LineNos, category \in BOOLEAN : BeginCode(s, u, b, n, category)
    <2>1. PICK n \in LineNos, category \in BOOLEAN : BeginCode(s, u, b, n, category)
      BY <1>1
    <2> DEFINE new  == [bills[b] EXCEPT !.coder = u, !.st = IF @ = "captured" THEN "coded" ELSE @]
               line == [no |-> n, to |-> IF category THEN "categorised" ELSE bills[b].lines[n]]
    <2>2. new.st # "absent"
      BY DEF BillFields
    <2>3. Update(s, b, "code", new, line, NoRename) /\ "code" \in UpdateOps
      BY <2>1 DEF BeginCode, UpdateOps
    <2> HIDE DEF new, line
    <2>4. QED
      BY <2>2, <2>3, UpdateIntent
  <1>2. CASE \E doc \in DocEdits \cup {bills[b].doc}, total \in TotalEdits \cup {bills[b].total},
                name \in NameEdits \cup {vendors[bills[b].vendor]} :
                BeginEditHeader(s, u, b, doc, total, name)
    <2>1. PICK doc, total, name : BeginEditHeader(s, u, b, doc, total, name)
      BY <1>2
    <2> DEFINE new == [bills[b] EXCEPT !.doc = doc, !.total = total]
    <2>2. Rechecked(bills[b], new, b).st # "absent"
      BY DEF Rechecked, BillFields
    <2>3. QED
      BY <2>1, <2>2, UpdateIntent DEF BeginEditHeader, UpdateOps
  <1>3. CASE BeginAddLine(s, u, b) \/ \E n \in LineNos : BeginRemoveLine(s, u, b, n)
    BY <1>3, UpdateIntent DEF BeginAddLine, BeginRemoveLine, UpdateOps
  <1>4. CASE BeginSubmit(s, u, b)
    <2> DEFINE new  == [bills[b] EXCEPT !.st = "pending_approval", !.submitter = u]
    <2>1. new.st # "absent"
      BY DEF BillFields
    <2>2. Update(s, b, "submit", new, NoLine, NoRename) /\ "submit" \in UpdateOps
      BY <1>4 DEF BeginSubmit, UpdateOps
    <2> HIDE DEF new
    <2>3. QED
      BY <2>1, <2>2, UpdateIntent
  <1>5. CASE BeginApprove(s, u, b)
    <2> DEFINE new  == [bills[b] EXCEPT !.st = "approved", !.approver = u]
    <2>1. new.st # "absent"
      BY DEF BillFields
    <2>2. Update(s, b, "approve", new, NoLine, NoRename) /\ "approve" \in UpdateOps
      BY <1>5 DEF BeginApprove, UpdateOps
    <2> HIDE DEF new
    <2>3. QED
      BY <2>1, <2>2, UpdateIntent
  <1>6. CASE BeginReleaseHold(s, u, b)
    <2> DEFINE new  == [bills[b] EXCEPT !.st = IF bills[b].coder # None THEN "coded" ELSE "captured"]
    <2>1. new.st # "absent"
      BY DEF BillFields
    <2>2. Update(s, b, "release_hold", new, NoLine, NoRename) /\ "release_hold" \in UpdateOps
      BY <1>6 DEF BeginReleaseHold, UpdateOps
    <2> HIDE DEF new
    <2>3. QED
      BY <2>1, <2>2, UpdateIntent
  <1>7. CASE BeginPay(s, u, b) \/ BeginSwitch(s, u, b) \/ BeginReject(s, u, b)
    <2> DEFINE paid    == [bills[b] EXCEPT !.st = "paid"]
               refused == [bills[b] EXCEPT !.st = "rejected"]
    <2>1. paid.st # "absent" /\ refused.st # "absent"
      BY DEF BillFields
    <2>2. \/ Update(s, b, "pay", paid, NoLine, NoRename)
          \/ Update(s, b, "switch", refused, NoLine, NoRename)
          \/ Update(s, b, "reject", refused, NoLine, NoRename)
      BY <1>7 DEF BeginPay, BeginSwitch, BeginReject
    <2>3. {"pay", "switch", "reject"} \subseteq UpdateOps
      BY DEF UpdateOps
    <2> HIDE DEF paid, refused
    <2>4. QED
      BY <2>1, <2>2, <2>3, UpdateIntent
  <1>8. CASE BeginUnapprove(s, u, b)
    <2> DEFINE new  == [bills[b] EXCEPT !.st = "coded", !.approver = None]
    <2>1. new.st # "absent"
      BY DEF BillFields
    <2>2. Update(s, b, "unapprove", new, NoLine, NoRename) /\ "unapprove" \in UpdateOps
      BY <1>8 DEF BeginUnapprove, UpdateOps
    <2> HIDE DEF new
    <2>3. QED
      BY <2>1, <2>2, UpdateIntent
  <1>9. CASE BeginPost(s, u, b)
    <2> DEFINE new  == [bills[b] EXCEPT !.erp = TRUE, !.st = IF @ = "approved" THEN "posted" ELSE @]
    <2>1. new.st # "absent"
      BY DEF BillFields
    <2>2. Update(s, b, "post", new, NoLine, NoRename) /\ "post" \in UpdateOps
      BY <1>9 DEF BeginPost, UpdateOps
    <2> HIDE DEF new
    <2>3. QED
      BY <2>1, <2>2, UpdateIntent
  <1>10. QED
    BY <1>1, <1>2, <1>3, <1>4, <1>5, <1>6, <1>7, <1>8, <1>9

-----------------------------------------------------------------------------
(* What the database keeps. *)

\* The request that files a page inserts an unsigned row; a second one for the
\* same page is refused by the UNIQUE key.
LEMMA FileKeeps ==
  ASSUME KInv, NEW s \in Sessions, CommitFile(s)
  PROVE  KInv'
  <1> DEFINE t == txn[s]
             v == IF t.row.vendor = 0 THEN NextVendor ELSE t.row.vendor
             row == [t.row EXCEPT !.vendor = v]
  <1>1. /\ t.op = "file" /\ ~Filed(t.row.intake) /\ NextBill \in Bills
        /\ bills' = [bills EXCEPT ![NextBill] = row]
        /\ txn' = [txn EXCEPT ![s] = Idle]
    BY DEF CommitFile
  <1>2. /\ DOMAIN t.row = BillFields /\ t.row.approver = None /\ t.row.st # "absent"
    BY <1>1 DEF KInv, Intended, Intent
  <1>3. /\ DOMAIN row = BillFields /\ row.approver = None
        /\ row.st # "absent" /\ row.intake = t.row.intake
    BY <1>2 DEF BillFields
  <1> HIDE DEF row, t
  <1>4. \A b \in Bills : bills'[b] = IF b = NextBill THEN row ELSE bills[b]
    BY <1>1 DEF KInv, Shape
  <1>5. Shape'
    BY <1>1, <1>3, <1>4 DEF KInv, Shape
  <1>6. Exists' = Exists \cup {NextBill}
    BY <1>1, <1>3, <1>4 DEF Exists
  <1>7. Intended'
    BY <1>1, <1>6 DEF KInv, Shape, Intended, Intent, Idle, UpdateOps
  <1>8. BillPerPage'
    <2>1. \A b \in Exists : bills[b].intake # row.intake
      BY <1>1, <1>3 DEF Filed
    <2>2. QED
      BY <1>1, <1>4, <1>6, <2>1 DEF KInv, KeptByDatabase, BillPerPage, Exists
  <1>9. SignedApart'
    BY <1>1, <1>3, <1>4, <1>6 DEF KInv, KeptByDatabase, SignedApart, Exists
  <1>10. QED
    BY <1>5, <1>7, <1>8, <1>9 DEF KInv, KeptByDatabase

\* The row an update leaves satisfies the CHECK, whatever was read before.
LEMMA UpdateKeeps ==
  ASSUME KInv, NEW s \in Sessions, CommitUpdate(s)
  PROVE  KInv'
  <1> DEFINE t == txn[s]
             new == Written(bills[t.bill], t)
  <1>1. /\ t.op \in UpdateOps /\ Apart(new)
        /\ bills' = [bills EXCEPT ![t.bill] = new]
        /\ txn' = [txn EXCEPT ![s] = Idle]
    BY DEF CommitUpdate, CanFlush
  <1>2. t.bill \in Exists /\ t.upd.st # "absent"
    BY <1>1 DEF KInv, Intended, Intent
  <1>3. DOMAIN bills[t.bill] = BillFields /\ bills[t.bill].st # "absent" /\ t.bill \in Bills
    BY <1>2 DEF KInv, Shape, Exists
  <1>4. /\ DOMAIN new = BillFields /\ new.st = Pick(bills[t.bill].st, t.upd.st)
        /\ new.intake = bills[t.bill].intake
    BY <1>3 DEF Written, BillFields
  <1>5. new.st # "absent"
    BY <1>2, <1>3, <1>4 DEF Pick
  <1> HIDE DEF new, t
  <1>6. \A b \in Bills : bills'[b] = IF b = t.bill THEN new ELSE bills[b]
    BY <1>1 DEF KInv, Shape
  <1>7. Shape'
    BY <1>1, <1>4, <1>6 DEF KInv, Shape
  <1>8. Exists' = Exists
    BY <1>2, <1>3, <1>5, <1>6 DEF Exists
  <1>9. Intended'
    BY <1>1, <1>8 DEF KInv, Shape, Intended, Intent, Idle, UpdateOps
  <1>10. BillPerPage'
    BY <1>4, <1>6, <1>8 DEF KInv, KeptByDatabase, BillPerPage, Exists
  <1>11. SignedApart'
    BY <1>1, <1>6, <1>8 DEF KInv, KeptByDatabase, SignedApart, Exists, Apart
  <1>12. QED
    BY <1>7, <1>9, <1>10, <1>11 DEF KInv, KeptByDatabase

\* A request on the holding queue touches no bill.
LEMMA QueueKeeps ==
  ASSUME KInv, NEW s \in Sessions,
         txn' = [txn EXCEPT ![s] = txn'[s]], bills' = bills,
         txn'[s].op \in {"idle", "record", "upgrade", "audit_only", "reroute"}
  PROVE  KInv'
  <1>1. Intent(txn'[s])
    BY DEF Intent, UpdateOps
  <1>2. Exists' = Exists
    BY DEF Exists
  <1>3. \A r \in Sessions \ {s} : txn'[r] = txn[r]
    BY DEF KInv, Shape
  <1>4. Intended'
    BY <1>1, <1>2, <1>3 DEF KInv, Intended, Intent
  <1>5. QED
    BY <1>2, <1>4 DEF KInv, Shape, KeptByDatabase, BillPerPage, SignedApart

\* A line that is switched from its claim touches no bill and no request.
LEMMA SwitchedKeeps ==
  ASSUME KInv, bills' = bills, txn' = txn
  PROVE  KInv'
  BY DEF KInv, Shape, Intended, Intent, KeptByDatabase, BillPerPage, SignedApart, Exists

LEMMA KInvStep ==
  ASSUME KInv, [Next]_vars
  PROVE  KInv'
  <1>1. CASE UNCHANGED vars
    BY <1>1 DEF vars, KInv, Shape, Intended, Intent, KeptByDatabase, BillPerPage,
                SignedApart, Exists
  <1>2. CASE QueueNext /\ UNCHANGED <<bills, vendors, past>>
    <2>0. bills' = bills
      BY <1>2
    <2>1. ASSUME NEW s \in Sessions, NEW u \in Users, NEW r \in Readings, BeginRecord(s, u, r)
          PROVE  KInv'
      <3> DEFINE queue == Route(r.type, r.sure)
                 t == [op |-> "record",
                       row |-> [NoIntake EXCEPT
                                  !.st = IF queue = "eclaim" THEN "consumed" ELSE "open",
                                  !.queue = queue, !.type = r.type, !.key = LinkKey(r),
                                  !.read = r, !.by = u,
                                  !.claims = IF queue = "eclaim" THEN 1 ELSE 0],
                       mate |-> Counterpart(NextIntake, r.type, LinkKey(r))]
      <3>1. txn' = [txn EXCEPT ![s] = t]
        BY <2>1 DEF BeginRecord
      <3>2. t.op = "record"
        OBVIOUS
      <3> HIDE DEF t
      <3>3. QED
        BY <2>0, <3>1, <3>2, QueueKeeps DEF KInv, Shape
    <2>2. ASSUME NEW s \in Sessions, NEW u \in Users, NEW r \in Readings, BeginSuppress(s, u, r)
          PROVE  KInv'
      <3> DEFINE queue == Route(r.type, r.sure)
                 i  == Earliest(Twins(r.image))
                 up == intakes[i].queue = "pending" /\ queue # "pending"
                 t  == IF up
                       THEN [op |-> "upgrade", intake |-> i, type |-> r.type, queue |-> queue,
                             key |-> LinkKey(r), mate |-> Counterpart(i, r.type, LinkKey(r))]
                       ELSE [op |-> "audit_only"]
      <3>1. txn' = [txn EXCEPT ![s] = t]
        BY <2>2 DEF BeginSuppress
      <3>2. t.op \in {"upgrade", "audit_only"}
        OBVIOUS
      <3> HIDE DEF t
      <3>3. QED
        BY <2>0, <3>1, <3>2, QueueKeeps DEF KInv, Shape
    <2>3. ASSUME NEW s \in Sessions, NEW u \in Users, NEW i \in Intakes, NEW to \in Queues,
                 BeginReroute(s, u, i, to)
          PROVE  KInv'
      <3> DEFINE t == [op |-> "reroute", intake |-> i,
                       queue |-> Changed(intakes[i].queue, to),
                       st |-> Changed(intakes[i].st, Rerouted(to)),
                       claims |-> IF to = "eclaim" THEN 1 ELSE 0]
      <3>1. txn' = [txn EXCEPT ![s] = t]
        BY <2>3 DEF BeginReroute
      <3>2. t.op = "reroute"
        OBVIOUS
      <3> HIDE DEF t
      <3>3. QED
        BY <2>0, <3>1, <3>2, QueueKeeps DEF KInv, Shape
    <2>4. ASSUME NEW s \in Sessions,
                 CommitRecord(s) \/ CommitUpgrade(s) \/ CommitReroute(s) \/ Abort(s)
          PROVE  KInv'
      <3>1. txn' = [txn EXCEPT ![s] = Idle]
        BY <2>4 DEF CommitRecord, CommitUpgrade, CommitReroute, Abort
      <3>2. txn'[s] = Idle /\ Idle.op = "idle"
        BY <3>1 DEF Idle, KInv, Shape
      <3>3. QED
        BY <1>2, <3>1, <3>2, QueueKeeps
    <2>5. ASSUME NEW s \in Sessions, NEW u \in Users, NEW i \in Intakes, SwitchIn(s, u, i)
          PROVE  KInv'
      BY <2>0, <2>5, SwitchedKeeps DEF SwitchIn
    <2>6. QED
      BY <1>2, <2>1, <2>2, <2>3, <2>4, <2>5 DEF QueueNext
  <1>3. ASSUME NEW s \in Sessions, NEW u \in Users, NEW i \in Intakes, BeginFile(s, u, i)
        PROVE  KInv'
    <2> DEFINE v == VendorOf(VendorName(intakes[i].read))
               t == [op |-> "file", row |-> NewBill(i, v), name |-> VendorName(intakes[i].read)]
    <2>1. txn' = [txn EXCEPT ![s] = t] /\ bills' = bills
      BY <1>3 DEF BeginFile
    <2>2. Intent(t)
      BY FieldsOfNewBill DEF Intent, UpdateOps
    <2> HIDE DEF t
    <2>3. \A r \in Sessions : txn'[r] = IF r = s THEN t ELSE txn[r]
      BY <2>1 DEF KInv, Shape
    <2>4. Exists' = Exists
      BY <2>1 DEF Exists
    <2>5. QED
      BY <2>1, <2>2, <2>3, <2>4 DEF KInv, Shape, Intended, Intent, KeptByDatabase,
                                    BillPerPage, SignedApart
  <1>4. ASSUME NEW s \in Sessions, NEW u \in Users, NEW b \in Exists, SwitchBack(s, u, b)
        PROVE  KInv'
    BY <1>4, SwitchedKeeps DEF SwitchBack
  <1>5. QED
    BY <1>1, <1>2, <1>3, <1>4, BeginUpdate, FileKeeps, UpdateKeeps DEF Next, BillNext

LEMMA KInvInit ==
  ASSUME Init
  PROVE  KInv
  <1>1. Shape
    BY DEF Init, QueueInit, Shape, NoBill, BillFields
  <1>2. Exists = {}
    BY DEF Init, NoBill, Exists
  <1>3. QED
    BY <1>1, <1>2 DEF Init, QueueInit, KInv, Intended, Intent, Idle, UpdateOps,
                      KeptByDatabase, BillPerPage, SignedApart

\* Whatever requests overlap, a page is filed as one bill, and the approver of
\* a bill is none of its filer, its last coder and its submitter (the UNIQUE
\* idempotency key and the null-safe CHECK of ap_invoice).
THEOREM DatabaseKeeps == Spec => []KeptByDatabase
  <1>1. KInv => KeptByDatabase
    BY DEF KInv
  <1>2. QED
    BY <1>1, KInvInit, KInvStep, PTL DEF Spec

-----------------------------------------------------------------------------
(* Requests that do not overlap: what a request read is still true when it *)
(* commits.                                                                *)

Untouched(row, new) == \A c \in Columns \ {"st"} : new[c] = row[c]

\* What an update that is about to commit finds in its row, and leaves there.
FreshOn(row, t) ==
  LET new == Written(row, t) IN
  /\ row.st = "rejected" => new.st = "rejected"
  /\ Present(new) # {}
  /\ t.op = "pay" =>
       /\ row.st \in Owed /\ new.st = "paid"
       /\ new.lines = row.lines /\ Untouched(row, new)
  /\ t.op = "post" =>
       /\ row.st \in {"approved", "paid"} /\ ~row.erp
       /\ new.erp = TRUE /\ new.st = (IF row.st = "approved" THEN "posted" ELSE "paid")
       /\ new.lines = row.lines
       /\ \A c \in Columns \ {"st", "erp"} : new[c] = row[c]
  /\ t.op = "approve" =>
       /\ new.st = "approved" /\ new.erp = row.erp /\ row.st \notin {"posted", "paid"}
       /\ new.coder # None /\ new.approver # None /\ Categorised(new)
       /\ new.total \in Authority[new.approver]
  /\ t.op \notin {"pay", "post", "approve"} =>
       /\ row.st \notin {"posted", "paid"} /\ new.st \notin Signed /\ new.erp = row.erp

Fresh(t) == FreshOn(bills[t.bill], t)

\* SignedWhole and SettledOnce, of one row.
Whole(row) ==
  row.st \in Signed =>
    /\ row.coder # None /\ row.approver # None
    /\ Present(row) # {} /\ Categorised(row)
    /\ row.total \in Authority[row.approver]

Settled(row, p) ==
  /\ p.paid = (IF row.st = "paid" THEN 1 ELSE 0)
  /\ p.posted = (IF row.erp = TRUE THEN 1 ELSE 0)

RowSound(b) ==
  /\ bills[b].lines = [n \in LineNos |-> bills[b].lines[n]]
  /\ bills[b].erp \in BOOLEAN
  /\ bills[b].st # "absent" => Present(bills[b]) # {}
  /\ bills[b].st = "absent" => bills[b].erp = FALSE
  /\ DOMAIN past[b] = DOMAIN NoPast
  /\ Whole(bills[b]) /\ Settled(bills[b], past[b])

Inserts(t) ==
  t.op = "file" => /\ t.row.st \in {"captured", "held"} /\ t.row.erp = FALSE
                   /\ Present(t.row) # {}
                   /\ t.row.lines = [n \in LineNos |-> t.row.lines[n]]

\* Bill rows are numbered from 1 without a gap.
Numbered == \E k \in Nat : Exists = 1 .. k

Alone == \A s \in Sessions : txn[s] # Idle => s \in world.sessions

Sound ==
  /\ Numbered
  /\ DOMAIN past = Bills
  /\ \A b \in Bills : RowSound(b)
  /\ \A s \in Sessions : Inserts(txn[s]) /\ (txn[s].op \in UpdateOps => Fresh(txn[s]))

\* The inductive invariant.
SInv == KInv /\ world \in Worlds /\ Alone /\ (Serial => Sound)

LEMMA OneSession ==
  ASSUME SInv, Serial, NEW s \in Sessions, NEW r \in Sessions,
         txn[s] # Idle, txn[r] # Idle
  PROVE  s = r
  <1>1. IsFiniteSet(world.sessions)
    BY QueueAssumption DEF SInv
  <1>2. PICK x : world.sessions = {x}
    BY <1>1, FS_Singleton DEF Serial
  <1>3. QED
    BY <1>2 DEF SInv, Alone

\* What an update leaves in a column that the request gave a value.
LEMMA WrittenColumn ==
  ASSUME NEW row, DOMAIN row = BillFields, NEW new, NEW t,
         t.upd = [c \in Columns |-> Changed(row[c], new[c])]
  PROVE  /\ \A c \in Columns :
              new[c] = row[c] \/ new[c] # Kept => Written(row, t)[c] = new[c]
         /\ Written(row, t).lines =
              [n \in LineNos |-> IF n = t.line.no THEN t.line.to ELSE row.lines[n]]
         /\ DOMAIN Written(row, t) = BillFields
         /\ \A f \in {"vendor", "filer", "intake"} : Written(row, t)[f] = row[f]
  <1>1. \A c \in Columns : Written(row, t)[c] = Pick(row[c], t.upd[c])
    BY DEF Written, Columns, BillFields
  <1>2. /\ Written(row, t).lines =
              [n \in LineNos |-> IF n = t.line.no THEN t.line.to ELSE row.lines[n]]
        /\ DOMAIN Written(row, t) = BillFields
        /\ \A f \in {"vendor", "filer", "intake"} : Written(row, t)[f] = row[f]
    BY DEF Written, BillFields
  <1>3. QED
    BY <1>1, <1>2 DEF Pick, Changed

LEMMA BillNumber ==
  ASSUME Numbered
  PROVE  NextBill \notin Exists /\ \E k \in Nat : Exists \cup {NextBill} = 1 .. k
  <1>1. PICK k \in Nat : Exists = 1 .. k
    BY DEF Numbered
  <1>2. Cardinality(Exists) = k
    BY <1>1, FS_Interval
  <1>3. NextBill = k + 1
    BY <1>2 DEF NextBill
  <1>4. Exists \cup {NextBill} = 1 .. (k + 1)
    BY <1>1, <1>3
  <1>5. QED
    BY <1>1, <1>3, <1>4

\* What Update(s, b, op, new, line, rename) leaves with the session.
Request(b, op, new, line, rename) ==
  [op |-> op, bill |-> b, line |-> line, rename |-> rename, by |-> new.coder,
   upd |-> [c \in Columns |-> Changed(bills[b][c], new[c])]]

\* A request that is sound when it is made keeps the invariant.
LEMMA RequestSound ==
  ASSUME SInv, KInv', NEW s \in Sessions, s \in world.sessions, NEW b \in Exists,
         NEW op \in UpdateOps, NEW new, NEW line, NEW rename,
         Update(s, b, op, new, line, rename),
         Serial => Fresh(Request(b, op, new, line, rename))
  PROVE  SInv'
  <1> DEFINE t == Request(b, op, new, line, rename)
  <1>1. /\ bills' = bills /\ past' = past /\ world' = world
        /\ txn' = [txn EXCEPT ![s] = t]
    BY DEF Update, Request
  <1>2. t.op = op /\ op # "file"
    BY DEF Request, UpdateOps
  <1> HIDE DEF t
  <1>3. \A r \in Sessions : txn'[r] = IF r = s THEN t ELSE txn[r]
    BY <1>1 DEF SInv, KInv, Shape
  <1>4. Alone'
    BY <1>1, <1>3 DEF SInv, Alone
  <1>5. Serial' = Serial
    BY <1>1 DEF Serial
  <1>6. ASSUME Serial
        PROVE  Sound'
    <2>1. Numbered' /\ (DOMAIN past = Bills)'
      BY <1>1, <1>6 DEF SInv, Sound, Numbered, Exists
    <2>2. (\A c \in Bills : RowSound(c))'
      BY <1>1, <1>6 DEF SInv, Sound, RowSound
    <2>3. ASSUME NEW r \in Sessions
          PROVE  Inserts(txn'[r]) /\ (txn'[r].op \in UpdateOps => Fresh(txn'[r]))
      <3>1. Fresh(t) /\ Inserts(t)
        BY <1>2, <1>6 DEF t, Inserts
      <3>2. Inserts(txn[r]) /\ (txn[r].op \in UpdateOps => Fresh(txn[r]))
        BY <1>6 DEF SInv, Sound
      <3>3. QED
        BY <1>3, <3>1, <3>2
    <2>4. (\A r \in Sessions : Inserts(txn[r]) /\ (txn[r].op \in UpdateOps => Fresh(txn[r])))'
      BY <1>1, <2>3 DEF Fresh
    <2>5. QED
      BY <2>1, <2>2, <2>4 DEF Sound
  <1>7. QED
    BY <1>1, <1>4, <1>5, <1>6 DEF SInv

\* The row a request means to leave, column by column.
LEMMA RequestWritten ==
  ASSUME SInv, Serial, NEW b \in Exists, NEW op, NEW new, NEW line, NEW rename
  PROVE  LET t == Request(b, op, new, line, rename)
             w == Written(bills[b], t)
         IN /\ t.op = op /\ t.bill = b
            /\ \A c \in Columns : new[c] = bills[b][c] \/ new[c] # Kept => w[c] = new[c]
            /\ w.lines = [n \in LineNos |-> IF n = line.no THEN line.to ELSE bills[b].lines[n]]
  <1> DEFINE t == Request(b, op, new, line, rename)
             w == Written(bills[b], t)
  <1>1. /\ t.op = op /\ t.bill = b /\ t.line = line
        /\ t.upd = [c \in Columns |-> Changed(bills[b][c], new[c])]
    BY DEF Request
  <1>2. DOMAIN bills[b] = BillFields /\ RowSound(b)
    BY DEF SInv, KInv, Shape, Exists, Sound
  <1> HIDE DEF t
  <1>3. /\ \A c \in Columns : new[c] = bills[b][c] \/ new[c] # Kept => w[c] = new[c]
        /\ w.lines = [n \in LineNos |-> IF n = line.no THEN line.to ELSE bills[b].lines[n]]
    BY <1>1, <1>2, WrittenColumn
  <1>4. QED
    BY <1>1, <1>3 DEF t

\* The same, for a request that changes no line.
LEMMA PlainWritten ==
  ASSUME SInv, Serial, NEW b \in Exists, NEW op, NEW new, NEW rename
  PROVE  LET w == Written(bills[b], Request(b, op, new, NoLine, rename))
         IN /\ \A c \in Columns : new[c] = bills[b][c] \/ new[c] # Kept => w[c] = new[c]
            /\ w.lines = bills[b].lines
  <1> DEFINE w == Written(bills[b], Request(b, op, new, NoLine, rename))
  <1>1. /\ \A c \in Columns : new[c] = bills[b][c] \/ new[c] # Kept => w[c] = new[c]
        /\ w.lines = [n \in LineNos |-> IF n = NoLine.no THEN NoLine.to ELSE bills[b].lines[n]]
    BY RequestWritten
  <1>2. \A n \in LineNos : n # NoLine.no
    BY DEF LineNos, NoLine
  <1>3. bills[b].lines = [n \in LineNos |-> bills[b].lines[n]]
    BY DEF SInv, Sound, RowSound, Exists
  <1> HIDE DEF w
  <1>4. w.lines = bills[b].lines
    BY <1>1, <1>2, <1>3
  <1>5. QED
    BY <1>1, <1>4 DEF w

LEMMA KeptIsNoValue ==
  /\ \A u \in Users \cup {None} : u # Kept
  /\ \A st \in Status : st # Kept
  /\ TRUE # Kept
  BY BillAssumption

\* Every request on a bill is fresh when it is made.
LEMMA BeginSound ==
  ASSUME SInv, KInv', NEW s \in Sessions, NEW u \in Users, NEW b \in Exists,
         \/ \E n \in LineNos, category \in BOOLEAN : BeginCode(s, u, b, n, category)
         \/ \E doc \in DocEdits \cup {bills[b].doc}, total \in TotalEdits \cup {bills[b].total},
              name \in NameEdits \cup {vendors[bills[b].vendor]} :
              BeginEditHeader(s, u, b, doc, total, name)
         \/ BeginAddLine(s, u, b)
         \/ \E n \in LineNos : BeginRemoveLine(s, u, b, n)
         \/ BeginSubmit(s, u, b)
         \/ BeginApprove(s, u, b)
         \/ BeginReleaseHold(s, u, b)
         \/ BeginPay(s, u, b)
         \/ BeginUnapprove(s, u, b)
         \/ BeginSwitch(s, u, b)
         \/ BeginReject(s, u, b)
         \/ BeginPost(s, u, b)
  PROVE  SInv'
  <1> DEFINE row == bills[b]
             Goal(op, new, line, rename) ==
               Serial => FreshOn(row, Request(b, op, new, line, rename))
  <1>0. /\ DOMAIN row = BillFields /\ row.st # "absent" /\ b \in Bills
        /\ Serial => RowSound(b)
    BY DEF SInv, KInv, Shape, Exists, Sound
  <1>1. ASSUME NEW op \in UpdateOps, NEW new, NEW line, NEW rename,
               s \in world.sessions, Update(s, b, op, new, line, rename),
               Goal(op, new, line, rename)
        PROVE  SInv'
    BY <1>1, RequestSound DEF Fresh, Request
  <1>2. ASSUME NEW n \in LineNos, NEW category \in BOOLEAN, BeginCode(s, u, b, n, category)
        PROVE  SInv'
    <2> DEFINE new == [row EXCEPT !.coder = u,
                                  !.st = IF @ = "captured" THEN "coded" ELSE @]
               line == [no |-> n, to |-> IF category THEN "categorised" ELSE row.lines[n]]
    <2>1. /\ s \in world.sessions /\ Update(s, b, "code", new, line, NoRename)
          /\ row.st \in PreApproval /\ n \in Present(row)
      BY <1>2 DEF BeginCode, Asks
    <2>2. /\ new.st \in {"coded", "held"} /\ new.erp = row.erp
      BY <1>0, <2>1 DEF BillFields, PreApproval
    <2> HIDE DEF new
    <2>3. ASSUME Serial
          PROVE  FreshOn(row, Request(b, "code", new, line, NoRename))
      <3> DEFINE w == Written(row, Request(b, "code", new, line, NoRename))
      <3>1. /\ w.st = new.st /\ w.erp = new.erp
            /\ w.lines = [m \in LineNos |-> IF m = n THEN line.to ELSE row.lines[m]]
        BY <2>2, <2>3, RequestWritten, KeptIsNoValue DEF Columns, Status
      <3>2. n \in Present(w)
        BY <2>1, <3>1 DEF Present
      <3>3. Request(b, "code", new, line, NoRename).op = "code"
        BY DEF Request
      <3> HIDE DEF w
      <3>4. QED
        BY <2>1, <2>2, <3>1, <3>2, <3>3 DEF FreshOn, PreApproval, Signed, w
    <2>4. QED
      BY <1>1, <2>1, <2>3 DEF UpdateOps
  <1>3. ASSUME NEW op \in UpdateOps \ {"pay", "post", "approve"}, NEW new, NEW rename,
               s \in world.sessions, Update(s, b, op, new, NoLine, rename),
               row.st \notin {"posted", "paid"}, new.st \in Status \ Signed,
               new.erp = row.erp, row.st = "rejected" => new.st = "rejected"
        PROVE  SInv'
    <2>1. ASSUME Serial
          PROVE  FreshOn(row, Request(b, op, new, NoLine, rename))
      <3> DEFINE w == Written(row, Request(b, op, new, NoLine, rename))
      <3>1. w.st = new.st /\ w.erp = new.erp /\ w.lines = row.lines
        BY <1>3, <2>1, PlainWritten, KeptIsNoValue DEF Columns
      <3>2. Present(w) # {}
        BY <1>0, <2>1, <3>1 DEF Present, RowSound
      <3>3. Request(b, op, new, NoLine, rename).op = op
        BY DEF Request
      <3> HIDE DEF w
      <3>4. QED
        BY <1>3, <3>1, <3>2, <3>3 DEF FreshOn, w
    <2>2. QED
      BY <1>1, <1>3, <2>1
  <1>4. ASSUME NEW doc, NEW total, NEW name, BeginEditHeader(s, u, b, doc, total, name)
        PROVE  SInv'
    <2> DEFINE new == Rechecked(row, [row EXCEPT !.doc = doc, !.total = total], b)
    <2>1. /\ new.st \in {row.st, "held"} /\ new.erp = row.erp
      BY <1>0 DEF Rechecked, BillFields
    <2> HIDE DEF new
    <2>2. /\ s \in world.sessions /\ row.st \in PreApproval
          /\ \E rename : Update(s, b, "edit_header", new, NoLine, rename)
      BY <1>4 DEF BeginEditHeader, Asks, new
    <2>3. QED
      BY <1>3, <2>1, <2>2 DEF UpdateOps, PreApproval, Status, Signed
  <1>5. CASE BeginAddLine(s, u, b)
    <2> DEFINE n == 1 + CHOOSE m \in Present(bills[b]) : \A k \in Present(bills[b]) : k <= m
               line == [no |-> n, to |-> "bare"]
    <2>1. /\ s \in world.sessions /\ Update(s, b, "add_line", row, line, NoRename)
          /\ row.st \in PreApproval /\ n \in LineNos
      BY <1>5 DEF BeginAddLine, Asks
    <2> HIDE DEF n
    <2>2. ASSUME Serial
          PROVE  FreshOn(row, Request(b, "add_line", row, line, NoRename))
      <3> DEFINE w == Written(row, Request(b, "add_line", row, line, NoRename))
      <3>1. /\ w.st = row.st /\ w.erp = row.erp
            /\ w.lines = [m \in LineNos |-> IF m = n THEN "bare" ELSE row.lines[m]]
        BY <2>2, RequestWritten DEF Columns
      <3>2. n \in Present(w)
        BY <2>1, <3>1 DEF Present
      <3>3. Request(b, "add_line", row, line, NoRename).op = "add_line"
        BY DEF Request
      <3> HIDE DEF w
      <3>4. QED
        BY <2>1, <3>1, <3>2, <3>3 DEF FreshOn, PreApproval, Signed, w
    <2>3. QED
      BY <1>1, <2>1, <2>2 DEF UpdateOps
  <1>6. ASSUME NEW n \in LineNos, BeginRemoveLine(s, u, b, n)
        PROVE  SInv'
    <2> DEFINE line == [no |-> n, to |-> "none"]
    <2>1. /\ s \in world.sessions /\ Update(s, b, "remove_line", row, line, NoRename)
          /\ row.st \in PreApproval /\ n \in Present(row) /\ Cardinality(Present(row)) > 1
      BY <1>6 DEF BeginRemoveLine, Asks
    <2>2. PICK m \in Present(row) : m # n
      <3>1. Cardinality({n}) = 1
        BY FS_Singleton
      <3>2. Present(row) # {n}
        BY <2>1, <3>1
      <3>3. QED
        BY <2>1, <3>2
    <2>3. ASSUME Serial
          PROVE  FreshOn(row, Request(b, "remove_line", row, line, NoRename))
      <3> DEFINE w == Written(row, Request(b, "remove_line", row, line, NoRename))
      <3>1. /\ w.st = row.st /\ w.erp = row.erp
            /\ w.lines = [k \in LineNos |-> IF k = n THEN "none" ELSE row.lines[k]]
        BY <2>3, RequestWritten DEF Columns
      <3>2. m \in Present(w)
        BY <2>2, <3>1 DEF Present
      <3>3. Request(b, "remove_line", row, line, NoRename).op = "remove_line"
        BY DEF Request
      <3> HIDE DEF w
      <3>4. QED
        BY <2>1, <3>1, <3>2, <3>3 DEF FreshOn, PreApproval, Signed, w
    <2>4. QED
      BY <1>1, <2>1, <2>3 DEF UpdateOps
  <1>7. CASE BeginSubmit(s, u, b)
    <2> DEFINE new == [row EXCEPT !.st = "pending_approval", !.submitter = u]
    <2>1. new.st = "pending_approval" /\ new.erp = row.erp
      BY <1>0 DEF BillFields
    <2> HIDE DEF new
    <2>2. /\ s \in world.sessions /\ row.st = "coded"
          /\ Update(s, b, "submit", new, NoLine, NoRename)
      BY <1>7 DEF BeginSubmit, Asks, new
    <2>3. QED
      BY <1>3, <2>1, <2>2 DEF UpdateOps, Status, Signed
  <1>8. CASE BeginReleaseHold(s, u, b)
    <2> DEFINE new == [row EXCEPT !.st = IF row.coder # None THEN "coded" ELSE "captured"]
    <2>1. new.st \in {"coded", "captured"} /\ new.erp = row.erp
      BY <1>0 DEF BillFields
    <2> HIDE DEF new
    <2>2. /\ s \in world.sessions /\ row.st = "held"
          /\ Update(s, b, "release_hold", new, NoLine, NoRename)
      BY <1>8 DEF BeginReleaseHold, Asks, new
    <2>3. QED
      BY <1>3, <2>1, <2>2 DEF UpdateOps, Status, Signed
  <1>9. CASE BeginUnapprove(s, u, b)
    <2> DEFINE new == [row EXCEPT !.st = "coded", !.approver = None]
    <2>1. new.st = "coded" /\ new.erp = row.erp
      BY <1>0 DEF BillFields
    <2> HIDE DEF new
    <2>2. /\ s \in world.sessions /\ row.st = "approved"
          /\ Update(s, b, "unapprove", new, NoLine, NoRename)
      BY <1>9 DEF BeginUnapprove, Asks, Reopenable, new
    <2>3. QED
      BY <1>3, <2>1, <2>2 DEF UpdateOps, Status, Signed
  <1>10. CASE BeginSwitch(s, u, b) \/ BeginReject(s, u, b)
    <2> DEFINE new == [row EXCEPT !.st = "rejected"]
    <2>1. new.st = "rejected" /\ new.erp = row.erp
      BY <1>0 DEF BillFields
    <2> HIDE DEF new
    <2>2. /\ s \in world.sessions /\ row.st \notin {"posted", "paid"}
          /\ \E op \in {"switch", "reject"} : Update(s, b, op, new, NoLine, NoRename)
      BY <1>10 DEF BeginSwitch, BeginReject, Asks, PreApproval, new
    <2>3. QED
      BY <1>3, <2>1, <2>2 DEF UpdateOps, Status, Signed
  <1>11. CASE BeginPay(s, u, b)
    <2> DEFINE new == [row EXCEPT !.st = "paid"]
    <2>1. new.st = "paid" /\ \A c \in Columns \ {"st"} : new[c] = row[c]
      BY <1>0 DEF BillFields, Columns
    <2> HIDE DEF new
    <2>2. /\ s \in world.sessions /\ row.st \in Owed
          /\ Update(s, b, "pay", new, NoLine, NoRename)
      BY <1>11 DEF BeginPay, Asks, new
    <2>3. ASSUME Serial
          PROVE  FreshOn(row, Request(b, "pay", new, NoLine, NoRename))
      <3> DEFINE w == Written(row, Request(b, "pay", new, NoLine, NoRename))
      <3>1. w.st = "paid" /\ w.lines = row.lines /\ \A c \in Columns \ {"st"} : w[c] = row[c]
        BY <2>1, <2>3, PlainWritten, KeptIsNoValue DEF Columns, Status
      <3>2. Present(w) # {}
        BY <1>0, <2>3, <3>1 DEF Present, RowSound
      <3>3. Request(b, "pay", new, NoLine, NoRename).op = "pay"
        BY DEF Request
      <3> HIDE DEF w
      <3>4. QED
        BY <2>2, <3>1, <3>2, <3>3 DEF FreshOn, Untouched, Owed, w
    <2>4. QED
      BY <1>1, <2>2, <2>3 DEF UpdateOps
  <1>12. CASE BeginPost(s, u, b)
    <2> DEFINE new == [row EXCEPT !.erp = TRUE,
                                  !.st = IF @ = "approved" THEN "posted" ELSE @]
    <2>1. /\ new.erp = TRUE /\ new.st = (IF row.st = "approved" THEN "posted" ELSE row.st)
          /\ \A c \in Columns \ {"st", "erp"} : new[c] = row[c]
      BY <1>0 DEF BillFields, Columns
    <2> HIDE DEF new
    <2>2. /\ s \in world.sessions /\ row.st \in {"approved", "paid"} /\ ~row.erp
          /\ Update(s, b, "post", new, NoLine, NoRename)
      BY <1>12 DEF BeginPost, Asks, Postable, new
    <2>3. ASSUME Serial
          PROVE  FreshOn(row, Request(b, "post", new, NoLine, NoRename))
      <3> DEFINE w == Written(row, Request(b, "post", new, NoLine, NoRename))
      <3>1. /\ w.st = new.st /\ w.erp = TRUE /\ w.lines = row.lines
            /\ \A c \in Columns \ {"st", "erp"} : w[c] = row[c]
        <4>1. /\ \A c \in Columns : new[c] = row[c] \/ new[c] # Kept => w[c] = new[c]
              /\ w.lines = row.lines
          BY <2>3, PlainWritten
        <4> HIDE DEF w
        <4>2. new.st # Kept
          BY <2>1, <2>2, KeptIsNoValue DEF Status
        <4>3. w.st = new.st /\ \A c \in Columns \ {"st", "erp"} : w[c] = row[c]
          BY <2>1, <4>1, <4>2 DEF Columns
        <4>4. new.erp # Kept
          BY <2>1, KeptIsNoValue, Zenon
        <4>5. w.erp = TRUE
          BY <2>1, <4>1, <4>4, Zenon DEF Columns
        <4>6. QED
          BY <4>1, <4>3, <4>5
      <3>2. Present(w) # {}
        BY <1>0, <2>3, <3>1 DEF Present, RowSound
      <3>3. Request(b, "post", new, NoLine, NoRename).op = "post"
        BY DEF Request
      <3> HIDE DEF w
      <3>4. QED
        BY <2>1, <2>2, <3>1, <3>2, <3>3 DEF FreshOn, w
    <2>4. QED
      BY <1>1, <2>2, <2>3 DEF UpdateOps
  <1>13. CASE BeginApprove(s, u, b)
    <2> DEFINE new == [row EXCEPT !.st = "approved", !.approver = u]
    <2>1. /\ new.st = "approved" /\ new.approver = u
          /\ \A c \in Columns \ {"st", "approver"} : new[c] = row[c]
      BY <1>0 DEF BillFields, Columns
    <2> HIDE DEF new
    <2>2. /\ s \in world.sessions /\ row.st \in {"pending_approval", "coded"}
          /\ Categorised(row) /\ MayApprove(row, u)
          /\ Update(s, b, "approve", new, NoLine, NoRename)
      BY <1>13 DEF BeginApprove, Asks, new
    <2>3. ASSUME Serial
          PROVE  FreshOn(row, Request(b, "approve", new, NoLine, NoRename))
      <3> DEFINE w == Written(row, Request(b, "approve", new, NoLine, NoRename))
      <3>1. /\ w.st = "approved" /\ w.approver = u /\ w.lines = row.lines
            /\ w.coder = row.coder /\ w.total = row.total /\ w.erp = row.erp
        BY <2>1, <2>3, PlainWritten, KeptIsNoValue DEF Columns, Status
      <3>2. Present(w) # {} /\ Categorised(w)
        BY <1>0, <2>2, <2>3, <3>1 DEF Present, Categorised, RowSound
      <3>3. Request(b, "approve", new, NoLine, NoRename).op = "approve"
        BY DEF Request
      <3>4. u # None
        BY QueueAssumption
      <3> HIDE DEF w
      <3>5. QED
        BY <2>2, <3>1, <3>2, <3>3, <3>4 DEF FreshOn, MayApprove, w
    <2>4. QED
      BY <1>1, <2>2, <2>3 DEF UpdateOps
  <1>14. QED
    BY <1>2, <1>4, <1>5, <1>6, <1>7, <1>8, <1>9, <1>10, <1>11, <1>12, <1>13

\* After a commit no session holds anything that could have grown stale.
LEMMA AllIdle ==
  ASSUME SInv, Serial, NEW s \in Sessions, txn[s] # Idle, txn' = [txn EXCEPT ![s] = Idle]
  PROVE  \A r \in Sessions : txn'[r] = Idle
  BY OneSession DEF SInv, KInv, Shape

LEMMA IdleSound ==
  Idle.op \notin UpdateOps /\ Idle.op # "file" /\ Inserts(Idle)
  BY DEF Idle, UpdateOps, Inserts

LEMMA AloneStep ==
  ASSUME SInv, NEW s \in Sessions, world' = world, txn' = [txn EXCEPT ![s] = Idle]
  PROVE  Alone' /\ world' \in Worlds
  BY DEF SInv, KInv, Shape, Alone

LEMMA FileSound ==
  ASSUME SInv, KInv', NEW s \in Sessions, CommitFile(s)
  PROVE  SInv'
  <1> DEFINE t == txn[s]
             v == IF t.row.vendor = 0 THEN NextVendor ELSE t.row.vendor
             row == [t.row EXCEPT !.vendor = v]
  <1>1. /\ t.op = "file" /\ NextBill \in Bills
        /\ bills' = [bills EXCEPT ![NextBill] = row]
        /\ txn' = [txn EXCEPT ![s] = Idle]
        /\ world' = world /\ past' = past
    BY DEF CommitFile
  <1>2. ASSUME Serial
        PROVE  Sound'
    <2>1. Sound /\ Inserts(t) /\ Intent(t) /\ t.op = "file"
      BY <1>1, <1>2 DEF SInv, KInv, Intended, Sound
    <2>2. /\ row.st \in {"captured", "held"} /\ row.erp = FALSE
          /\ row.lines = t.row.lines
      BY <2>1 DEF Inserts, Intent, BillFields
    <2>3. row.lines = [n \in LineNos |-> row.lines[n]] /\ Present(row) # {}
      BY <2>1, <2>2 DEF Inserts, Present
    <2> HIDE DEF row
    <2>4. \A b \in Bills : bills'[b] = IF b = NextBill THEN row ELSE bills[b]
      BY <1>1 DEF SInv, KInv, Shape
    <2>5. NextBill \notin Exists /\ \E k \in Nat : Exists \cup {NextBill} = 1 .. k
      BY <2>1, BillNumber DEF Sound
    <2>6. Exists' = Exists \cup {NextBill}
      BY <1>1, <2>2, <2>4 DEF Exists
    <2>7. bills[NextBill].st = "absent"
      BY <1>1, <2>5 DEF Exists
    <2>8. ASSUME NEW b \in Bills
          PROVE  RowSound(b)'
      <3>1. RowSound(b) /\ past'[b] = past[b]
        BY <1>1, <2>1 DEF Sound
      <3>2. CASE b # NextBill
        <4>1. bills'[b] = bills[b]
          BY <2>4, <3>2
        <4>2. QED
          BY <3>1, <4>1 DEF RowSound
      <3>3. CASE b = NextBill
        <4>1. bills'[b] = row
          BY <2>4, <3>3
        <4>2. Whole(row)
          BY <2>2 DEF Whole, Signed
        <4>3. Settled(row, past[b])
          BY <2>2, <2>7, <3>1, <3>3 DEF RowSound, Settled
        <4>4. QED
          BY <2>2, <2>3, <3>1, <4>1, <4>2, <4>3 DEF RowSound
      <3>4. QED
        BY <3>2, <3>3
    <2>9. t # Idle
      BY <1>1 DEF Idle
    <2>10. \A r \in Sessions : txn'[r] = Idle
      BY <1>1, <1>2, <2>9, AllIdle
    <2>11. (DOMAIN past = Bills)' /\ Numbered'
      BY <1>1, <2>1, <2>5, <2>6 DEF Sound, Numbered
    <2>12. (\A b \in Bills : RowSound(b))'
      BY <2>8
    <2>13. QED
      BY <2>10, <2>11, <2>12, IdleSound DEF Sound
  <1>3. Serial' = Serial
    BY <1>1 DEF Serial
  <1>4. QED
    BY <1>1, <1>2, <1>3, AloneStep DEF SInv

\* A row that a fresh update leaves is whole, and its history counts it.
LEMMA FreshRow ==
  ASSUME NEW row, NEW p, NEW t, t.op \in UpdateOps, FreshOn(row, t),
         Whole(row), Settled(row, p), DOMAIN p = DOMAIN NoPast, row.erp \in BOOLEAN
  PROVE  /\ Whole(Written(row, t)) /\ Settled(Written(row, t), Recorded(p, t))
         /\ DOMAIN Recorded(p, t) = DOMAIN NoPast
         /\ Written(row, t).erp \in BOOLEAN
  <1> DEFINE new == Written(row, t)
  <1> HIDE DEF new
  <1>1. FreshOn(row, t) => 
          /\ Present(new) # {}
          /\ t.op = "pay" => /\ row.st \in Owed /\ new.st = "paid"
                             /\ new.lines = row.lines /\ Untouched(row, new)
          /\ t.op = "post" =>
               /\ row.st \in {"approved", "paid"} /\ row.erp = FALSE
               /\ new.erp = TRUE /\ new.st = (IF row.st = "approved" THEN "posted" ELSE "paid")
               /\ new.lines = row.lines
               /\ \A c \in Columns \ {"st", "erp"} : new[c] = row[c]
          /\ t.op = "approve" =>
               /\ new.st = "approved" /\ new.erp = row.erp /\ row.st \notin {"posted", "paid"}
               /\ new.coder # None /\ new.approver # None /\ Categorised(new)
               /\ new.total \in Authority[new.approver]
          /\ t.op \notin {"pay", "post", "approve"} =>
               /\ row.st \notin {"posted", "paid"} /\ new.st \notin Signed /\ new.erp = row.erp
    BY DEF FreshOn, new
  <1>2. CASE t.op = "pay"
    <2>1. Recorded(p, t) = [p EXCEPT !.paid = @ + 1]
      BY <1>2 DEF Recorded
    <2>2. \A c \in Columns \ {"st"} : new[c] = row[c]
      BY <1>1, <1>2 DEF Untouched
    <2>3. Whole(new)
      BY <1>1, <1>2, <2>2 DEF Whole, Present, Categorised, Columns, Owed, Signed
    <2>4. Settled(new, Recorded(p, t))
      BY <1>1, <1>2, <2>1, <2>2 DEF Settled, NoPast, Columns, Owed
    <2>5. QED
      BY <2>1, <2>2, <2>3, <2>4 DEF new, NoPast, Columns
  <1>3. CASE t.op = "post"
    <2>1. Recorded(p, t) = [p EXCEPT !.posted = @ + 1]
      BY <1>3 DEF Recorded
    <2>2. Whole(new)
      BY <1>1, <1>3 DEF Whole, Present, Categorised, Columns, Signed
    <2>3. Settled(new, Recorded(p, t))
      BY <1>1, <1>3, <2>1 DEF Settled, NoPast
    <2>4. QED
      BY <1>1, <1>3, <2>1, <2>2, <2>3 DEF new, NoPast
  <1>4. CASE t.op \notin {"pay", "post"}
    <2>1. /\ Recorded(p, t).paid = p.paid /\ Recorded(p, t).posted = p.posted
          /\ DOMAIN Recorded(p, t) = DOMAIN p
      BY <1>4 DEF Recorded, UpdateOps, NoPast
    <2>2. new.erp = row.erp /\ new.st # "paid" /\ row.st # "paid"
      BY <1>1, <1>4 DEF Signed
    <2>3. Settled(new, Recorded(p, t))
      BY <2>1, <2>2 DEF Settled
    <2>4. Whole(new)
      BY <1>1, <1>4 DEF Whole, Signed
    <2>5. QED
      BY <2>1, <2>2, <2>3, <2>4 DEF new
  <1>5. QED
    BY <1>2, <1>3, <1>4

LEMMA UpdateSound ==
  ASSUME SInv, KInv', NEW s \in Sessions, CommitUpdate(s)
  PROVE  SInv'
  <1> DEFINE t == txn[s]
             b == t.bill
             new == Written(bills[b], t)
  <1>1. /\ t.op \in UpdateOps
        /\ bills' = [bills EXCEPT ![b] = new]
        /\ past' = [past EXCEPT ![b] = Recorded(past[b], t)]
        /\ txn' = [txn EXCEPT ![s] = Idle]
        /\ world' = world
    BY DEF CommitUpdate
  <1>2. b \in Bills /\ t.upd.st # "absent" /\ bills[b].st # "absent" /\ DOMAIN bills[b] = BillFields
    BY <1>1 DEF SInv, KInv, Intended, Intent, Exists, Shape
  <1>3. new.st # "absent"
    BY <1>2 DEF Written, BillFields, Pick
  <1>4. new.lines = [n \in LineNos |-> new.lines[n]]
    BY <1>2 DEF Written, BillFields
  <1>5. ASSUME Serial
        PROVE  Sound'
    <2>1. Sound /\ FreshOn(bills[b], t)
      BY <1>1, <1>5 DEF SInv, Sound, Fresh
    <2>2. /\ RowSound(b) /\ DOMAIN past = Bills
      BY <1>2, <2>1 DEF Sound
    <2>3. /\ Whole(new) /\ Settled(new, Recorded(past[b], t)) /\ new.erp \in BOOLEAN
          /\ DOMAIN Recorded(past[b], t) = DOMAIN NoPast
      BY <1>1, <2>1, <2>2, FreshRow DEF RowSound
    <2>4. Present(new) # {}
      BY <2>1 DEF FreshOn
    <2>5. t # Idle
      BY <1>1, IdleSound
    <2> HIDE DEF new, b, t
    <2>6. /\ \A c \in Bills : bills'[c] = IF c = b THEN new ELSE bills[c]
          /\ \A c \in Bills : past'[c] = IF c = b THEN Recorded(past[b], t) ELSE past[c]
      BY <1>1, <2>2 DEF SInv, KInv, Shape
    <2>7. Exists' = Exists
      BY <1>2, <1>3, <2>6 DEF Exists
    <2>8. ASSUME NEW c \in Bills
          PROVE  RowSound(c)'
      <3>1. CASE c = b
        <4>1. bills'[c] = new /\ past'[c] = Recorded(past[b], t)
          BY <2>6, <3>1
        <4>2. QED
          BY <1>3, <1>4, <2>3, <2>4, <4>1 DEF RowSound
      <3>2. CASE c # b
        <4>1. bills'[c] = bills[c] /\ past'[c] = past[c]
          BY <2>6, <3>2
        <4>2. QED
          BY <2>1, <4>1 DEF Sound, RowSound
      <3>3. QED
        BY <3>1, <3>2
    <2>9. \A r \in Sessions : txn'[r] = Idle
      BY <1>1, <1>5, <2>5, AllIdle DEF t
    <2>10. (DOMAIN past = Bills)' /\ Numbered'
      BY <1>1, <2>1, <2>2, <2>7 DEF Sound, Numbered
    <2>11. (\A c \in Bills : RowSound(c))'
      BY <2>8
    <2>12. QED
      BY <2>9, <2>10, <2>11, IdleSound DEF Sound
  <1>6. Serial' = Serial
    BY <1>1 DEF Serial
  <1>7. QED
    BY <1>1, <1>5, <1>6, AloneStep DEF SInv

\* A request on the holding queue, or the reading of a page to be filed.
LEMMA OtherSound ==
  ASSUME SInv, KInv', NEW s \in Sessions, world' = world, bills' = bills, past' = past,
         txn' = [txn EXCEPT ![s] = txn'[s]], txn'[s] = Idle \/ s \in world.sessions,
         txn'[s].op \notin UpdateOps, Inserts(txn'[s])
  PROVE  SInv'
  <1>1. /\ \A r \in Sessions \ {s} : txn'[r] = txn[r]
        /\ Serial' = Serial
    BY DEF SInv, KInv, Shape, Serial
  <1>2. Alone'
    BY <1>1 DEF SInv, Alone
  <1>3. ASSUME Serial
        PROVE  Sound'
    <2>1. Numbered' /\ (DOMAIN past = Bills)'
      BY <1>3 DEF SInv, Sound, Numbered, Exists
    <2>2. (\A c \in Bills : RowSound(c))'
      BY <1>3 DEF SInv, Sound, RowSound
    <2>3. (\A r \in Sessions : Inserts(txn[r]) /\ (txn[r].op \in UpdateOps => Fresh(txn[r])))'
      BY <1>1, <1>3 DEF SInv, Sound, Fresh
    <2>4. QED
      BY <2>1, <2>2, <2>3 DEF Sound
  <1>4. QED
    BY <1>1, <1>2, <1>3 DEF SInv

\* A line that is switched from its claim: of the bills it changes how many
\* claims were made of one, if anything.
LEMMA SwitchedSound ==
  ASSUME SInv, KInv', world' = world, bills' = bills, txn' = txn,
         \/ past' = past
         \/ \E b \in Bills : past' = [past EXCEPT ![b].claims = @ - 1]
  PROVE  SInv'
  <1>1. Serial' = Serial /\ Alone'
    BY DEF SInv, Serial, Alone
  <1>2. ASSUME Serial
        PROVE  Sound'
    <2>1. Numbered' /\ (\A s \in Sessions : Inserts(txn[s]) /\ (txn[s].op \in UpdateOps => Fresh(txn[s])))'
      BY <1>2 DEF SInv, Sound, Numbered, Exists, Fresh
    <2>2. DOMAIN past = Bills /\ \A c \in Bills : RowSound(c)
      BY <1>2 DEF SInv, Sound
    <2>3. DOMAIN past' = Bills
      BY <2>2
    <2>4. ASSUME NEW c \in Bills
          PROVE  /\ DOMAIN past'[c] = DOMAIN past[c]
                 /\ past'[c].paid = past[c].paid /\ past'[c].posted = past[c].posted
      <3>1. DOMAIN past[c] = {"paid", "posted", "cleared", "coders", "claims"}
        BY <2>2 DEF RowSound, NoPast
      <3>2. CASE past' = past
        BY <3>2
      <3>3. ASSUME NEW b \in Bills, past' = [past EXCEPT ![b].claims = @ - 1]
            PROVE  /\ DOMAIN past'[c] = DOMAIN past[c]
                   /\ past'[c].paid = past[c].paid /\ past'[c].posted = past[c].posted
        <4>1. past'[c] = IF c = b THEN [past[c] EXCEPT !.claims = @ - 1] ELSE past[c]
          BY <2>2, <3>3
        <4>2. QED
          BY <3>1, <4>1
      <3>4. QED
        BY <3>2, <3>3
    <2>5. (\A c \in Bills : RowSound(c))'
      BY <2>2, <2>4 DEF RowSound, Settled
    <2>6. QED
      BY <2>1, <2>3, <2>5 DEF Sound
  <1>3. QED
    BY <1>1, <1>2 DEF SInv

LEMMA QueueSoundStep ==
  ASSUME SInv, KInv', QueueNext, UNCHANGED <<bills, vendors, past>>
  PROVE  SInv'
  <1>0. bills' = bills /\ past' = past
    OBVIOUS
  <1>1. ASSUME NEW s \in Sessions, NEW t, txn' = [txn EXCEPT ![s] = t]
        PROVE  txn'[s] = t
    BY <1>1 DEF SInv, KInv, Shape
  <1>2. ASSUME NEW s \in Sessions, world' = world, txn' = [txn EXCEPT ![s] = txn'[s]],
               txn'[s] = Idle \/ s \in world.sessions,
               txn'[s].op \in {"idle", "record", "upgrade", "audit_only", "reroute"}
        PROVE  SInv'
    BY <1>0, <1>2, OtherSound DEF UpdateOps, Inserts
  <1>3. ASSUME NEW s \in Sessions, NEW u \in Users, NEW r \in Readings, BeginRecord(s, u, r)
        PROVE  SInv'
    <2> DEFINE queue == Route(r.type, r.sure)
               t == [op |-> "record",
                     row |-> [NoIntake EXCEPT
                                !.st = IF queue = "eclaim" THEN "consumed" ELSE "open",
                                !.queue = queue, !.type = r.type, !.key = LinkKey(r),
                                !.read = r, !.by = u,
                                !.claims = IF queue = "eclaim" THEN 1 ELSE 0],
                     mate |-> Counterpart(NextIntake, r.type, LinkKey(r))]
    <2>1. /\ txn' = [txn EXCEPT ![s] = t] /\ world' = world /\ s \in world.sessions
      BY <1>3 DEF BeginRecord, Asks
    <2>2. t.op = "record"
      OBVIOUS
    <2> HIDE DEF t
    <2>3. QED
      BY <1>2, <2>1, <2>2 DEF SInv, KInv, Shape
  <1>4. ASSUME NEW s \in Sessions, NEW u \in Users, NEW r \in Readings, BeginSuppress(s, u, r)
        PROVE  SInv'
    <2> DEFINE queue == Route(r.type, r.sure)
               i  == Earliest(Twins(r.image))
               up == intakes[i].queue = "pending" /\ queue # "pending"
               t  == IF up
                     THEN [op |-> "upgrade", intake |-> i, type |-> r.type, queue |-> queue,
                           key |-> LinkKey(r), mate |-> Counterpart(i, r.type, LinkKey(r))]
                     ELSE [op |-> "audit_only"]
    <2>1. /\ txn' = [txn EXCEPT ![s] = t] /\ world' = world /\ s \in world.sessions
      BY <1>4 DEF BeginSuppress, Asks
    <2>2. t.op \in {"upgrade", "audit_only"}
      OBVIOUS
    <2> HIDE DEF t
    <2>3. QED
      BY <1>2, <2>1, <2>2 DEF SInv, KInv, Shape
  <1>5. ASSUME NEW s \in Sessions, NEW u \in Users, NEW i \in Intakes, NEW to \in Queues,
               BeginReroute(s, u, i, to)
        PROVE  SInv'
    <2> DEFINE t == [op |-> "reroute", intake |-> i,
                     queue |-> Changed(intakes[i].queue, to),
                     st |-> Changed(intakes[i].st, Rerouted(to)),
                     claims |-> IF to = "eclaim" THEN 1 ELSE 0]
    <2>1. /\ txn' = [txn EXCEPT ![s] = t] /\ world' = world /\ s \in world.sessions
      BY <1>5 DEF BeginReroute, Asks
    <2>2. t.op = "reroute"
      OBVIOUS
    <2> HIDE DEF t
    <2>3. QED
      BY <1>2, <2>1, <2>2 DEF SInv, KInv, Shape
  <1>6. ASSUME NEW s \in Sessions,
               CommitRecord(s) \/ CommitUpgrade(s) \/ CommitReroute(s) \/ Abort(s)
        PROVE  SInv'
    <2>1. txn' = [txn EXCEPT ![s] = Idle] /\ world' = world
      BY <1>6 DEF CommitRecord, CommitUpgrade, CommitReroute, Abort
    <2>2. txn'[s] = Idle
      BY <2>1 DEF SInv, KInv, Shape
    <2>3. txn'[s].op = "idle" /\ txn' = [txn EXCEPT ![s] = txn'[s]]
      BY <2>1, <2>2 DEF Idle, SInv, KInv, Shape
    <2>4. QED
      BY <1>2, <2>1, <2>2, <2>3
  <1>7. ASSUME NEW s \in Sessions, NEW u \in Users, NEW i \in Intakes, SwitchIn(s, u, i)
        PROVE  SInv'
    BY <1>0, <1>7, SwitchedSound DEF SwitchIn
  <1>8. QED
    BY <1>3, <1>4, <1>5, <1>6, <1>7 DEF QueueNext

LEMMA SInvStep ==
  ASSUME SInv, [Next]_vars
  PROVE  SInv'
  <1>0. KInv'
    BY KInvStep DEF SInv
  <1>1. CASE UNCHANGED vars
    <2>1. /\ world' = world /\ bills' = bills /\ past' = past /\ txn' = txn
      BY <1>1 DEF vars
    <2>2. Serial' = Serial /\ Alone' /\ world' \in Worlds
      BY <2>1 DEF SInv, Serial, Alone
    <2>3. ASSUME Sound
          PROVE  Sound'
      BY <2>1, <2>3 DEF Sound, Numbered, Exists, RowSound, Fresh
    <2>4. QED
      BY <1>0, <2>2, <2>3 DEF SInv
  <1>2. CASE QueueNext /\ UNCHANGED <<bills, vendors, past>>
    BY <1>0, <1>2, QueueSoundStep
  <1>3. ASSUME NEW s \in Sessions, NEW u \in Users, NEW i \in Intakes, BeginFile(s, u, i)
        PROVE  SInv'
    <2> DEFINE v == VendorOf(VendorName(intakes[i].read))
               t == [op |-> "file", row |-> NewBill(i, v), name |-> VendorName(intakes[i].read)]
    <2>1. /\ txn' = [txn EXCEPT ![s] = t] /\ bills' = bills /\ past' = past
          /\ world' = world /\ s \in world.sessions
      BY <1>3 DEF BeginFile, Asks
    <2>2. t.op = "file" /\ t.op \notin UpdateOps
      BY DEF UpdateOps
    <2>3. Inserts(t)
      <3>1. 1 \in LineNos
        BY BoundsAreNat DEF LineNos
      <3>2. /\ NewBill(i, v).erp = FALSE
            /\ NewBill(i, v).lines = [n \in LineNos |-> IF n = 1 THEN "bare" ELSE "none"]
        BY <3>1 DEF NewBill, NoBill
      <3>3. 1 \in Present(NewBill(i, v))
        BY <3>1, <3>2 DEF Present
      <3>4. QED
        BY <3>2, <3>3, FieldsOfNewBill DEF Inserts
    <2> HIDE DEF t
    <2>4. txn'[s] = t
      BY <2>1 DEF SInv, KInv, Shape
    <2>5. QED
      BY <1>0, <2>1, <2>2, <2>3, <2>4, OtherSound
  <1>4. ASSUME NEW s \in Sessions, NEW u \in Users, NEW b \in Exists, SwitchBack(s, u, b)
        PROVE  SInv'
    BY <1>0, <1>4, SwitchedSound DEF SwitchBack, Exists
  <1>5. QED
    BY <1>0, <1>1, <1>2, <1>3, <1>4, BeginSound, FileSound, UpdateSound DEF Next, BillNext

LEMMA SInvInit ==
  ASSUME Init
  PROVE  SInv
  <1>1. KInv /\ world \in Worlds /\ Alone
    BY KInvInit DEF Init, QueueInit, Alone
  <1>2. Numbered
    <2>1. Exists = {}
      BY DEF Init, NoBill, Exists
    <2>2. Exists = 1 .. 0
      BY <2>1
    <2>3. QED
      BY <2>2 DEF Numbered
  <1>3. ASSUME NEW b \in Bills
        PROVE  RowSound(b)
    <2>1. bills[b] = NoBill /\ past[b] = NoPast
      BY DEF Init
    <2>2. /\ NoBill.st = "absent" /\ NoBill.erp = FALSE
          /\ NoBill.lines = [n \in LineNos |-> NoBill.lines[n]]
      BY DEF NoBill
    <2>3. Settled(NoBill, NoPast) /\ Whole(NoBill)
      BY <2>2 DEF Settled, NoPast, Whole, Signed
    <2>4. QED
      BY <2>1, <2>2, <2>3 DEF RowSound
  <1>4. \A s \in Sessions : txn[s] = Idle
    BY DEF Init, QueueInit
  <1>5. Sound
    BY <1>2, <1>3, <1>4, IdleSound DEF Init, Sound
  <1>6. QED
    BY <1>1, <1>5 DEF SInv

LEMMA SInvAlways == Spec => []SInv
  BY SInvInit, SInvStep, PTL DEF Spec

\* While requests do not overlap, a bill is settled once and posted to the ERP
\* once, in either order, and its row says so (the guards of mark_paid and
\* mark_posted).
THEOREM BillsSettledOnce == Spec => []SettledOnce
  <1>1. ASSUME SInv, Serial, NEW b \in Bills
        PROVE  /\ past[b].paid <= 1 /\ past[b].posted <= 1
               /\ past[b].paid = 1 <=> bills[b].st = "paid"
               /\ past[b].posted = 1 <=> bills[b].erp
    <2>1. Settled(bills[b], past[b]) /\ bills[b].erp \in BOOLEAN
      BY <1>1 DEF SInv, Sound, RowSound
    <2>2. past[b].paid <= 1 /\ (past[b].paid = 1 <=> bills[b].st = "paid")
      BY <2>1 DEF Settled
    <2>3. CASE bills[b].erp = TRUE
      BY <2>1, <2>2, <2>3 DEF Settled
    <2>4. CASE bills[b].erp = FALSE
      BY <2>1, <2>2, <2>4 DEF Settled
    <2>5. QED
      BY <2>1, <2>3, <2>4
  <1>2. SInv => SettledOnce
    BY <1>1 DEF SettledOnce
  <1>3. QED
    BY <1>2, SInvAlways, PTL

\* While requests do not overlap, a signed bill was coded, is categorised on
\* every line, and its total is within its approver's authority.
THEOREM BillsSignedWhole == Spec => []SignedWhole
  <1>1. SInv => SignedWhole
    BY DEF SInv, Sound, RowSound, Whole, SignedWhole
  <1>2. QED
    BY <1>1, SInvAlways, PTL

\* While requests do not overlap, a posted bill can only be paid and keeps its
\* columns and lines, as does a paid one, and a rejected one never returns.
THEOREM BillsLeftIsFinal == Spec => LeftIsFinal
  <1> DEFINE Kind(b) ==
               /\ bills[b].st \in {"posted", "paid"} =>
                    /\ bills'[b].st \in {bills[b].st, "paid"}
                    /\ \A c \in Columns \ {"st", "erp"} : bills'[b][c] = bills[b][c]
                    /\ bills'[b].lines = bills[b].lines
               /\ bills[b].st = "rejected" => bills'[b].st = "rejected"
  <1>1. ASSUME SInv, [Next]_vars, Serial, NEW b \in Bills
        PROVE  Kind(b)
    <2>1. CASE bills' = bills
      BY <2>1
    <2>2. ASSUME NEW s \in Sessions, CommitFile(s)
          PROVE  Kind(b)
      <3>1. NextBill \notin Exists
        BY <1>1, BillNumber DEF SInv, Sound
      <3>2. bills'[b] = bills[b] \/ bills[b].st = "absent"
        BY <2>2, <3>1 DEF CommitFile, Exists
      <3>3. QED
        BY <3>2
    <2>3. ASSUME NEW s \in Sessions, CommitUpdate(s)
          PROVE  Kind(b)
      <3> DEFINE t == txn[s]
                 row == bills[t.bill]
                 new == Written(row, t)
      <3>1. t.op \in UpdateOps /\ bills' = [bills EXCEPT ![t.bill] = new]
        BY <2>3 DEF CommitUpdate
      <3>2. FreshOn(row, t)
        BY <1>1, <3>1 DEF SInv, Sound, Fresh
      <3>3. CASE b # t.bill
        BY <3>1, <3>3 DEF SInv, KInv, Shape
      <3>4. CASE b = t.bill
        <4>1. bills'[b] = new /\ bills[b] = row
          BY <1>1, <3>1, <3>4 DEF SInv, KInv, Shape
        <4>2. row.st = "rejected" => new.st = "rejected"
          BY <3>2 DEF FreshOn
        <4>3. ASSUME row.st \in {"posted", "paid"}
              PROVE  /\ new.st \in {row.st, "paid"} /\ new.lines = row.lines
                     /\ \A c \in Columns \ {"st", "erp"} : new[c] = row[c]
          BY <3>2, <4>3 DEF FreshOn, Untouched
        <4> HIDE DEF new, row
        <4>4. QED
          BY <4>1, <4>2, <4>3
      <3>5. QED
        BY <3>3, <3>4
    <2>4. CASE UNCHANGED vars
      BY <2>1, <2>4 DEF vars
    <2>5. CASE QueueNext /\ UNCHANGED <<bills, vendors, past>>
      BY <2>1, <2>5
    <2>6. ASSUME NEW s \in Sessions, NEW u \in Users, NEW i \in Intakes, BeginFile(s, u, i)
          PROVE  Kind(b)
      BY <2>1, <2>6 DEF BeginFile
    <2>7. ASSUME NEW s \in Sessions, NEW u \in Users, NEW c \in Exists,
                 \/ \E n \in LineNos, category \in BOOLEAN : BeginCode(s, u, c, n, category)
                 \/ \E doc \in DocEdits \cup {bills[c].doc},
                      total \in TotalEdits \cup {bills[c].total},
                      name \in NameEdits \cup {vendors[bills[c].vendor]} :
                      BeginEditHeader(s, u, c, doc, total, name)
                 \/ BeginAddLine(s, u, c)
                 \/ \E n \in LineNos : BeginRemoveLine(s, u, c, n)
                 \/ BeginSubmit(s, u, c)
                 \/ BeginApprove(s, u, c)
                 \/ BeginReleaseHold(s, u, c)
                 \/ BeginPay(s, u, c)
                 \/ BeginUnapprove(s, u, c)
                 \/ BeginSwitch(s, u, c)
                 \/ BeginReject(s, u, c)
                 \/ BeginPost(s, u, c)
          PROVE  Kind(b)
      <3>1. bills' = bills
        BY <2>7 DEF BeginCode, BeginEditHeader, BeginAddLine, BeginRemoveLine, BeginSubmit,
                    BeginApprove, BeginReleaseHold, BeginPay, BeginUnapprove, BeginSwitch,
                    BeginReject, BeginPost, Update
      <3>2. QED
        BY <2>1, <3>1
    <2>8. ASSUME NEW s \in Sessions, NEW u \in Users, NEW c \in Exists, SwitchBack(s, u, c)
          PROVE  Kind(b)
      BY <2>1, <2>8 DEF SwitchBack
    <2>9. QED
      BY <1>1, <2>2, <2>3, <2>4, <2>5, <2>6, <2>7, <2>8 DEF Next, BillNext
  <1>2. SInv /\ [Next]_vars => [Serial => \A b \in Bills : Kind(b)]_vars
    BY <1>1
  <1>3. QED
    BY <1>2, SInvAlways, PTL DEF Spec, LeftIsFinal

-----------------------------------------------------------------------------
(* Types, whatever requests overlap. *)

IntakeFields == {"st", "queue", "type", "key", "read", "by", "link", "claims", "upgraded",
                 "from_claim"}

IntakeRow(row) ==
  /\ DOMAIN row = IntakeFields
  /\ row.st \in {"absent", "open", "consumed"} /\ row.queue \in Queues
  /\ row.by \in Users \cup {None} /\ row.link \in 0 .. MaxIntakes

LineStates == {"none", "bare", "categorised"}

BillRow(row) ==
  /\ row.st \in Status /\ row.vendor \in 0 .. MaxVendors
  /\ {row.filer, row.coder, row.submitter, row.approver} \subseteq Users \cup {None}
  /\ row.erp \in BOOLEAN /\ row.intake \in 0 .. MaxIntakes
  /\ row.lines \in [LineNos -> LineStates]

\* What an update writes.
WritesTyped(t) ==
  /\ t.upd.st \in Status \cup {Kept}
  /\ {t.upd.coder, t.upd.submitter, t.upd.approver} \subseteq Users \cup {None, Kept}
  /\ t.upd.erp \in BOOLEAN \cup {Kept}
  /\ t.line.to \in LineStates

\* What a session holds: rows that are captured, and values of their types.
Typed(t) ==
  /\ t.op = "record"  => /\ IntakeRow(t.row) /\ t.row.st # "absent"
                         /\ t.mate \in Captured \cup {0}
  /\ t.op = "upgrade" => /\ t.intake \in Captured /\ t.queue \in Queues
                         /\ t.mate \in (Captured \ {t.intake}) \cup {0}
  /\ t.op = "reroute" => /\ t.intake \in Captured /\ t.queue \in Queues \cup {Kept}
                         /\ t.st \in {"open", "consumed", Kept}
  /\ t.op = "file"    => BillRow(t.row) /\ t.row.intake \in Captured
  /\ t.op \in UpdateOps => WritesTyped(t)

\* Intake rows are numbered from 1 without a gap.
CapturedInOrder == \E k \in Nat : Captured = 1 .. k

TypedRows ==
  /\ DOMAIN intakes = Intakes /\ DOMAIN vendors = Vendors /\ DOMAIN past = Bills
  /\ CapturedInOrder
  /\ \A i \in Intakes : IntakeRow(intakes[i])
  /\ \A b \in Bills : BillRow(bills[b])

-----------------------------------------------------------------------------
(* The queue, while requests do not overlap. *)

\* j is a row that a page of that type and key, kept in row i, may be linked to.
Mate(i, type, key, j) ==
  j # 0 => /\ j \in Captured \ {i} /\ intakes[j].link = 0 /\ intakes[j].key = key
           /\ {intakes[j].type, type} = {"vendor_invoice", "delivery_order"}

\* What a request on the queue found is still so.
Current(t) ==
  /\ t.op = "record"  => /\ t.row.st = "open" => Twins(t.row.read.image) = {}
                         /\ t.row.link = 0
                         /\ Mate(NextIntake, t.row.type, t.row.key, t.mate)
  /\ t.op = "upgrade" => Mate(t.intake, t.type, t.key, t.mate)

OneImage == \A i, j \in OpenRows :
              i < j /\ intakes[i].read.image = intakes[j].read.image => intakes[j].from_claim

Joined(i, j) ==
  \/ intakes[i].upgraded \/ intakes[j].upgraded
  \/ /\ {intakes[i].type, intakes[j].type} = {"vendor_invoice", "delivery_order"}
     /\ intakes[i].key = intakes[j].key
     /\ intakes[j].link = i

LinksJoin == \A i \in Captured : intakes[i].link # 0 =>
               intakes[i].link \in Captured /\ Joined(i, intakes[i].link)

QueueRows == OneImage /\ LinksJoin

-----------------------------------------------------------------------------
(* Where a page is counted, while requests do not overlap. *)

\* No request changes a page that has left the queue, and a bill becomes a
\* claim when it has not yet done so.
Leaves(t) ==
  /\ t.op = "record" => t.row.claims = IF t.row.st = "open" THEN 0 ELSE 1
  /\ t.op = "reroute" => /\ t.intake \in OpenRows
                         /\ t.claims = IF Pick("open", t.st) = "open" THEN 0 ELSE 1
  /\ t.op = "file" => t.row.intake \in OpenRows
  /\ t.op = "upgrade" => t.intake \in OpenRows
  /\ t.op = "switch" => past[t.bill].claims = 0 /\ Written(bills[t.bill], t).st = "rejected"

PageOnce(i) ==
  /\ intakes[i].claims \in {0, 1}
  /\ intakes[i].st = "open" => intakes[i].claims = 0

BillOfPage(b) ==
  /\ bills[b].intake \in Captured
  /\ intakes[bills[b].intake].st = "consumed" /\ intakes[bills[b].intake].claims = 0
  /\ past[b].claims \in {0, 1}
  /\ past[b].claims = 1 => bills[b].st = "rejected"

PageRows ==
  /\ \A i \in Captured : PageOnce(i)
  /\ \A b \in Exists : BillOfPage(b)
  /\ \A b \in Bills \ Exists : past[b].claims = 0

-----------------------------------------------------------------------------
(* Bills that look alike, while requests do not overlap. *)

\* A live bill that is not on hold.
Moving(row) == row.st \in Live \ {"held"}

Alike(row, other) ==
  /\ row.vendor = other.vendor /\ row.doc = other.doc /\ row.total = other.total
  /\ row.doc # None

\* No other bill that moves is like the row.
Unlike(row, self) == \A c \in Bills \ {self} : Moving(bills[c]) => ~Alike(row, bills[c])

\* An update leaves a bill on hold, clears its hold, keeps what the duplicate
\* check compares, or has compared it again.
Compared(t) ==
  LET row == bills[t.bill]
      new == Written(row, t)
  IN
  /\ t.op = "file" =>
       /\ t.name # None
       /\ t.row.vendor # 0 => /\ t.row.vendor \in NamedVendors
                              /\ \/ t.row.st = "held"
                                 \/ Unlike(t.row, 0)
  /\ t.op \in UpdateOps =>
       /\ t.rename.vendor # 0 => t.rename.vendor \in NamedVendors /\ t.rename.name # None
       /\ \/ ~Moving(new)
          \/ t.op = "release_hold"
          \/ Moving(row) /\ new.doc = row.doc /\ new.total = row.total
          \/ Unlike(new, t.bill)

VendorsInOrder == \E k \in Nat : NamedVendors = 1 .. k

NoneAlike ==
  \A b, c \in Bills :
    b # c /\ Moving(bills[b]) /\ Moving(bills[c]) /\ Alike(bills[b], bills[c])
      => past[b].cleared \/ past[c].cleared

BillRows ==
  /\ VendorsInOrder
  /\ \A b \in Exists : bills[b].vendor \in NamedVendors
  /\ NoneAlike

Holds(t) == Current(t) /\ Leaves(t) /\ Compared(t)

\* The inductive invariant.
AInv ==
  /\ SInv /\ TypedRows /\ \A s \in Sessions : Typed(txn[s])
  /\ Serial => /\ QueueRows /\ PageRows /\ BillRows
                /\ \A s \in Sessions : Holds(txn[s])

-----------------------------------------------------------------------------
(* The rows that a request picks. *)


\* A set of numbers that is not empty has a least element.
LEMMA LeastOne ==
  ASSUME NEW S, S \subseteq Nat, S # {}
  PROVE  Earliest(S) \in S
  <1>1. \E i \in S : \A j \in S : ~(<<j, i>> \in OpToRel(<, Nat))
    BY NatLessThanWellFounded, WFMin
  <1>2. PICK i \in S : \A j \in S : ~(<<j, i>> \in OpToRel(<, Nat))
    BY <1>1
  <1>3. \A j \in S : ~(j < i)
    BY <1>2, Zenon DEF OpToRel
  <1>4. \A j \in S : i <= j
    BY <1>3
  <1>5. QED
    BY <1>4 DEF Earliest

\* The number of the next intake row is free, and the greatest.
LEMMA IntakeNumber ==
  ASSUME CapturedInOrder
  PROVE  /\ NextIntake \notin Captured /\ NextIntake \in Nat \ {0}
         /\ \A k \in Captured : ~(NextIntake < k)
         /\ \E k \in Nat : Captured \cup {NextIntake} = 1 .. k
  <1>1. PICK k \in Nat : Captured = 1 .. k
    BY DEF CapturedInOrder
  <1>2. Cardinality(Captured) = k
    BY <1>1, FS_Interval
  <1>3. NextIntake = k + 1
    BY <1>2 DEF NextIntake
  <1>4. Captured \cup {NextIntake} = 1 .. (k + 1)
    BY <1>1, <1>3
  <1>5. QED
    BY <1>1, <1>3, <1>4

\* The number of the next vendor row is free.
LEMMA VendorNumber ==
  ASSUME VendorsInOrder
  PROVE  /\ NextVendor \notin NamedVendors /\ NextVendor # 0
         /\ \E k \in Nat : NamedVendors \cup {NextVendor} = 1 .. k
  <1>1. PICK k \in Nat : NamedVendors = 1 .. k
    BY DEF VendorsInOrder
  <1>2. Cardinality(NamedVendors) = k
    BY <1>1, FS_Interval
  <1>3. NextVendor = k + 1
    BY <1>2 DEF NextVendor
  <1>4. NamedVendors \cup {NextVendor} = 1 .. (k + 1)
    BY <1>1, <1>3
  <1>5. QED
    BY <1>1, <1>3, <1>4

\* get_or_create_vendor returns a vendor with a name, or none.
LEMMA VendorFound ==
  ASSUME NEW name
  PROVE  VendorOf(name) = 0 \/ VendorOf(name) \in NamedVendors
  <1>1. {v \in NamedVendors : vendors[v] = name} \subseteq Nat
    BY DEF NamedVendors, Vendors
  <1>2. QED
    BY <1>1, LeastOne DEF VendorOf

\* _link_counterpart returns a row that may be linked, or none.
LEMMA CounterpartMates ==
  ASSUME NEW i, NEW type, NEW key
  PROVE  Mate(i, type, key, Counterpart(i, type, key))
  <1> DEFINE want  == IF type = "vendor_invoice" THEN "delivery_order" ELSE "vendor_invoice"
             mates == {j \in Captured \ {i} :
                         /\ key # None /\ type \in {"vendor_invoice", "delivery_order"}
                         /\ intakes[j].key = key /\ intakes[j].type = want
                         /\ intakes[j].link = 0}
  <1>1. mates \subseteq Nat
    BY DEF Captured, Intakes
  <1>2. Counterpart(i, type, key) = IF mates = {} THEN 0 ELSE Earliest(mates)
    BY DEF Counterpart
  <1>3. Counterpart(i, type, key) = 0 \/ Counterpart(i, type, key) \in mates
    BY <1>1, <1>2, LeastOne
  <1>4. QED
    BY <1>3 DEF Mate

\* The duplicate check finds every bill that is like the row.
LEMMA NoCopyFound ==
  ASSUME NEW row, NEW self, Duplicates(row.vendor, row.doc, row.total, self) = {}
  PROVE  Unlike(row, self)
  BY DEF Duplicates, Unlike, Moving, Alike

LEMMA MateIsRow ==
  ASSUME NEW i, NEW type, NEW key, NEW j, Mate(i, type, key, j)
  PROVE  j \in (Captured \ {i}) \cup {0}
  BY DEF Mate

LEMMA TwinFound ==
  ASSUME NEW image, Twins(image) # {}
  PROVE  Earliest(Twins(image)) \in OpenRows
  <1>1. Twins(image) \subseteq OpenRows /\ OpenRows \subseteq Nat
    BY DEF Twins, OpenRows, Intakes
  <1>2. QED
    BY <1>1, LeastOne

LEMMA OpenIsCaptured == OpenRows \subseteq Captured /\ Captured \subseteq Intakes
  BY DEF OpenRows, Captured

-----------------------------------------------------------------------------
(* A request that reads. *)

\* Every part of the invariant that speaks of rows only.
LEMMA RowsStay ==
  ASSUME UNCHANGED <<world, intakes, bills, vendors, past>>
  PROVE  /\ Serial' = Serial /\ Captured' = Captured
         /\ TypedRows => TypedRows'
         /\ QueueRows => QueueRows'
         /\ PageRows => PageRows'
         /\ BillRows => BillRows'
  <1>1. /\ world' = world /\ intakes' = intakes /\ bills' = bills
        /\ vendors' = vendors /\ past' = past
    OBVIOUS
  <1>2. /\ Captured' = Captured /\ OpenRows' = OpenRows /\ Exists' = Exists
        /\ NamedVendors' = NamedVendors /\ Serial' = Serial
    BY <1>1 DEF Captured, OpenRows, Exists, NamedVendors, Serial
  <1>3. TypedRows => TypedRows'
    BY <1>1, <1>2 DEF TypedRows, CapturedInOrder
  <1>4. QueueRows => QueueRows'
    BY <1>1, <1>2 DEF QueueRows, OneImage, LinksJoin, Joined
  <1>5. PageRows => PageRows'
    BY <1>1, <1>2 DEF PageRows, PageOnce, BillOfPage
  <1>6. BillRows => BillRows'
    BY <1>1, <1>2 DEF BillRows, VendorsInOrder, NoneAlike
  <1>7. QED
    BY <1>2, <1>3, <1>4, <1>5, <1>6

\* A request that holds when it is made keeps the invariant.
LEMMA AskedKeeps ==
  ASSUME AInv, SInv', NEW s \in Sessions, NEW t, Typed(t), Serial => Holds(t),
         txn' = [txn EXCEPT ![s] = t], UNCHANGED <<world, intakes, bills, vendors, past>>
  PROVE  AInv'
  <1>1. /\ world' = world /\ intakes' = intakes /\ bills' = bills
        /\ vendors' = vendors /\ past' = past
    OBVIOUS
  <1>2. \A r \in Sessions : txn'[r] = IF r = s THEN t ELSE txn[r]
    BY DEF AInv, SInv, KInv, Shape
  <1>3. /\ Captured' = Captured /\ OpenRows' = OpenRows
        /\ NamedVendors' = NamedVendors /\ NextIntake' = NextIntake
    BY <1>1 DEF Captured, OpenRows, NamedVendors, NextIntake
  <1>4. ASSUME NEW r \in Sessions
        PROVE  Typed(txn[r])'
    <2>1. PICK x : x = txn'[r]
      OBVIOUS
    <2>2. Typed(x)
      BY <1>2, <2>1 DEF AInv
    <2>3. QED
      BY <1>3, <2>1, <2>2 DEF Typed
  <1>5. ASSUME Serial, NEW r \in Sessions
        PROVE  Holds(txn[r])'
    <2>1. PICK x : x = txn'[r]
      OBVIOUS
    <2>2. Current(x) /\ Leaves(x) /\ Compared(x)
      BY <1>2, <1>5, <2>1 DEF AInv, Holds
    <2>3. Current(txn[r])'
      BY <1>1, <1>3, <2>1, <2>2 DEF Current, Mate, Twins
    <2>4. Leaves(txn[r])'
      BY <1>1, <1>3, <2>1, <2>2 DEF Leaves
    <2>5. Compared(txn[r])'
      BY <1>1, <1>3, <2>1, <2>2 DEF Compared, Unlike
    <2>6. QED
      BY <2>3, <2>4, <2>5 DEF Holds
  <1>6. QED
    BY <1>4, <1>5, RowsStay DEF AInv

\* The requests on the queue: what record_intake, a suppressed capture and a
\* reroute have read.
LEMMA RecordHolds ==
  ASSUME AInv, NEW s \in Sessions, NEW u \in Users, NEW r \in Readings, BeginRecord(s, u, r)
  PROVE  \E t : /\ txn' = [txn EXCEPT ![s] = t] /\ Typed(t) /\ (Serial => Holds(t))
                /\ world' = world /\ intakes' = intakes
  <1> DEFINE queue == Route(r.type, r.sure)
             row == [NoIntake EXCEPT
                       !.st = IF queue = "eclaim" THEN "consumed" ELSE "open",
                       !.queue = queue, !.type = r.type, !.key = LinkKey(r),
                       !.read = r, !.by = u,
                       !.claims = IF queue = "eclaim" THEN 1 ELSE 0]
             t == [op |-> "record", row |-> row,
                   mate |-> Counterpart(NextIntake, r.type, LinkKey(r))]
  <1>1. /\ txn' = [txn EXCEPT ![s] = t] /\ world' = world /\ intakes' = intakes
        /\ queue = "eclaim" \/ Twins(r.image) = {}
    BY DEF BeginRecord
  <1>2. queue \in Queues
    BY DEF Route, Queues
  <1>3. /\ row.st = (IF queue = "eclaim" THEN "consumed" ELSE "open")
        /\ row.queue = queue /\ row.type = r.type /\ row.key = LinkKey(r)
        /\ row.read = r /\ row.by = u /\ row.link = 0
        /\ row.claims = (IF queue = "eclaim" THEN 1 ELSE 0)
        /\ DOMAIN row = IntakeFields
    BY DEF NoIntake, IntakeFields
  <1>4. 0 \in 0 .. MaxIntakes
    BY QueueAssumption
  <1> HIDE DEF row
  <1>5. t.op = "record" /\ t.row = row /\ t.mate = Counterpart(NextIntake, r.type, LinkKey(r))
    OBVIOUS
  <1>6. Mate(NextIntake, r.type, LinkKey(r), t.mate)
    BY <1>5, CounterpartMates
  <1> HIDE DEF t, queue
  <1>7. Typed(t)
    <2>1. IntakeRow(row) /\ row.st # "absent"
      BY <1>2, <1>3, <1>4 DEF IntakeRow
    <2>2. QED
      BY <1>5, <1>6, <2>1, MateIsRow DEF Typed, UpdateOps
  <1>8. Holds(t)
    BY <1>1, <1>3, <1>5, <1>6 DEF Holds, Current, Leaves, Compared, UpdateOps
  <1>9. QED
    BY <1>1, <1>7, <1>8

LEMMA SuppressHolds ==
  ASSUME AInv, NEW s \in Sessions, NEW u \in Users, NEW r \in Readings, BeginSuppress(s, u, r)
  PROVE  \E t : /\ txn' = [txn EXCEPT ![s] = t] /\ Typed(t) /\ (Serial => Holds(t))
                /\ world' = world /\ intakes' = intakes
  <1> DEFINE queue == Route(r.type, r.sure)
             i  == Earliest(Twins(r.image))
             up == intakes[i].queue = "pending" /\ queue # "pending"
             t1 == [op |-> "upgrade", intake |-> i, type |-> r.type, queue |-> queue,
                    key |-> LinkKey(r), mate |-> Counterpart(i, r.type, LinkKey(r))]
             t2 == [op |-> "audit_only"]
  <1>1. /\ txn' = [txn EXCEPT ![s] = IF up THEN t1 ELSE t2]
        /\ world' = world /\ intakes' = intakes /\ Twins(r.image) # {}
    BY DEF BeginSuppress
  <1>2. queue \in Queues
    BY DEF Route, Queues
  <1>3. i \in OpenRows
    BY <1>1, TwinFound
  <1> HIDE DEF i, queue, up
  <1>4. /\ t1.op = "upgrade" /\ t1.intake = i /\ t1.queue = queue /\ t1.type = r.type
        /\ t1.key = LinkKey(r) /\ t1.mate = Counterpart(i, r.type, LinkKey(r))
        /\ t2.op = "audit_only"
    OBVIOUS
  <1>5. Mate(i, r.type, LinkKey(r), t1.mate)
    BY <1>4, CounterpartMates
  <1> HIDE DEF t1, t2
  <1>6. Typed(t1) /\ Holds(t1)
    BY <1>2, <1>3, <1>4, <1>5, MateIsRow, OpenIsCaptured
       DEF Typed, Holds, Current, Leaves, Compared, UpdateOps
  <1>7. Typed(t2) /\ Holds(t2)
    BY <1>4 DEF Typed, Holds, Current, Leaves, Compared, UpdateOps
  <1>8. QED
    BY <1>1, <1>6, <1>7

LEMMA RerouteHolds ==
  ASSUME AInv, NEW s \in Sessions, NEW u \in Users, NEW i \in Intakes, NEW to \in Queues,
         BeginReroute(s, u, i, to)
  PROVE  \E t : /\ txn' = [txn EXCEPT ![s] = t] /\ Typed(t) /\ (Serial => Holds(t))
                /\ world' = world /\ intakes' = intakes
  <1> DEFINE t == [op |-> "reroute", intake |-> i, queue |-> Changed(intakes[i].queue, to),
                   st |-> Changed(intakes[i].st, Rerouted(to)),
                   claims |-> IF to = "eclaim" THEN 1 ELSE 0]
  <1>1. /\ txn' = [txn EXCEPT ![s] = t] /\ world' = world /\ intakes' = intakes
        /\ intakes[i].st = "open"
    BY DEF BeginReroute, Reroutable
  <1>2. /\ t.op = "reroute" /\ t.intake = i /\ t.queue = Changed(intakes[i].queue, to)
        /\ t.st = Changed("open", Rerouted(to)) /\ t.claims = (IF to = "eclaim" THEN 1 ELSE 0)
    BY <1>1
  <1> HIDE DEF t
  <1>3. i \in OpenRows
    BY <1>1 DEF OpenRows
  <1>4. Kept \notin {"open", "consumed"}
    BY QueueAssumption
  <1>5. /\ t.st \in {"open", "consumed", Kept}
        /\ t.claims = IF Pick("open", t.st) = "open" THEN 0 ELSE 1
    BY <1>2, <1>4 DEF Rerouted, Changed, Pick
  <1>6. t.queue \in Queues \cup {Kept}
    BY <1>2 DEF Changed
  <1>7. Typed(t) /\ Holds(t)
    BY <1>2, <1>3, <1>5, <1>6, OpenIsCaptured
       DEF Typed, Holds, Current, Leaves, Compared, UpdateOps
  <1>8. QED
    BY <1>1, <1>7

\* create_from_intake has read an open page, and a vendor with no bill like it.
LEMMA FileHolds ==
  ASSUME AInv, NEW s \in Sessions, NEW u \in Users, NEW i \in Intakes, BeginFile(s, u, i)
  PROVE  \E t : /\ txn' = [txn EXCEPT ![s] = t] /\ Typed(t) /\ (Serial => Holds(t))
                /\ UNCHANGED <<world, intakes, bills, vendors, past>>
  <1> DEFINE v == VendorOf(VendorName(intakes[i].read))
             read == intakes[i].read
             copy == v # 0 /\ Duplicates(v, read.doc, read.total, 0) # {}
             row == NewBill(i, v)
             t == [op |-> "file", row |-> row, name |-> VendorName(intakes[i].read)]
  <1>1. /\ txn' = [txn EXCEPT ![s] = t] /\ UNCHANGED <<world, intakes, bills, vendors, past>>
        /\ intakes[i].st = "open"
    BY DEF BeginFile
  <1>2. i \in OpenRows /\ i \in Captured
    BY <1>1 DEF OpenRows, Captured
  <1>3. v = 0 \/ v \in NamedVendors
    BY VendorFound
  <1>4. VendorName(intakes[i].read) # None
    BY BillAssumption DEF VendorName
  <1>5. 1 \in LineNos
    BY BoundsAreNat DEF LineNos
  <1>6. /\ row.st = (IF copy THEN "held" ELSE "captured") /\ row.vendor = v
        /\ row.doc = read.doc /\ row.total = read.total
        /\ row.filer = intakes[i].by /\ row.intake = i
        /\ row.coder = None /\ row.submitter = None /\ row.approver = None
        /\ row.erp = FALSE
        /\ row.lines = [n \in LineNos |-> IF n = 1 THEN "bare" ELSE "none"]
    BY <1>5 DEF NewBill, NoBill
  <1>7. intakes[i].by \in Users \cup {None}
    BY DEF AInv, TypedRows, IntakeRow
  <1> HIDE DEF row, v
  <1>8. t.op = "file" /\ t.row = row /\ t.name = VendorName(intakes[i].read)
    OBVIOUS
  <1> HIDE DEF t
  <1>9. Typed(t)
    <2>1. row.vendor \in 0 .. MaxVendors /\ row.intake \in 0 .. MaxIntakes
      BY <1>3, <1>6, BoundsAreNat DEF NamedVendors, Vendors, Intakes
    <2>2. row.st \in Status
      BY <1>6 DEF Status
    <2>3. row.lines \in [LineNos -> LineStates]
      BY <1>6 DEF LineStates
    <2>4. row.erp \in BOOLEAN /\ {row.filer, row.coder, row.submitter, row.approver} \subseteq Users \cup {None}
      BY <1>6, <1>7
    <2>5. BillRow(row)
      BY <2>1, <2>2, <2>3, <2>4 DEF BillRow
    <2>6. QED
      BY <1>2, <1>6, <1>8, <2>5 DEF Typed, UpdateOps
  <1>10. Compared(t)
    <2>1. v # 0 => row.st = "held" \/ Unlike(row, 0)
      BY <1>6, NoCopyFound
    <2>2. QED
      BY <1>3, <1>4, <1>6, <1>8, <2>1 DEF Compared, UpdateOps
  <1>11. Holds(t)
    BY <1>2, <1>6, <1>8, <1>10 DEF Holds, Current, Leaves
  <1>12. QED
    BY <1>1, <1>9, <1>11

-----------------------------------------------------------------------------
(* A request on a bill. *)

\* What a request leaves with the session is typed, if the row it means is.
LEMMA RequestTyped ==
  ASSUME NEW b, BillRow(bills[b]), NEW op \in UpdateOps, NEW new, BillRow(new),
         NEW line, line.to \in LineStates, NEW rename
  PROVE  Typed(Request(b, op, new, line, rename))
  <1> DEFINE t == Request(b, op, new, line, rename)
  <1>1. /\ t.op = op /\ t.line = line
        /\ t.upd = [c \in Columns |-> Changed(bills[b][c], new[c])]
    BY DEF Request
  <1> HIDE DEF t
  <1>2. \A c \in Columns : t.upd[c] = new[c] \/ t.upd[c] = Kept
    BY <1>1 DEF Changed
  <1>3. /\ new.st \in Status /\ new.erp \in BOOLEAN
        /\ new.coder \in Users \cup {None} /\ new.submitter \in Users \cup {None}
        /\ new.approver \in Users \cup {None}
    BY DEF BillRow
  <1>4. t.upd.st \in Status \cup {Kept} /\ t.upd.erp \in BOOLEAN \cup {Kept}
    <2>1. /\ t.upd.st = new.st \/ t.upd.st = Kept
          /\ t.upd.erp = new.erp \/ t.upd.erp = Kept
      BY <1>2 DEF Columns
    <2>2. QED
      BY <1>3, <2>1, Zenon
  <1>5. {t.upd.coder, t.upd.submitter, t.upd.approver} \subseteq Users \cup {None, Kept}
    BY <1>2, <1>3 DEF Columns
  <1>6. WritesTyped(t)
    BY <1>1, <1>4, <1>5 DEF WritesTyped
  <1>7. Typed(t)
    BY <1>1, <1>6 DEF Typed, UpdateOps
  <1>8. QED
    BY <1>7 DEF t

\* What a request means to write, in the columns that the duplicate check and
\* the page's account look at.
LEMMA RequestMeans ==
  ASSUME AInv, Serial, NEW b \in Exists, NEW op \in UpdateOps, NEW new, BillRow(new),
         NEW line, NEW rename,
         new.doc = bills[b].doc \/ new.doc # Kept, new.total = bills[b].total \/ new.total # Kept
  PROVE  LET t == Request(b, op, new, line, rename)
             w == Written(bills[b], t)
         IN /\ t.op = op /\ t.bill = b /\ t.rename = rename
            /\ w.st = new.st /\ w.doc = new.doc /\ w.total = new.total
            /\ w.vendor = bills[b].vendor
  <1> DEFINE t == Request(b, op, new, line, rename)
             w == Written(bills[b], t)
  <1>1. /\ t.op = op /\ t.bill = b /\ t.rename = rename
        /\ t.upd = [c \in Columns |-> Changed(bills[b][c], new[c])]
    BY DEF Request
  <1>2. DOMAIN bills[b] = BillFields
    BY DEF AInv, SInv, KInv, Shape, Exists
  <1>3. new.st # Kept
    BY KeptIsNoValue DEF BillRow
  <1> HIDE DEF t
  <1>4. /\ \A c \in Columns : new[c] = bills[b][c] \/ new[c] # Kept => w[c] = new[c]
        /\ w.lines =
             [n \in LineNos |-> IF n = t.line.no THEN t.line.to ELSE bills[b].lines[n]]
        /\ w.vendor = bills[b].vendor
    BY <1>1, <1>2, WrittenColumn
  <1>5. w.st = new.st /\ w.doc = new.doc /\ w.total = new.total
    BY <1>3, <1>4 DEF Columns
  <1>6. QED
    BY <1>1, <1>4, <1>5 DEF t

\* A request that renames nothing and keeps the number and the total.
LEMMA PlainHolds ==
  ASSUME AInv, NEW b \in Exists, NEW op \in UpdateOps, NEW new, BillRow(new),
         NEW line, line.to \in LineStates,
         new.doc = bills[b].doc, new.total = bills[b].total,
         op = "release_hold" \/ Moving(bills[b]) \/ ~Moving(new),
         op = "switch" => new.st = "rejected" /\ bills[b].st \in PreApproval
  PROVE  LET t == Request(b, op, new, line, NoRename)
         IN Typed(t) /\ (Serial => Holds(t))
  <1> DEFINE t == Request(b, op, new, line, NoRename)
             w == Written(bills[b], t)
  <1>1. BillRow(bills[b]) /\ b \in Bills
    BY DEF AInv, TypedRows, Exists
  <1>2. Typed(t)
    BY <1>1, RequestTyped
  <1>3. ASSUME Serial
        PROVE  Holds(t)
    <2>1. /\ t.op = op /\ t.bill = b /\ t.rename = NoRename
          /\ w.st = new.st /\ w.doc = new.doc /\ w.total = new.total
      BY <1>3, RequestMeans
    <2>2. op = "switch" => past[b].claims = 0
      <3>1. past[b].claims = 1 => bills[b].st = "rejected"
        BY <1>3 DEF AInv, PageRows, BillOfPage
      <3>2. past[b].claims \in {0, 1}
        BY <1>3 DEF AInv, PageRows, BillOfPage
      <3>3. QED
        BY <3>1, <3>2 DEF PreApproval
    <2> HIDE DEF t
    <2>3. Leaves(t)
      BY <2>1, <2>2 DEF Leaves, UpdateOps
    <2>4. Moving(w) <=> Moving(new)
      BY <2>1 DEF Moving
    <2>5. Compared(t)
      BY <2>1, <2>4 DEF Compared, UpdateOps, NoRename
    <2>6. Current(t)
      BY <2>1 DEF Current, UpdateOps
    <2>7. QED
      BY <2>3, <2>5, <2>6 DEF Holds
  <1>4. QED
    BY <1>2, <1>3

\* A correction of the header.
LEMMA EditHolds ==
  ASSUME AInv, NEW s \in Sessions, NEW u \in Users, NEW b \in Exists,
         NEW doc \in DocEdits \cup {bills[b].doc}, NEW total \in TotalEdits \cup {bills[b].total},
         NEW name \in NameEdits \cup {vendors[bills[b].vendor]},
         BeginEditHeader(s, u, b, doc, total, name)
  PROVE  \E t : /\ txn' = [txn EXCEPT ![s] = t] /\ Typed(t) /\ (Serial => Holds(t))
                /\ UNCHANGED <<world, intakes, bills, vendors, past>>
  <1> DEFINE row == bills[b]
             edited == [row EXCEPT !.doc = doc, !.total = total]
             new == Rechecked(row, edited, b)
             rename == IF name = vendors[row.vendor] THEN NoRename
                       ELSE [vendor |-> row.vendor, name |-> name]
             t == Request(b, "edit_header", new, NoLine, rename)
             w == Written(row, t)
  <1>1. /\ txn' = [txn EXCEPT ![s] = t] /\ UNCHANGED <<world, intakes, bills, vendors, past>>
        /\ row.st \in PreApproval
    BY DEF BeginEditHeader, Update, Request
  <1>2. BillRow(row) /\ b \in Bills /\ DOMAIN row = BillFields
    BY DEF AInv, TypedRows, Exists, SInv, KInv, Shape
  <1>3. /\ edited.doc = doc /\ edited.total = total
        /\ \A f \in BillFields \ {"doc", "total"} : edited[f] = row[f]
        /\ DOMAIN edited = BillFields
    BY <1>2 DEF BillFields
  <1>4. edited.vendor = row.vendor /\ edited.st = row.st
    BY <1>3 DEF BillFields
  <1> HIDE DEF edited
  <1>5. /\ new.doc = doc /\ new.total = total
        /\ \A f \in BillFields \ {"doc", "total", "st"} : new[f] = row[f]
        /\ \/ new.st = "held"
           \/ /\ new.st = row.st
              /\ \/ doc = row.doc /\ total = row.total
                 \/ Duplicates(row.vendor, doc, total, b) = {}
    BY <1>3, <1>4 DEF Rechecked, BillFields
  <1> HIDE DEF new
  <1>6. BillRow(new)
    <2>1. /\ new.vendor = row.vendor /\ new.filer = row.filer /\ new.coder = row.coder
          /\ new.submitter = row.submitter /\ new.approver = row.approver
          /\ new.erp = row.erp /\ new.intake = row.intake /\ new.lines = row.lines
      BY <1>5 DEF BillFields
    <2>2. new.st \in Status
      BY <1>2, <1>5 DEF BillRow, Status
    <2>3. new.erp \in BOOLEAN
      BY <1>2, <2>1 DEF BillRow
    <2>4. QED
      BY <1>2, <2>1, <2>2, <2>3 DEF BillRow
  <1>7. NoLine.to \in LineStates /\ "edit_header" \in UpdateOps
    BY DEF NoLine, LineStates, UpdateOps
  <1>8. Typed(t)
    BY <1>2, <1>6, <1>7, RequestTyped
  <1>9. ASSUME Serial
        PROVE  Holds(t)
    <2>1. new.doc = row.doc \/ new.doc # Kept
      BY <1>5, BillAssumption, Zenon
    <2>2. new.total = row.total \/ new.total # Kept
      BY <1>5, BillAssumption, Zenon
    <2> HIDE DEF rename
    <2>3. /\ t.op = "edit_header" /\ t.bill = b /\ t.rename = rename
          /\ w.st = new.st /\ w.doc = doc /\ w.total = total /\ w.vendor = row.vendor
      BY <1>5, <1>6, <1>7, <1>9, <2>1, <2>2, RequestMeans
    <2>4. row.vendor \in NamedVendors
      BY <1>9 DEF AInv, BillRows
    <2>5. name # None
      BY <2>4, BillAssumption, Zenon DEF NamedVendors
    <2>6. rename.vendor # 0 => rename.vendor \in NamedVendors /\ rename.name # None
      BY <2>4, <2>5 DEF rename, NoRename
    <2> HIDE DEF t
    <2>7. \/ ~Moving(w)
          \/ Moving(row) /\ w.doc = row.doc /\ w.total = row.total
          \/ Unlike(w, b)
      BY <1>5, <2>3, NoCopyFound DEF Moving, Live
    <2>8. Compared(t)
      BY <2>3, <2>6, <2>7 DEF Compared, UpdateOps
    <2>9. Current(t) /\ Leaves(t)
      BY <2>3 DEF Current, Leaves, UpdateOps
    <2>10. QED
      BY <2>8, <2>9 DEF Holds
  <1>10. QED
    BY <1>1, <1>8, <1>9

\* The row that each request means has its types, and on or off hold it
\* stays as it was, leaves the hold for good, or stops being owed.
LEMMA UpdateHolds ==
  ASSUME AInv, NEW s \in Sessions, NEW u \in Users, NEW b \in Exists,
         \/ \E n \in LineNos, category \in BOOLEAN : BeginCode(s, u, b, n, category)
         \/ \E doc \in DocEdits \cup {bills[b].doc}, total \in TotalEdits \cup {bills[b].total},
              name \in NameEdits \cup {vendors[bills[b].vendor]} :
              BeginEditHeader(s, u, b, doc, total, name)
         \/ BeginAddLine(s, u, b)
         \/ \E n \in LineNos : BeginRemoveLine(s, u, b, n)
         \/ BeginSubmit(s, u, b)
         \/ BeginApprove(s, u, b)
         \/ BeginReleaseHold(s, u, b)
         \/ BeginPay(s, u, b)
         \/ BeginUnapprove(s, u, b)
         \/ BeginSwitch(s, u, b)
         \/ BeginReject(s, u, b)
         \/ BeginPost(s, u, b)
  PROVE  \E t : /\ txn' = [txn EXCEPT ![s] = t] /\ Typed(t) /\ (Serial => Holds(t))
                /\ UNCHANGED <<world, intakes, bills, vendors, past>>
  <1> DEFINE row == bills[b]
             Goal == \E t : /\ txn' = [txn EXCEPT ![s] = t] /\ Typed(t) /\ (Serial => Holds(t))
                            /\ UNCHANGED <<world, intakes, bills, vendors, past>>
  <1>0. BillRow(row) /\ DOMAIN row = BillFields
    BY DEF AInv, TypedRows, SInv, KInv, Shape, Exists
  <1>1. ASSUME NEW op \in UpdateOps, NEW new, NEW line, Update(s, b, op, new, line, NoRename),
               BillRow(new), line.to \in LineStates,
               new.doc = row.doc, new.total = row.total,
               op = "release_hold" \/ Moving(row) \/ ~Moving(new),
               op = "switch" => new.st = "rejected" /\ row.st \in PreApproval
        PROVE  Goal
    <2>1. /\ txn' = [txn EXCEPT ![s] = Request(b, op, new, line, NoRename)]
          /\ UNCHANGED <<world, intakes, bills, vendors, past>>
      BY <1>1 DEF Update, Request
    <2>2. /\ Typed(Request(b, op, new, line, NoRename))
          /\ Serial => Holds(Request(b, op, new, line, NoRename))
      BY <1>1, PlainHolds
    <2>3. QED
      BY <2>1, <2>2
  <1> SUFFICES Goal
    OBVIOUS
  <1> HIDE DEF Goal
  <1>2. NoLine.to \in LineStates
    BY DEF NoLine, LineStates
  <1>3. u \in Users \cup {None} /\ None \in Users \cup {None}
    OBVIOUS
  <1>4. ASSUME NEW n \in LineNos, NEW category \in BOOLEAN, BeginCode(s, u, b, n, category)
        PROVE  Goal
    <2> DEFINE new == [row EXCEPT !.coder = u, !.st = IF @ = "captured" THEN "coded" ELSE @]
               line == [no |-> n, to |-> IF category THEN "categorised" ELSE row.lines[n]]
    <2>1. Update(s, b, "code", new, line, NoRename) /\ row.st \in PreApproval
      BY <1>4 DEF BeginCode
    <2>2. BillRow(new) /\ new.doc = row.doc /\ new.total = row.total
      BY <1>0, <1>3 DEF BillRow, BillFields, Status
    <2>3. line.to \in LineStates
      BY <1>0 DEF BillRow, LineStates
    <2>4. Moving(row) \/ ~Moving(new)
      BY <1>0, <2>1 DEF Moving, Live, Status, PreApproval, BillFields
    <2> HIDE DEF new, line
    <2>5. QED
      BY <1>1, <2>1, <2>2, <2>3, <2>4 DEF UpdateOps
  <1>5. CASE BeginAddLine(s, u, b) \/ \E n \in LineNos : BeginRemoveLine(s, u, b, n)
    <2>1. CASE BeginAddLine(s, u, b)
      <3>1. PICK n : Update(s, b, "add_line", row, [no |-> n, to |-> "bare"], NoRename)
        BY <2>1 DEF BeginAddLine
      <3> DEFINE line == [no |-> n, to |-> "bare"]
      <3>2. line.to \in LineStates
        BY DEF LineStates
      <3> HIDE DEF line
      <3>3. QED
        BY <1>0, <1>1, <3>1, <3>2 DEF UpdateOps, line
    <2>2. CASE \E n \in LineNos : BeginRemoveLine(s, u, b, n)
      <3>1. PICK n : Update(s, b, "remove_line", row, [no |-> n, to |-> "none"], NoRename)
        BY <2>2 DEF BeginRemoveLine
      <3> DEFINE line == [no |-> n, to |-> "none"]
      <3>2. line.to \in LineStates
        BY DEF LineStates
      <3> HIDE DEF line
      <3>3. QED
        BY <1>0, <1>1, <3>1, <3>2 DEF UpdateOps, line
    <2>3. QED
      BY <1>5, <2>1, <2>2
  <1>6. CASE BeginSubmit(s, u, b)
    <2> DEFINE new == [row EXCEPT !.st = "pending_approval", !.submitter = u]
    <2>1. Update(s, b, "submit", new, NoLine, NoRename) /\ row.st = "coded"
      BY <1>6 DEF BeginSubmit
    <2>2. BillRow(new) /\ new.doc = row.doc /\ new.total = row.total
      BY <1>0, <1>3 DEF BillRow, BillFields, Status
    <2>3. Moving(row)
      BY <2>1 DEF Moving, Live, Status
    <2> HIDE DEF new
    <2>4. QED
      BY <1>1, <1>2, <2>1, <2>2, <2>3 DEF UpdateOps
  <1>7. CASE BeginApprove(s, u, b)
    <2> DEFINE new == [row EXCEPT !.st = "approved", !.approver = u]
    <2>1. /\ Update(s, b, "approve", new, NoLine, NoRename)
          /\ row.st \in {"pending_approval", "coded"}
      BY <1>7 DEF BeginApprove
    <2>2. BillRow(new) /\ new.doc = row.doc /\ new.total = row.total
      BY <1>0, <1>3 DEF BillRow, BillFields, Status
    <2>3. Moving(row)
      BY <2>1 DEF Moving, Live, Status
    <2> HIDE DEF new
    <2>4. QED
      BY <1>1, <1>2, <2>1, <2>2, <2>3 DEF UpdateOps
  <1>8. CASE BeginReleaseHold(s, u, b)
    <2> DEFINE new == [row EXCEPT !.st = IF row.coder # None THEN "coded" ELSE "captured"]
    <2>1. Update(s, b, "release_hold", new, NoLine, NoRename)
      BY <1>8 DEF BeginReleaseHold
    <2>2. BillRow(new) /\ new.doc = row.doc /\ new.total = row.total
      BY <1>0 DEF BillRow, BillFields, Status
    <2> HIDE DEF new
    <2>3. QED
      BY <1>1, <1>2, <2>1, <2>2 DEF UpdateOps
  <1>9. CASE BeginPay(s, u, b)
    <2> DEFINE new == [row EXCEPT !.st = "paid"]
    <2>1. Update(s, b, "pay", new, NoLine, NoRename) /\ row.st \in Owed
      BY <1>9 DEF BeginPay
    <2>2. BillRow(new) /\ new.doc = row.doc /\ new.total = row.total
      BY <1>0 DEF BillRow, BillFields, Status
    <2>3. Moving(row)
      BY <2>1 DEF Moving, Live, Status, Owed
    <2> HIDE DEF new
    <2>4. QED
      BY <1>1, <1>2, <2>1, <2>2, <2>3 DEF UpdateOps
  <1>10. CASE BeginUnapprove(s, u, b)
    <2> DEFINE new == [row EXCEPT !.st = "coded", !.approver = None]
    <2>1. Update(s, b, "unapprove", new, NoLine, NoRename) /\ row.st = "approved"
      BY <1>10 DEF BeginUnapprove, Reopenable
    <2>2. BillRow(new) /\ new.doc = row.doc /\ new.total = row.total
      BY <1>0, <1>3 DEF BillRow, BillFields, Status
    <2>3. Moving(row)
      BY <2>1 DEF Moving, Live, Status
    <2> HIDE DEF new
    <2>4. QED
      BY <1>1, <1>2, <2>1, <2>2, <2>3 DEF UpdateOps
  <1>11. CASE BeginSwitch(s, u, b) \/ BeginReject(s, u, b)
    <2> DEFINE new == [row EXCEPT !.st = "rejected"]
    <2>1. /\ \E op \in {"switch", "reject"} :
               /\ Update(s, b, op, new, NoLine, NoRename)
               /\ op = "switch" => row.st \in PreApproval
      BY <1>11 DEF BeginSwitch, BeginReject
    <2>2. BillRow(new) /\ new.doc = row.doc /\ new.total = row.total /\ new.st = "rejected"
      BY <1>0 DEF BillRow, BillFields, Status
    <2>3. ~Moving(new)
      BY <2>2 DEF Moving, Live
    <2> HIDE DEF new
    <2>4. QED
      BY <1>1, <1>2, <2>1, <2>2, <2>3 DEF UpdateOps
  <1>12. CASE BeginPost(s, u, b)
    <2> DEFINE new == [row EXCEPT !.erp = TRUE, !.st = IF @ = "approved" THEN "posted" ELSE @]
    <2>1. /\ Update(s, b, "post", new, NoLine, NoRename)
          /\ row.st \in {"approved", "paid"}
      BY <1>12 DEF BeginPost, Postable
    <2>2. BillRow(new) /\ new.doc = row.doc /\ new.total = row.total
      BY <1>0 DEF BillRow, BillFields, Status
    <2>3. Moving(row)
      BY <2>1 DEF Moving, Live, Status
    <2> HIDE DEF new
    <2>4. QED
      BY <1>1, <1>2, <2>1, <2>2, <2>3 DEF UpdateOps
  <1>13. CASE \E doc \in DocEdits \cup {bills[b].doc}, total \in TotalEdits \cup {bills[b].total},
                name \in NameEdits \cup {vendors[bills[b].vendor]} :
                BeginEditHeader(s, u, b, doc, total, name)
    BY <1>13, EditHolds DEF Goal
  <1>14. QED
    BY <1>4, <1>5, <1>6, <1>7, <1>8, <1>9, <1>10, <1>11, <1>12, <1>13

-----------------------------------------------------------------------------
(* A request that commits or aborts leaves nothing behind that could grow   *)
(* stale, and no captured row goes away.                                    *)

LEMMA CommitKeeps ==
  ASSUME AInv, SInv', NEW s \in Sessions, txn[s] # Idle, txn' = [txn EXCEPT ![s] = Idle],
         world' = world, Captured \subseteq Captured', TypedRows',
         Serial => QueueRows' /\ PageRows' /\ BillRows'
  PROVE  AInv'
  <1>1. \A r \in Sessions : txn'[r] = IF r = s THEN Idle ELSE txn[r]
    BY DEF AInv, SInv, KInv, Shape
  <1>2. Serial' = Serial
    BY DEF Serial
  <1>3. ASSUME NEW r \in Sessions
        PROVE  Typed(txn[r])'
    <2>1. PICK x : x = txn'[r]
      OBVIOUS
    <2>2. Typed(x)
      <3>1. Typed(Idle)
        BY DEF Typed, Idle, UpdateOps
      <3>2. Typed(txn[r])
        BY DEF AInv
      <3>3. QED
        BY <1>1, <2>1, <3>1, <3>2
    <2>3. QED
      BY <2>1, <2>2 DEF Typed
  <1>4. ASSUME Serial, NEW r \in Sessions
        PROVE  Holds(txn[r])'
    <2>1. txn'[r] = Idle
      BY <1>4, AllIdle DEF AInv
    <2>2. QED
      BY <2>1 DEF Holds, Current, Leaves, Compared, Idle, UpdateOps
  <1>5. QED
    BY <1>2, <1>3, <1>4 DEF AInv

\* Rows of the queue that keep what the bills' accounts look at.
LEMMA BillsStay ==
  ASSUME bills' = bills, vendors' = vendors, past' = past
  PROVE  BillRows => BillRows'
  <1>1. Exists' = Exists /\ NamedVendors' = NamedVendors
    BY DEF Exists, NamedVendors
  <1>2. QED
    BY <1>1 DEF BillRows, VendorsInOrder, NoneAlike

\* The two rows of a link, and no other, take it.
LEMMA LinkedRows ==
  ASSUME NEW rows, DOMAIN rows = Intakes, \A k \in Intakes : DOMAIN rows[k] = IntakeFields,
         NEW i \in Intakes, NEW j \in Intakes \cup {0}, j # i
  PROVE  /\ DOMAIN Linked(rows, i, j) = Intakes
         /\ \A k \in Intakes :
              /\ DOMAIN Linked(rows, i, j)[k] = IntakeFields
              /\ \A f \in IntakeFields \ {"link"} : Linked(rows, i, j)[k][f] = rows[k][f]
              /\ Linked(rows, i, j)[k].link =
                   IF j = 0 THEN rows[k].link
                   ELSE IF k = i THEN j ELSE IF k = j THEN i ELSE rows[k].link
  <1>1. 0 \notin Intakes
    BY DEF Intakes
  <1>2. CASE j = 0
    BY <1>2 DEF Linked
  <1>3. CASE j # 0
    <2> DEFINE new == [rows EXCEPT ![i].link = j, ![j].link = i]
    <2>1. Linked(rows, i, j) = new /\ j \in Intakes
      BY <1>3 DEF Linked
    <2>2. DOMAIN new = Intakes
      OBVIOUS
    <2>3. ASSUME NEW k \in Intakes
          PROVE  /\ DOMAIN new[k] = IntakeFields
                 /\ \A f \in IntakeFields \ {"link"} : new[k][f] = rows[k][f]
                 /\ new[k].link = IF k = i THEN j ELSE IF k = j THEN i ELSE rows[k].link
      <3>1. new[k] = IF k = i THEN [rows[k] EXCEPT !.link = j]
                     ELSE IF k = j THEN [rows[k] EXCEPT !.link = i] ELSE rows[k]
        BY <2>1
      <3>2. DOMAIN rows[k] = IntakeFields /\ "link" \in IntakeFields
        BY DEF IntakeFields
      <3> HIDE DEF new
      <3>3. QED
        BY <3>1, <3>2
    <2> HIDE DEF new
    <2>4. QED
      BY <1>3, <2>1, <2>2, <2>3
  <1>4. QED
    BY <1>2, <1>3

\* Links stay sound when row i, which is new or marked as reclassified, is
\* linked to a row that has no link.
LEMMA LinkKeeps ==
  ASSUME TypedRows, LinksJoin, NEW i \in Intakes, NEW j, NEW rows,
         DOMAIN rows = Intakes, \A k \in Intakes : DOMAIN rows[k] = IntakeFields,
         \A k \in Intakes \ {i} : rows[k] = intakes[k],
         rows[i].st # "absent", intakes' = Linked(rows, i, j),
         Mate(i, rows[i].type, rows[i].key, j),
         \/ i \notin Captured /\ rows[i].link = 0
         \/ i \in Captured /\ rows[i].upgraded = TRUE /\ rows[i].link = intakes[i].link
  PROVE  LinksJoin'
  <1>1. /\ j \in Intakes \cup {0} /\ j # i /\ (j # 0 => j \in Captured /\ intakes[j].link = 0)
        /\ i # 0
    BY DEF Mate, Captured, Intakes
  <1>2. /\ DOMAIN intakes' = Intakes
        /\ \A k \in Intakes :
              /\ \A f \in IntakeFields \ {"link"} : intakes'[k][f] = rows[k][f]
              /\ intakes'[k].link =
                   IF j = 0 THEN rows[k].link
                   ELSE IF k = i THEN j ELSE IF k = j THEN i ELSE rows[k].link
    BY <1>1, LinkedRows
  <1>3. \A k \in Intakes : /\ intakes'[k].st = rows[k].st /\ intakes'[k].type = rows[k].type
                           /\ intakes'[k].key = rows[k].key
                           /\ intakes'[k].upgraded = rows[k].upgraded
    BY <1>2 DEF IntakeFields
  <1>4. Captured' = Captured \cup {i}
    BY <1>3 DEF Captured
  <1>5. ASSUME NEW k \in Captured', intakes'[k].link # 0
        PROVE  intakes'[k].link \in Captured' /\ Joined(k, intakes[k].link)'
    <2> DEFINE l == intakes'[k].link
    <2>0. k \in Intakes /\ (k # i => k \in Captured)
      BY <1>4 DEF Captured
    <2>1. CASE k = i /\ j # 0
      <3>1. l = j /\ intakes'[j].link = i
        BY <1>1, <1>2, <2>1
      <3>2. /\ {rows[i].type, rows[j].type} = {"vendor_invoice", "delivery_order"}
            /\ rows[i].key = rows[j].key
        BY <1>1, <2>1 DEF Mate
      <3>3. QED
        BY <1>1, <1>3, <1>4, <2>1, <3>1, <3>2 DEF Joined
    <2>2. CASE k = i /\ j = 0
      <3>1. l = rows[i].link
        BY <1>2, <2>2
      <3>2. i \in Captured /\ rows[i].upgraded = TRUE /\ rows[i].link = intakes[i].link
        BY <1>5, <2>2, <3>1
      <3>3. l \in Captured
        BY <1>5, <2>2, <3>1, <3>2 DEF LinksJoin
      <3>4. QED
        BY <1>3, <1>4, <2>2, <3>2, <3>3 DEF Joined
    <2>3. CASE k # i /\ k = j
      <3>0. j # 0
        BY <2>0, <2>3 DEF Intakes
      <3>1. l = i /\ intakes'[i].link = j /\ j # 0
        BY <1>1, <1>2, <2>0, <2>3, <3>0
      <3>2. /\ {rows[i].type, rows[j].type} = {"vendor_invoice", "delivery_order"}
            /\ rows[i].key = rows[j].key
        BY <1>1, <2>3, <3>1 DEF Mate
      <3>3. QED
        BY <1>1, <1>3, <1>4, <2>3, <3>1, <3>2 DEF Joined
    <2>4. CASE k # i /\ k # j
      <3>1. l = intakes[k].link /\ rows[k] = intakes[k] /\ k \in Captured
        BY <1>2, <2>0, <2>4
      <3>2. l \in Captured /\ Joined(k, l)
        BY <1>5, <3>1 DEF LinksJoin
      <3>3. l \in Intakes
        BY <3>2 DEF Captured
      <3>4. CASE l = i
        BY <1>3, <1>4, <3>2, <3>4 DEF Joined
      <3>5. CASE l # i /\ l = j
        <4>1. intakes[l].link = 0 /\ k # 0
          BY <1>1, <1>5, <2>0, <3>1, <3>5 DEF Intakes
        <4>2. intakes[k].upgraded \/ intakes[l].upgraded
          BY <3>2, <4>1 DEF Joined
        <4>3. rows[l] = intakes[l]
          BY <3>3, <3>5
        <4>4. QED
          BY <1>3, <1>4, <2>0, <3>1, <3>2, <3>3, <4>2, <4>3 DEF Joined
      <3>6. CASE l # i /\ l # j
        <4>1. rows[l] = intakes[l] /\ intakes'[l].link = intakes[l].link
          BY <1>2, <3>3, <3>6
        <4>2. QED
          BY <1>3, <1>4, <2>0, <3>1, <3>2, <3>3, <4>1 DEF Joined
      <3>7. QED
        BY <3>4, <3>5, <3>6
    <2>5. QED
      BY <2>1, <2>2, <2>3, <2>4
  <1>6. QED
    BY <1>5 DEF LinksJoin

\* CommitRecord adds a row that holds no other page's image.
LEMMA RecordKeeps ==
  ASSUME AInv, SInv', NEW s \in Sessions, CommitRecord(s), UNCHANGED <<bills, vendors, past>>
  PROVE  AInv'
  <1> DEFINE i == NextIntake
             t == txn[s]
             j == t.mate
             rows == [intakes EXCEPT ![i] = t.row]
  <1>1. /\ t.op = "record" /\ i <= world.pages /\ world' = world
        /\ intakes' = Linked(rows, i, j)
        /\ txn' = [txn EXCEPT ![s] = Idle]
    BY DEF CommitRecord
  <1>2. /\ IntakeRow(t.row) /\ t.row.st # "absent" /\ j \in Captured \cup {0}
    BY <1>1 DEF AInv, Typed
  <1>3. /\ i \notin Captured /\ i \in Nat \ {0} /\ \E k \in Nat : Captured \cup {i} = 1 .. k
    BY IntakeNumber DEF AInv, TypedRows
  <1>4. i \in Intakes
    <2>1. world.pages \in 0 .. MaxIntakes
      BY QueueAssumption DEF AInv, SInv
    <2>2. QED
      BY <1>1, <1>3, <2>1, BoundsAreNat DEF Intakes
  <1> HIDE DEF i
  <1>5. j \in Intakes \cup {0} /\ j # i /\ i # 0
    BY <1>2, <1>3 DEF Captured
  <1>6. /\ DOMAIN intakes = Intakes /\ \A k \in Intakes : IntakeRow(intakes[k])
    BY DEF AInv, TypedRows
  <1>7. /\ DOMAIN rows = Intakes /\ rows[i] = t.row
        /\ \A k \in Intakes \ {i} : rows[k] = intakes[k]
    BY <1>4, <1>6
  <1> HIDE DEF t, rows, j
  <1>8. \A k \in Intakes : IntakeRow(rows[k])
    BY <1>2, <1>6, <1>7
  <1>9. \A k \in Intakes : DOMAIN rows[k] = IntakeFields
    BY <1>8 DEF IntakeRow
  <1>10. /\ DOMAIN intakes' = Intakes
         /\ \A k \in Intakes :
              /\ DOMAIN intakes'[k] = IntakeFields
              /\ \A f \in IntakeFields \ {"link"} : intakes'[k][f] = rows[k][f]
              /\ intakes'[k].link =
                   IF j = 0 THEN rows[k].link
                   ELSE IF k = i THEN j ELSE IF k = j THEN i ELSE rows[k].link
    BY <1>1, <1>4, <1>5, <1>7, <1>9, LinkedRows
  <1>11. \A k \in Intakes :
           /\ intakes'[k].st = rows[k].st /\ intakes'[k].queue = rows[k].queue
           /\ intakes'[k].by = rows[k].by /\ intakes'[k].read = rows[k].read
           /\ intakes'[k].claims = rows[k].claims
           /\ intakes'[k].from_claim = rows[k].from_claim
    BY <1>10 DEF IntakeFields
  <1>12. Captured' = Captured \cup {i}
    BY <1>2, <1>4, <1>7, <1>11 DEF Captured
  <1>13. TypedRows'
    <2>1. \A k \in Intakes : intakes'[k].link \in 0 .. MaxIntakes
      BY <1>4, <1>5, <1>8, <1>10, BoundsAreNat DEF IntakeRow, Intakes
    <2>2. \A k \in Intakes : IntakeRow(intakes'[k])
      BY <1>8, <1>10, <1>11, <2>1 DEF IntakeRow
    <2>3. CapturedInOrder'
      BY <1>3, <1>12 DEF CapturedInOrder
    <2>4. QED
      BY <1>10, <2>2, <2>3 DEF AInv, TypedRows
  <1>14. ASSUME Serial
         PROVE  QueueRows' /\ PageRows' /\ BillRows'
    <2>1. Current(t) /\ Leaves(t) /\ QueueRows /\ PageRows /\ BillRows
      BY <1>14 DEF AInv, Holds, t
    <2>2. /\ Twins(t.row.read.image) = {} \/ t.row.st # "open"
          /\ t.row.link = 0 /\ Mate(i, t.row.type, t.row.key, j)
      BY <1>1, <2>1 DEF Current, i, j
    <2>3. OneImage'
      <3>1. OpenRows' = OpenRows \cup (IF t.row.st = "open" THEN {i} ELSE {})
        <4>1. \A k \in Intakes : k \in OpenRows' <=> rows[k].st = "open"
          BY <1>11 DEF OpenRows
        <4>2. i \notin OpenRows
          BY <1>3, OpenIsCaptured
        <4>3. \A k \in Intakes : k \in OpenRows <=> intakes[k].st = "open"
          BY DEF OpenRows
        <4>4. OpenRows \subseteq Intakes /\ OpenRows' \subseteq Intakes
          BY DEF OpenRows
        <4>5. QED
          BY <1>4, <1>7, <4>1, <4>2, <4>3, <4>4
      <3>2. \A k \in OpenRows : /\ intakes'[k].read = intakes[k].read
                                /\ intakes'[k].from_claim = intakes[k].from_claim
        BY <1>3, <1>7, <1>11, OpenIsCaptured
      <3>3. intakes'[i].read = t.row.read
        BY <1>4, <1>7, <1>11
      <3>4. t.row.st = "open" =>
              \A k \in OpenRows : intakes[k].read.image # t.row.read.image
        BY <2>2 DEF Twins
      <3>5. OneImage
        BY <2>1 DEF QueueRows
      <3>6. ~(i < i)
        BY <1>3
      <3>7. QED
        BY <3>1, <3>2, <3>3, <3>4, <3>5, <3>6 DEF OneImage
    <2>4. LinksJoin'
      <3>1. LinksJoin /\ TypedRows
        BY <2>1 DEF QueueRows, AInv
      <3>2. rows[i].st # "absent" /\ rows[i].link = 0 /\ Mate(i, rows[i].type, rows[i].key, j)
        BY <1>2, <1>7, <2>2
      <3>3. QED
        BY <1>1, <1>3, <1>4, <1>7, <1>9, <3>1, <3>2, LinkKeeps
    <2>5. PageRows'
      <3>1. t.row.claims = IF t.row.st = "open" THEN 0 ELSE 1
        BY <1>1, <2>1 DEF Leaves
      <3>2. \A k \in Captured : /\ intakes'[k].st = intakes[k].st
                                /\ intakes'[k].claims = intakes[k].claims
        BY <1>3, <1>7, <1>11, OpenIsCaptured
      <3>3. intakes'[i].st = t.row.st /\ intakes'[i].claims = t.row.claims
        BY <1>4, <1>7, <1>11
      <3>4. Exists' = Exists /\ past' = past /\ bills' = bills
        BY DEF Exists
      <3>5. (\A k \in Captured : PageOnce(k))'
        BY <1>12, <2>1, <3>1, <3>2, <3>3 DEF PageRows, PageOnce
      <3>6. (\A b \in Exists : BillOfPage(b))'
        BY <1>12, <2>1, <3>2, <3>4 DEF PageRows, BillOfPage
      <3>7. QED
        BY <2>1, <3>4, <3>5, <3>6 DEF PageRows
    <2>6. QED
      BY <2>1, <2>3, <2>4, <2>5, BillsStay DEF QueueRows
  <1>15. txn[s] # Idle
    BY <1>1 DEF Idle, t
  <1>16. QED
    BY <1>1, <1>12, <1>13, <1>14, <1>15, CommitKeeps

\* CommitUpgrade marks the row that it reclassifies.
LEMMA UpgradeKeeps ==
  ASSUME AInv, SInv', NEW s \in Sessions, CommitUpgrade(s), UNCHANGED <<bills, vendors, past>>
  PROVE  AInv'
  <1> DEFINE t == txn[s]
             i == t.intake
             j == t.mate
             new == [intakes[i] EXCEPT !.type = t.type, !.queue = t.queue, !.key = t.key,
                                       !.upgraded = TRUE]
             rows == [intakes EXCEPT ![i] = new]
  <1>1. /\ DOMAIN intakes = Intakes /\ \A k \in Intakes : IntakeRow(intakes[k])
    BY DEF AInv, TypedRows
  <1>2. t.op = "upgrade" /\ world' = world /\ txn' = [txn EXCEPT ![s] = Idle]
    BY DEF CommitUpgrade
  <1>3. i \in Captured /\ i \in Intakes /\ t.queue \in Queues
        /\ j \in Intakes \cup {0} /\ j # i
    <2>1. i \in Captured /\ t.queue \in Queues /\ j \in (Captured \ {i}) \cup {0}
      BY <1>2 DEF AInv, Typed
    <2>2. Captured \subseteq Intakes /\ 0 \notin Intakes
      BY OpenIsCaptured DEF Intakes
    <2>3. QED
      BY <2>1, <2>2
  <1>4. intakes' = Linked(rows, i, j)
    BY <1>1, <1>3 DEF CommitUpgrade
  <1>5. /\ DOMAIN rows = Intakes /\ rows[i] = new
        /\ \A k \in Intakes \ {i} : rows[k] = intakes[k]
    BY <1>1, <1>3
  <1>6. /\ DOMAIN new = IntakeFields /\ new.type = t.type /\ new.queue = t.queue
        /\ new.key = t.key /\ new.upgraded = TRUE /\ new.st = intakes[i].st
        /\ new.by = intakes[i].by /\ new.read = intakes[i].read
        /\ new.claims = intakes[i].claims /\ new.link = intakes[i].link
        /\ new.from_claim = intakes[i].from_claim
    <2>1. DOMAIN intakes[i] = IntakeFields
      BY <1>1, <1>3 DEF IntakeRow
    <2>2. QED
      BY <2>1 DEF IntakeFields
  <1> HIDE DEF new, rows
  <1>7. \A k \in Intakes : IntakeRow(rows[k])
    BY <1>1, <1>3, <1>5, <1>6 DEF IntakeRow
  <1>8. \A k \in Intakes : /\ rows[k].st = intakes[k].st /\ rows[k].read = intakes[k].read
                           /\ rows[k].claims = intakes[k].claims
                           /\ rows[k].from_claim = intakes[k].from_claim
    BY <1>5, <1>6
  <1>9. t # Idle
    BY <1>2 DEF Idle
  <1>10. ASSUME Serial
         PROVE  Mate(i, t.type, t.key, j) /\ QueueRows /\ PageRows /\ BillRows
    BY <1>2, <1>10 DEF AInv, Holds, Current
  <1> HIDE DEF i, j, t
  <1>11. \A k \in Intakes : DOMAIN rows[k] = IntakeFields
    BY <1>7 DEF IntakeRow
  <1>12. /\ DOMAIN intakes' = Intakes
         /\ \A k \in Intakes :
              /\ DOMAIN intakes'[k] = IntakeFields
              /\ \A f \in IntakeFields \ {"link"} : intakes'[k][f] = rows[k][f]
              /\ intakes'[k].link =
                   IF j = 0 THEN rows[k].link
                   ELSE IF k = i THEN j ELSE IF k = j THEN i ELSE rows[k].link
    BY <1>3, <1>4, <1>5, <1>11, LinkedRows
  <1>13. \A k \in Intakes :
           /\ intakes'[k].st = intakes[k].st /\ intakes'[k].queue = rows[k].queue
           /\ intakes'[k].by = rows[k].by /\ intakes'[k].read = intakes[k].read
           /\ intakes'[k].claims = intakes[k].claims
           /\ intakes'[k].from_claim = intakes[k].from_claim
    BY <1>8, <1>12 DEF IntakeFields
  <1>14. Captured' = Captured /\ OpenRows' = OpenRows
    BY <1>13 DEF Captured, OpenRows
  <1>15. TypedRows'
    <2>1. \A k \in Intakes : intakes'[k].link \in 0 .. MaxIntakes
      BY <1>3, <1>7, <1>12, BoundsAreNat DEF IntakeRow, Intakes
    <2>2. \A k \in Intakes : IntakeRow(intakes'[k])
      BY <1>1, <1>7, <1>12, <1>13, <2>1 DEF IntakeRow
    <2>3. CapturedInOrder'
      BY <1>14 DEF AInv, TypedRows, CapturedInOrder
    <2>4. QED
      BY <1>12, <2>2, <2>3 DEF AInv, TypedRows
  <1>16. ASSUME Serial
         PROVE  QueueRows' /\ PageRows' /\ BillRows'
    <2>1. Mate(i, t.type, t.key, j) /\ QueueRows /\ PageRows /\ BillRows
      BY <1>10, <1>16
    <2>2. OneImage'
      BY <1>13, <1>14, <2>1 DEF QueueRows, OneImage, OpenRows
    <2>3. LinksJoin'
      <3>1. LinksJoin /\ TypedRows
        BY <2>1 DEF QueueRows, AInv
      <3>2. /\ rows[i].st # "absent" /\ Mate(i, rows[i].type, rows[i].key, j)
            /\ rows[i].upgraded = TRUE /\ rows[i].link = intakes[i].link
        BY <1>3, <1>5, <1>6, <2>1 DEF Captured
      <3>3. QED
        BY <1>3, <1>4, <1>5, <1>11, <3>1, <3>2, LinkKeeps
    <2>4. PageRows'
      <3>1. Exists' = Exists /\ past' = past /\ bills' = bills
        BY DEF Exists
      <3>2. QED
        BY <1>13, <1>14, <2>1, <3>1, OpenIsCaptured DEF PageRows, PageOnce, BillOfPage
    <2>5. QED
      BY <2>1, <2>2, <2>3, <2>4, BillsStay DEF QueueRows
  <1>17. txn[s] # Idle
    BY <1>9 DEF t
  <1>18. QED
    BY <1>2, <1>14, <1>15, <1>16, <1>17, CommitKeeps

\* A page keeps its image and its link when it moves through the queue: it may
\* leave it, and never comes back.
LEMMA MovedKeeps ==
  ASSUME TypedRows, QueueRows, DOMAIN intakes' = Intakes,
         \A k \in Intakes :
           /\ intakes'[k].read = intakes[k].read /\ intakes'[k].link = intakes[k].link
           /\ intakes'[k].type = intakes[k].type /\ intakes'[k].key = intakes[k].key
           /\ intakes'[k].upgraded = intakes[k].upgraded
           /\ intakes'[k].from_claim = intakes[k].from_claim
           /\ intakes'[k].st = "open" => intakes[k].st = "open",
         Captured' = Captured
  PROVE  QueueRows'
  <1>1. OpenRows' \subseteq OpenRows /\ OpenRows \subseteq Intakes
    BY DEF OpenRows
  <1>2. OneImage'
    BY <1>1 DEF QueueRows, OneImage
  <1>3. LinksJoin'
    BY OpenIsCaptured DEF QueueRows, LinksJoin, Joined
  <1>4. QED
    BY <1>2, <1>3 DEF QueueRows

\* CommitReroute counts the page as a claim line when it leaves the queue.
LEMMA RerouteKeeps ==
  ASSUME AInv, SInv', NEW s \in Sessions, CommitReroute(s), UNCHANGED <<bills, vendors, past>>
  PROVE  AInv'
  <1> DEFINE t == txn[s]
             i == t.intake
             new == [intakes[i] EXCEPT !.queue = Pick(@, t.queue), !.st = Pick(@, t.st),
                                       !.claims = @ + t.claims]
  <1>1. /\ DOMAIN intakes = Intakes /\ \A k \in Intakes : IntakeRow(intakes[k])
    BY DEF AInv, TypedRows
  <1>2. t.op = "reroute" /\ world' = world /\ txn' = [txn EXCEPT ![s] = Idle]
    BY DEF CommitReroute
  <1>3. /\ i \in Captured /\ i \in Intakes /\ t.queue \in Queues \cup {Kept}
        /\ t.st \in {"open", "consumed", Kept}
    BY <1>2, OpenIsCaptured DEF AInv, Typed
  <1>4. intakes' = [intakes EXCEPT ![i] = new]
    BY <1>1, <1>3 DEF CommitReroute
  <1>5. /\ DOMAIN new = IntakeFields /\ new.queue = Pick(intakes[i].queue, t.queue)
        /\ new.st = Pick(intakes[i].st, t.st) /\ new.claims = intakes[i].claims + t.claims
        /\ new.type = intakes[i].type /\ new.key = intakes[i].key
        /\ new.upgraded = intakes[i].upgraded /\ new.by = intakes[i].by
        /\ new.read = intakes[i].read /\ new.link = intakes[i].link
        /\ new.from_claim = intakes[i].from_claim
    <2>1. DOMAIN intakes[i] = IntakeFields
      BY <1>1, <1>3 DEF IntakeRow
    <2>2. QED
      BY <2>1 DEF IntakeFields
  <1>6. t # Idle
    BY <1>2 DEF Idle
  <1>7. ASSUME Serial
        PROVE  /\ i \in OpenRows /\ t.claims = IF Pick("open", t.st) = "open" THEN 0 ELSE 1
               /\ QueueRows /\ PageRows /\ BillRows
    BY <1>2, <1>7 DEF AInv, Holds, Leaves
  <1> HIDE DEF new, i, t
  <1>8. /\ DOMAIN intakes' = Intakes
        /\ \A k \in Intakes : intakes'[k] = IF k = i THEN new ELSE intakes[k]
    BY <1>1, <1>4
  <1>9. new.st \in {"absent", "open", "consumed"} /\ (new.st = "absent" <=> intakes[i].st = "absent")
    BY <1>1, <1>3, <1>5 DEF Pick, IntakeRow, Captured
  <1>10. Captured' = Captured
    BY <1>3, <1>8, <1>9 DEF Captured
  <1>11. TypedRows'
    <2>1. IntakeRow(new)
      BY <1>1, <1>3, <1>5, <1>9 DEF IntakeRow, Pick
    <2>2. \A k \in Intakes : IntakeRow(intakes'[k])
      BY <1>1, <1>8, <2>1
    <2>3. CapturedInOrder'
      BY <1>10 DEF AInv, TypedRows, CapturedInOrder
    <2>4. QED
      BY <1>8, <2>2, <2>3 DEF AInv, TypedRows
  <1>12. ASSUME Serial
         PROVE  QueueRows' /\ PageRows' /\ BillRows'
    <2>1. /\ intakes[i].st = "open"
          /\ t.claims = IF new.st = "open" THEN 0 ELSE 1
          /\ QueueRows /\ PageRows /\ BillRows
      BY <1>5, <1>7, <1>12 DEF OpenRows
    <2>2. QueueRows'
      BY <1>5, <1>8, <1>10, <2>1, MovedKeeps DEF AInv
    <2>3. PageRows'
      <3>1. Exists' = Exists /\ past' = past /\ bills' = bills
        BY DEF Exists
      <3>2. \A k \in Captured : PageOnce(k)
        BY <2>1 DEF PageRows
      <3>3. intakes[i].claims = 0
        BY <1>3, <2>1, <3>2 DEF PageOnce
      <3>4. new.claims = t.claims
        BY <1>5, <2>1, <3>3
      <3>5. (\A k \in Captured : PageOnce(k))'
        BY <1>8, <1>10, <2>1, <3>2, <3>4, OpenIsCaptured DEF PageOnce
      <3>6. \A b \in Exists : bills[b].intake \in Captured /\ bills[b].intake # i
        BY <2>1 DEF PageRows, BillOfPage
      <3>7. (\A b \in Exists : BillOfPage(b))'
        BY <1>8, <1>10, <2>1, <3>1, <3>6, OpenIsCaptured DEF PageRows, BillOfPage
      <3>8. QED
        BY <2>1, <3>1, <3>5, <3>7 DEF PageRows
    <2>4. QED
      BY <2>1, <2>2, <2>3, BillsStay
  <1>13. txn[s] # Idle
    BY <1>6 DEF t
  <1>14. QED
    BY <1>2, <1>10, <1>11, <1>12, <1>13, CommitKeeps

\* No request is under way when a line is switched.
LEMMA NoneAsked ==
  ASSUME SInv, Serial, NEW s \in Sessions, s \in world.sessions, txn[s] = Idle
  PROVE  \A r \in Sessions : txn[r] = Idle
  <1>1. IsFiniteSet(world.sessions)
    BY QueueAssumption DEF SInv
  <1>2. PICK x : world.sessions = {x}
    BY <1>1, FS_Singleton DEF Serial
  <1>3. QED
    BY <1>2 DEF SInv, Alone

\* Some pages leave their claims, or some bills.
Dropped(old, new) == new = old \/ (old = 1 /\ new = 0)

\* Session s adds a row for a line that leaves its claim; rows are the others.
Switches(s, u, read, rows) ==
  /\ s \in world.sessions /\ txn[s] = Idle /\ NextIntake <= world.pages
  /\ DOMAIN rows = Intakes
  /\ \A k \in Intakes : /\ DOMAIN rows[k] = IntakeFields
                        /\ \A f \in IntakeFields \ {"claims"} : rows[k][f] = intakes[k][f]
  /\ intakes' = [rows EXCEPT ![NextIntake] = Returned(read, u)]
  /\ world' = world /\ txn' = txn /\ bills' = bills /\ vendors' = vendors
  /\ DOMAIN past' = Bills
  /\ Serial => /\ \A k \in Captured : Dropped(intakes[k].claims, rows[k].claims)
               /\ \A b \in Bills : /\ Dropped(past[b].claims, past'[b].claims)
                                   /\ past'[b].cleared = past[b].cleared

\* The new row came over from a claim, is open, and is last.
LEMMA ReturnKeeps ==
  ASSUME AInv, SInv', NEW s \in Sessions, NEW u \in Users, NEW read, NEW rows,
         Switches(s, u, read, rows)
  PROVE  AInv'
  <1> DEFINE n == NextIntake
             row == Returned(read, u)
  <1>0. /\ s \in world.sessions /\ txn[s] = Idle /\ n <= world.pages
        /\ world' = world /\ txn' = txn /\ bills' = bills /\ vendors' = vendors
        /\ DOMAIN past' = Bills /\ DOMAIN rows = Intakes
    BY DEF Switches
  <1>1. /\ n \notin Captured /\ n \in Nat \ {0} /\ \E k \in Nat : Captured \cup {n} = 1 .. k
        /\ \A k \in Captured : ~(n < k)
    BY IntakeNumber DEF AInv, TypedRows
  <1>2. n \in Intakes
    <2>1. world.pages \in 0 .. MaxIntakes
      BY QueueAssumption DEF AInv, SInv
    <2>2. QED
      BY <1>0, <1>1, <2>1, BoundsAreNat DEF Intakes
  <1>3. /\ row.st = "open" /\ row.queue = "ap_holding" /\ row.by = u /\ row.link = 0
        /\ row.claims = 0 /\ row.from_claim = TRUE /\ DOMAIN row = IntakeFields
    BY DEF Returned, NoIntake, IntakeFields
  <1>4. intakes' = [rows EXCEPT ![n] = row]
    BY DEF Switches
  <1>4a. \A k \in Intakes : /\ DOMAIN rows[k] = IntakeFields
                            /\ \A f \in IntakeFields \ {"claims"} : rows[k][f] = intakes[k][f]
    BY DEF Switches
  <1>4b. ASSUME Serial
         PROVE  /\ \A k \in Captured : Dropped(intakes[k].claims, rows[k].claims)
                /\ \A b \in Bills : /\ Dropped(past[b].claims, past'[b].claims)
                                    /\ past'[b].cleared = past[b].cleared
    BY <1>4b DEF Switches
  <1> HIDE DEF n, row
  <1>5. \A k \in Intakes : intakes'[k] = IF k = n THEN row ELSE rows[k]
    BY <1>0, <1>4
  <1>6. DOMAIN intakes' = Intakes
    BY <1>0, <1>4
  <1>7. \A k \in Intakes \ {n} :
          /\ intakes'[k].st = intakes[k].st /\ intakes'[k].queue = intakes[k].queue
          /\ intakes'[k].by = intakes[k].by /\ intakes'[k].read = intakes[k].read
          /\ intakes'[k].link = intakes[k].link /\ intakes'[k].type = intakes[k].type
          /\ intakes'[k].key = intakes[k].key /\ intakes'[k].upgraded = intakes[k].upgraded
          /\ intakes'[k].from_claim = intakes[k].from_claim
          /\ DOMAIN intakes'[k] = IntakeFields
    BY <1>5, <1>4a DEF IntakeFields
  <1>8. Captured' = Captured \cup {n}
    BY <1>2, <1>3, <1>5, <1>7 DEF Captured
  <1>9. TypedRows'
    <2>1. IntakeRow(row)
      BY <1>3, BoundsAreNat DEF IntakeRow, Queues
    <2>2. \A k \in Intakes : IntakeRow(intakes[k])
      BY DEF AInv, TypedRows
    <2>3. \A k \in Intakes : IntakeRow(intakes'[k])
      BY <1>5, <1>7, <2>1, <2>2 DEF IntakeRow
    <2>4. CapturedInOrder'
      BY <1>1, <1>8 DEF CapturedInOrder
    <2>5. QED
      BY <1>0, <1>6, <2>3, <2>4 DEF AInv, TypedRows
  <1>10. ASSUME NEW r \in Sessions
         PROVE  Typed(txn[r])'
    <2>1. Typed(txn[r])
      BY DEF AInv
    <2>2. QED
      BY <1>0, <1>8, <2>1 DEF Typed
  <1>11. ASSUME Serial
         PROVE  QueueRows' /\ PageRows' /\ BillRows' /\ \A r \in Sessions : Holds(txn[r])'
    <2>1. QueueRows /\ PageRows /\ BillRows
      BY <1>11 DEF AInv
    <2>2. ASSUME NEW r \in Sessions
          PROVE  Holds(txn[r])'
      <3>1. txn'[r] = Idle
        BY <1>0, <1>11, NoneAsked DEF AInv
      <3>2. QED
        BY <3>1 DEF Holds, Current, Leaves, Compared, Idle, UpdateOps
    <2>3. OneImage'
      <3>1. OpenRows' = OpenRows \cup {n}
        BY <1>2, <1>3, <1>5, <1>7 DEF OpenRows
      <3>2. n \notin OpenRows /\ OpenRows \subseteq Intakes
        BY <1>1, OpenIsCaptured
      <3>3. \A k \in OpenRows : ~(n < k)
        BY <1>1, OpenIsCaptured
      <3>4. intakes'[n].from_claim = TRUE /\ ~(n < n)
        BY <1>1, <1>2, <1>3, <1>5
      <3>5. \A i, j \in OpenRows' :
              i < j /\ intakes'[i].read.image = intakes'[j].read.image => intakes'[j].from_claim
        BY <1>7, <2>1, <3>1, <3>2, <3>3, <3>4 DEF QueueRows, OneImage
      <3>6. QED
        BY <3>5 DEF OneImage
    <2>4. LinksJoin'
      <3>1. ASSUME NEW k \in Captured', intakes'[k].link # 0
            PROVE  intakes'[k].link \in Captured' /\ Joined(k, intakes[k].link)'
        <4>1. k # n
          BY <1>2, <1>3, <1>5, <3>1
        <4>2. k \in Captured /\ k \in Intakes /\ intakes'[k].link = intakes[k].link
          BY <1>7, <1>8, <4>1 DEF Captured
        <4>3. intakes[k].link \in Captured /\ Joined(k, intakes[k].link)
          BY <2>1, <3>1, <4>2 DEF QueueRows, LinksJoin
        <4>4. intakes[k].link \in Intakes \ {n}
          BY <1>1, <4>3 DEF Captured
        <4>5. QED
          BY <1>7, <1>8, <4>1, <4>2, <4>3, <4>4 DEF Joined
      <3>2. QED
        BY <3>1 DEF LinksJoin
    <2>5. PageRows'
      <3>1. Exists' = Exists
        BY <1>0 DEF Exists
      <3>2. \A k \in Captured : k # n /\ k \in Intakes /\ intakes'[k].claims = rows[k].claims
        BY <1>1, <1>5 DEF Captured
      <3>3. (\A k \in Captured : PageOnce(k))'
        <4>1. \A k \in Captured : PageOnce(k) /\ Dropped(intakes[k].claims, intakes'[k].claims)
          BY <1>11, <1>4b, <2>1, <3>2 DEF PageRows
        <4>2. \A k \in Captured : intakes'[k].claims \in {0, 1}
                                  /\ (intakes'[k].st = "open" => intakes'[k].claims = 0)
          BY <1>7, <3>2, <4>1 DEF PageOnce, Dropped
        <4>3. QED
          BY <1>2, <1>3, <1>5, <1>8, <4>2 DEF PageOnce
      <3>4. ASSUME NEW b \in Exists
            PROVE  BillOfPage(b)'
        <4>1. BillOfPage(b) /\ b \in Bills
          BY <2>1 DEF PageRows, Exists
        <4>2. bills[b].intake \in Captured
          BY <4>1 DEF BillOfPage
        <4>3. Dropped(past[b].claims, past'[b].claims)
              /\ Dropped(intakes[bills[b].intake].claims, rows[bills[b].intake].claims)
          BY <1>11, <1>4b, <4>1, <4>2
        <4>4. QED
          BY <1>0, <1>7, <1>8, <3>2, <4>1, <4>2, <4>3 DEF BillOfPage, Dropped
      <3>5. (\A b \in Bills \ Exists : past[b].claims = 0)'
        BY <1>11, <1>4b, <2>1, <3>1 DEF PageRows, Dropped
      <3>6. QED
        BY <3>1, <3>3, <3>4, <3>5 DEF PageRows
    <2>6. BillRows'
      BY <1>0, <1>11, <1>4b, <2>1 DEF BillRows, VendorsInOrder, NamedVendors, Exists, NoneAlike
    <2>7. QED
      BY <2>2, <2>3, <2>4, <2>5, <2>6 DEF QueueRows
  <1>12. Serial' = Serial
    BY <1>0 DEF Serial
  <1>13. QED
    BY <1>9, <1>10, <1>11, <1>12 DEF AInv

\* The page of row i leaves its claim.
LEMMA SwitchInKeeps ==
  ASSUME AInv, SInv', NEW s \in Sessions, NEW u \in Users, NEW i \in Intakes,
         SwitchIn(s, u, i), UNCHANGED <<bills, vendors, past>>
  PROVE  AInv'
  <1> DEFINE rows == [intakes EXCEPT ![i].claims = @ - 1]
             row == Returned(intakes[i].read, u)
  <1>1. /\ DOMAIN intakes = Intakes /\ \A k \in Intakes : DOMAIN intakes[k] = IntakeFields
        /\ DOMAIN past = Bills
    BY DEF AInv, TypedRows, IntakeRow
  <1>2. /\ s \in world.sessions /\ txn[s] = Idle /\ intakes[i].claims > 0
        /\ NextIntake <= world.pages /\ world' = world /\ txn' = txn
        /\ intakes' = [intakes EXCEPT ![i].claims = @ - 1, ![NextIntake] = row]
    BY DEF SwitchIn, Asks
  <1>3. intakes' = [rows EXCEPT ![NextIntake] = row]
    BY <1>2
  <1>4. /\ DOMAIN rows = Intakes
        /\ \A k \in Intakes : rows[k] = IF k = i THEN [intakes[k] EXCEPT !.claims = @ - 1]
                                         ELSE intakes[k]
    BY <1>1
  <1> HIDE DEF rows
  <1>5. \A k \in Intakes : /\ DOMAIN rows[k] = IntakeFields
                           /\ \A f \in IntakeFields \ {"claims"} : rows[k][f] = intakes[k][f]
    BY <1>1, <1>4
  <1>6. ASSUME Serial, NEW k \in Captured
        PROVE  Dropped(intakes[k].claims, rows[k].claims)
    <2>1. intakes[k].claims \in {0, 1} /\ k \in Intakes
      BY <1>6, OpenIsCaptured DEF AInv, PageRows, PageOnce
    <2>2. CASE k = i
      <3>1. rows[k].claims = intakes[k].claims - 1
        BY <1>1, <1>4, <2>1, <2>2 DEF IntakeFields
      <3>2. QED
        BY <1>2, <2>1, <2>2, <3>1 DEF Dropped
    <2>3. CASE k # i
      BY <1>4, <2>1, <2>3 DEF Dropped
    <2>4. QED
      BY <2>2, <2>3
  <1>7. /\ DOMAIN past' = Bills
        /\ \A b \in Bills : /\ Dropped(past[b].claims, past'[b].claims)
                            /\ past'[b].cleared = past[b].cleared
    BY <1>1 DEF Dropped
  <1>8. bills' = bills /\ vendors' = vendors
    OBVIOUS
  <1>9. QED
    <2>1. Switches(s, u, intakes[i].read, rows)
      BY <1>2, <1>3, <1>4, <1>5, <1>6, <1>7, <1>8 DEF Switches
    <2>2. QED
      BY <2>1, ReturnKeeps

\* The page of bill b leaves the claim that was made of the bill.
LEMMA SwitchBackKeeps ==
  ASSUME AInv, SInv', NEW s \in Sessions, NEW u \in Users, NEW b \in Exists, SwitchBack(s, u, b)
  PROVE  AInv'
  <1> DEFINE rows == intakes
             read == Carried(b)
  <1>1. /\ DOMAIN intakes = Intakes /\ \A k \in Intakes : DOMAIN intakes[k] = IntakeFields
        /\ DOMAIN past = Bills /\ b \in Bills
    BY DEF AInv, TypedRows, IntakeRow, Exists
  <1>2. /\ s \in world.sessions /\ txn[s] = Idle /\ past[b].claims > 0
        /\ NextIntake <= world.pages /\ world' = world /\ txn' = txn
        /\ intakes' = [intakes EXCEPT ![NextIntake] = Returned(read, u)]
        /\ past' = [past EXCEPT ![b].claims = @ - 1]
        /\ bills' = bills /\ vendors' = vendors
    BY DEF SwitchBack, Asks
  <1>3. /\ DOMAIN past' = Bills
        /\ \A c \in Bills : past'[c] = IF c = b THEN [past[c] EXCEPT !.claims = @ - 1] ELSE past[c]
    BY <1>1, <1>2
  <1>4. ASSUME Serial, NEW c \in Bills
        PROVE  past'[c].cleared = past[c].cleared
    <2>1. DOMAIN past[c] = DOMAIN NoPast
      BY <1>4 DEF AInv, SInv, Sound, RowSound
    <2>2. QED
      BY <1>3, <2>1 DEF NoPast
  <1>5. ASSUME Serial, NEW c \in Bills
        PROVE  Dropped(past[c].claims, past'[c].claims)
    <2>1. DOMAIN past[c] = DOMAIN NoPast
      BY <1>5 DEF AInv, SInv, Sound, RowSound
    <2>2. past[c].claims \in {0, 1}
      BY <1>5 DEF AInv, PageRows, BillOfPage
    <2>3. CASE c = b
      <3>1. past'[c].claims = past[c].claims - 1
        BY <1>3, <2>1, <2>3 DEF NoPast
      <3>2. QED
        BY <1>2, <2>2, <2>3, <3>1 DEF Dropped
    <2>4. CASE c # b
      BY <1>3, <2>4 DEF Dropped
    <2>5. QED
      BY <2>3, <2>4
  <1>6. /\ DOMAIN rows = Intakes
        /\ \A k \in Intakes : /\ DOMAIN rows[k] = IntakeFields
                              /\ \A f \in IntakeFields \ {"claims"} : rows[k][f] = intakes[k][f]
        /\ \A k \in Captured : Dropped(intakes[k].claims, rows[k].claims)
    BY <1>1 DEF Dropped
  <1>7. intakes' = [rows EXCEPT ![NextIntake] = Returned(read, u)]
    BY <1>2
  <1> HIDE DEF rows, read
  <1>8. QED
    <2>1. Switches(s, u, read, rows)
      BY <1>2, <1>3, <1>4, <1>5, <1>6, <1>7 DEF Switches
    <2>2. QED
      BY <2>1, ReturnKeeps

LEMMA AbortKeeps ==
  ASSUME AInv, SInv', NEW s \in Sessions, Abort(s), UNCHANGED <<bills, vendors, past>>
  PROVE  AInv'
  <1>1. /\ txn[s] # Idle /\ txn' = [txn EXCEPT ![s] = Idle]
        /\ UNCHANGED <<world, intakes, bills, vendors, past>>
    BY DEF Abort
  <1>2. /\ Captured' = Captured /\ TypedRows'
        /\ Serial => QueueRows' /\ PageRows' /\ BillRows'
    BY <1>1, RowsStay DEF AInv
  <1>3. world' = world
    BY <1>1
  <1>4. QED
    BY <1>1, <1>2, <1>3, CommitKeeps

\* CommitFile adds a bill of a page that no bill has, and takes the page off
\* the queue.
LEMMA FileStays ==
  ASSUME AInv, SInv', NEW s \in Sessions, CommitFile(s)
  PROVE  AInv'
  <1> DEFINE t == txn[s]
             i == t.row.intake
             n == NextBill
             v == IF t.row.vendor = 0 THEN NextVendor ELSE t.row.vendor
             row == [t.row EXCEPT !.vendor = v]
  <1>1. /\ t.op = "file" /\ ~Filed(i) /\ n \in Bills /\ v \in Vendors
        /\ bills' = [bills EXCEPT ![n] = row]
        /\ vendors' = [vendors EXCEPT ![v] = IF t.row.vendor = 0 THEN t.name ELSE @]
        /\ intakes' = [intakes EXCEPT ![i].st = "consumed"]
        /\ txn' = [txn EXCEPT ![s] = Idle] /\ world' = world /\ past' = past
    BY DEF CommitFile
  <1>2. BillRow(t.row) /\ i \in Captured /\ i \in Intakes
    BY <1>1, OpenIsCaptured DEF AInv, Typed
  <1>3. DOMAIN t.row = BillFields /\ t.row.st # "absent"
    BY <1>1 DEF AInv, SInv, KInv, Intended, Intent
  <1>4. /\ row.st = t.row.st /\ row.vendor = v /\ row.doc = t.row.doc
        /\ row.total = t.row.total /\ row.filer = t.row.filer /\ row.coder = t.row.coder
        /\ row.submitter = t.row.submitter /\ row.approver = t.row.approver
        /\ row.erp = t.row.erp /\ row.intake = i /\ row.lines = t.row.lines
    BY <1>3 DEF BillFields
  <1>5. BillRow(row)
    <2>1. v \in 0 .. MaxVendors
      BY <1>1, BoundsAreNat DEF Vendors
    <2>2. row.erp \in BOOLEAN
      BY <1>2, <1>4 DEF BillRow
    <2> HIDE DEF row, v
    <2>3. QED
      BY <1>2, <1>4, <2>1, <2>2 DEF BillRow
  <1>6. ASSUME Serial
        PROVE  /\ n \notin Exists /\ Holds(t) /\ QueueRows /\ PageRows /\ BillRows
    BY <1>6, BillNumber DEF AInv, SInv, Sound
  <1>7. t # Idle
    BY <1>1 DEF Idle
  <1>8. DOMAIN bills = Bills
    BY DEF AInv, SInv, KInv, Shape
  <1>9. /\ DOMAIN intakes = Intakes /\ \A k \in Intakes : IntakeRow(intakes[k])
        /\ DOMAIN vendors = Vendors /\ DOMAIN past = Bills /\ CapturedInOrder
        /\ \A b \in Bills : BillRow(bills[b])
    BY DEF AInv, TypedRows
  <1>10. /\ t.row.vendor = 0 => v = NextVendor
         /\ t.row.vendor # 0 => v = t.row.vendor
    OBVIOUS
  <1> HIDE DEF row, v, i, n, t
  <1>11. /\ \A b \in Bills : bills'[b] = IF b = n THEN row ELSE bills[b]
         /\ \A w \in Vendors : vendors'[w] = IF w = v /\ t.row.vendor = 0 THEN t.name ELSE vendors[w]
         /\ DOMAIN intakes' = Intakes /\ DOMAIN vendors' = Vendors
    BY <1>1, <1>8, <1>9
  <1>12. \A k \in Intakes :
           /\ \A f \in IntakeFields \ {"st"} : intakes'[k][f] = intakes[k][f]
           /\ intakes'[k].st = IF k = i THEN "consumed" ELSE intakes[k].st
           /\ DOMAIN intakes'[k] = IntakeFields
    BY <1>1, <1>9 DEF IntakeRow, IntakeFields
  <1>13. \A k \in Intakes :
           /\ intakes'[k].read = intakes[k].read /\ intakes'[k].link = intakes[k].link
           /\ intakes'[k].type = intakes[k].type /\ intakes'[k].key = intakes[k].key
           /\ intakes'[k].upgraded = intakes[k].upgraded /\ intakes'[k].by = intakes[k].by
           /\ intakes'[k].queue = intakes[k].queue /\ intakes'[k].claims = intakes[k].claims
           /\ intakes'[k].from_claim = intakes[k].from_claim
           /\ intakes'[k].st = IF k = i THEN "consumed" ELSE intakes[k].st
    BY <1>12 DEF IntakeFields
  <1>14. Captured' = Captured
    BY <1>2, <1>13 DEF Captured
  <1>15. TypedRows'
    <2>1. \A k \in Intakes : IntakeRow(intakes'[k])
      BY <1>9, <1>12, <1>13 DEF IntakeRow
    <2>2. \A b \in Bills : BillRow(bills'[b])
      BY <1>5, <1>9, <1>11
    <2>3. CapturedInOrder'
      BY <1>9, <1>14 DEF CapturedInOrder
    <2>4. QED
      BY <1>1, <1>9, <1>11, <2>1, <2>2, <2>3 DEF TypedRows
  <1>16. ASSUME Serial
         PROVE  QueueRows' /\ PageRows' /\ BillRows'
    <2>1. n \notin Exists /\ QueueRows /\ PageRows /\ BillRows
      BY <1>6, <1>16
    <2>2. i \in OpenRows /\ Compared(t)
      BY <1>1, <1>6, <1>16 DEF Holds, Leaves, i
    <2>3. QueueRows'
      <3>1. \A k \in Intakes : intakes'[k].st = "open" => intakes[k].st = "open"
        BY <1>13
      <3>2. QED
        BY <1>11, <1>13, <1>14, <2>1, <3>1, MovedKeeps DEF AInv
    <2>4. Exists' = Exists \cup {n}
      <3>1. row.st # "absent"
        BY <1>3, <1>4
      <3>2. QED
        BY <1>1, <1>11, <3>1 DEF Exists
    <2>5. PageRows'
      <3>1. intakes[i].st = "open" /\ intakes[i].claims = 0
        BY <1>2, <2>1, <2>2 DEF OpenRows, PageRows, PageOnce
      <3>2. (\A k \in Captured : PageOnce(k))'
        BY <1>13, <1>14, <2>1, <3>1, OpenIsCaptured DEF PageRows, PageOnce
      <3>3. past[n].claims = 0
        BY <1>1, <2>1 DEF PageRows
      <3>4. ASSUME NEW b \in Bills, b = n
            PROVE  BillOfPage(b)'
        BY <3>4, <1>1, <1>2, <1>4, <1>11, <1>13, <1>14, <3>1, <3>3 DEF BillOfPage
      <3>5. ASSUME NEW b \in Exists
            PROVE  BillOfPage(b)'
        <4>1. BillOfPage(b) /\ bills'[b] = bills[b] /\ past'[b] = past[b]
          BY <1>1, <1>11, <2>1 DEF PageRows, Exists
        <4>2. bills[b].intake \in Captured /\ bills[b].intake # i
          BY <1>1, <4>1 DEF BillOfPage, Filed
        <4>3. QED
          BY <1>13, <1>14, <4>1, <4>2, OpenIsCaptured DEF BillOfPage
      <3>6. (\A b \in Exists : BillOfPage(b))'
        BY <1>1, <2>4, <3>4, <3>5
      <3>7. (\A b \in Bills \ Exists : past[b].claims = 0)'
        BY <1>1, <2>1, <2>4 DEF PageRows
      <3>8. QED
        BY <3>2, <3>6, <3>7 DEF PageRows
    <2>6. NamedVendors' = NamedVendors \cup {v} /\ VendorsInOrder'
      <3>1. CASE t.row.vendor = 0
        <4>1. t.name # None
          BY <1>1, <2>2 DEF Compared
        <4>2. NamedVendors' = NamedVendors \cup {v}
          BY <1>1, <1>11, <3>1, <4>1 DEF NamedVendors
        <4>3. QED
          BY <1>10, <2>1, <3>1, <4>2, VendorNumber DEF BillRows, VendorsInOrder
      <3>2. CASE t.row.vendor # 0
        <4>1. v \in NamedVendors
          BY <1>1, <1>10, <2>2, <3>2 DEF Compared
        <4>2. NamedVendors' = NamedVendors
          BY <1>11, <3>2 DEF NamedVendors
        <4>3. QED
          BY <2>1, <4>1, <4>2 DEF BillRows, VendorsInOrder
      <3>3. QED
        BY <3>1, <3>2
    <2>7. ASSUME NEW c \in Bills \ {n}, Moving(row), Moving(bills[c]),
                 Alike(row, bills[c]) \/ Alike(bills[c], row)
          PROVE  FALSE
      <3>1. c \in Exists /\ bills[c].vendor \in NamedVendors
        BY <2>1, <2>7 DEF Exists, Moving, Live, BillRows
      <3>2. bills[c].vendor = v /\ Alike(row, bills[c])
        BY <1>4, <2>7 DEF Alike
      <3>3. t.row.vendor # 0
        BY <1>10, <2>1, <3>1, <3>2, VendorNumber DEF BillRows
      <3>4. Unlike(t.row, 0)
        BY <1>1, <1>4, <2>2, <2>7, <3>3 DEF Compared, Moving
      <3>5. Alike(t.row, bills[c])
        BY <1>4, <1>10, <3>2, <3>3 DEF Alike
      <3>6. c \in Bills \ {0}
        BY DEF Bills
      <3>7. QED
        BY <2>7, <3>4, <3>5, <3>6 DEF Unlike
    <2>8. NoneAlike'
      <3>1. \A b \in Bills \ {n} : bills'[b] = bills[b]
        BY <1>11
      <3>2. bills'[n] = row
        BY <1>1, <1>11
      <3>3. ASSUME NEW b \in Bills, NEW c \in Bills, b # c,
                   Moving(bills'[b]), Moving(bills'[c]), Alike(bills'[b], bills'[c])
            PROVE  past'[b].cleared \/ past'[c].cleared
        <4>1. CASE b = n
          BY <2>7, <3>1, <3>2, <3>3, <4>1
        <4>2. CASE c = n
          BY <2>7, <3>1, <3>2, <3>3, <4>2
        <4>3. CASE b # n /\ c # n
          BY <1>1, <2>1, <3>1, <3>3, <4>3 DEF BillRows, NoneAlike
        <4>4. QED
          BY <4>1, <4>2, <4>3
      <3>4. QED
        BY <3>3 DEF NoneAlike
    <2>9. (\A b \in Exists : bills[b].vendor \in NamedVendors)'
      BY <1>1, <1>4, <1>11, <2>1, <2>4, <2>6 DEF BillRows, Exists
    <2>10. QED
      BY <2>3, <2>5, <2>6, <2>8, <2>9 DEF BillRows
  <1>17. txn[s] # Idle
    BY <1>7 DEF t
  <1>18. QED
    BY <1>1, <1>14, <1>15, <1>16, <1>17, CommitKeeps

\* What a commit adds to the history of its bill.
LEMMA RecordedParts ==
  ASSUME NEW p, NEW t, DOMAIN p = DOMAIN NoPast
  PROVE  /\ Recorded(p, t).claims = IF t.op = "switch" THEN p.claims + 1 ELSE p.claims
         /\ Recorded(p, t).cleared = IF t.op = "release_hold" THEN TRUE ELSE p.cleared
  BY DEF Recorded, NoPast

\* CommitUpdate leaves a typed row.
LEMMA UpdateTyped ==
  ASSUME NEW row, BillRow(row), DOMAIN row = BillFields, NEW t, WritesTyped(t)
  PROVE  /\ BillRow(Written(row, t)) /\ Written(row, t).intake = row.intake
         /\ Written(row, t).vendor = row.vendor
  <1> DEFINE w == Written(row, t)
  <1>1. /\ w.st = Pick(row.st, t.upd.st) /\ w.vendor = row.vendor /\ w.filer = row.filer
        /\ w.coder = Pick(row.coder, t.upd.coder)
        /\ w.submitter = Pick(row.submitter, t.upd.submitter)
        /\ w.approver = Pick(row.approver, t.upd.approver)
        /\ w.erp = Pick(row.erp, t.upd.erp) /\ w.intake = row.intake
        /\ w.lines = [n \in LineNos |-> IF n = t.line.no THEN t.line.to ELSE row.lines[n]]
    BY DEF Written, BillFields
  <1> HIDE DEF w
  <1>2. w.st \in Status
    BY <1>1 DEF WritesTyped, BillRow, Pick
  <1>3. {w.filer, w.coder, w.submitter, w.approver} \subseteq Users \cup {None}
    BY <1>1 DEF WritesTyped, BillRow, Pick
  <1>4. w.erp \in BOOLEAN
    <2>1. row.erp \in BOOLEAN /\ t.upd.erp \in BOOLEAN \cup {Kept}
      BY DEF WritesTyped, BillRow
    <2>2. CASE t.upd.erp = Kept
      BY <1>1, <2>1, <2>2, Zenon DEF Pick
    <2>3. CASE t.upd.erp # Kept
      BY <1>1, <2>1, <2>3, Zenon DEF Pick
    <2>4. QED
      BY <2>2, <2>3
  <1>5. w.lines \in [LineNos -> LineStates]
    BY <1>1 DEF WritesTyped, BillRow
  <1>6. BillRow(w)
    BY <1>1, <1>2, <1>3, <1>4, <1>5 DEF BillRow
  <1>7. QED
    BY <1>1, <1>6 DEF w

LEMMA UpdateStays ==
  ASSUME AInv, SInv', NEW s \in Sessions, CommitUpdate(s)
  PROVE  AInv'
  <1> DEFINE t == txn[s]
             b == t.bill
             new == Written(bills[b], t)
             p == Recorded(past[b], t)
  <1>1. /\ t.op \in UpdateOps
        /\ bills' = [bills EXCEPT ![b] = new]
        /\ vendors' = [v \in Vendors |-> IF v = t.rename.vendor THEN t.rename.name ELSE vendors[v]]
        /\ past' = [past EXCEPT ![b] = p]
        /\ txn' = [txn EXCEPT ![s] = Idle] /\ world' = world /\ intakes' = intakes
    BY DEF CommitUpdate
  <1>2. b \in Bills /\ b \in Exists /\ DOMAIN bills[b] = BillFields
    BY <1>1 DEF AInv, SInv, KInv, Shape, Intended, Intent, Exists
  <1>3. WritesTyped(t)
    BY <1>1 DEF AInv, Typed
  <1>4. /\ DOMAIN vendors = Vendors /\ DOMAIN past = Bills /\ DOMAIN bills = Bills
        /\ \A c \in Bills : BillRow(bills[c])
    BY DEF AInv, TypedRows, SInv, KInv, Shape
  <1>5. BillRow(new) /\ new.intake = bills[b].intake /\ new.vendor = bills[b].vendor
    BY <1>2, <1>3, <1>4, UpdateTyped
  <1>6. t # Idle
    BY <1>1 DEF Idle, UpdateOps
  <1>7. ASSUME Serial
        PROVE  /\ p.claims = IF t.op = "switch" THEN past[b].claims + 1 ELSE past[b].claims
               /\ p.cleared = IF t.op = "release_hold" THEN TRUE ELSE past[b].cleared
    BY <1>2, <1>7, RecordedParts DEF AInv, SInv, Sound, RowSound
  <1>8. ASSUME Serial
        PROVE  /\ Leaves(t) /\ Compared(t) /\ QueueRows /\ PageRows /\ BillRows
               /\ bills[b].st = "rejected" => new.st = "rejected"
    BY <1>1, <1>8 DEF AInv, Holds, SInv, Sound, Fresh, FreshOn
  <1>9. new.st # "absent"
    <2>1. t.upd.st # "absent" /\ bills[b].st # "absent"
      BY <1>1 DEF AInv, SInv, KInv, Intended, Intent, Exists
    <2>2. new.st = Pick(bills[b].st, t.upd.st)
      BY <1>2 DEF Written, BillFields
    <2>3. QED
      BY <2>1, <2>2 DEF Pick
  <1>10. Captured' = Captured
    BY <1>1 DEF Captured
  <1> HIDE DEF new, p
  <1>11. /\ \A c \in Bills : bills'[c] = IF c = b THEN new ELSE bills[c]
         /\ \A c \in Bills : past'[c] = IF c = b THEN p ELSE past[c]
         /\ \A v \in Vendors : vendors'[v] = IF v = t.rename.vendor THEN t.rename.name ELSE vendors[v]
         /\ DOMAIN past' = Bills /\ DOMAIN vendors' = Vendors
    BY <1>1, <1>4
  <1>12. Exists' = Exists
    BY <1>2, <1>9, <1>11 DEF Exists
  <1>13. TypedRows'
    <2>1. \A c \in Bills : BillRow(bills'[c])
      BY <1>4, <1>5, <1>11
    <2>2. QED
      BY <1>1, <1>10, <1>11, <2>1 DEF AInv, TypedRows, CapturedInOrder
  <1>14. ASSUME Serial
         PROVE  QueueRows' /\ PageRows' /\ BillRows'
    <2>1. /\ Leaves(t) /\ Compared(t) /\ QueueRows /\ PageRows /\ BillRows
          /\ bills[b].st = "rejected" => new.st = "rejected"
      BY <1>8, <1>14
    <2>2. QueueRows'
      BY <1>1, <1>10, <2>1 DEF QueueRows, OneImage, LinksJoin, Joined, OpenRows
    <2>3. PageRows'
      <3>1. (\A k \in Captured : PageOnce(k))'
        BY <1>1, <1>10, <2>1 DEF PageRows, PageOnce
      <3>2. ASSUME NEW c \in Exists
            PROVE  BillOfPage(c)'
        <4>1. BillOfPage(c) /\ c \in Bills
          BY <2>1 DEF PageRows, Exists
        <4>2. CASE c = b /\ t.op = "switch"
          <5>1. past[b].claims = 0 /\ new.st = "rejected"
            BY <2>1, <4>2 DEF Leaves, new
          <5>2. p.claims = 1
            BY <1>7, <1>14, <4>2, <5>1
          <5>3. QED
            BY <1>1, <1>5, <1>10, <1>11, <4>1, <4>2, <5>1, <5>2 DEF BillOfPage
        <4>3. CASE c = b /\ t.op # "switch"
          <5>1. p.claims = past[b].claims
            BY <1>7, <1>14, <4>3
          <5>2. QED
            BY <1>1, <1>5, <1>10, <1>11, <2>1, <4>1, <4>3, <5>1 DEF BillOfPage
        <4>4. CASE c # b
          BY <1>1, <1>10, <1>11, <4>1, <4>4 DEF BillOfPage
        <4>5. QED
          BY <4>2, <4>3, <4>4
      <3>3. (\A c \in Bills \ Exists : past[c].claims = 0)'
        BY <1>2, <1>11, <1>12, <2>1 DEF PageRows
      <3>4. (\A c \in Exists : BillOfPage(c))'
        BY <1>12, <3>2
      <3>5. QED
        BY <3>1, <3>3, <3>4 DEF PageRows
    <2>4. NamedVendors' = NamedVendors /\ VendorsInOrder'
      <3>1. t.rename.vendor # 0 => t.rename.vendor \in NamedVendors /\ t.rename.name # None
        BY <1>1, <2>1 DEF Compared
      <3>2. \A v \in Vendors : v # 0
        BY DEF Vendors
      <3>3. NamedVendors' = NamedVendors
        BY <1>11, <3>1, <3>2 DEF NamedVendors
      <3>4. QED
        BY <2>1, <3>3 DEF BillRows, VendorsInOrder
    <2>5. (\A c \in Exists : bills[c].vendor \in NamedVendors)'
      BY <1>5, <1>11, <1>12, <2>1, <2>4 DEF BillRows, Exists
    <2>6. ASSUME NEW c \in Bills \ {b}, Moving(new), Moving(bills[c]),
                 Alike(new, bills[c]) \/ Alike(bills[c], new)
          PROVE  p.cleared \/ past[c].cleared
      <3>1. /\ bills[c].vendor = bills[b].vendor /\ bills[c].doc = new.doc
            /\ bills[c].total = new.total /\ new.doc # None
        BY <1>5, <2>6 DEF Alike
      <3>2. \/ t.op = "release_hold"
            \/ Moving(bills[b]) /\ new.doc = bills[b].doc /\ new.total = bills[b].total
            \/ Unlike(new, b)
        BY <1>1, <2>1, <2>6 DEF Compared, new
      <3>3. CASE t.op = "release_hold"
        BY <1>7, <1>14, <3>3
      <3>4. CASE Unlike(new, b)
        BY <2>6, <3>4 DEF Unlike, Alike
      <3>5. CASE Moving(bills[b]) /\ new.doc = bills[b].doc /\ new.total = bills[b].total
        <4>1. Alike(bills[b], bills[c])
          BY <3>1, <3>5 DEF Alike
        <4>2. past[b].cleared \/ past[c].cleared
          BY <1>2, <2>1, <2>6, <3>5, <4>1 DEF BillRows, NoneAlike
        <4>3. QED
          BY <1>7, <1>14, <4>2
      <3>6. QED
        BY <3>2, <3>3, <3>4, <3>5
    <2>7. NoneAlike'
      <3>1. ASSUME NEW d \in Bills, NEW c \in Bills, d # c,
                   Moving(bills'[d]), Moving(bills'[c]), Alike(bills'[d], bills'[c])
            PROVE  past'[d].cleared \/ past'[c].cleared
        <4>1. CASE d = b
          BY <1>11, <2>6, <3>1, <4>1
        <4>2. CASE c = b
          BY <1>11, <2>6, <3>1, <4>2
        <4>3. CASE d # b /\ c # b
          BY <1>11, <2>1, <3>1, <4>3 DEF BillRows, NoneAlike
        <4>4. QED
          BY <4>1, <4>2, <4>3
      <3>2. QED
        BY <3>1 DEF NoneAlike
    <2>8. QED
      BY <2>2, <2>3, <2>4, <2>5, <2>7 DEF BillRows
  <1>15. QED
    BY <1>1, <1>6, <1>10, <1>13, <1>14, CommitKeeps

-----------------------------------------------------------------------------

LEMMA AInvStep ==
  ASSUME AInv, [Next]_vars
  PROVE  AInv'
  <1>0. SInv'
    BY SInvStep DEF AInv
  <1>1. CASE UNCHANGED vars
    <2>1. UNCHANGED <<world, intakes, bills, vendors, past>> /\ txn' = txn
      BY <1>1 DEF vars
    <2>2. /\ intakes' = intakes /\ bills' = bills /\ vendors' = vendors /\ past' = past
      BY <2>1
    <2>3. /\ Captured' = Captured /\ OpenRows' = OpenRows
          /\ NamedVendors' = NamedVendors /\ NextIntake' = NextIntake
      BY <2>2 DEF Captured, OpenRows, NamedVendors, NextIntake
    <2>4. ASSUME \A s \in Sessions : Typed(txn[s])
          PROVE  (\A s \in Sessions : Typed(txn[s]))'
      BY <2>1, <2>3, <2>4 DEF Typed
    <2>5. ASSUME \A s \in Sessions : Holds(txn[s])
          PROVE  (\A s \in Sessions : Holds(txn[s]))'
      <3>1. ASSUME NEW s \in Sessions
            PROVE  Holds(txn[s])'
        <4>1. Current(txn[s]) /\ Leaves(txn[s]) /\ Compared(txn[s])
          BY <2>5, <3>1 DEF Holds
        <4>2. Current(txn[s])'
          BY <2>1, <2>2, <2>3, <4>1 DEF Current, Mate, Twins
        <4>3. Leaves(txn[s])'
          BY <2>1, <2>2, <2>3, <4>1 DEF Leaves
        <4>4. Compared(txn[s])'
          BY <2>1, <2>2, <2>3, <4>1 DEF Compared, Unlike
        <4>5. QED
          BY <4>2, <4>3, <4>4 DEF Holds
      <3>2. QED
        BY <3>1
    <2>6. QED
      BY <1>0, <2>1, <2>4, <2>5, RowsStay DEF AInv
  <1>2. ASSUME NEW s \in Sessions,
               \E t : /\ txn' = [txn EXCEPT ![s] = t] /\ Typed(t) /\ (Serial => Holds(t))
                      /\ UNCHANGED <<world, intakes, bills, vendors, past>>
        PROVE  AInv'
    BY <1>0, <1>2, AskedKeeps
  <1>3. CASE QueueNext /\ UNCHANGED <<bills, vendors, past>>
    <2>1. ASSUME NEW s \in Sessions,
                 \E t : /\ txn' = [txn EXCEPT ![s] = t] /\ Typed(t) /\ (Serial => Holds(t))
                        /\ world' = world /\ intakes' = intakes
          PROVE  AInv'
      BY <1>2, <1>3, <2>1
    <2>2. ASSUME NEW s \in Sessions, NEW u \in Users, NEW r \in Readings,
                 BeginRecord(s, u, r) \/ BeginSuppress(s, u, r)
          PROVE  AInv'
      BY <2>1, <2>2, RecordHolds, SuppressHolds
    <2>3. ASSUME NEW s \in Sessions, NEW u \in Users, NEW i \in Intakes, NEW to \in Queues,
                 BeginReroute(s, u, i, to)
          PROVE  AInv'
      BY <2>1, <2>3, RerouteHolds
    <2>4. ASSUME NEW s \in Sessions,
                 CommitRecord(s) \/ CommitUpgrade(s) \/ CommitReroute(s) \/ Abort(s)
          PROVE  AInv'
      BY <1>0, <1>3, <2>4, RecordKeeps, UpgradeKeeps, RerouteKeeps, AbortKeeps
    <2>5. ASSUME NEW s \in Sessions, NEW u \in Users, NEW i \in Intakes, SwitchIn(s, u, i)
          PROVE  AInv'
      BY <1>0, <1>3, <2>5, SwitchInKeeps
    <2>6. QED
      BY <1>3, <2>2, <2>3, <2>4, <2>5 DEF QueueNext
  <1>4. ASSUME NEW s \in Sessions, NEW u \in Users, NEW i \in Intakes, BeginFile(s, u, i)
        PROVE  AInv'
    BY <1>2, <1>4, FileHolds
  <1>5. ASSUME NEW s \in Sessions, CommitFile(s) \/ CommitUpdate(s)
        PROVE  AInv'
    BY <1>0, <1>5, FileStays, UpdateStays
  <1>6. ASSUME NEW s \in Sessions, NEW u \in Users, NEW b \in Exists,
               \/ \E n \in LineNos, category \in BOOLEAN : BeginCode(s, u, b, n, category)
               \/ \E doc \in DocEdits \cup {bills[b].doc}, total \in TotalEdits \cup {bills[b].total},
                    name \in NameEdits \cup {vendors[bills[b].vendor]} :
                    BeginEditHeader(s, u, b, doc, total, name)
               \/ BeginAddLine(s, u, b)
               \/ \E n \in LineNos : BeginRemoveLine(s, u, b, n)
               \/ BeginSubmit(s, u, b)
               \/ BeginApprove(s, u, b)
               \/ BeginReleaseHold(s, u, b)
               \/ BeginPay(s, u, b)
               \/ BeginUnapprove(s, u, b)
               \/ BeginSwitch(s, u, b)
               \/ BeginReject(s, u, b)
               \/ BeginPost(s, u, b)
        PROVE  AInv'
    <2>1. \E t : /\ txn' = [txn EXCEPT ![s] = t] /\ Typed(t) /\ (Serial => Holds(t))
                 /\ UNCHANGED <<world, intakes, bills, vendors, past>>
      BY <1>6, UpdateHolds
    <2>2. QED
      BY <1>2, <2>1
  <1>7. ASSUME NEW s \in Sessions, NEW u \in Users, NEW b \in Exists, SwitchBack(s, u, b)
        PROVE  AInv'
    BY <1>0, <1>7, SwitchBackKeeps
  <1>8. QED
    BY <1>1, <1>3, <1>4, <1>5, <1>6, <1>7 DEF Next, BillNext

LEMMA AInvInit ==
  ASSUME Init
  PROVE  AInv
  <1>1. /\ intakes = [i \in Intakes |-> NoIntake] /\ txn = [s \in Sessions |-> Idle]
        /\ bills = [b \in Bills |-> NoBill] /\ vendors = [v \in Vendors |-> None]
        /\ past = [b \in Bills |-> NoPast]
    BY DEF Init, QueueInit
  <1>2. /\ NoIntake.st = "absent" /\ IntakeRow(NoIntake)
    BY BoundsAreNat DEF NoIntake, IntakeRow, IntakeFields, Queues
  <1>3. NoBill.st = "absent" /\ BillRow(NoBill)
    BY BoundsAreNat DEF NoBill, BillRow, Status, LineStates
  <1>4. NoPast.claims = 0
    BY DEF NoPast
  <1>5. Captured = {} /\ Exists = {} /\ NamedVendors = {} /\ OpenRows = {}
    BY <1>1, <1>2, <1>3 DEF Captured, Exists, NamedVendors, OpenRows
  <1>6. CapturedInOrder /\ VendorsInOrder
    <2>1. {} = 1 .. 0
      OBVIOUS
    <2>2. QED
      BY <1>5, <2>1 DEF CapturedInOrder, VendorsInOrder
  <1>7. TypedRows
    BY <1>1, <1>2, <1>3, <1>6 DEF TypedRows
  <1>8. QueueRows
    BY <1>5 DEF QueueRows, OneImage, LinksJoin
  <1>9. PageRows
    BY <1>1, <1>4, <1>5 DEF PageRows
  <1>10. NoneAlike
    BY <1>1, <1>3 DEF NoneAlike, Moving, Live
  <1>11. BillRows
    BY <1>5, <1>6, <1>10 DEF BillRows
  <1>12. \A s \in Sessions : Typed(txn[s]) /\ Holds(txn[s])
    BY <1>1 DEF Typed, Holds, Current, Leaves, Compared, Idle, UpdateOps
  <1>13. QED
    BY <1>7, <1>8, <1>9, <1>11, <1>12, SInvInit DEF AInv

LEMMA AInvAlways == Spec => []AInv
  BY AInvInit, AInvStep, PTL DEF Spec

\* Whatever requests overlap, every variable has its type: the rows that a
\* session has read stay rows, and an update writes values of their columns.
THEOREM BillsTyped == Spec => []TypeOK
  <1>1. AInv => TypeOK
    BY DEF AInv, SInv, KInv, Shape, TypedRows, IntakeRow, BillRow, LineStates, TypeOK
  <1>2. QED
    BY <1>1, AInvAlways, PTL

\* While requests do not overlap, the later of two open rows with one image came
\* over from a claim, and a link joins a delivery order to a vendor invoice of
\* the same key (record_intake, _link_counterpart), whatever was rerouted, filed
\* and switched in between.
THEOREM QueueStaysSound == Spec => []QueueSound
  <1>1. AInv => QueueSound
    BY DEF AInv, QueueRows, OneImage, LinksJoin, Joined, QueueSound, OneRowPerImage, LinksPair
  <1>2. QED
    BY <1>1, AInvAlways, PTL

\* While requests do not overlap, a captured page is counted once: in one live
\* bill, in one claim, or in neither (create_from_intake, intake_reroute and
\* switch_to_expense); a page that is switched back from its claim has a new row.
THEOREM PagesCountedOnce == Spec => []PageCountedOnce
  <1>1. ASSUME AInv, Serial, NEW i \in Captured
        PROVE  LET own == {b \in Exists : bills[b].intake = i} IN
               /\ intakes[i].claims + Cardinality({b \in own : bills[b].st # "rejected"}) <= 1
               /\ \A b \in own : intakes[i].claims + past[b].claims <= 1
               /\ \A b \in own : past[b].claims > 0 => bills[b].st = "rejected"
    <2> DEFINE own == {b \in Exists : bills[b].intake = i}
               live == {b \in own : bills[b].st # "rejected"}
    <2>1. PageOnce(i) /\ \A b \in own : BillOfPage(b)
      BY <1>1 DEF AInv, PageRows
    <2>2. \A b, c \in own : b = c
      BY <1>1 DEF AInv, SInv, KInv, KeptByDatabase, BillPerPage
    <2>3. \A b \in own : /\ intakes[i].claims + past[b].claims <= 1
                         /\ past[b].claims > 0 => bills[b].st = "rejected"
      BY <2>1 DEF BillOfPage
    <2>4. intakes[i].claims + Cardinality(live) <= 1
      <3>1. CASE own = {}
        <4>1. live = {}
          BY <3>1
        <4>2. Cardinality(live) = 0
          BY <4>1, FS_EmptySet
        <4> HIDE DEF live
        <4>3. QED
          BY <2>1, <4>2 DEF PageOnce
      <3>2. CASE own # {}
        <4>1. PICK b \in own : own = {b}
          BY <2>2, <3>2
        <4>2. intakes[i].claims = 0
          BY <2>1, <4>1 DEF BillOfPage
        <4>3. live = {} \/ live = {b}
          BY <4>1
        <4>4. Cardinality(live) \in {0, 1}
          BY <4>3, FS_EmptySet, FS_Singleton
        <4> HIDE DEF live
        <4>5. QED
          BY <4>2, <4>4
      <3>3. QED
        BY <3>1, <3>2
    <2>5. QED
      BY <2>3, <2>4
  <1>2. AInv => PageCountedOnce
    BY <1>1 DEF PageCountedOnce
  <1>3. QED
    BY <1>2, AInvAlways, PTL

\* While requests do not overlap, two bills of one vendor with one number and
\* one amount are not both paid, unless a reviewer cleared the hold on one of
\* them (find_duplicate, in create_invoice and in the header correction).
THEOREM NoBillPaidTwice == Spec => []NoDoublePay
  <1>1. ASSUME AInv, Serial, NEW b \in Bills, NEW c \in Bills, b # c,
               bills[b].st = "paid", bills[c].st = "paid",
               bills[b].vendor = bills[c].vendor,
               bills[b].doc = bills[c].doc, bills[b].doc # None,
               bills[b].total = bills[c].total
        PROVE  past[b].cleared \/ past[c].cleared
    <2>1. Moving(bills[b]) /\ Moving(bills[c]) /\ Alike(bills[b], bills[c])
      BY <1>1 DEF Moving, Live, Status, Alike
    <2>2. NoneAlike
      BY <1>1 DEF AInv, BillRows
    <2>3. QED
      BY <1>1, <2>1, <2>2 DEF NoneAlike
  <1>2. AInv => NoDoublePay
    BY <1>1 DEF NoDoublePay
  <1>3. QED
    BY <1>2, AInvAlways, PTL
=============================================================================
