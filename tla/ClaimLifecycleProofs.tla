------------------------ MODULE ClaimLifecycleProofs ------------------------
(***************************************************************************)
(* What holds of ClaimLifecycle for every set of users, lines and pages,   *)
(* every policy, and however many requests overlap.                        *)
(***************************************************************************)
EXTENDS ClaimLifecycle, TLAPS, FiniteSetTheorems

Rows == [Lines -> Line]

-----------------------------------------------------------------------------
(* Types of the operators. *)

\* A sum over lines is a natural number, whatever the lines are.
LEMMA TotalType ==
  ASSUME NEW ls, NEW S \in SUBSET Lines
  PROVE  Total(ls, S) \in Nat
  <1> DEFINE U == S \X (1 .. MaxBase)
             T == {u \in U : ls[u[1]].base # NoBase /\ u[2] <= ls[u[1]].base}
  <1>1. IsFiniteSet(S)
    BY ConstantsAssumption, FS_Subset
  <1>2. IsFiniteSet(1 .. MaxBase)
    <2>1. 1 \in Int /\ MaxBase \in Int
      BY ConstantsAssumption
    <2>2. QED
      BY <2>1, FS_Interval
  <1>3. IsFiniteSet(U)
    BY <1>1, <1>2, FS_Product
  <1>4. T \in SUBSET U
    OBVIOUS
  <1>5. IsFiniteSet(T)
    BY <1>3, <1>4, FS_Subset
  <1>6. Cardinality(T) \in Nat
    BY <1>5, FS_CardinalityType
  <1>7. QED
    BY <1>6 DEF Total

\* Rolling up the totals writes the two totals and nothing else.
LEMMA RolledType ==
  ASSUME NEW c \in Claim, NEW ls
  PROVE  /\ Rolled(c, ls) \in Claim
         /\ Rolled(c, ls).status = c.status
         /\ Rolled(c, ls).created_by = c.created_by
         /\ Rolled(c, ls).approved_by = c.approved_by
  <1>1. Total(ls, Present(ls)) \in Nat
    BY TotalType DEF Present
  <1>2. Total(ls, Approved(ls) \cap OutOfPocket(ls)) \in Nat
    <2>1. Approved(ls) \cap OutOfPocket(ls) \in SUBSET Lines
      BY DEF Approved
    <2>2. QED
      BY <2>1, TotalType
  <1>3. QED
    BY <1>1, <1>2 DEF Rolled, Claim

\* An assignment to one column leaves a line a line.
LEMMA LineChanges ==
  ASSUME NEW ln \in Line
  PROVE  /\ \A b \in Base : [ln EXCEPT !.base = b] \in Line
         /\ [ln EXCEPT !.oop = ~@] \in Line
         /\ \A k \in Categories : [ln EXCEPT !.category = k] \in Line
         /\ [ln EXCEPT !.gl = ~@] \in Line
         /\ [ln EXCEPT !.centre = ~@] \in Line
         /\ \A st \in LineStatus : [ln EXCEPT !.st = st] \in Line
  <1>1. \A b \in Base : [ln EXCEPT !.base = b] \in Line
    BY DEF Line
  <1>2. [ln EXCEPT !.oop = ~@] \in Line
    BY DEF Line
  <1>3. \A k \in Categories : [ln EXCEPT !.category = k] \in Line
    BY DEF Line
  <1>4. [ln EXCEPT !.gl = ~@] \in Line
    BY DEF Line
  <1>5. [ln EXCEPT !.centre = ~@] \in Line
    BY DEF Line
  <1>6. \A st \in LineStatus : [ln EXCEPT !.st = st] \in Line
    BY DEF Line
  <1>7. QED
    BY <1>1, <1>2, <1>3, <1>4, <1>5, <1>6

LEMMA WithStatusType ==
  ASSUME NEW ls \in Rows, NEW st \in LineStatus
  PROVE  WithStatus(ls, st) \in Rows
  BY DEF WithStatus, Rows, Line, Present

\* The UPDATE of a claim row writes columns of their types, and only those that
\* differ.
LEMMA ClaimUpdateType ==
  ASSUME NEW old \in Claim, NEW new \in Claim
  PROVE  ClaimUpdate(old, new) \in ClaimWrite
  BY DEF ClaimUpdate, ClaimWrite, Claim, Dirty

LEMMA FlushClaimType ==
  ASSUME NEW now \in Claim, NEW w \in ClaimWrite
  PROVE  FlushClaim(now, w) \in Claim
  BY DEF FlushClaim, ClaimWrite, Claim, Column

LEMMA LineUpdateType ==
  ASSUME NEW old \in Line, NEW new \in Line
  PROVE  LineUpdate(old, new) \in LineWrite
  BY DEF LineUpdate, LineWrite, Line, Dirty

LEMMA FlushLineType ==
  ASSUME NEW now \in Line, NEW w \in LineWrite
  PROVE  FlushLine(now, w) \in Line
  BY DEF FlushLine, LineWrite, Line, Column

LEMMA NoLineType == NoLine \in Line
  BY ConstantsAssumption DEF NoLine, Line, LineStatus, Base

\* An unlocked request that means to write well-typed rows leaves a well-typed
\* transaction.
LEMMA StartType ==
  ASSUME TypeOK, NEW s \in Sessions, NEW op \in Unlocked, NEW c \in Claim, NEW ls \in Rows,
         Start(s, op, c, ls)
  PROVE  TypeOK'
  <1> DEFINE t == [op  |-> op, header |-> ClaimUpdate(claim, c),
                   sql |-> [l \in Lines |-> Statement(op, lines[l], ls[l])],
                   rows |-> [l \in Lines |-> LineUpdate(lines[l], ls[l])],
                   known |-> IF Present(ls) \subseteq Present(lines) THEN Lines ELSE Present(lines)]
  <1>1. ClaimUpdate(claim, c) \in ClaimWrite
    BY ClaimUpdateType DEF TypeOK
  <1>2. [l \in Lines |-> LineUpdate(lines[l], ls[l])] \in [Lines -> LineWrite]
    BY LineUpdateType DEF TypeOK, Rows
  <1>3. [l \in Lines |-> Statement(op, lines[l], ls[l])]
          \in [Lines -> {"none", "insert", "update", "delete"}]
    BY DEF Statement
  <1>4. (IF Present(ls) \subseteq Present(lines) THEN Lines ELSE Present(lines)) \in SUBSET Lines
    BY DEF Present
  <1>5. t \in Txn
    BY <1>1, <1>2, <1>3, <1>4 DEF Txn
  <1>6. txn' = [txn EXCEPT ![s] = t]
    BY DEF Start
  <1>7. txn' \in [Sessions -> Txn]
    BY <1>5, <1>6 DEF TypeOK
  <1>8. UNCHANGED <<claim, lines, holding, handoffs, batches, payments>>
    BY DEF Start
  <1>9. QED
    BY <1>7, <1>8 DEF TypeOK

-----------------------------------------------------------------------------
(* Type correctness. *)

LEMMA InitType == Init => TypeOK
  <1> SUFFICES ASSUME Init PROVE TypeOK
    OBVIOUS
  <1>1. claim \in Claim
    BY DEF Init, NoClaim, Claim, Status
  <1>2. lines \in [Lines -> Line]
    BY NoLineType DEF Init
  <1>3. txn \in [Sessions -> Txn]
    BY DEF Init, Txn
  <1>4. payments \in Seq(Users)
    BY DEF Init
  <1>5. QED
    BY <1>1, <1>2, <1>3, <1>4 DEF Init, TypeOK

\* The rows that capture and attach insert.
LEMMA NewLineTypes ==
  /\ \A P \in (SUBSET Pages) \ {{}}, oop \in BOOLEAN : PageLine(P, oop) \in Line
  /\ \A b \in 1 .. MaxBase : Trip(b) \in Line
  /\ \A d \in Intake, base \in Base, category \in Categories : LineOf(d, base, category) \in Line
  /\ \A ln \in Line : IntakeOf(ln) \in Intake
  <1>1. ASSUME NEW P \in (SUBSET Pages) \ {{}}, NEW oop \in BOOLEAN
        PROVE  PageLine(P, oop) \in Line
    <2>1. (CHOOSE p \in P : TRUE) \in Pages
      OBVIOUS
    <2>2. Reads[CHOOSE p \in P : TRUE] \in [base : Base, category : Categories]
      BY <2>1, ConstantsAssumption
    <2>3. QED
      BY <2>2 DEF PageLine, Line, LineStatus
  <1>2. ASSUME NEW b \in 1 .. MaxBase PROVE Trip(b) \in Line
    BY ConstantsAssumption DEF Trip, Line, LineStatus, Base
  <1>3. ASSUME NEW d \in Intake, NEW base \in Base, NEW category \in Categories
        PROVE  LineOf(d, base, category) \in Line
    BY DEF LineOf, Line, LineStatus, Intake
  <1>4. ASSUME NEW ln \in Line PROVE IntakeOf(ln) \in Intake
    BY DEF IntakeOf, Line, Intake
  <1>5. QED
    BY <1>1, <1>2, <1>3, <1>4

\* The line that an attached intake becomes.
LEMMA Attached ==
  ASSUME NEW s \in Sessions, Attach(s)
  PROVE  \E l \in Unused, base \in Base, category \in Categories :
           /\ lines' = [lines EXCEPT ![l] = LineOf(txn[s].intake, base, category)]
           /\ claim' = Rolled(claim, lines')
  <1> DEFINE B == IF txn[s].intake.base = 0 THEN {0} ELSE Base
  <1>1. B \subseteq Base
    BY ConstantsAssumption DEF Base
  <1>2. \E l \in Unused, category \in Categories : \E base \in B :
           /\ lines' = [lines EXCEPT ![l] = LineOf(txn[s].intake, base, category)]
           /\ claim' = Rolled(claim, lines')
    BY DEF Attach
  <1> HIDE DEF B
  <1>3. QED
    BY <1>1, <1>2

LEMMA NewClaimType ==
  ASSUME NEW ls, NEW u \in Users \cup {None}, NEW st \in Status,
         NEW attested \in BOOLEAN, NEW costed \in BOOLEAN
  PROVE  /\ NewClaim(ls, u, st, attested, costed) \in Claim
         /\ NewClaim(ls, u, st, attested, costed).status = st
  <1> DEFINE c == [NoClaim EXCEPT !.status     = st,
                         !.created_by = u,
                         !.costed     = costed,
                         !.attested   = attested /\ OutOfPocket(ls) # {},
                         !.declared   = IF attested /\ OutOfPocket(ls) # {}
                                          THEN Present(ls) ELSE {}]
  <1>1. (attested /\ OutOfPocket(ls) # {}) \in BOOLEAN
    OBVIOUS
  <1>2. (IF attested /\ OutOfPocket(ls) # {} THEN Present(ls) ELSE {}) \in SUBSET Lines
    BY DEF Present
  <1>3. c \in Claim /\ c.status = st
    <2>1. NoClaim \in Claim
      BY DEF NoClaim, Claim, Status
    <2>2. QED
      BY <1>1, <1>2, <2>1 DEF Claim
  <1>4. QED
    BY <1>3, RolledType DEF NewClaim

\* Every request leaves its rows, or its transaction, well typed.
LEMMA CaptureType ==
  ASSUME TypeOK, NEW s \in Sessions, NEW u \in Users \cup {None},
         CapturePages(s, u) \/ CaptureTrip(s, u)
  PROVE  TypeOK' /\ claim'.status \in {"submitted", "in_review"}
  <1>1. txn' = txn /\ UNCHANGED <<handoffs, batches, payments>>
    BY DEF CapturePages, CaptureTrip, Locked
  <1>2. CASE CapturePages(s, u)
    <2>1. PICK L \in (SUBSET Lines) \ {{}} : \E doc \in [L -> (SUBSET Pages) \ {{}}] :
          \E oop, attested \in BOOLEAN, costed \in EventChoice :
            /\ lines' = [l \in Lines |-> IF l \in L THEN PageLine(doc[l], oop) ELSE NoLine]
            /\ claim' = NewClaim(lines', u, IF SubmitterVerification THEN "submitted" ELSE "in_review",
                                 attested, costed)
            /\ holding' = {IntakeOf(PageLine({p}, TRUE)) : p \in Pages \ (UNION Range(doc))}
      BY <1>2, ZenonT(30) DEF CapturePages
    <2>2. PICK doc \in [L -> (SUBSET Pages) \ {{}}], oop \in BOOLEAN, attested \in BOOLEAN,
               costed \in EventChoice :
            /\ lines' = [l \in Lines |-> IF l \in L THEN PageLine(doc[l], oop) ELSE NoLine]
            /\ claim' = NewClaim(lines', u, IF SubmitterVerification THEN "submitted" ELSE "in_review",
                                 attested, costed)
            /\ holding' = {IntakeOf(PageLine({p}, TRUE)) : p \in Pages \ (UNION Range(doc))}
      BY <2>1
    <2>3. lines' \in [Lines -> Line]
      BY <2>2, NewLineTypes, NoLineType
    <2>4. (IF SubmitterVerification THEN "submitted" ELSE "in_review") \in Status
      BY DEF Status
    <2>5. costed \in BOOLEAN
      BY ConstantsAssumption DEF EventChoice
    <2>6. claim' \in Claim /\ claim'.status \in {"submitted", "in_review"}
      BY <2>2, <2>4, <2>5, NewClaimType
    <2>7. holding' \subseteq Intake
      <3>1. \A p \in Pages : {p} \in (SUBSET Pages) \ {{}}
        OBVIOUS
      <3>2. \A p \in Pages : IntakeOf(PageLine({p}, TRUE)) \in Intake
        BY <3>1, NewLineTypes
      <3>3. QED
        BY <2>2, <3>2
    <2>8. QED
      BY <1>1, <2>3, <2>6, <2>7 DEF TypeOK
  <1>3. CASE CaptureTrip(s, u)
    <2>1. PICK l \in Lines, b \in 1 .. MaxBase, costed \in EventChoice :
            /\ lines' = [lines EXCEPT ![l] = Trip(b)]
            /\ claim' = NewClaim(lines', u, "in_review", TRUE, costed)
            /\ holding' = holding
      BY <1>3 DEF CaptureTrip
    <2>2. lines' \in [Lines -> Line]
      BY <2>1, NewLineTypes DEF TypeOK
    <2>3. costed \in BOOLEAN /\ "in_review" \in Status
      BY ConstantsAssumption DEF EventChoice, Status
    <2>4. claim' \in Claim /\ claim'.status = "in_review"
      BY <2>1, <2>3, NewClaimType
    <2>5. QED
      BY <1>1, <2>1, <2>2, <2>4 DEF TypeOK
  <1>4. QED
    BY <1>2, <1>3

LEMMA LockedType ==
  ASSUME TypeOK, NEW s \in Sessions, NEW u \in Users,
         \/ ConfirmContent(s, u) \/ SwitchToVendorBill(s, u) \/ Approve(s, u)
         \/ Decide(s, u) \/ Attest(s, u) \/ Release(s, u) \/ Reverse(s, u) \/ MarkPaid(s, u)
  PROVE  TypeOK'
  <1> USE DEF TypeOK
  <1>1. txn' = txn
    BY DEF ConfirmContent, SwitchToVendorBill, Approve, Decide, Attest, Release, Reverse,
           MarkPaid, Locked
  <1>2. CASE ConfirmContent(s, u)
    BY <1>1, <1>2 DEF ConfirmContent, Claim, Status
  <1>3. CASE SwitchToVendorBill(s, u)
    <2>1. PICK l \in Present(lines) :
            /\ holding' = holding \cup {IntakeOf(lines[l])}
            /\ lines' = [lines EXCEPT ![l] = NoLine]
            /\ claim' = [Rolled(claim, lines') EXCEPT
                           !.status   = IF Present(lines') = {} THEN "rejected" ELSE @,
                           !.declared = @ \ {l}]
      BY <1>3 DEF SwitchToVendorBill
    <2>2. lines' \in [Lines -> Line]
      BY <2>1, NoLineType
    <2>3. holding' \subseteq Intake
      BY <2>1, NewLineTypes DEF Present
    <2>4. claim' \in Claim
      <3> DEFINE c == Rolled(claim, lines')
      <3>1. c \in Claim
        BY RolledType
      <3>2. claim' = [c EXCEPT !.status   = IF Present(lines') = {} THEN "rejected" ELSE @,
                               !.declared = @ \ {l}]
        BY <2>1
      <3> HIDE DEF c
      <3>3. QED
        BY <3>1, <3>2 DEF Claim, Status
    <2>5. UNCHANGED <<handoffs, batches, payments>>
      BY <1>3 DEF SwitchToVendorBill
    <2>6. QED
      BY <1>1, <2>2, <2>3, <2>4, <2>5
  <1>4. CASE Approve(s, u)
    <2>1. lines' \in [Lines -> Line]
      BY <1>4, WithStatusType DEF Approve, Rows, LineStatus
    <2>2. [claim EXCEPT !.status = "approved", !.approved_by = u] \in Claim
      BY DEF Claim, Status
    <2>3. claim' \in Claim
      BY <1>4, <2>2, RolledType DEF Approve
    <2>4. QED
      BY <1>1, <1>4, <2>1, <2>3 DEF Approve
  <1>5. CASE Decide(s, u)
    <2>1. lines' \in [Lines -> Line]
      <3>1. PICK D \in SUBSET Present(lines) : \E decision \in [D -> {"approved", "queried", "rejected"}] :
              lines' = [l \in Lines |->
                          IF l \in D THEN [lines[l] EXCEPT !.st = decision[l]] ELSE lines[l]]
        BY <1>5 DEF Decide
      <3>2. PICK decision \in [D -> {"approved", "queried", "rejected"}] :
              lines' = [l \in Lines |->
                          IF l \in D THEN [lines[l] EXCEPT !.st = decision[l]] ELSE lines[l]]
        BY <3>1
      <3>3. ASSUME NEW l \in D PROVE [lines[l] EXCEPT !.st = decision[l]] \in Line
        <4>1. lines[l] \in Line /\ decision[l] \in LineStatus
          BY DEF LineStatus, Present
        <4>2. QED
          BY <4>1, LineChanges
      <3>4. QED
        BY <3>2, <3>3
    <2>2. Outcome(lines') \in Status
      BY DEF Outcome, Status
    <2>3. [claim EXCEPT !.status      = Outcome(lines'),
                        !.approved_by = IF Outcome(lines') \in Signed THEN u ELSE @] \in Claim
      BY <2>2 DEF Claim
    <2>4. claim' \in Claim
      BY <1>5, <2>3, RolledType DEF Decide
    <2>5. QED
      BY <1>1, <1>5, <2>1, <2>4 DEF Decide
  <1>6. CASE Attest(s, u)
    <2>1. Present(lines) \in SUBSET Lines
      BY DEF Present
    <2>2. QED
      BY <1>1, <1>6, <2>1 DEF Attest, Claim
  <1>7. \A S \in SUBSET Lines, dir \in {"forward", "reversal"} :
          /\ {[line |-> l, dir |-> dir, base |-> lines[l].base] : l \in S} \subseteq Handoff
          /\ [dir |-> dir, of |-> Amounts(S)]
               \in [dir : {"forward", "reversal"}, of : SUBSET (Lines \X Base)]
    BY DEF Handoff, Line, Amounts
  <1>8. Relevant(lines) \in SUBSET Lines
    BY DEF Relevant, Approved
  <1>9. CASE Release(s, u)
    <2>1. handoffs' \subseteq Handoff
      BY <1>7, <1>8, <1>9 DEF Release
    <2>2. batches' \subseteq [dir : {"forward", "reversal"}, of : SUBSET (Lines \X Base)]
      BY <1>7, <1>8, <1>9 DEF Release
    <2>3. claim' \in Claim
      BY <1>9 DEF Release, Claim, Status
    <2>4. QED
      BY <1>1, <1>9, <2>1, <2>2, <2>3 DEF Release
  <1>10. CASE Reverse(s, u)
    <2>1. handoffs' \subseteq Handoff
      BY <1>7, <1>8, <1>10 DEF Reverse
    <2>2. batches' \subseteq [dir : {"forward", "reversal"}, of : SUBSET (Lines \X Base)]
      BY <1>7, <1>8, <1>10 DEF Reverse
    <2>3. QED
      BY <1>1, <1>10, <2>1, <2>2 DEF Reverse
  <1>11. CASE MarkPaid(s, u)
    <2>1. claim' \in Claim
      BY <1>11 DEF MarkPaid, Claim, Status
    <2>2. payments' \in Seq(Users)
      BY <1>11 DEF MarkPaid
    <2>3. QED
      BY <1>1, <1>11, <2>1, <2>2 DEF MarkPaid
  <1>12. QED
    BY <1>2, <1>3, <1>4, <1>5, <1>6, <1>9, <1>10, <1>11

LEMMA SessionType ==
  ASSUME TypeOK, NEW s \in Sessions,
         (\E u \in Users : BeginAttach(s, u)) \/ Attach(s) \/ Commit(s) \/ Abort(s)
  PROVE  TypeOK'
  <1> USE DEF TypeOK
  <1>1. [txn EXCEPT ![s] = Idle] \in [Sessions -> Txn]
    BY DEF Txn
  <1>2. ASSUME NEW u \in Users, BeginAttach(s, u)
        PROVE  TypeOK'
    <2>1. PICK d \in holding : txn' = [txn EXCEPT ![s] = [op |-> "attach", intake |-> d]]
      BY <1>2 DEF BeginAttach
    <2>2. [op |-> "attach", intake |-> d] \in Txn
      BY DEF Txn
    <2>3. QED
      BY <1>2, <2>1, <2>2 DEF BeginAttach
  <1>3. CASE Attach(s)
    <2>1. txn[s].intake \in Intake
      BY <1>3 DEF Attach, Txn, Idle, Unlocked
    <2>2. PICK l \in Unused, base \in Base, category \in Categories :
            /\ lines' = [lines EXCEPT ![l] = LineOf(txn[s].intake, base, category)]
            /\ claim' = Rolled(claim, lines')
      BY <1>3, Attached
    <2>3. lines' \in [Lines -> Line]
      BY <2>1, <2>2, NewLineTypes
    <2>4. claim' \in Claim
      BY <2>2, RolledType
    <2>5. QED
      BY <1>1, <1>3, <2>3, <2>4 DEF Attach
  <1>4. CASE Commit(s)
    <2>1. txn[s].header \in ClaimWrite /\ txn[s].rows \in [Lines -> LineWrite]
      BY <1>4 DEF Commit, Txn, Idle, Unlocked
    <2>2. lines' \in [Lines -> Line]
      BY <1>4, <2>1, FlushLineType, NoLineType DEF Commit
    <2>3. FlushClaim(claim, txn[s].header) \in Claim
      BY <2>1, FlushClaimType
    <2>4. claim' \in Claim
      BY <1>4, <2>3 DEF Commit, Claim
    <2>5. QED
      BY <1>1, <1>4, <2>2, <2>4 DEF Commit
  <1>5. CASE Abort(s)
    BY <1>1, <1>5 DEF Abort
  <1>6. QED
    BY <1>2, <1>3, <1>4, <1>5

\* What an unlocked request means to do to the header: to leave status and
\* approver alone, to move the claim within review, or to reopen a signed claim.
Quiet(c) ==
  \/ c.status = claim.status /\ c.approved_by = claim.approved_by
  \/ c.status \in {"submitted", "in_review", "rejected"} /\ c.approved_by = claim.approved_by
  \/ claim.status \in Signed /\ c.status = "in_review"

\* Every unlocked request starts a transaction that writes well-typed rows.
LEMMA BeginWrites ==
  ASSUME TypeOK, NEW s \in Sessions, NEW u \in Users,
         \/ BeginEdit(s, u) \/ BeginEditHeader(s, u) \/ BeginAddMileage(s, u)
         \/ BeginMerge(s, u) \/ BeginSplit(s, u) \/ BeginSendBack(s, u)
         \/ BeginReject(s, u) \/ BeginUnapprove(s, u) \/ BeginResubmit(s, u)
  PROVE  \E op \in Unlocked, c \in Claim, ls \in Rows : Start(s, op, c, ls) /\ Quiet(c)
  <1> USE DEF TypeOK, Rows
  <1>0. "edit" \in Unlocked /\ "edit_header" \in Unlocked /\ "add_mileage" \in Unlocked
        /\ "merge" \in Unlocked /\ "split" \in Unlocked /\ "send_back" \in Unlocked
        /\ "reject" \in Unlocked /\ "unapprove" \in Unlocked /\ "resubmit" \in Unlocked
    BY DEF Unlocked
  <1>R. ASSUME NEW ls
        PROVE  Rolled(claim, ls) \in Claim /\ Quiet(Rolled(claim, ls))
    BY RolledType DEF Quiet
  <1>1. CASE BeginEdit(s, u)
    <2>1. PICK kind \in EditKinds, l \in Present(lines) : \E ln \in Edited(lines[l], kind) :
            Start(s, "edit", Rolled(claim, [lines EXCEPT ![l] = ln]), [lines EXCEPT ![l] = ln])
      BY <1>1 DEF BeginEdit
    <2>2. PICK ln \in Edited(lines[l], kind) :
            Start(s, "edit", Rolled(claim, [lines EXCEPT ![l] = ln]), [lines EXCEPT ![l] = ln])
      BY <2>1
    <2>3. lines[l] \in Line /\ kind \in AllKinds
      BY ConstantsAssumption DEF Present
    <2>4. ln \in Line
      <3>1. CASE kind \in {"amount", "rate", "rerate"}
        <4>1. PICK b \in Base : ln = [lines[l] EXCEPT !.base = b]
          BY <2>3, <3>1 DEF Edited, Line
        <4>2. QED
          BY <2>3, <4>1 DEF Line
      <3>2. CASE kind = "method"
        <4>1. ln = [lines[l] EXCEPT !.oop = ~@]
          BY <3>2 DEF Edited
        <4>2. QED
          BY <2>3, <4>1, LineChanges
      <3>3. CASE kind = "category"
        <4>1. PICK k \in Categories : ln = [lines[l] EXCEPT !.category = k]
          BY <3>3 DEF Edited
        <4>2. QED
          BY <2>3, <4>1, LineChanges
      <3>4. CASE kind = "gl"
        <4>1. ln = [lines[l] EXCEPT !.gl = ~@]
          BY <3>4 DEF Edited
        <4>2. QED
          BY <2>3, <4>1, LineChanges
      <3>5. CASE kind = "centre"
        <4>1. ln = [lines[l] EXCEPT !.centre = ~@]
          BY <3>5 DEF Edited
        <4>2. QED
          BY <2>3, <4>1, LineChanges
      <3>6. QED
        BY <2>3, <3>1, <3>2, <3>3, <3>4, <3>5 DEF AllKinds
    <2>5. [lines EXCEPT ![l] = ln] \in Rows
      BY <2>4
    <2>6. QED
      BY <1>0, <1>R, <2>2, <2>5
  <1>2. CASE BeginEditHeader(s, u)
    <2>1. PICK costed \in EventChoice \ {claim.costed} :
            Start(s, "edit_header", [claim EXCEPT !.costed = costed], lines)
      BY <1>2 DEF BeginEditHeader
    <2>2. costed \in BOOLEAN
      BY ConstantsAssumption DEF EventChoice
    <2>3. [claim EXCEPT !.costed = costed] \in Claim /\ Quiet([claim EXCEPT !.costed = costed])
      BY <2>2 DEF Claim, Quiet
    <2>4. QED
      BY <1>0, <2>1, <2>3
  <1>3. CASE BeginAddMileage(s, u)
    <2>1. PICK l \in Unused, b \in 1 .. MaxBase :
            Start(s, "add_mileage",
                  Rolled([claim EXCEPT !.attested = TRUE,
                                       !.declared = Present([lines EXCEPT ![l] = Trip(b)])],
                         [lines EXCEPT ![l] = Trip(b)]),
                  [lines EXCEPT ![l] = Trip(b)])
      BY <1>3 DEF BeginAddMileage
    <2> DEFINE ls == [lines EXCEPT ![l] = Trip(b)]
               c  == [claim EXCEPT !.attested = TRUE, !.declared = Present(ls)]
    <2>2. ls \in Rows
      BY NewLineTypes
    <2>3. Present(ls) \in SUBSET Lines
      BY DEF Present
    <2>4. c \in Claim /\ c.status = claim.status /\ c.approved_by = claim.approved_by
      BY <2>3 DEF Claim
    <2>5. Rolled(c, ls) \in Claim /\ Quiet(Rolled(c, ls))
      BY <2>4, RolledType DEF Quiet
    <2>6. QED
      BY <1>0, <2>1, <2>2, <2>5
  <1>4. CASE BeginMerge(s, u)
    <2>1. PICK M \in SUBSET {l \in Present(lines) : lines[l].pages # {}} : \E survivor \in M :
            LET ls == [l \in Lines |->
                         IF l = survivor
                           THEN [lines[l] EXCEPT !.pages = UNION {lines[m].pages : m \in M}]
                         ELSE IF l \in M THEN NoLine ELSE lines[l]]
            IN Start(s, "merge", Rolled(claim, ls), ls)
      BY <1>4 DEF BeginMerge
    <2>2. PICK survivor \in M :
            LET ls == [l \in Lines |->
                         IF l = survivor
                           THEN [lines[l] EXCEPT !.pages = UNION {lines[m].pages : m \in M}]
                         ELSE IF l \in M THEN NoLine ELSE lines[l]]
            IN Start(s, "merge", Rolled(claim, ls), ls)
      BY <2>1
    <2> DEFINE ls == [l \in Lines |->
                        IF l = survivor
                          THEN [lines[l] EXCEPT !.pages = UNION {lines[m].pages : m \in M}]
                        ELSE IF l \in M THEN NoLine ELSE lines[l]]
    <2>3. \A m \in M : lines[m].pages \in SUBSET Pages
      BY DEF Present, Line
    <2>4. UNION {lines[m].pages : m \in M} \in SUBSET Pages
      BY <2>3
    <2>5. survivor \in Lines
      BY DEF Present
    <2>6. [lines[survivor] EXCEPT !.pages = UNION {lines[m].pages : m \in M}] \in Line
      BY <2>4, <2>5 DEF Line
    <2>7. ls \in Rows
      BY <2>6, NoLineType
    <2>8. Start(s, "merge", Rolled(claim, ls), ls)
      BY <2>2
    <2>9. QED
      BY <1>0, <1>R, <2>7, <2>8
  <1>5. CASE BeginSplit(s, u)
    <2>1. PICK l \in Present(lines) : \E first \in lines[l].pages :
          \E slot \in [lines[l].pages \ {first} -> Unused] :
            LET rest == lines[l].pages \ {first}
                ls == [m \in Lines |->
                         IF m = l THEN [lines[l] EXCEPT !.pages = {first}]
                         ELSE IF m \in Range(slot)
                           THEN SplitOff(lines[l], CHOOSE p \in rest : slot[p] = m)
                         ELSE lines[m]]
            IN Start(s, "split", Rolled(claim, ls), ls)
      BY <1>5, ZenonT(30) DEF BeginSplit
    <2>2. PICK first \in lines[l].pages : \E slot \in [lines[l].pages \ {first} -> Unused] :
            LET rest == lines[l].pages \ {first}
                ls == [m \in Lines |->
                         IF m = l THEN [lines[l] EXCEPT !.pages = {first}]
                         ELSE IF m \in Range(slot)
                           THEN SplitOff(lines[l], CHOOSE p \in rest : slot[p] = m)
                         ELSE lines[m]]
            IN Start(s, "split", Rolled(claim, ls), ls)
      BY <2>1
    <2> DEFINE rest == lines[l].pages \ {first}
               split(slot) == [m \in Lines |->
                         IF m = l THEN [lines[l] EXCEPT !.pages = {first}]
                         ELSE IF m \in Range(slot)
                           THEN SplitOff(lines[l], CHOOSE p \in rest : slot[p] = m)
                         ELSE lines[m]]
    <2>3. PICK slot \in [rest -> Unused] : Start(s, "split", Rolled(claim, split(slot)), split(slot))
      BY <2>2
    <2>4. lines[l] \in Line /\ lines[l].pages \in SUBSET Pages
      BY DEF Present, Line
    <2>5. [lines[l] EXCEPT !.pages = {first}] \in Line
      BY <2>4 DEF Line
    <2>6. ASSUME NEW m \in Range(slot)
          PROVE  SplitOff(lines[l], CHOOSE p \in rest : slot[p] = m) \in Line
      <3>1. \E p \in rest : slot[p] = m
        BY DEF Range
      <3>2. (CHOOSE p \in rest : slot[p] = m) \in Pages
        BY <2>4, <3>1
      <3>3. QED
        BY <2>4, <3>2, ConstantsAssumption DEF SplitOff, Line, LineStatus, Base
    <2>7. split(slot) \in Rows
      BY <2>5, <2>6
    <2>8. QED
      BY <1>0, <1>R, <2>3, <2>7
  <1>6. CASE BeginSendBack(s, u)
    <2> DEFINE c == [claim EXCEPT !.status = "submitted"]
    <2>1. c \in Claim /\ Quiet(c)
      BY DEF Claim, Status, Quiet
    <2>2. WithStatus(lines, "pending") \in Rows
      BY WithStatusType DEF LineStatus
    <2>3. QED
      BY <1>0, <1>6, <2>1, <2>2 DEF BeginSendBack
  <1>7. CASE BeginReject(s, u)
    <2> DEFINE c == [claim EXCEPT !.status = "rejected"]
    <2>1. c \in Claim /\ Quiet(c)
      BY DEF Claim, Status, Quiet
    <2>2. WithStatus(lines, "rejected") \in Rows
      BY WithStatusType DEF LineStatus
    <2>3. QED
      BY <1>0, <1>7, <2>1, <2>2 DEF BeginReject
  <1>8. CASE BeginUnapprove(s, u)
    <2> DEFINE c  == [claim EXCEPT !.status = "in_review", !.approved_by = None]
               ls == WithStatus(lines, "pending")
    <2>1. c \in Claim /\ c.status = "in_review"
      BY DEF Claim, Status
    <2>2. ls \in Rows
      BY WithStatusType DEF LineStatus
    <2>3. claim.status \in Signed
      BY <1>8 DEF BeginUnapprove, Reopenable, Signed
    <2>4. Rolled(c, ls) \in Claim /\ Quiet(Rolled(c, ls))
      BY <2>1, <2>3, RolledType DEF Quiet
    <2>5. Start(s, "unapprove", Rolled(c, ls), ls)
      BY <1>8 DEF BeginUnapprove
    <2>6. QED
      BY <1>0, <2>2, <2>4, <2>5
  <1>9. CASE BeginResubmit(s, u)
    <2> DEFINE c == [claim EXCEPT !.status = "in_review"]
    <2>1. c \in Claim /\ Quiet(c)
      BY DEF Claim, Status, Quiet
    <2>2. QED
      BY <1>0, <1>9, <2>1 DEF BeginResubmit
  <1>10. QED
    BY <1>1, <1>2, <1>3, <1>4, <1>5, <1>6, <1>7, <1>8, <1>9

LEMMA TypeStep ==
  ASSUME TypeOK, [Next]_vars
  PROVE  TypeOK'
  <1>1. CASE UNCHANGED vars
    BY <1>1 DEF vars, TypeOK
  <1>2. CASE Next
    <2>1. PICK s \in Sessions :
            \/ \E u \in Users \cup {None} : CapturePages(s, u) \/ CaptureTrip(s, u)
            \/ \E u \in Users : Request(s, u)
            \/ Attach(s) \/ Commit(s) \/ Abort(s)
      BY <1>2 DEF Next
    <2>2. ASSUME NEW u \in Users \cup {None}, CapturePages(s, u) \/ CaptureTrip(s, u)
          PROVE  TypeOK'
      BY <2>2, CaptureType
    <2>3. ASSUME NEW u \in Users, Request(s, u)
          PROVE  TypeOK'
      <3>1. CASE BeginAttach(s, u)
        BY <3>1, SessionType
      <3>2. CASE \/ ConfirmContent(s, u) \/ SwitchToVendorBill(s, u) \/ Approve(s, u)
                 \/ Decide(s, u) \/ Attest(s, u) \/ Release(s, u) \/ Reverse(s, u)
                 \/ MarkPaid(s, u)
        BY <3>2, LockedType
      <3>3. CASE \/ BeginEdit(s, u) \/ BeginEditHeader(s, u) \/ BeginAddMileage(s, u)
                 \/ BeginMerge(s, u) \/ BeginSplit(s, u) \/ BeginSendBack(s, u)
                 \/ BeginReject(s, u) \/ BeginUnapprove(s, u) \/ BeginResubmit(s, u)
        BY <3>3, BeginWrites, StartType
      <3>4. QED
        BY <2>3, <3>1, <3>2, <3>3 DEF Request
    <2>4. CASE Attach(s) \/ Commit(s) \/ Abort(s)
      BY <2>4, SessionType
    <2>5. QED
      BY <2>1, <2>2, <2>3, <2>4
  <1>3. QED
    BY <1>1, <1>2

\* Every reachable state is well typed, the totals included: no request, however
\* stale what it read, writes a value that its column cannot hold.
THEOREM TypeCorrect == Spec => []TypeOK
  <1>1. Init => TypeOK
    BY InitType
  <1>2. TypeOK /\ [Next]_vars => TypeOK'
    BY TypeStep
  <1>3. QED
    BY <1>1, <1>2, PTL DEF Spec

-----------------------------------------------------------------------------
(* Separation of duties. *)

\* An UPDATE in flight signs nothing, and clears the approver only together with
\* the status.
QuietWrite(w) ==
  /\ w.status \in {Kept, "submitted", "in_review", "rejected"}
  /\ w.approved_by # Kept => w.status # Kept

\* The invariant that makes separation of duties inductive.
DutiesInv ==
  /\ SeparationOfDuties
  /\ claim.status = "none" => payments = <<>>
  /\ \A s \in Sessions : txn[s].op \in Unlocked => QuietWrite(txn[s].header)

LEMMA QuietUpdate ==
  ASSUME TypeOK, NEW c \in Claim, Quiet(c)
  PROVE  QuietWrite(ClaimUpdate(claim, c))
  BY ConstantsAssumption
     DEF TypeOK, Quiet, QuietWrite, ClaimUpdate, Dirty, Claim, Status, Signed

LEMMA DutiesStep ==
  ASSUME TypeOK, TypeOK', DutiesInv, [Next]_vars
  PROVE  DutiesInv'
  <1> USE DEF DutiesInv, SeparationOfDuties, Signed, Left
  <1>1. CASE UNCHANGED vars
    BY <1>1 DEF vars
  <1>2. ASSUME NEW s \in Sessions, NEW u \in Users \cup {None},
               CapturePages(s, u) \/ CaptureTrip(s, u)
        PROVE  DutiesInv'
    <2>1. claim.status = "none" /\ txn' = txn /\ payments' = payments
      BY <1>2 DEF CapturePages, CaptureTrip, Locked
    <2>2. payments' = <<>> /\ Range(payments') = {}
      BY <2>1 DEF Range
    <2>3. claim'.status \in {"submitted", "in_review"}
      BY <1>2, CaptureType
    <2>4. QED
      BY <2>1, <2>2, <2>3
  <1>3. ASSUME NEW s \in Sessions, NEW u \in Users, Request(s, u)
        PROVE  DutiesInv'
    <2>1. CASE ConfirmContent(s, u)
      BY <2>1 DEF ConfirmContent, Locked, TypeOK, Claim
    <2>2. CASE BeginAttach(s, u)
      <3>1. PICK d \in holding : txn' = [txn EXCEPT ![s] = [op |-> "attach", intake |-> d]]
        BY <2>2 DEF BeginAttach
      <3>2. \A r \in Sessions : txn'[r].op \in Unlocked => r # s /\ txn'[r] = txn[r]
        BY <3>1 DEF TypeOK, Unlocked
      <3>3. QED
        BY <2>2, <3>2 DEF BeginAttach
    <2>3. CASE SwitchToVendorBill(s, u)
      <3>1. claim.status \in Open /\ txn' = txn /\ payments' = payments
        BY <2>3 DEF SwitchToVendorBill, Locked
      <3>2. PICK l \in Lines :
              claim' = [Rolled(claim, lines') EXCEPT
                          !.status   = IF Present(lines') = {} THEN "rejected" ELSE @,
                          !.declared = @ \ {l}]
        BY <2>3 DEF SwitchToVendorBill, Present
      <3> DEFINE c == Rolled(claim, lines')
      <3>3. c \in Claim /\ c.status = claim.status /\ c.created_by = claim.created_by
        BY RolledType DEF TypeOK
      <3>4. claim' = [c EXCEPT !.status   = IF Present(lines') = {} THEN "rejected" ELSE @,
                               !.declared = @ \ {l}]
        BY <3>2
      <3> HIDE DEF c
      <3>5. claim'.status \in Open \cup {"rejected"} /\ claim'.created_by = claim.created_by
        BY <3>1, <3>3, <3>4 DEF Claim
      <3>6. QED
        BY <3>1, <3>5 DEF Open
    <2>4. CASE Approve(s, u)
      <3> DEFINE c == [claim EXCEPT !.status = "approved", !.approved_by = u]
      <3>1. c \in Claim /\ c.approved_by = u /\ c.created_by = claim.created_by /\ c.status = "approved"
        BY DEF TypeOK, Claim, Status
      <3>2. claim' = Rolled(c, lines') /\ txn' = txn /\ payments' = payments /\ MayDecide(claim, u)
        BY <2>4 DEF Approve, Locked
      <3>3. claim'.status = "approved" /\ claim'.approved_by = u
            /\ claim'.created_by = claim.created_by
        BY <3>1, <3>2, RolledType
      <3>4. QED
        BY <3>2, <3>3, ConstantsAssumption DEF MayDecide
    <2>5. CASE Decide(s, u)
      <3> DEFINE c == [claim EXCEPT !.status      = Outcome(lines'),
                         !.approved_by = IF Outcome(lines') \in Signed THEN u ELSE @]
      <3>1. Outcome(lines') \in {"sent_back", "rejected", "partially_approved", "approved"}
        BY DEF Outcome
      <3>2. c \in Claim /\ c.created_by = claim.created_by /\ c.status = Outcome(lines')
            /\ (c.status \in Signed => c.approved_by = u)
        <4>1. claim \in Claim /\ Outcome(lines') \in Status
          BY <3>1 DEF TypeOK, Status
        <4>2. QED
          BY <4>1 DEF Claim
      <3>3. claim' = Rolled(c, lines') /\ txn' = txn /\ payments' = payments /\ MayDecide(claim, u)
        BY <2>5 DEF Decide, Locked
      <3> HIDE DEF c
      <3>4. claim'.status = Outcome(lines') /\ claim'.created_by = claim.created_by
            /\ (claim'.status \in Signed => claim'.approved_by = u)
        BY <3>2, <3>3, RolledType
      <3>5. QED
        BY <3>1, <3>3, <3>4, ConstantsAssumption DEF MayDecide
    <2>6. CASE Attest(s, u)
      BY <2>6 DEF Attest, Locked, TypeOK, Claim
    <2>7. CASE Release(s, u)
      BY <2>7 DEF Release, Locked, TypeOK, Claim
    <2>8. CASE Reverse(s, u)
      BY <2>8 DEF Reverse, Locked
    <2>9. CASE MarkPaid(s, u)
      <3>1. claim.status = "released" /\ claim' = [claim EXCEPT !.status = "paid"]
            /\ payments' = Append(payments, u) /\ txn' = txn
            /\ u \notin Viewers /\ u # claim.created_by
        BY <2>9 DEF MarkPaid, Locked, Payable, Writer
      <3>2. Range(payments') = Range(payments) \cup {u}
        BY <3>1 DEF TypeOK, Range
      <3>3. claim'.status = "paid" /\ claim'.approved_by = claim.approved_by
            /\ claim'.created_by = claim.created_by
        BY <3>1 DEF TypeOK, Claim
      <3>4. QED
        BY <3>1, <3>2, <3>3
    <2>10. CASE \/ BeginEdit(s, u) \/ BeginEditHeader(s, u) \/ BeginAddMileage(s, u)
                \/ BeginMerge(s, u) \/ BeginSplit(s, u) \/ BeginSendBack(s, u)
                \/ BeginReject(s, u) \/ BeginUnapprove(s, u) \/ BeginResubmit(s, u)
      <3>1. PICK op \in Unlocked, c \in Claim, ls \in Rows : Start(s, op, c, ls) /\ Quiet(c)
        BY <2>10, BeginWrites
      <3>2. txn'[s].header = ClaimUpdate(claim, c) /\ UNCHANGED <<claim, payments>>
            /\ \A r \in Sessions \ {s} : txn'[r] = txn[r]
        BY <3>1 DEF Start, TypeOK
      <3>3. QuietWrite(txn'[s].header)
        BY <3>1, <3>2, QuietUpdate
      <3>4. QED
        BY <3>2, <3>3
    <2>11. QED
      BY <1>3, <2>1, <2>2, <2>3, <2>4, <2>5, <2>6, <2>7, <2>8, <2>9, <2>10 DEF Request
  <1>4. ASSUME NEW s \in Sessions, Attach(s) \/ Commit(s) \/ Abort(s)
        PROVE  DutiesInv'
    <2>1. payments' = payments
          /\ \A r \in Sessions : txn'[r].op \in Unlocked => txn'[r] = txn[r]
      BY <1>4 DEF Attach, Commit, Abort, TypeOK, Idle, Unlocked
    <2>2. CASE Attach(s)
      <3>1. \E l \in Unused : claim' = Rolled(claim, lines')
        BY <2>2 DEF Attach
      <3>2. claim'.status = claim.status /\ claim'.approved_by = claim.approved_by
            /\ claim'.created_by = claim.created_by
        BY <3>1, RolledType DEF TypeOK
      <3>3. QED
        BY <2>1, <3>2
    <2>3. CASE Commit(s)
      <3> DEFINE w == txn[s].header
      <3>1. QuietWrite(w)
        BY <2>3 DEF Commit
      <3>2. claim' = [FlushClaim(claim, w) EXCEPT !.declared = @ \cap Present(lines')]
        BY <2>3 DEF Commit
      <3>3. claim'.status = Column(claim.status, w.status)
            /\ claim'.approved_by = Column(claim.approved_by, w.approved_by)
            /\ claim'.created_by = claim.created_by
        BY <3>2 DEF FlushClaim
      <3>4. QED
        BY <2>1, <3>1, <3>3 DEF QuietWrite, Column
    <2>4. CASE Abort(s)
      BY <2>1, <2>4 DEF Abort
    <2>5. QED
      BY <1>4, <2>2, <2>3, <2>4
  <1>5. QED
    BY <1>1, <1>2, <1>3, <1>4 DEF Next

\* The invariant holds along every behaviour; later theorems rest on it.
LEMMA DutiesInvariant == Spec => []DutiesInv
  <1>1. Init => DutiesInv
    BY DEF Init, DutiesInv, SeparationOfDuties, NoClaim, Signed, Left, Idle, Unlocked, Range
  <1>2. TypeOK /\ TypeOK' /\ DutiesInv /\ [Next]_vars => DutiesInv'
    BY DutiesStep
  <1>3. QED
    BY <1>1, <1>2, TypeCorrect, PTL DEF Spec

\* Whatever requests overlap, a signed-off claim names a signer who is neither
\* its maker nor a viewer, and so does every settlement.
THEOREM DutiesSeparated == Spec => []SeparationOfDuties
  <1>1. DutiesInv => SeparationOfDuties
    BY DEF DutiesInv
  <1>2. QED
    BY <1>1, DutiesInvariant, PTL

-----------------------------------------------------------------------------
(* Forwarding. *)

\* A line that a handoff references is never removed: no request deletes it and
\* none that is in flight means to write its absence.
ForwardInv ==
  /\ ForwardedOnce
  /\ claim.status = "none" => handoffs = {}
  /\ \A h \in handoffs : lines[h.line].st # "absent"
  /\ \A s \in Sessions : txn[s].op \in Unlocked =>
       \A l \in Lines : txn[s].rows[l].st = "absent" => txn[s].sql[l] = "delete"

LEMMA ForwardStep ==
  ASSUME TypeOK, TypeOK', DutiesInv, ForwardInv, [Next]_vars
  PROVE  ForwardInv'
  <1> USE DEF ForwardInv, ForwardedOnce
  <1>1. CASE UNCHANGED vars
    BY <1>1 DEF vars
  <1>2. ASSUME NEW s \in Sessions, NEW u \in Users \cup {None},
               CapturePages(s, u) \/ CaptureTrip(s, u)
        PROVE  ForwardInv'
    <2>1. claim.status = "none" /\ txn' = txn /\ handoffs' = handoffs
      BY <1>2 DEF CapturePages, CaptureTrip, Locked
    <2>2. handoffs' = {}
      BY <2>1
    <2>3. QED
      BY <2>1, <2>2
  <1>3. ASSUME NEW s \in Sessions, NEW u \in Users, Request(s, u)
        PROVE  ForwardInv'
    <2>1. CASE ConfirmContent(s, u)
      BY <2>1 DEF ConfirmContent, Locked, TypeOK, Claim
    <2>2. CASE BeginAttach(s, u)
      <3>1. PICK d \in holding : txn' = [txn EXCEPT ![s] = [op |-> "attach", intake |-> d]]
        BY <2>2 DEF BeginAttach
      <3>2. \A r \in Sessions : txn'[r].op \in Unlocked => r # s /\ txn'[r] = txn[r]
        BY <3>1 DEF TypeOK, Unlocked
      <3>3. QED
        BY <2>2, <3>2 DEF BeginAttach
    <2>3. CASE SwitchToVendorBill(s, u)
      <3>1. PICK l \in Lines :
              /\ Deletable(l)
              /\ lines' = [lines EXCEPT ![l] = NoLine]
              /\ claim' = [Rolled(claim, lines') EXCEPT
                             !.status   = IF Present(lines') = {} THEN "rejected" ELSE @,
                             !.declared = @ \ {l}]
        BY <2>3 DEF SwitchToVendorBill, Present
      <3>2. claim.status # "none" /\ txn' = txn /\ handoffs' = handoffs
        BY <2>3 DEF SwitchToVendorBill, Locked, Open
      <3>3. \A h \in handoffs : h.line \in Lines /\ h.line # l
        BY <3>1 DEF Deletable, TypeOK, Handoff
      <3>4. claim'.status # "none"
        <4>1. Rolled(claim, lines') \in Claim /\ Rolled(claim, lines').status = claim.status
          BY RolledType DEF TypeOK
        <4>2. QED
          BY <3>1, <3>2, <4>1 DEF Claim
      <3>5. QED
        BY <3>1, <3>2, <3>3, <3>4 DEF TypeOK
    <2>4. CASE Approve(s, u)
      <3> DEFINE c == [claim EXCEPT !.status = "approved", !.approved_by = u]
      <3>1. c \in Claim /\ c.status = "approved"
        BY DEF TypeOK, Claim, Status
      <3>2. claim' = Rolled(c, lines') /\ lines' = WithStatus(lines, "approved")
            /\ txn' = txn /\ handoffs' = handoffs
        BY <2>4 DEF Approve, Locked
      <3> HIDE DEF c
      <3>3. claim'.status = "approved"
        BY <3>1, <3>2, RolledType
      <3>4. \A l \in Lines : lines[l].st # "absent" => lines'[l].st # "absent"
        BY <3>2 DEF WithStatus, TypeOK, Line, Present
      <3>5. QED
        BY <3>2, <3>3, <3>4 DEF TypeOK, Handoff
    <2>5. CASE Decide(s, u)
      <3> DEFINE c == [claim EXCEPT !.status      = Outcome(lines'),
                         !.approved_by = IF Outcome(lines') \in Signed THEN u ELSE @]
      <3>1. Outcome(lines') \in {"sent_back", "rejected", "partially_approved", "approved"}
        BY DEF Outcome
      <3>2. c \in Claim /\ c.status # "none"
        <4>1. claim \in Claim
          BY DEF TypeOK
        <4>2. Outcome(lines') \in Status
          BY <3>1 DEF Status
        <4>3. (IF Outcome(lines') \in Signed THEN u ELSE claim.approved_by) \in Users \cup {None}
          BY <4>1 DEF Claim
        <4>4. c \in Claim /\ c.status = Outcome(lines')
          BY <4>1, <4>2, <4>3 DEF Claim
        <4>5. QED
          BY <3>1, <4>4
      <3>3. claim' = Rolled(c, lines') /\ txn' = txn /\ handoffs' = handoffs
        BY <2>5 DEF Decide, Locked
      <3> HIDE DEF c
      <3>4. claim'.status # "none"
        BY <3>2, <3>3, RolledType
      <3>5. PICK D \in SUBSET Present(lines) :
              \E decision \in [D -> {"approved", "queried", "rejected"}] :
                lines' = [l \in Lines |->
                            IF l \in D THEN [lines[l] EXCEPT !.st = decision[l]] ELSE lines[l]]
        BY <2>5 DEF Decide
      <3>6. PICK decision \in [D -> {"approved", "queried", "rejected"}] :
              lines' = [l \in Lines |->
                          IF l \in D THEN [lines[l] EXCEPT !.st = decision[l]] ELSE lines[l]]
        BY <3>5
      <3>7. ASSUME NEW l \in Lines, lines[l].st # "absent"
            PROVE  lines'[l].st # "absent"
        <4>1. lines[l] \in Line
          BY DEF TypeOK
        <4>2. CASE l \in D
          BY <3>6, <4>1, <4>2 DEF Line
        <4>3. CASE l \notin D
          BY <3>6, <3>7, <4>3
        <4>4. QED
          BY <4>2, <4>3
      <3>8. QED
        BY <3>3, <3>4, <3>7 DEF TypeOK, Handoff
    <2>6. CASE Attest(s, u)
      BY <2>6 DEF Attest, Locked, TypeOK, Claim
    <2>7. CASE Release(s, u)
      <3>1. handoffs' = handoffs \cup {[line |-> l, dir |-> "forward", base |-> lines[l].base] :
                                        l \in Relevant(lines)}
            /\ UNCHANGED <<lines, txn>> /\ claim' = [claim EXCEPT !.status = "released"]
            /\ ~Forwarded(lines)
        BY <2>7 DEF Release, Locked
      <3>2. \A h \in handoffs : h.dir # "forward"
        BY <3>1 DEF Forwarded, Present, TypeOK, Handoff
      <3>3. \A l \in Relevant(lines) : lines[l].st = "approved"
        BY DEF Relevant, Approved
      <3>4. claim'.status = "released"
        BY <3>1 DEF TypeOK, Claim
      <3>5. ForwardedOnce'
        BY <3>1, <3>2
      <3>6. \A h \in handoffs' : lines'[h.line].st # "absent"
        BY <3>1, <3>3
      <3>7. QED
        BY <3>1, <3>4, <3>5, <3>6
    <2>8. CASE Reverse(s, u)
      <3>1. handoffs' = handoffs \cup {[line |-> l, dir |-> "reversal", base |-> lines[l].base] :
                                        l \in Relevant(lines)}
            /\ UNCHANGED <<claim, lines, txn>> /\ claim.status = "released"
            /\ \A h \in handoffs : h.dir = "reversal" => h.line \notin Relevant(lines)
        BY <2>8 DEF Reverse, Locked
      <3>2. \A l \in Relevant(lines) : lines[l].st = "approved"
        BY DEF Relevant, Approved
      <3>3. ForwardedOnce'
        BY <3>1
      <3>4. \A h \in handoffs' : lines'[h.line].st # "absent"
        BY <3>1, <3>2
      <3>5. QED
        BY <3>1, <3>3, <3>4
    <2>9. CASE MarkPaid(s, u)
      BY <2>9 DEF MarkPaid, Locked, TypeOK, Claim
    <2>10. CASE \/ BeginEdit(s, u) \/ BeginEditHeader(s, u) \/ BeginAddMileage(s, u)
                \/ BeginMerge(s, u) \/ BeginSplit(s, u) \/ BeginSendBack(s, u)
                \/ BeginReject(s, u) \/ BeginUnapprove(s, u) \/ BeginResubmit(s, u)
      <3>1. PICK op \in Unlocked, c \in Claim, ls \in Rows : Start(s, op, c, ls)
        BY <2>10, BeginWrites
      <3>2. /\ UNCHANGED <<claim, lines, handoffs>>
            /\ \A r \in Sessions \ {s} : txn'[r] = txn[r]
            /\ txn'[s].rows = [l \in Lines |-> LineUpdate(lines[l], ls[l])]
            /\ txn'[s].sql = [l \in Lines |-> Statement(op, lines[l], ls[l])]
        BY <3>1 DEF Start, TypeOK
      <3>3. ASSUME NEW l \in Lines, txn'[s].rows[l].st = "absent"
            PROVE  txn'[s].sql[l] = "delete"
        <4>1. Dirty(lines[l].st, ls[l].st) = "absent"
          BY <3>2, <3>3 DEF LineUpdate
        <4>2. ls[l].st = "absent" /\ lines[l].st # "absent"
          BY <4>1, ConstantsAssumption DEF Dirty, LineStatus
        <4>3. Statement(op, lines[l], ls[l]) = "delete"
          BY <4>2 DEF Statement
        <4>4. QED
          BY <3>2, <4>3
      <3>4. QED
        BY <3>2, <3>3
    <2>11. QED
      BY <1>3, <2>1, <2>2, <2>3, <2>4, <2>5, <2>6, <2>7, <2>8, <2>9, <2>10 DEF Request
  <1>4. ASSUME NEW s \in Sessions, Attach(s) \/ Commit(s) \/ Abort(s)
        PROVE  ForwardInv'
    <2>1. handoffs' = handoffs
          /\ \A r \in Sessions : txn'[r].op \in Unlocked => txn'[r] = txn[r]
      BY <1>4 DEF Attach, Commit, Abort, TypeOK, Idle, Unlocked
    <2>2. \A h \in handoffs : h.line \in Lines
      BY DEF TypeOK, Handoff
    <2>3. CASE Attach(s)
      <3>1. PICK l \in Unused, base \in Base, category \in Categories :
              /\ lines' = [lines EXCEPT ![l] = LineOf(txn[s].intake, base, category)]
              /\ claim' = Rolled(claim, lines')
        BY <2>3, Attached
      <3>2. claim'.status = claim.status
        BY <3>1, RolledType DEF TypeOK
      <3>3. LineOf(txn[s].intake, base, category).st = "pending"
        BY DEF LineOf
      <3>4. QED
        BY <2>1, <2>2, <3>1, <3>2, <3>3 DEF TypeOK
    <2>4. CASE Commit(s)
      <3>1. claim'.status = Column(claim.status, txn[s].header.status)
        BY <2>4 DEF Commit, FlushClaim
      <3>2. claim'.status = "none" => claim.status = "none"
        BY <2>4, <3>1 DEF Commit, DutiesInv, QuietWrite, Column
      <3>3. \A l \in Lines : txn[s].sql[l] # "delete" =>
              lines'[l].st = Column(lines[l].st, txn[s].rows[l].st)
        BY <2>4 DEF Commit, FlushLine
      <3>4. \A h \in handoffs : txn[s].sql[h.line] # "delete"
        BY <2>2, <2>4 DEF Commit, CanFlush, Issues, Deletable
      <3>5. \A h \in handoffs : lines'[h.line].st # "absent"
        BY <2>2, <2>4, <3>3, <3>4 DEF Commit, Column
      <3>6. QED
        BY <2>1, <3>2, <3>5
    <2>5. CASE Abort(s)
      BY <2>1, <2>5 DEF Abort
    <2>6. QED
      BY <1>4, <2>3, <2>4, <2>5
  <1>5. QED
    BY <1>1, <1>2, <1>3, <1>4 DEF Next

\* Whatever requests overlap, and even if a stale one reopens a released claim,
\* no line is forwarded twice or reversed twice.
THEOREM ForwardsOnce == Spec => []ForwardedOnce
  <1>1. Init => ForwardInv
    BY DEF Init, ForwardInv, ForwardedOnce, Idle, Unlocked
  <1>2. TypeOK /\ TypeOK' /\ DutiesInv /\ ForwardInv /\ [Next]_vars => ForwardInv'
    BY ForwardStep
  <1>3. ForwardInv => ForwardedOnce
    BY DEF ForwardInv
  <1>4. QED
    BY <1>1, <1>2, <1>3, TypeCorrect, DutiesInvariant, PTL DEF Spec

-----------------------------------------------------------------------------
(* Settlement. *)

\* A claim that has left, and a claim that was ever settled, has a forward batch.
\* The second conjunct alone is not inductive: mark_paid reads only the status.
SettlementInv ==
  /\ claim.status \in Left => \E b \in batches : b.dir = "forward"
  /\ NoPayWithoutRelease

\* Only release and mark_paid make a claim leave; batches are never removed.
LEMMA SettlementStep ==
  ASSUME TypeOK, TypeOK', DutiesInv, SettlementInv, [Next]_vars
  PROVE  SettlementInv'
  <1> USE DEF SettlementInv, NoPayWithoutRelease, Left
  <1>1. CASE UNCHANGED vars
    BY <1>1 DEF vars
  <1>2. ASSUME UNCHANGED <<batches, payments>>, claim'.status \in Left => claim.status \in Left
        PROVE  SettlementInv'
    BY <1>2
  <1>3. ASSUME NEW s \in Sessions, NEW u \in Users \cup {None},
               CapturePages(s, u) \/ CaptureTrip(s, u)
        PROVE  SettlementInv'
    <2>1. claim'.status \in {"submitted", "in_review"} /\ UNCHANGED <<batches, payments>>
      BY <1>3, CaptureType DEF CapturePages, CaptureTrip
    <2>2. QED
      BY <2>1, <1>2
  <1>4. ASSUME NEW s \in Sessions, NEW u \in Users, Request(s, u)
        PROVE  SettlementInv'
    <2>1. CASE Release(s, u)
      <3>1. PICK b : b.dir = "forward" /\ batches' = batches \cup {b}
        BY <2>1 DEF Release
      <3>2. QED
        BY <3>1
    <2>2. CASE MarkPaid(s, u)
      <3>1. claim.status = "released" /\ batches' = batches
        BY <2>2 DEF MarkPaid, Payable
      <3>2. QED
        BY <3>1
    <2>3. CASE Reverse(s, u)
      <3>1. claim' = claim /\ payments' = payments /\ batches \subseteq batches'
        BY <2>3 DEF Reverse
      <3>2. QED
        BY <3>1
    <2>4. CASE ConfirmContent(s, u)
      <3>1. claim'.status = "in_review" /\ UNCHANGED <<batches, payments>>
        BY <2>4 DEF ConfirmContent, TypeOK, Claim
      <3>2. QED
        BY <3>1, <1>2
    <2>5. CASE SwitchToVendorBill(s, u)
      <3>1. claim.status \in Open /\ UNCHANGED <<batches, payments>>
        BY <2>5 DEF SwitchToVendorBill
      <3>2. PICK l \in Lines :
              claim' = [Rolled(claim, lines') EXCEPT
                          !.status   = IF Present(lines') = {} THEN "rejected" ELSE @,
                          !.declared = @ \ {l}]
        BY <2>5 DEF SwitchToVendorBill, Present
      <3>3. claim'.status \in Open \cup {"rejected"}
        BY <3>1, <3>2, RolledType DEF TypeOK, Claim
      <3>4. QED
        BY <3>1, <3>3, <1>2 DEF Open
    <2>6. CASE Approve(s, u)
      <3> DEFINE c == [claim EXCEPT !.status = "approved", !.approved_by = u]
      <3>1. c \in Claim /\ c.status = "approved"
        BY DEF TypeOK, Claim, Status
      <3>2. claim' = Rolled(c, lines') /\ UNCHANGED <<batches, payments>>
        BY <2>6 DEF Approve
      <3>3. claim'.status = "approved"
        BY <3>1, <3>2, RolledType
      <3>4. QED
        BY <3>2, <3>3, <1>2
    <2>7. CASE Decide(s, u)
      <3> DEFINE c == [claim EXCEPT !.status      = Outcome(lines'),
                         !.approved_by = IF Outcome(lines') \in Signed THEN u ELSE @]
      <3>1. Outcome(lines') \in {"sent_back", "rejected", "partially_approved", "approved"}
        BY DEF Outcome
      <3>2. c \in Claim /\ c.status \notin Left
        BY <3>1 DEF TypeOK, Claim, Status
      <3>3. claim' = Rolled(c, lines') /\ UNCHANGED <<batches, payments>>
        BY <2>7 DEF Decide
      <3> HIDE DEF c
      <3>4. claim'.status \notin Left
        BY <3>2, <3>3, RolledType
      <3>5. QED
        BY <3>3, <3>4, <1>2
    <2>8. CASE Attest(s, u)
      <3>1. claim'.status = claim.status /\ UNCHANGED <<batches, payments>>
        BY <2>8 DEF Attest, TypeOK, Claim
      <3>2. QED
        BY <3>1, <1>2
    <2>9. CASE BeginAttach(s, u)
      BY <2>9, <1>2 DEF BeginAttach
    <2>10. CASE \/ BeginEdit(s, u) \/ BeginEditHeader(s, u) \/ BeginAddMileage(s, u)
                \/ BeginMerge(s, u) \/ BeginSplit(s, u) \/ BeginSendBack(s, u)
                \/ BeginReject(s, u) \/ BeginUnapprove(s, u) \/ BeginResubmit(s, u)
      <3>1. \E op \in Unlocked, c \in Claim, ls \in Rows : Start(s, op, c, ls)
        BY <2>10, BeginWrites
      <3>2. UNCHANGED <<claim, batches, payments>>
        BY <3>1 DEF Start
      <3>3. QED
        BY <3>2, <1>2
    <2>11. QED
      BY <1>4, <2>1, <2>2, <2>3, <2>4, <2>5, <2>6, <2>7, <2>8, <2>9, <2>10 DEF Request
  <1>5. ASSUME NEW s \in Sessions, Attach(s) \/ Commit(s) \/ Abort(s)
        PROVE  SettlementInv'
    <2>1. UNCHANGED <<batches, payments>>
      BY <1>5 DEF Attach, Commit, Abort
    <2>2. CASE Attach(s)
      <3>1. claim' = Rolled(claim, lines')
        BY <2>2 DEF Attach
      <3>2. claim'.status = claim.status
        BY <3>1, RolledType DEF TypeOK
      <3>3. QED
        BY <2>1, <3>2, <1>2
    <2>3. CASE Commit(s)
      <3>1. claim'.status = Column(claim.status, txn[s].header.status)
        BY <2>3 DEF Commit, FlushClaim
      <3>2. QuietWrite(txn[s].header)
        BY <2>3 DEF Commit, DutiesInv
      <3>3. claim'.status \in Left => claim.status \in Left
        BY <3>1, <3>2 DEF QuietWrite, Column
      <3>4. QED
        BY <2>1, <3>3, <1>2
    <2>4. CASE Abort(s)
      BY <2>1, <2>4, <1>2 DEF Abort
    <2>5. QED
      BY <1>5, <2>2, <2>3, <2>4
  <1>6. QED
    BY <1>1, <1>3, <1>4, <1>5 DEF Next

\* Whatever requests overlap, no claim is settled that was never released.
THEOREM PaidAfterRelease == Spec => []NoPayWithoutRelease
  <1>1. Init => SettlementInv
    BY DEF Init, SettlementInv, NoPayWithoutRelease, NoClaim, Left
  <1>2. TypeOK /\ TypeOK' /\ DutiesInv /\ SettlementInv /\ [Next]_vars => SettlementInv'
    BY SettlementStep
  <1>3. SettlementInv => NoPayWithoutRelease
    BY DEF SettlementInv
  <1>4. QED
    BY <1>1, <1>2, <1>3, TypeCorrect, DutiesInvariant, PTL DEF Spec
=============================================================================
