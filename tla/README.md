# OneCapture: a formal model of capture, approval, payment and release

OneCapture (`src/`) is a multi-tenant web application in which an accounting firm
captures receipts and vendor bills, reviews and approves them, pays them and hands
them to other systems (a carbon ledger, an ERP). This directory models the part of
it where money is decided on and where requests, workers and crashes interleave:

| module | what it is | instances, proofs |
|---|---|---|
| `ClaimLifecycle` | one expense claim and every request that acts on it | `MCClaimLifecycle`; `ClaimLifecycleProofs`, `ClaimSerialProofs` |
| `UploadOutcome` | what the uploader of a large capture is promised (abstract) | |
| `IngestWorker` | the database-backed queue and the workers that drain it, refining `UploadOutcome` | `MCIngestWorker`; `IngestWorkerProofs` |
| `CaptureUpload` | what becomes of every page of a form: splitting, reading, routing, filing | `MCCaptureUpload`; `CaptureUploadProofs` |
| `HoldingQueue` | the rows of pages that did not become claim lines | with `ApInvoice` |
| `ApInvoice` | vendor bills from filing to payment, on top of `HoldingQueue` | `MCApInvoice`; `ApInvoiceProofs` |
| `ErpLine` | one line of an ERP listing: validation, rule, figure, screen (pure) | with `ErpSync` |
| `CarbonLedger` | what the shared emission ledger promises (abstract) | |
| `ErpSync` | import, two-person review and release of ERP lines, refining `CarbonLedger` | `MCErpSync`; `ErpSyncProofs` |
| `ApprovalMatrix` | which rule governs an amount, and who satisfies it (pure) | with `Administration` |
| `AuditChain` | the hash chain of an audited entity (pure) | `AuditChainProofs` |
| `SignIn` | the login throttle | with `Administration` |
| `Administration` | users and grants, approval rules, settings, rates and their audit events, composed of the three above | `MCAdministration`; `AdministrationProofs` |

`PROJECT.json` lists the components, the runs, the mutants that show that each
property can fail, the source lines behind every definition, the hazards, the
findings and the theorems.

## 1. Inventory

Paths are below `src/src/`. "State" is what the component keeps in PostgreSQL
unless another place is named.

| component | state | operations | interacts with |
|---|---|---|---|
| Claim lifecycle: `eclaim/services/claims.py`, `sod.py` | `claim`, `claim_line`, `carbon_handoff`, `release_batch` | capture (`upload`, `submit`, `start_claim`), `confirm_content`, `edit`, `edit_header`, `add_mileage_to_claim`, `merge_lines`, `split_line`, `attach_intake_as_line`, `switch_line_to_vendor_bill`, `approve`, `decide`, `send_back`, `reject`, `unapprove`, `resubmit`, `attest`, `release`, `reverse`, `mark_paid` | holding queue (attach, switch), carbon ledger (handoffs), approval gate, audit trail |
| Capture pipeline: `eclaim/services/ingestion.py`, `ocr/segment.py` | the OCR cache, on disk | declare, flatten, recognise, route, build | claims, holding queue, ingestion queue |
| Ingestion queue: `eclaim/ingest/worker.py`, `services/ingestion.py` | `ingestion_job`; a staging directory for each job on disk | stage, enqueue, claim, heartbeat, build, finish, reap, sweep | creates claims and intakes |
| Holding queue: `services/intake.py`, `routing.py` | `document_intake` | record (with suppression, reclassification, linking), reroute, file as bill | claims, vendor bills |
| Vendor bills: `services/ap.py`, `payables.py`, `erp.py` | `ap_invoice` and its lines, `vendor`, payment columns, posting marks | create from intake, code, correct, add and remove lines, submit, approve, release a hold, pay, reopen, convert to an expense, reject, mark posted | holding queue, ERP |
| Approval gate: `services/sod.py` | `approval_matrix_rule`, user limits | `check_can_approve`, `select_matrix_rule` | every sign-off |
| Audit trail: `services/audit.py`, `core/audit.py` | a hash chain of `audit_event` rows for each entity | append, verify | every request; denials go over a second connection |
| ERP-Sync: `erpsync/` | a file of committed line keys; `erpsync_entry`, `release_batch`, `emission_entry` | import, approve, dismiss, remap, release | carbon ledger |
| Users and grants: `services/users.py`, `auth/principal.py` | `app_user`, `user_client_grant` | `save_user` | every guard |
| Login: `auth/ratelimit.py` | attempt buckets in memory | check, record a failure or a success | front ends |
| Settings, rates, vehicles: `services/settings.py`, `fx.py`, `vehicles.py` | one row per key | upsert, delete a rate | amounts, policies |
| Tenant isolation: `eclaim/tenancy.py`, `db/session.py` | none (row-level security) | set tenant | every statement |
| Recognition: `ocr/`, `imaging.py`, `maps.py`, `classify.py` | none | outside calls | capture, worker |
| Reports: `duplicates.py`, `evidence.py`, `documents.py`, `coverage.py` | none | read | none |
| Front ends: `web/routes.py`, `api/` | none | one transaction per request | every service |

**Transactions.** A request opens one session; `get_db` (`api/deps.py:25`) commits
after the handler and rolls back on any exception. The isolation level is READ
COMMITTED, there are no version columns, and the ORM updates only the columns whose
value the request changed. `SELECT ... FOR UPDATE` waits for the row but does not
refresh an object that the session has loaded before. About half of the claim
requests take the claim's row lock; the others, and every request on a bill, a staged
ERP row or a user, only read. That mixture is the source of most of the hard
behaviour below, and every module shows it in the same form: a request that does not
hold a fresh lock is a `Begin` action (read, check, compute) and a `Commit` action
(write what changed), with whatever other requests do in between.

**What is hard here, and what makes each component correct.**

- *Claim lifecycle.* Two requests on one claim, of which one or both read without
  the lock; long sequences of edits, decisions, reopenings and additions; retries of
  a release; a reversal after lines changed. Correct means: money leaves only on a
  complete total, within the authority of a signer other than the maker, on
  a declaration, once; the carbon ledger receives what was approved, once; a page is
  filed once; what has left is final.
- *Ingestion queue.* A stale heartbeat does not mean a dead worker, so two workers can
  hold one job; a worker can die between any two commits; the failure handler, the
  janitor and a late answer race. Correct means: filed once, not lost, decided for
  good, files kept while needed and removed afterwards.
- *Capture pipeline.* Two runs may split and read the same file differently; pages are
  diverted outside the savepoint of the claim; the declaration is asked for before
  anything is read. Correct means: every page is on the claim, in the queue or
  reported, once, and every claim was declared.
- *Holding queue and bills.* One intake used by two requests; two scans of one bill; a
  bill corrected into a copy of another; a bill paid twice because the lock does not
  refresh it. Correct means: one page, one bill or one claim; one payment, on the
  signature of somebody who did not prepare the bill.
- *ERP-Sync.* Maker and checker become one person under overlapping reviews; two
  clean releases overlap; an import dies between its file and its table. Correct
  means: a figure in the ledger was measured or seen by a second person, and entered once.
- *Users, rules, audit.* Two administrators deactivate each other; bands leave a gap;
  two appenders read one tip and fork the chain. Correct means: somebody can always
  administer the firm, an amount has one rule, the trail tells the state.

The full list, each at its line, is under "hazards" in `PROJECT.json`.

## 2. Plan

The modules were written in the order of what goes wrong most expensively: the claim,
the queue that creates claims, the bills, the ledger, the administration, the pipeline
of pages. Each is parameterised by CONSTANTS with named assumptions; each module that
composes others EXTENDS them and adds its own state (`ApInvoice` over `HoldingQueue`,
`Administration` over `SignIn`, `ApprovalMatrix` and `AuditChain`, `ErpSync` over
`ErpLine`); the two abstract specifications are instantiated by a refinement mapping.

To keep one run for each question, an instance that needs several small universes
chooses a *world* in `Init`: a record that says which sessions exist, who asks for
what, and on which inputs. A world never changes, so a run explores the behaviours of
each of its worlds separately.

What a next step could add: theorems of what remains of the serial properties when
requests do overlap (section 11), the pool of connections behind denied approvals, and the
claims' and bills' own audit events.

## 3. ClaimLifecycle

**State.** `claim` is the `claim` row (its status, `created_by`, `approved_by`,
`attested_by` as a flag, the cost centre of its event as a flag, `total_claimed` and
`total_reimbursable`); `lines` are its `claim_line` rows; `holding` the open
`document_intake` rows; `handoffs` and `batches` the append-only `carbon_handoff` and
`release_batch` rows; `txn` what each session has read and means to write. Two
components are history and no column: `declared`, the lines on the claim when
`attested_by` was last stamped, and `payments`, who settled it.

**Actions.** One for each request.

- A request that takes the claim lock first (`confirm_content`, `approve`, `decide`,
  `attest`, `release`, `reverse`, `mark_paid`, `switch_line_to_vendor_bill`) reads and
  writes under the lock and is one step.
- A request that only reads the claim (`edit`, `edit_header`, `add_mileage_to_claim`,
  `merge_lines`, `split_line`, `send_back`, `reject`, `unapprove`, `resubmit`) is two: a
  `Begin` action reads, checks the guards and computes; `Commit` writes the columns
  whose value changed. `Commit` may fail as the database would fail it (`CanFlush`), and
  `Abort` stands for every rollback.
- `attach_intake_as_line` is between the two. `intake_reroute` reads the intake first
  (`BeginAttach`), then the service locks the claim and uses what was read (`Attach`).
- `approve` and `decide` recompute the totals; `send_back` and `reject` do not, as in
  the code.

With one session requests do not overlap; with two they do. The properties come in
the same two groups, and a comment in the module heads each group.

**Abstractions.**

- Money is a small number in home currency. `NoBase` is a gross amount whose rate is
  missing; 0 also stands for a line on which no amount was read. `Total` counts units.
- `Authority[u]` is the set of totals that user `u` may sign off: the personal limit and
  the approval matrix together. Every user holds the client grant. The audit event of a
  denial is left out.
- A line's coding is two flags, a GL account and a cost centre of its own. Its category is
  a member of `Categories`: whether it is relevant to the carbon ledger and whether it has
  a GL account by default. `PostingReady` asks for both dimensions, each from the line or
  inherited (`_resolved_gl`, `_resolved_cost_centre`); the header's cost centre is one
  flag, whether it comes from the event or from the claimant. Master data do not change.
- A batch hash is the set of its line and amount pairs. `Forwarded` is the lookup
  `first_for_lines` together with the UNIQUE key behind it.
- The survivor of a merge is any selected line; the code takes the lowest `line_no`.
- The status `exported` is left out: it is allowed by the table, and nothing sets it.
- The release of a claim that is released already is a no-op in the code and no step here.
- Reading all rows at `Begin` brings the statements of one unlocked request together.
  Two reads of one request could see different commits in the code; the model does not
  show those behaviours.

## 4. IngestWorker

**State.** `upload` is the request that stages and enqueues; `job` the `ingestion_job`
row with its attempts and whether its heartbeat is fresh; `claims` and `intakes` count
what carries the job's id; `staged` and `aged` are the directories on disk; `worker` is
the program counter of `process_one` and `Worker._run` with the job in hand.

**Actions.** Each statement that a worker commits is a step: `Reap`, `ClaimNext`,
`Check` (is the job filed already), `Load` (files), `Beat` (heartbeat), the outcomes of
`build_claim`, `Recover` (the failure handler), `Finish`, `Cleanup`, `Sweep`, `Poll`,
`Crash`. `BuildClaim` and `BuildIntakes` commit the documents and the job's completion in
one transaction; `ClaimCollides` and `IntakeCollides` are what the UNIQUE keys do to the
second of two runs. `GoStale` lets time pass at any step, so that a live worker's job can
be claimed by another worker.

**Abstractions.** Any runnable job may be claimed: `ORDER BY created_at` gives way when
the older row is locked (`SKIP LOCKED`). One diverted page stands for all of a job's: what
becomes of the single pages is `CaptureUpload`'s. A header that does not validate ends
as `BuildNothing`. `Crash` also stands for an error in the failure handler, which reaches
the polling loop with the job still running. Progress counters are left out. `Age`
assumes that a request does not last 24 hours.

**UploadOutcome** has two variables: what the uploader is told, and what is filed. An
upload is accepted, then filed in the step that reports it, or given up and nothing is
filed. `KeepsPromise` is the refinement, with the job's status mapped to the outcome and
the two counters to the documents.

**Fairness** (`FairSpec`). A request that has begun commits or fails (`WF` on `Enqueue` or
`Abandon`). Time passes (`WF` on `GoStale` and `Age`). A worker thread that can go on does
(`WF` on `Proceed`): it is a loop in a daemon thread whose calls have timeouts. The
janitor runs once in so many rounds of that loop, so it needs `SF`: it is enabled again
and again, not continuously. Heartbeats and crashes get no fairness: nothing makes a
slow page report, and nothing makes a process die. `Settles` and `StagingReclaimed`
hold even so, because attempts are bounded and every crash costs one.

## 5. CaptureUpload

Where `IngestWorker` has a choice of outcomes, this module has the pipeline, and the
queue is coarse: a job is taken by `Take` whenever its heartbeat might be stale.

**State.** `keep` is the client's routing policy ("everything readable is a claim line");
`upload` each submission with its form, its status, the claims built from it and the
receipts it reported as errors; `queue` the `document_intake` rows; `cache` the OCR cache
by image; `run` what each request or worker is doing.

**Actions.** `Capture` is `web_capture`: the declaration gate, then the inline path or
the queue, by the number of units that a file may yield (`estimate_units`). A run is
`Begin` (split into receipts, look into the cache), `Recognise` (read what was neither
pre-read in the browser nor cached), `Lookup` (route, look for twins), and `Build`, one
transaction that diverts pages and files lines, with the claim's UNIQUE key;
`FoundFiled`, `BadHeader`, `Raise` and `Crash` end it otherwise. `SetRouting` changes the
policy at any time, `Process` takes a page out of the queue.

**Abstractions.** The segmenter may cut between any two pages, and an OCR call may have
any result: both are calls outside. Any line may be refused by `add_line`. A form that
is refused changes nothing and is no step. Events made with a claim, and the route of
a trip, are left out.

## 6. HoldingQueue and ApInvoice

**State.** `intakes` are the `document_intake` rows (status, queue, type, link key, what
was read, link, and how many claims carry the page), `bills` the `ap_invoice` rows with
their lines, `vendors` the vendor names, `txn` the pending requests, and `past` a
history: marks of payment and posting, holds that a reviewer cleared, everyone who coded.

**Actions.** `record_intake` is `BeginRecord` (a new row, or a page that became a line on
capture) or `BeginSuppress` (the same image is in the queue already; a confident
reading reclassifies a pending row), with `_link_counterpart` in both. `intake_reroute`
is `BeginReroute`. `create_from_intake` is `BeginFile` and `CommitFile`, with the
duplicate check and `uq_ap_invoice_idem`. Every operation of `ap.py` that changes a bill is
a `Begin` action over `Update` and the common `CommitUpdate`, which the CHECK
`ck_ap_invoice_sod` and the lines' UNIQUE key guard (`CanFlush`). `mark_paid` takes a
lock, but `payables_pay` has loaded the row before, so it is two steps like the others.
`BeginPost` is `mark_posted` after the connector has answered; an answer that never
comes is no step.

**Abstractions.** What a page reads as is a member of `Readings`; totals are small
numbers, `Authority` as for claims. A read below the confidence threshold is `sure =
FALSE`. The claim that a page or a bill is turned into is a counter here and
`ClaimLifecycle` there. The way back, `switch_line_to_vendor_bill`, adds an open row with the
line's image and asks for no twin: `SwitchIn` for a page that became a line, `SwitchBack`
for a bill that became a claim. `from_claim`, a history, marks such rows.
Lists and the export file are left out.

## 7. ErpLine and ErpSync

`ErpLine` is pure: `Verdict` (malformed, duplicate, accepted), `MatchRule` (item before
vendor before general ledger code, then file order), `Resolve` (by quantity when the
unit is the factor's, else by amount), `Tonnes` (scaled, rounded half away from zero),
`Held` (the screen against e-Claim) and `StageStatus`.

**ErpSync's state.** `store` is the JSON file of committed keys, `rows` the
`erpsync_entry` table, `ledger` the `emission_entry` rows, `batches` the `release_batch`
rows, `reported` a history of the keys of imported files.

**Actions.** An import is three steps: read the file and the store, replace the store
file (`PersistStore`), stage the rows (`Stage`); it may crash before each of the last
two. `BeginApprove`, `BeginDismiss` and `BeginRemap` are the review, with
`check_can_review` and `CommitReview` under `ck_erpsync_entry_sod`. `BeginRelease` selects
rows and takes their hash; `CommitRelease` inserts the batch and the ledger entries;
`AnsweredBefore` is the retry that finds its batch.

**CarbonLedger** says what readers rely on: an entry stays as it was written, and a
source row has at most one. `LedgerPromise` is the refinement.

**Abstractions.** Names and codes are compared after normalisation. A vendor rule's
substring is the set of names that contain it. A reviewer may remap a row to any category,
"UNMAPPED" included, as the route's free string allows. `Grain` scales the decimals. Reading of
the spreadsheet and the command line are left out.

## 8. Administration

Composed of `SignIn` (buckets of failures by peer and by email), `ApprovalMatrix`
(bands, governing rule, gap, rank) and `AuditChain` (a hash is the sequence of what it
covers; `Tips` is `tip_hash`, `Verifies` is `verify_chain`).

**State.** `users` and `grants`; `rules`, the matrix rows by identity; `values`, one row
for each setting and each rate; `log`, one chain for each audited entity; `txn`; the
throttle's clock and buckets.

**Actions.** A request is three steps: `Begin` reads and checks; `Flush` sends the UPDATE
or DELETE, which takes row locks until commit, and then reads the tip of the chain;
`Commit` makes it visible. That order is the code's (a flush before `record_event`), and
it is why an updated row's events cannot fork while those of an insert can. `save_user`,
templates, single rules, settings, rates and their deletion are modelled so. A login is
`Check`, then `Answer`.

**Abstractions.** Amounts keep their order only (0 to 6 stand for the bands' edges).
Rules scoped to a department, a category or a person are left out: the editor never
writes them. Vehicles and other master data are single-row upserts and left out.

## 9. Runs

Twelve runs, each of at most about three minutes with two TLC workers. Ten pass; the last column of
the two others is the statement that fails.

| run | instance | distinct states | shows |
|---|---|---|---|
| `ClaimMoney` | 1 session, 2 lines, 2 pages, content verification on | 454 257 | `TypeOK`, `TotalsMatchLines`, `StatusAgreesWithLines`, `AttestedWhenReimbursed`, `SignedWithinAuthority`, `ClosedIsFinal` |
| `ClaimForward` | 1 session, 2 lines, coding policy and events on, reversal by seniors | 481 313 | `HandoffsMatch`, `CodedWhenReleased` |
| `ClaimPages` | 1 session, 3 lines, 2 pages, splitting allowed | 161 501 | `PageFiledOnce` |
| `ClaimOverlap` | 2 sessions, 2 users, 1 line | 683 735 | `SeparationOfDuties`, `ForwardedOnce`, `NoPayWithoutRelease` |
| `IngestOverlap` | 3 workers, 1 job, 3 attempts, fair | 21 016 | `TypeOK`, `AttemptsBounded`, `FiledOnce`, `RunnableHasFiles`, `DoneIsFiled`, `Settles`, `StagingReclaimed` |
| `IngestPromise` | 1 worker, 2 jobs, 3 attempts, fair | 18 315 | `KeepsPromise` |
| `Capture` | 2 uploads, 3 pages, four worlds | 264 224 | `UploadAccounted`, `UploadFiles` |
| `Bills` | 3 users, 3 intakes, 2 bills, five worlds | 406 880 | `TypeOK`, `KeptByDatabase`, `NoDoublePay`, `SignedWhole`, `SettledOnce`, `PageCountedOnce`, `QueueSound`, `LeftIsFinal` |
| `ErpSync` | 3 users, 8 different source lines, five worlds | 171 096 | `TypeOK`, `SeenOrMeasured`, `LedgerAgrees`, `ImportAccounts`, `LedgerPromise` |
| `Admin` | 3 users, 2 clients, seven worlds | 152 729 | `TypeOK`, `AdminsRemain`, `TrailTells`, `GovernedOnce`, `LoginBounded` |
| `BillPaidTwice` | that of `Bills` | | `PaidMarksSerialise` is violated |
| `AdminLockout` | that of `Admin` | | `FirmKeepsAdmin` is violated |

Some properties say what holds *however requests overlap*, others what holds while they
do not; the comment of each says which. In modules with worlds the second kind has the
number of sessions as its premise, and the run has worlds of both kinds.

**Bounds and why they are enough.**

- *Claims.* The rules compare a claim with one of its lines, or two of its lines with
  each other (an approved one beside a rejected one, a reimbursed one beside a card one,
  a source page beside a split-off one); two lines give each such pair, and the third
  line of `ClaimPages` is the identity that a split needs beside two captured ones. Of
  the two pages one prices and the other has no rate, so an unresolved total occurs from
  the start. `ClaimForward` has two categories: carbon relevant without a GL account, and
  the other way round. `MaxBase` is 1; the clerk may sign off a total of 1
  and the manager any total, so with two lines there are totals on both sides of a limit.
  The third user is a viewer. `Ops` and `EditKinds` select the requests of an instance,
  which keeps each run to the question it asks; between them the runs take every action.
- *Queue.* 3 attempts for the code's 5 leave room for a first, a repeated and a last one;
  three workers can all hold one job.
- *Capture.* A form has up to `MaxFiles` = 2 files; one unit is read inline and more are
  queued (`InlineMax` = 1), so both paths occur. `MaxRuns` = 2 gives a retry after a
  crash, `MaxChanges` = 1 one change of the routing policy while an upload is under way.
- *Bills.* Two bills are one duplicate pair; three intakes are one bill, its delivery
  order and a stray page. Totals are 1 and 2, and one user may approve only 1.
  `MaxRepeats` = 2 lets each kind of edit come again after an approval was undone.
- *ERP-Sync.* `Grain` = 4: amounts divide into the unit with a remainder below, at and
  above a half. The files hold a line by quantity, by quantity without a known unit, by
  spend, not mapped, malformed, negative, already in e-Claim, and twice in one file.
- *Administration.* Three users are two administrators and one to be added; the
  templates of the code need five rule identities (`MaxRules`); a world has two to four
  audited requests. The throttle allows 2 failures in a window of 2 over 4 instants.

Symmetry over lines, sessions and uploads is used where no property is temporal beyond a
step. `CHECK_DEADLOCK FALSE` is in every configuration but the queue's: a claim that was paid,
a bill that was rejected, or a world whose requests are used up has nothing left to
do. The queue's runs check deadlock.

Liveness is stated for the queue alone, whose workers the program itself runs (section 4).
Everywhere else a person decides whether anything happens, and nothing obliges
him to: those modules state safety.

## 10. Findings

1. `BillPaidTwice`. `payables_pay` loads the bill, and the row lock that `mark_paid` takes
   afterwards (`ap.py:575`) does not refresh what the session already holds. Two overlapping
   requests both read "approved" and both mark the bill paid. The docstring says that the
   loser sees "paid".
2. `AdminLockout`. `save_user` guards the acting administrator's own row only
   (`users.py:152`). Two who demote or deactivate each other at the same time leave none,
   where the module's docstring says that its rules "alone guarantee" one. `AdminsRemain`
   shows, and `AdminsStay` proves, that they do so while requests do not overlap.

**Observations without a run of their own.** Each is a behaviour of the models, and none
contradicts a property listed above.

*Claims.* `edit` accepts a rate on an approved claim, and the amount may then exceed its
signer's authority (`claims.py:132`, `979-1014`). `SignedWithinAuthority` therefore speaks
of the amount at the sign-off and says that nothing else that was decided on changes
afterwards; in `ClaimMoney`, which takes such edits, the invariant that a signed claim is
within its signer's authority fails. An `unapprove` that read "approved" may commit after
the release (`claims.py:1468`): the claim is in review again, its handoffs written. Two
overlapping edits leave a total that is not the sum of the lines (`claims.py:946`,
`1014`); two overlapping attachments of one held page both succeed (`claims.py:647`). A
page that is attached after the attestation is released under it (`claims.py:629`),
whereas `add_mileage_to_claim` renews the attestation: with one session, two lines, two
pages and the requests capture, switch, attach, approve, attest and release,
`Approved(lines) \subseteq declared` fails in a released claim.

*Queue.* Of two workers on one job a stale one can write "failed" over "done"
(`worker.py:98`): the claim exists and its uploader is told otherwise. With one worker it
cannot (`IngestPromise`, `OneWorkerSafe`).

*Queue of pages, bills.* Overlapping captures of one image add two rows, for no key
forbids it; and with one request at a time, a page that is captured again as a bill while
it is a claim line shows twice once that line is switched (`claims.py:736`, without the
lookup of `record_intake`). `QueueSound` says that a switched line is the only such way. A
reclassification links a row anew and leaves the first link's counterpart as it was. A
bill without a document number, or whose vendor has been renamed, is not compared with any
other. Under overlap a stale edit may leave a paid bill without an approver. `mark_posted`
has no caller in `src/` outside the tests.

*Capture.* Two overlapping runs that read a page differently can file it as a claim line
and as a held bill.

*ERP-Sync.* A row that is remapped under the category "UNMAPPED" (the form's prefill for
an unmapped row) with a factor posts a figure, while the leaf says that it posts without
one (`leaf.py:77`, `review/service.py:181`); `LedgerAgrees` holds the leaf to rows that
were not remapped. An import that dies between its two stores leaves keys committed whose
lines were never staged, and the next import takes them for duplicates
(`pipeline.py:233`). Under overlap a dismissed row can reach the ledger, a stale remap can
change a figure after its approval, and a batch can total rows that another release
entered; two imports can overwrite each other's store. A line valued by quantity that has
no amount is never compared with a reviewer's limit, and a remap may lower the amount that
is. `run_import` is called with staging only by tests.

*Administration.* Two overlapping templates leave both sets of rules. Updates of a grant
alone, and inserts of rules, read the chain's tip without a lock and can fork it under
overlap (`repositories.py:513`); updates of a row cannot.

What survives overlapping requests is as telling. Nobody signs off or settles a claim of
his own, nothing is forwarded twice, no claim is paid that was not released; no upload is
filed twice or lost; no page becomes two bills, and no bill is approved by who prepared
it; no figure enters the ledger unseen or twice.

## 11. Proofs

`tlapm` checks the eight proof modules from nothing. The only assumptions are the named
ones of the modules (types of the constants and of what a form, a reading, a file or a band
may carry; finitely many sessions; distinct model values; at least one attempt, one login,
one tick), which TLC evaluates in the runs, and, where the table says *serial*, that
sessions do not overlap. Nothing bounds users, lines, pages, workers, jobs, files, bills,
intakes, clients, forms, failures or the clock but the constants that cap them, whose values
are arbitrary. Each property proved is also checked by a run, and every invariant and every
action property that a passing run checks is proved.

| theorem | states | along which invariant |
|---|---|---|
| `ClaimLifecycleProofs!TypeCorrect` | `TypeOK` | itself: it types what each session means to write, so `Commit` needs no more |
| `DutiesSeparated` | `SeparationOfDuties` | `DutiesInv`: a pending unlocked write signs nothing, and writes the approver only together with the status |
| `ForwardsOnce` | `ForwardedOnce` | `ForwardInv`: a forwarded line is never deleted, so the lookup by present lines finds its handoff after any reopening |
| `PaidAfterRelease` | `NoPayWithoutRelease` | `SettlementInv`: a claim that has left has a forward batch; uses `DutiesInv` |
| `ClaimSerialProofs!TotalsStayTrue`, `StatusFollowsLines`, `AuthorityKept`, `ReleasedIsDeclared`, `ReleasedIsCoded`, `HandoffsStayTrue`, `PagesFiledOnce`, `LeftIsFinal` (serial) | `TotalsMatchLines`, `StatusAgreesWithLines`, `SignedWithinAuthority`, `AttestedWhenReimbursed`, `CodedWhenReleased`, `HandoffsMatch`, `PageFiledOnce`, `ClosedIsFinal` | `SerialInv`: the claim is sound (clean, added up, allowed, decided), gated, its pages placed, its handoffs right, and the one pending write leaves it so |
| `IngestWorkerProofs!TypeCorrect` | `TypeOK` | itself |
| `UploadFiledOnce` | `FiledOnce` | itself, with `TypeOK` |
| `NothingLost` | `DoneIsFiled` | `DoneInv`: the job of a worker that will conclude "done" has something filed |
| `FilesKept` | `RunnableHasFiles` | `FilesInv`: a worker that cleans up has a terminal job, and a terminal job never becomes runnable |
| `AttemptsStayBounded` | `AttemptsBounded` | `AttemptsInv`: adds that a job queued has had no attempt and that its holders are finitely many |
| `OneWorkerSafe` (one worker) | `Outcome!Safe` | `OneWorkerInv`: a job that is not over has no documents; each step maps to one of `UploadOutcome` or a stutter |
| `ApInvoiceProofs!DatabaseKeeps` | `KeptByDatabase` | `KInv`: rows and pending writes are well shaped, and every pending insert or update is checked against the rows as they are at its commit |
| `BillsSettledOnce`, `BillsSignedWhole`, `BillsLeftIsFinal` (serial) | `SettledOnce`, `SignedWhole`, `LeftIsFinal` | `SInv`: every row is sound, a pending write was computed from the row as it is and leaves a sound one |
| `BillsTyped` | `TypeOK` | `AInv`: every row, and what every session means to write into one, has its type |
| `QueueStaysSound`, `PagesCountedOnce`, `NoBillPaidTwice` (serial) | `QueueSound`, `PageCountedOnce`, `NoDoublePay` | `AInv`, which adds `QueueRows` (of two open rows with one image the later came from a claim, and links join rows of one document), `PageRows` (a row is counted once at most, the page of a bill was consumed by it and by no claim, a bill that became a claim is rejected), `BillRows` (no two moving bills are alike, but where a reviewer cleared a hold) and `Holds`: what a pending request compared with is still so, and what it writes keeps the three |
| `CaptureUploadProofs!FilesSound` | `UploadFiles` | `IInv`: a submission passed the declaration gate and became one claim at most; only its own run touches a form that is built within its request; a run holds receipts of the form's files, makes a line only of what the gate saw, and the twins that it found stand in the queue |
| `PagesAccounted` (serial) | `UploadAccounted` | `SInv`: adds that a run's receipts hold every page of its form, each in one of them unless the form repeats it, and that an upload that is not done has left nothing; the splitting and the diversion, which are functions on `0 .. n`, are unfolded by induction |
| `ErpSyncProofs!LedgerLinesAccounted` | `SeenOrMeasured` | `EInv`: a line in the ledger is cleared, and what a pending request holds stays sound however rows evolve: a review is not undone, a source line and a clean category stay; with `RuleTakesPrecedence` and `FigureIsNearest` of `ErpLine`'s operators |
| `LedgerKept` | `LedgerPromise` | the same: an entry's key is committed with it and no release takes a committed key |
| `ChannelTyped` | `TypeOK` | `SyncInv`: rows, figures, batches and what every session read are typed, totals as sums of integers among them |
| `LedgerStaysTrue` (serial) | `LedgerAgrees` | `SyncInv`: a pending release holds the figures of the rows as they are, an unmapped row that nobody remapped has no figure, and a batch's sum grows by the figures of its own entries; the fold over a set is independent of the order (`MapThenSumSet` is unfolded one element at a time) |
| `ImportsAccounted` (serial, no crash) | `ImportAccounts` | `SyncInv`: the store of committed keys, the staging table and the import under way hold every key of every file read so far |
| `AdministrationProofs!AdminsStay` (serial) | `AdminsRemain` | `AInv`: there is an active partner, and the pending edit leaves one. Who may edit the last other partner is a partner himself, and is barred from undoing himself |
| `TrailsVerify` (serial) | `ChainsVerify`, a part of `TrailTells` | `CInv`: chains are linear, and pending events aim at their tips; with the lemmas of `AuditChainProofs`, by which a linear chain verifies |
| `DirectoryTyped` | `TypeOK` | `TypedInv`: adds what a pending request means to write, and that nobody leaves the directory while an edit of him is pending |
| `TrailStaysTrue` (its second half serial) | `TrailTells` | `TInv`: the chains are written as chains (whatever forks), a pending event names every column that its write changes, and, while serial, what a pending request read is what the row holds. A chain is read through the last of its events that names a column; `SaidAppended` says what an append changes of that |
| `OneRuleGoverns` (serial) | `GovernedOnce` | `GInv`: unless a rule was added by hand, the live rules are rules of the last template at their places, all of them until one is deleted; with `TemplateBands`: the bands of each template cover the amounts, do not overlap and ask for more as amounts grow |
| `FailuresBounded` | `LoginBounded` | `ThrottleInv`: each bucket lists failures of its key in their order, the peer's without a gap in the window, and the fresh failures of a peer with the logins that passed the check stay below the limit and one for each session |

The serial theorems do not make a request atomic: one that reads first and writes later is
two steps still, and the invariant has to say what its pending write will do. In
`ClaimSerialProofs` the assumption is of the theorem; in the others it is the premise of
the property.

Where an assumption was needed for a proof, it is one that the code gives: the kinds of
audited entities have names of their own, a form, a band and a reading carry values of
their columns' types, and None is no amount, role or user. `UploadAccounted` speaks of
forms that hold no page twice where it says that a page is in one place only: a page
submitted twice may become a claim line and a queue row.

**Only model-checked.**

- Liveness under fairness is out of the prover's reach: `Settles`, `StagingReclaimed` and
  the liveness half of `KeepsPromise` (`OneWorkerSafe` is its safety half).
- The two findings (section 10) are counterexamples of TLC's.

Data that grows is not out of reach: where a fact needs induction over a sequence, a set of
rows or the steps of a function on `0 .. n`, the proofs take a least counterexample
(`WFMin` over the naturals or over finite subsets, in `LeastOf`, `LeastOne` and
`Induction`), since the library's induction theorems take an operator. No module with a
theorem declares a RECURSIVE operator.

## 12. Not modelled

- *Row-level security* is declared to PostgreSQL; each modelled request runs in one tenant.
- *Recognition and calls outside* (OCR, maps, classifiers): their outcomes are choices.
- *Reports and documents* read only.
- *Forms, pages, JSON, tokens and CSRF*: no state of their own.
- *Schema migrations* run once, off line.
- *Vehicles and other master data* are single-row upserts without a rule between rows.
- *The pool of connections behind denials*: a denied approval is audited on a second
  connection while the first is held (`sod.py:209`), so that a full pool of denials would
  wait for itself. Its size and timeout belong to the library and the deployment.
- *The claims' and bills' own audit events*: `Administration` shows how events relate
  to the rows and to the chain, and the other services call the same function.
