--------------------------- MODULE CaptureUpload ---------------------------
(***************************************************************************)
(* What becomes of the pages of one capture (web_capture, build_claim and  *)
(* process_one; services/ingestion.py, ocr/segment.py).                    *)
(*                                                                         *)
(* IngestWorker treats the page pipeline as a choice of outcomes.  Here    *)
(* the queue is coarse and the pipeline is whole: a form is split into     *)
(* receipts, each receipt is read through the cache of readings, and one   *)
(* transaction files it on the claim or in the holding queue.  A small     *)
(* form is built within its request; a large one by a worker, perhaps by   *)
(* several at once, each of which may segment and read the pages anew.     *)
(*                                                                         *)
(* A run has four steps that others may come between: Begin (check, split, *)
(* look into the cache), Recognise (read the rest, fill the cache), Lookup *)
(* (find the twins in the queue) and Build (insert and commit).            *)
(***************************************************************************)
EXTENDS Naturals, FiniteSets, SequencesExt, TLC

CONSTANTS
  Uploads,     \* submissions of the capture form
  Pages,       \* the pages that are photographed or scanned
  Worlds,      \* [sessions, forms, most, split]: who runs, what is submitted and
               \* how often at most, and whether the client splits PDFs
               \* (allow_document_split)
  MaxFiles,    \* max_upload_files
  InlineMax,   \* INLINE_MAX_UNITS (3 in the code)
  MaxRuns,     \* bound on the runs of one upload
  MaxChanges,  \* bound on the changes of the routing policy
  None

\* Where route() sends a page that was read: the claim, vendor bills, a human.
Routes == {"eclaim", "ap_holding", "pending"}

\* What an OCR call comes to.
Results == Routes \cup {"error"}

\* What may be submitted: files, which the browser may have had read when they
\* are single images, the journey of a trip, and the declaration.
Files == {f \in [kind : {"image", "zip", "pdf", "other"}, pages : Seq(Pages),
                item : Routes \cup {None}] :
           /\ f.kind = "image" => Len(f.pages) = 1
           /\ f.kind = "other" => f.pages = <<>>
           /\ f.item # None => f.kind = "image"}

Forms == [files : Seq(Files), trip : {"none", "good", "unroutable"},
         declared : BOOLEAN, header : BOOLEAN]

ASSUME CaptureAssumption ==
  /\ InlineMax \in Nat /\ MaxFiles \in Nat /\ MaxRuns \in Nat /\ MaxChanges \in Nat
  /\ \A w \in Worlds : w.forms \subseteq Forms /\ IsFiniteSet(w.sessions)
  /\ None \notin Uploads

VARIABLES
  world,     \* the instance; never changes
  keep,      \* [now, changes]: capture.vendor_bill_routing is "keep"
  upload,    \* each submission: its form, its job's status, the claims built
             \* from it and the receipts it reported as errors
  queue,     \* the document_intake rows, in order of creation
  cache,     \* the OCR cache on disk: readings by image
  run        \* what each request or worker is doing

vars == <<world, keep, upload, queue, cache, run>>

Sessions == UNION {w.sessions : w \in Worlds}

Idle == [at |-> "idle"]

NoUpload == [st |-> "none", form |-> None, keep |-> TRUE, async |-> FALSE,
             runs |-> 0, claims |-> <<>>, errors |-> {}]

Serial == Cardinality(world.sessions) = 1

-----------------------------------------------------------------------------
(* The form. *)

FileSet(form) == {form.files[n] : n \in DOMAIN form.files}

\* Mutant: a file that nobody has read needs no declaration.
NeedsDeclaration_ReadOnly(form, kept) ==
  \/ form.trip \in {"good", "unroutable"}
  \/ kept /\ form.files # <<>>
  \/ \E f \in FileSet(form) : f.item = "eclaim"

\* _submission_needs_attestation: a trip, a file that may become a claim line,
\* because all do, because nobody has read it, or because it was read so.
NeedsDeclaration(form, kept) ==
  \/ form.trip \in {"good", "unroutable"}
  \/ kept /\ form.files # <<>>
  \/ \E f \in FileSet(form) : f.item \in {None, "eclaim"}

\* estimate_units: the receipts that a file may yield, before it is rendered.
Units(form) ==
  FoldLeft(LAMBDA n, f : n + (IF f.kind \in {"zip", "pdf"} THEN Len(f.pages) ELSE 1),
           0, form.files)

\* The groups of consecutive pages that end at the given positions.
Grouped(pages, ends) ==
  [k \in DOMAIN ends |-> SubSeq(pages, IF k = 1 THEN 1 ELSE ends[k - 1] + 1, ends[k])]

\* The segmenter may cut anywhere; a batch that fails is cut everywhere.
Segmented(pages) ==
  LET cuts == {ends \in SeqOf(DOMAIN pages, Len(pages)) :
                 /\ ends # <<>> /\ ends[Len(ends)] = Len(pages)
                 /\ \A k \in 2 .. Len(ends) : ends[k - 1] < ends[k]}
  IN {Grouped(pages, ends) : ends \in cuts}

Unread(images) == [n \in DOMAIN images |-> [image |-> images[n], item |-> None]]

\* flatten_receipts, for one file.
Receipts(f, split) ==
  CASE f.kind = "image" -> {<<[image |-> f.pages, item |-> f.item]>>}
    [] f.kind = "zip" -> {Unread([n \in DOMAIN f.pages |-> <<f.pages[n]>>])}
    [] f.kind = "pdf" /\ f.pages # <<>> ->
         IF split THEN {Unread(g) : g \in Segmented(f.pages)} ELSE {Unread(<<f.pages>>)}
    [] OTHER -> {<<>>}

\* The receipts of a whole form, in the order of its files.
Flattened(form, split) ==
  LET upto[n \in 0 .. Len(form.files)] ==
        IF n = 0 THEN {<<>>}
        ELSE {d \o r : d \in upto[n - 1], r \in Receipts(form.files[n], split)}
  IN upto[Len(form.files)]

\* web_capture: a form that is refused changes nothing and is not modelled.
Capture(s, u, form) ==
  LET async == Units(form) > InlineMax IN
  /\ run[s] = Idle /\ upload[u].st = "none"
  /\ form \in world.forms
  /\ Cardinality({v \in Uploads : upload[v].st # "none"}) < world.most
  /\ Len(form.files) <= MaxFiles
  /\ NeedsDeclaration(form, keep.now) => form.declared
  /\ upload' = [upload EXCEPT ![u] =
       [NoUpload EXCEPT !.form = form, !.keep = keep.now, !.async = async,
                        !.st = IF async THEN "queued" ELSE "inline",
                        !.runs = IF async THEN 0 ELSE 1]]
  /\ run' = [run EXCEPT ![s] = IF async THEN Idle ELSE [at |-> "taken", up |-> u]]
  /\ UNCHANGED <<world, keep, queue, cache>>

\* An administrator changes the routing policy.
SetRouting ==
  /\ keep.changes < MaxChanges
  /\ keep' = [now |-> ~keep.now, changes |-> keep.changes + 1]
  /\ UNCHANGED <<world, upload, queue, cache, run>>

-----------------------------------------------------------------------------
(* A run. *)

\* _claim_next: a job that is queued, or whose heartbeat is stale, be its
\* worker dead or only slow.
Take(s, u) ==
  /\ run[s] = Idle
  /\ upload[u].st \in {"queued", "running"} /\ upload[u].runs < MaxRuns
  /\ upload' = [upload EXCEPT ![u].st = "running", ![u].runs = @ + 1]
  /\ run' = [run EXCEPT ![s] = [at |-> "taken", up |-> u]]
  /\ UNCHANGED <<world, keep, queue, cache>>

\* The run ends and marks its upload.
Conclude(s, st) ==
  /\ upload' = [upload EXCEPT ![run[s].up].st = st]
  /\ run' = [run EXCEPT ![s] = Idle]

\* _existing_claim_id, _job_has_intakes.
Prior(u) == upload[u].claims # <<>> \/ \E i \in DOMAIN queue : queue[i].job = u

\* An earlier run has filed this job already.
FoundFiled(s) ==
  /\ run[s].at = "taken" /\ Prior(run[s].up)
  /\ Conclude(s, "done")
  /\ UNCHANGED <<world, keep, queue, cache>>

\* _resolve_header refuses.
BadHeader(s) ==
  /\ run[s].at = "taken" /\ ~Prior(run[s].up)
  /\ ~upload[run[s].up].form.header
  /\ Conclude(s, "failed")
  /\ UNCHANGED <<world, keep, queue, cache>>

\* item_has_data: the browser had the receipt read before it was submitted.
PreRead(receipt) == receipt.item # None

\* _ocr_cache_get, for the receipts that need a reading.
Hits(rs) ==
  [n \in {m \in DOMAIN rs : ~PreRead(rs[m]) /\ rs[m].image \in DOMAIN cache}
     |-> cache[rs[n].image]]

\* Split the files and look into the cache.
Begin(s) ==
  LET u == run[s].up IN
  /\ run[s].at = "taken" /\ ~Prior(u)
  /\ upload[u].form.header
  /\ \E rs \in Flattened(upload[u].form, world.split) :
       run' = [run EXCEPT ![s] = [at |-> "read", up |-> u, receipts |-> rs, hits |-> Hits(rs)]]
  /\ UNCHANGED <<world, keep, upload, queue, cache>>

\* A reading is kept under its image; an error is not.
Remembered(rs, results) ==
  LET new == {n \in DOMAIN results : results[n] # "error"}
  IN [image \in DOMAIN cache \cup {rs[n].image : n \in new} |->
        IF \E n \in new : rs[n].image = image
        THEN results[CHOOSE n \in new : rs[n].image = image] ELSE cache[image]]

\* extraction_from_item, or what was found or read for the receipt.
Reading(receipt, found, n) == IF PreRead(receipt) THEN receipt.item ELSE found[n]

\* prefetch_ocr: the receipts that were neither pre-read nor in the cache.
Recognise(s) ==
  LET rs     == run[s].receipts
      misses == {n \in DOMAIN rs : ~PreRead(rs[n])} \ DOMAIN run[s].hits
  IN
  /\ run[s].at = "read"
  /\ \E results \in [misses -> Results] :
       /\ cache' = Remembered(rs, results)
       /\ run' = [run EXCEPT ![s] =
            [at |-> "lookup", up |-> run[s].up, receipts |-> rs,
             read |-> [n \in DOMAIN rs |->
                         Reading(rs[n], IF n \in misses THEN results ELSE run[s].hits, n)]]]
  /\ UNCHANGED <<world, keep, upload, queue>>

\* Mutant: the policy is the client's at the time of the build.
Kept_Now(u) == keep.now

\* The header carries the policy under which the form was accepted.
Kept(u) == upload[u].keep

\* Where each receipt goes: in keep mode everything that could be read is a line.
Decision(s, n) ==
  LET r == run[s] IN
  IF r.read[n] = "error" THEN "error" ELSE IF Kept(r.up) THEN "eclaim" ELSE r.read[n]

\* record_intake looks for an open row with the same image; 0: there is none.
Twin(image) ==
  LET open == {i \in DOMAIN queue : queue[i].image = image /\ queue[i].st = "open"}
  IN IF open = {} THEN 0 ELSE CHOOSE i \in open : \A j \in open : i <= j

Lookup(s) ==
  /\ run[s].at = "lookup"
  /\ run' = [run EXCEPT ![s] =
       [at |-> "build", up |-> run[s].up, receipts |-> run[s].receipts,
        to |-> [n \in DOMAIN run[s].receipts |-> Decision(s, n)],
        twin |-> [n \in DOMAIN run[s].receipts |-> Twin(run[s].receipts[n].image)]]]
  /\ UNCHANGED <<world, keep, upload, queue, cache>>

-----------------------------------------------------------------------------
(* The build: one transaction. *)

\* Mutant: no UNIQUE key on the job and the image of an intake.
IntakeTaken_Never(rows, u, image) == FALSE

\* uq_document_intake_job_sha; a row of an inline capture has no job.
IntakeTaken(rows, u, image) ==
  \E i \in DOMAIN rows : upload[u].async /\ rows[i].job = u /\ rows[i].image = image

Reclassified(row, to) ==
  IF row.pending /\ to # "pending" THEN [row EXCEPT !.pending = FALSE] ELSE row

\* One page is diverted: to the row that holds its image, which a confident
\* reading reclassifies, or to a new row; a page that this job has recorded
\* before is skipped.
Divert(acc, s, n) ==
  LET r     == run[s]
      image == r.receipts[n].image
      own   == {i \in DOMAIN acc.rows : i > Len(queue) /\ acc.rows[i].image = image}
      i     == IF r.twin[n] # 0 \/ own = {} THEN r.twin[n] ELSE CHOOSE k \in own : TRUE
  IN IF i # 0
     THEN [rows |-> [acc.rows EXCEPT ![i] = Reclassified(@, r.to[n])], landed |-> TRUE]
     ELSE IF IntakeTaken(acc.rows, r.up, image) THEN acc
     ELSE [rows |-> Append(acc.rows,
             [image |-> image, st |-> "open", pending |-> r.to[n] = "pending",
              by |-> r.up, job |-> IF upload[r.up].async THEN r.up ELSE None]),
           landed |-> TRUE]

\* The queue after every diverted page of the run, and whether any landed.
Diverted(s) ==
  LET after[n \in 0 .. Len(run[s].receipts)] ==
        CASE n = 0 -> [rows |-> queue, landed |-> FALSE]
          [] n > 0 /\ run[s].to[n] \in {"ap_holding", "pending"} -> Divert(after[n - 1], s, n)
          [] OTHER -> after[n - 1]
  IN after[Len(run[s].receipts)]

\* Mutant: diverted pages are recorded inside the savepoint of the claim.
Held_WithClaim(s, added) == IF added THEN Diverted(s).rows ELSE queue

\* What the queue holds in the end: a claim that is dropped keeps the diversions.
Held(s, added) == Diverted(s).rows

\* Any line may be refused (add_line raises), which is reported; an unroutable
\* trip is one whose route is not found.
Build(s) ==
  LET r    == run[s]
      u    == r.up
      form == upload[u].form
      onto == {n \in DOMAIN r.receipts : r.to[n] = "eclaim"}
  IN
  /\ r.at = "build"
  /\ \E refused \in SUBSET onto :
       LET lines == {r.receipts[n].image : n \in onto \ refused}
           trip  == form.trip = "good"
           added == lines # {} \/ trip
           bad   == {r.receipts[n].image : n \in refused}
                      \cup {r.receipts[n].image : n \in {m \in DOMAIN r.to : r.to[m] = "error"}}
       IN
       IF added /\ upload[u].async /\ upload[u].claims # <<>>
       THEN \* uq_claim_ingestion_job refuses; reconciled with the claim that exists
            Conclude(s, "done") /\ UNCHANGED queue
       ELSE IF ~added /\ ~Diverted(s).landed
       THEN Conclude(s, "failed") /\ UNCHANGED queue
       ELSE /\ queue' = Held(s, added)
            /\ upload' = [upload EXCEPT
                 ![u].st = "done", ![u].errors = bad,
                 ![u].claims = IF added
                               THEN Append(@, [lines |-> lines, trip |-> trip,
                                               attested |-> form.declared])
                               ELSE @]
            /\ run' = [run EXCEPT ![s] = Idle]
  /\ UNCHANGED <<world, keep, cache>>

\* Something raises: process_one reconciles the job with a claim that another
\* run has committed, or fails it.
Raise(s) ==
  /\ run[s] # Idle /\ upload[run[s].up].async
  /\ Conclude(s, IF upload[run[s].up].claims # <<>> THEN "done" ELSE "failed")
  /\ UNCHANGED <<world, keep, queue, cache>>

\* The process dies: a job stays running, a form that was built within its
\* request is lost, as it is when that request raises.
Crash(s) ==
  /\ run[s] # Idle
  /\ run' = [run EXCEPT ![s] = Idle]
  /\ upload' = IF upload[run[s].up].async THEN upload
               ELSE [upload EXCEPT ![run[s].up].st = "failed"]
  /\ UNCHANGED <<world, keep, queue, cache>>

\* A reviewer files a held page as a bill, or on a claim.
Process(i) ==
  /\ queue[i].st = "open"
  /\ queue' = [queue EXCEPT ![i].st = "consumed"]
  /\ UNCHANGED <<world, keep, upload, cache, run>>

-----------------------------------------------------------------------------
Init ==
  /\ world \in Worlds
  /\ keep \in [now : BOOLEAN, changes : {0}]
  /\ upload = [u \in Uploads |-> NoUpload]
  /\ queue = <<>>
  /\ cache = <<>>
  /\ run = [s \in Sessions |-> Idle]

Next ==
  \/ \E s \in world.sessions :
       \/ \E u \in Uploads : Take(s, u) \/ \E form \in world.forms : Capture(s, u, form)
       \/ FoundFiled(s) \/ BadHeader(s) \/ Begin(s) \/ Recognise(s)
       \/ Lookup(s) \/ Build(s) \/ Raise(s) \/ Crash(s)
  \/ \E i \in DOMAIN queue : Process(i)
  \/ SetRouting

Spec == Init /\ [][Next]_vars

-----------------------------------------------------------------------------
(* Properties. *)

PagesOf(images) == UNION {Range(image) : image \in images}

Submitted(u) == PagesOf({f.pages : f \in FileSet(upload[u].form)})

OnClaims(u) == PagesOf(UNION {c.lines : c \in Range(upload[u].claims)})

\* Rows that upload u added.
HeldBy(u) == PagesOf({row.image : row \in {q \in Range(queue) : q.by = u}})

InQueue == PagesOf({row.image : row \in Range(queue)})

\* No page occurs twice.
Once(pages) == \A i, j \in DOMAIN pages : pages[i] = pages[j] => i = j

\* The form holds no page twice.
Repeatless(form) ==
  /\ \A f \in FileSet(form) : Once(f.pages)
  /\ \A m, n \in DOMAIN form.files :
       m # n => Range(form.files[m].pages) \cap Range(form.files[n].pages) = {}

\* When runs do not overlap, every page of an upload that is reported done is
\* on its claim, in the holding queue or reported as an error, and, unless it
\* was submitted twice, not both on the claim and in the queue; an upload that
\* is not done has left nothing.
UploadAccounted ==
  Serial => \A u \in Uploads :
    IF upload[u].st = "done"
    THEN /\ Submitted(u) \subseteq OnClaims(u) \cup InQueue \cup PagesOf(upload[u].errors)
         /\ Repeatless(upload[u].form) =>
              /\ OnClaims(u) \cap HeldBy(u) = {}
              /\ PagesOf(upload[u].errors) \cap (OnClaims(u) \cup HeldBy(u)) = {}
    ELSE upload[u].claims = <<>> /\ HeldBy(u) = {}

\* Whatever runs overlap, crash and read the pages differently, an upload
\* becomes one claim at most, and one row for an image at most.
OneRunFiles ==
  /\ \A u \in Uploads : Len(upload[u].claims) <= 1
  /\ \A i, j \in DOMAIN queue :
       /\ queue[i].image = queue[j].image /\ queue[i].job = queue[j].job
       /\ queue[i].job # None
       => i = j

\* Every claim that the form builds was declared: the gate, which sees the form
\* before anything is read, foresees what the later readings make of it, and a
\* change of the routing policy in between does not unsettle that.
ClaimsDeclared ==
  \A u \in Uploads : \A c \in Range(upload[u].claims) : c.attested

\* What an upload turns into holds whatever overlaps.
UploadFiles == OneRunFiles /\ ClaimsDeclared
=============================================================================
