---------------------------- MODULE IngestWorker ----------------------------
(***************************************************************************)
(* The ingestion_job queue and the background workers that drain it        *)
(* (ingest/worker.py, services/ingestion.py).                              *)
(*                                                                         *)
(* A large upload stages its files on disk and inserts a queued job.  A    *)
(* worker claims one job at a time (FOR UPDATE SKIP LOCKED), reads its     *)
(* files, reads every page through the OCR service, and files the upload:  *)
(* a claim, intakes in the holding queue, or both, in one transaction with *)
(* the job's completion.  While it reads it renews a heartbeat; a running  *)
(* job whose heartbeat is stale is claimed again, MaxAttempts times in     *)
(* all, and then dead-lettered.                                            *)
(*                                                                         *)
(* A stale heartbeat does not mean a dead worker: rendering and            *)
(* segmenting a PDF, or one slow OCR call, renews nothing.  So two workers *)
(* can hold one job, and every statement that a worker commits is a step.  *)
(***************************************************************************)
EXTENDS Naturals, FiniteSets

CONSTANTS
  Workers,      \* worker threads, one in each application process
  Jobs,         \* uploads large enough for the queue
  MaxAttempts   \* MAX_ATTEMPTS: how often a job is claimed (5 in the code)

ASSUME IngestAssumption == MaxAttempts \in Nat \ {0}

VARIABLES
  upload,   \* the request that stages and enqueues each job
  job,      \* ingestion_job rows
  claims,   \* how many claims carry the job's ingestion_job_id
  intakes,  \* how many intakes record the job's diverted page
  staged,   \* jobs whose staging directory exists
  aged,     \* those whose directory is older than STAGING_TTL_HOURS
  worker    \* what each worker is doing, and for which job

vars == <<upload, job, claims, intakes, staged, aged, worker>>

Terminal == {"done", "failed"}

\* With a job in hand, where a crash leaves the job running.
Holding == {"check", "load", "read", "except", "finish", "cleanup"}

NoRow == [status |-> "none", attempts |-> 0, fresh |-> FALSE]

Idle == [at |-> "idle"]

\* Worker w moves to the step at, with the same job.
GoTo(w, at) == worker' = [worker EXCEPT ![w] = [at |-> at, job |-> @.job]]

\* Worker w will mark its job with the status verdict.
Conclude(w, verdict) ==
  worker' = [worker EXCEPT ![w] = [at |-> "finish", job |-> @.job, verdict |-> verdict]]

-----------------------------------------------------------------------------
(* The upload request: files first, then the row, committed by get_db. *)

StageFiles(j) ==
  /\ upload[j] = "todo"
  /\ upload' = [upload EXCEPT ![j] = "staged"]
  /\ staged' = staged \cup {j}
  /\ UNCHANGED <<job, claims, intakes, aged, worker>>

Enqueue(j) ==
  /\ upload[j] = "staged"
  /\ upload' = [upload EXCEPT ![j] = "over"]
  /\ job' = [job EXCEPT ![j].status = "queued"]
  /\ UNCHANGED <<claims, intakes, staged, aged, worker>>

\* The request fails after staging: no row, orphaned files.
Abandon(j) ==
  /\ upload[j] = "staged"
  /\ upload' = [upload EXCEPT ![j] = "over"]
  /\ UNCHANGED <<job, claims, intakes, staged, aged, worker>>

-----------------------------------------------------------------------------
(* Time. *)

\* STALE_INTERVAL passes without a heartbeat.
GoStale(j) ==
  /\ job[j].status = "running"
  /\ job[j].fresh
  /\ job' = [job EXCEPT ![j].fresh = FALSE]
  /\ UNCHANGED <<upload, claims, intakes, staged, aged, worker>>

\* STAGING_TTL_HOURS pass.  A request does not last that long.
Age(j) ==
  /\ upload[j] = "over"
  /\ j \in staged \ aged
  /\ aged' = aged \cup {j}
  /\ UNCHANGED <<upload, job, claims, intakes, staged, worker>>

-----------------------------------------------------------------------------
(* Claiming a job. *)

Stale(j) == job[j].status = "running" /\ ~job[j].fresh

\* Mutant: one attempt too many.
Runnable_Extra(j) ==
  job[j].status = "queued" \/ (Stale(j) /\ job[j].attempts <= MaxAttempts)

\* Mutant: a failed job is claimed again.
Runnable_Failed(j) ==
  \/ job[j].status = "queued" \/ Stale(j)
  \/ job[j].status = "failed" /\ job[j].attempts < MaxAttempts

\* _CLAIM_SQL
Runnable(j) ==
  job[j].status = "queued" \/ (Stale(j) /\ job[j].attempts < MaxAttempts)

\* Mutant: the last attempt is never given up.
Poison_Never(j) == Stale(j) /\ job[j].attempts > MaxAttempts

\* _REAP_POISON_SQL
Poison(j) == Stale(j) /\ job[j].attempts >= MaxAttempts

Reap(w) ==
  /\ worker[w].at = "idle"
  /\ job' = [j \in Jobs |->
               IF Poison(j) THEN [job[j] EXCEPT !.status = "failed", !.fresh = TRUE]
               ELSE job[j]]
  /\ worker' = [worker EXCEPT ![w] = [at |-> "poll"]]
  /\ UNCHANGED <<upload, claims, intakes, staged, aged>>

\* Oldest first, except that rows locked by another transaction are skipped.
ClaimNext(w) ==
  /\ worker[w].at = "poll"
  /\ \E j \in Jobs :
       /\ Runnable(j)
       /\ job' = [job EXCEPT ![j].status = "running", ![j].attempts = @ + 1, ![j].fresh = TRUE]
       /\ worker' = [worker EXCEPT ![w] = [at |-> "check", job |-> j]]
  /\ UNCHANGED <<upload, claims, intakes, staged, aged>>

QueueEmpty(w) ==
  /\ worker[w].at = "poll"
  /\ ~\E j \in Jobs : Runnable(j)
  /\ worker' = [worker EXCEPT ![w] = [at |-> "rest"]]
  /\ UNCHANGED <<upload, job, claims, intakes, staged, aged>>

-----------------------------------------------------------------------------
(* Running a job. *)

\* _existing_claim_id, _job_has_intakes: an earlier run has filed the job.
Prior(j) == claims[j] > 0 \/ intakes[j] > 0

Check(w) ==
  /\ worker[w].at = "check"
  /\ IF Prior(worker[w].job) THEN Conclude(w, "done") ELSE GoTo(w, "load")
  /\ UNCHANGED <<upload, job, claims, intakes, staged, aged>>

\* read_staged raises when the directory is gone.
Load(w) ==
  /\ worker[w].at = "load"
  /\ GoTo(w, IF worker[w].job \in staged THEN "read" ELSE "except")
  /\ UNCHANGED <<upload, job, claims, intakes, staged, aged>>

\* _progress: a page has been read.
Beat(w) ==
  /\ worker[w].at = "read"
  /\ job' = [job EXCEPT ![worker[w].job].fresh = TRUE]
  /\ UNCHANGED <<upload, claims, intakes, staged, aged, worker>>

\* The transaction of build_claim and _finish commits.
File(w, claim, intake) ==
  LET j == worker[w].job IN
  /\ claims'  = [claims EXCEPT ![j] = IF claim THEN @ + 1 ELSE @]
  /\ intakes' = [intakes EXCEPT ![j] = IF intake THEN @ + 1 ELSE @]
  /\ job' = [job EXCEPT ![j].status = "done", ![j].fresh = TRUE]
  /\ GoTo(w, "cleanup")
  /\ UNCHANGED <<upload, staged, aged>>

\* The build wrote nothing, or rolled back what it wrote.
Unfiled(w) ==
  /\ worker[w].at = "read"
  /\ UNCHANGED <<upload, job, claims, intakes, staged, aged>>

\* Mutant: no UNIQUE key on claim.ingestion_job_id.
ClaimTaken_Never(j) == FALSE

\* uq_claim_ingestion_job
ClaimTaken(j) == claims[j] > 0

\* Mutant: no UNIQUE key on the job's intakes.
IntakeTaken_Never(j) == FALSE

\* uq_document_intake_job_sha
IntakeTaken(j) == intakes[j] > 0

\* Some line reads as an expense: a claim, perhaps with diverted pages beside it.
\* A diverted page that is recorded already is kept as it is.
BuildClaim(w) ==
  /\ worker[w].at = "read"
  /\ ~ClaimTaken(worker[w].job)
  /\ \/ File(w, TRUE, FALSE)
     \/ ~IntakeTaken(worker[w].job) /\ File(w, TRUE, TRUE)

\* IntegrityError: another run has built the claim.
ClaimCollides(w) ==
  /\ Unfiled(w)
  /\ ClaimTaken(worker[w].job)
  /\ GoTo(w, "except")

\* Every page is diverted.  An intake that is still open is found and returned.
BuildIntakes(w) ==
  /\ worker[w].at = "read"
  /\ File(w, FALSE, ~IntakeTaken(worker[w].job))

\* The intake was consumed since, or committed while this run was inserting it:
\* the page is skipped, and then nothing has landed.
IntakeCollides(w) ==
  /\ Unfiled(w)
  /\ IntakeTaken(worker[w].job)
  /\ Conclude(w, "failed")

\* No page could be read, or the header does not validate.
BuildNothing(w) == Unfiled(w) /\ Conclude(w, "failed")

\* Anything raises while the job is read or built.
Raise(w) == Unfiled(w) /\ GoTo(w, "except")

\* Mutant: the failure handler takes any document of the job for granted.
Verdict_Done(j) == "done"

\* Mutant: a status that the table does not have.
Verdict_Word(j) == IF claims[j] > 0 THEN "done" ELSE "error"

\* Reconcile with a claim that another run committed.
Verdict(j) == IF claims[j] > 0 THEN "done" ELSE "failed"

Recover(w) ==
  /\ worker[w].at = "except"
  /\ Conclude(w, Verdict(worker[w].job))
  /\ UNCHANGED <<upload, job, claims, intakes, staged, aged>>

\* _finish: an UPDATE that looks at nothing but the job's id.
Finish(w) ==
  LET j == worker[w].job IN
  /\ worker[w].at = "finish"
  /\ job' = [job EXCEPT ![j].status = worker[w].verdict, ![j].fresh = TRUE]
  /\ GoTo(w, "cleanup")
  /\ UNCHANGED <<upload, claims, intakes, staged, aged>>

Cleanup(w) ==
  /\ worker[w].at = "cleanup"
  /\ staged' = staged \ {worker[w].job}
  /\ aged' = aged \ {worker[w].job}
  /\ worker' = [worker EXCEPT ![w] = [at |-> "rest"]]
  /\ UNCHANGED <<upload, job, claims, intakes>>

\* The process dies and another starts; an error in the failure handler, which
\* reaches the polling loop, ends alike.
Crash(w) ==
  /\ worker[w].at \in Holding
  /\ worker' = [worker EXCEPT ![w] = Idle]
  /\ UNCHANGED <<upload, job, claims, intakes, staged, aged>>

-----------------------------------------------------------------------------
(* Between two jobs. *)

Poll(w) ==
  /\ worker[w].at = "rest"
  /\ worker' = [worker EXCEPT ![w] = Idle]
  /\ UNCHANGED <<upload, job, claims, intakes, staged, aged>>

\* Mutant: the janitor goes by age alone.
Orphans_Aged == aged

\* Mutant: an upload without a row is left where it is.
Orphans_Rows == {j \in aged : job[j].status \in Terminal}

\* Old directories whose job is terminal or has no row.
Orphans == {j \in aged : job[j].status \in Terminal \cup {"none"}}

\* sweep_staging, at start and then every half hour or so.
Sweep(w) ==
  /\ worker[w].at = "rest"
  /\ staged' = staged \ Orphans
  /\ aged' = aged \ Orphans
  /\ worker' = [worker EXCEPT ![w] = Idle]
  /\ UNCHANGED <<upload, job, claims, intakes>>

-----------------------------------------------------------------------------
Init ==
  /\ upload = [j \in Jobs |-> "todo"]
  /\ job = [j \in Jobs |-> NoRow]
  /\ claims = [j \in Jobs |-> 0]
  /\ intakes = [j \in Jobs |-> 0]
  /\ staged = {}
  /\ aged = {}
  /\ worker = [w \in Workers |-> Idle]

\* A step that takes the worker on.
Proceed(w) ==
  \/ Reap(w)
  \/ ClaimNext(w)
  \/ QueueEmpty(w)
  \/ Check(w)
  \/ Load(w)
  \/ BuildClaim(w)
  \/ ClaimCollides(w)
  \/ BuildIntakes(w)
  \/ IntakeCollides(w)
  \/ BuildNothing(w)
  \/ Raise(w)
  \/ Recover(w)
  \/ Finish(w)
  \/ Cleanup(w)
  \/ Poll(w)

Next ==
  \/ \E j \in Jobs : StageFiles(j) \/ Enqueue(j) \/ Abandon(j) \/ GoStale(j) \/ Age(j)
  \/ \E w \in Workers : Proceed(w) \/ Sweep(w) \/ Beat(w) \/ Crash(w)

Spec == Init /\ [][Next]_vars

\* A request that has begun ends; time passes; a worker thread that can go on
\* does, and sweeps once in so many rounds.
Fairness ==
  /\ \A j \in Jobs : /\ WF_vars(Enqueue(j) \/ Abandon(j))
                      /\ WF_vars(GoStale(j)) /\ WF_vars(Age(j))
  /\ \A w \in Workers : WF_vars(Proceed(w)) /\ SF_vars(Sweep(w))

FairSpec == Spec /\ Fairness

-----------------------------------------------------------------------------
(* However many workers hold a job. *)

Free == {"idle", "poll", "rest"}

Worker ==
  [at : Free] \cup [at : Holding \ {"finish"}, job : Jobs]
    \cup [at : {"finish"}, job : Jobs, verdict : Terminal]

\* Every variable holds what its column or its worker can hold.
TypeOK ==
  /\ upload \in [Jobs -> {"todo", "staged", "over"}]
  /\ job \in [Jobs -> [status : {"none", "queued", "running"} \cup Terminal,
                       attempts : Nat, fresh : BOOLEAN]]
  /\ claims \in [Jobs -> Nat] /\ intakes \in [Jobs -> Nat]
  /\ staged \subseteq Jobs /\ aged \subseteq staged
  /\ worker \in [Workers -> Worker]

Holders(j) == {w \in Workers : worker[w].at \in Holding /\ worker[w].job = j}

\* A poison job costs MaxAttempts readings and no more: every worker that has
\* the job in hand is charged to an attempt, and the attempts are bounded.
AttemptsBounded ==
  \A j \in Jobs : /\ Cardinality(Holders(j)) <= job[j].attempts
                  /\ job[j].attempts <= MaxAttempts

\* An upload is filed once: two workers that read it both cannot both file it.
FiledOnce == \A j \in Jobs : claims[j] <= 1 /\ intakes[j] <= 1

\* A job that can still be claimed or reclaimed has its files, whatever has
\* crashed and whatever the janitor has swept.
RunnableHasFiles ==
  \A j \in Jobs : job[j].status \in {"queued", "running"} => j \in staged

\* A job reported as done has a claim or intakes: no upload is lost silently.
DoneIsFiled ==
  \A j \in Jobs : job[j].status = "done" => claims[j] + intakes[j] > 0

\* Every job that is enqueued is in the end done or failed for good, though
\* workers crash while they have it in hand.
Settles ==
  \A j \in Jobs : job[j].status = "queued" ~> [](job[j].status \in Terminal)

\* Staged files do not stay for ever: every directory is removed by the worker
\* that finishes the job or, after a crash or a failed request, by the janitor.
StagingReclaimed == \A j \in Jobs : j \in staged ~> j \notin staged

-----------------------------------------------------------------------------
(* One worker at a time: what the queue promises the uploader. *)

Promised(status) ==
  CASE status = "none"                  -> "absent"
    [] status \in {"queued", "running"} -> "pending"
    [] status = "done"                  -> "filed"
    [] status = "failed"                -> "failed"

Outcome ==
  INSTANCE UploadOutcome
    WITH outcome   <- [j \in Jobs |-> Promised(job[j].status)],
         documents <- [j \in Jobs |-> (IF claims[j] > 0 THEN {"claim"} ELSE {})
                                        \cup (IF intakes[j] > 0 THEN {"intakes"} ELSE {})]

\* The queue implements the abstract promise: an upload is filed in the very step
\* that reports it done, or is reported failed and leaves nothing; both are final,
\* and one of them comes about.
KeepsPromise == Outcome!Spec

=============================================================================
