------------------------- MODULE IngestWorkerProofs -------------------------
(***************************************************************************)
(* What holds of IngestWorker for every number of workers and jobs and     *)
(* every bound on the attempts, and what one worker alone guarantees.      *)
(***************************************************************************)
EXTENDS IngestWorker, TLAPS, FiniteSetTheorems

-----------------------------------------------------------------------------
(* Types. *)

Row == [status : {"none", "queued", "running"} \cup Terminal, attempts : Nat,
        fresh : BOOLEAN]

LEMMA InHand ==
  ASSUME TypeOK, NEW w \in Workers, worker[w].at \in Holding
  PROVE  /\ worker[w].job \in Jobs
         /\ worker[w].at = "finish" => worker[w].verdict \in Terminal
  <1>1. worker[w] \in Worker
    BY DEF TypeOK
  <1>2. QED
    BY <1>1 DEF Worker, Free, Holding, Terminal

LEMMA TypeStep ==
  ASSUME TypeOK, [Next]_vars
  PROVE  TypeOK'
  <1> USE DEF TypeOK, Terminal
  <1>1. CASE UNCHANGED vars
    BY <1>1 DEF vars
  <1>2. ASSUME NEW j \in Jobs,
               StageFiles(j) \/ Enqueue(j) \/ Abandon(j) \/ GoStale(j) \/ Age(j)
        PROVE  TypeOK'
    <2>1. CASE StageFiles(j) \/ Abandon(j) \/ Age(j)
      BY <2>1 DEF StageFiles, Abandon, Age
    <2>2. CASE Enqueue(j)
      BY <2>2 DEF Enqueue
    <2>3. CASE GoStale(j)
      BY <2>3 DEF GoStale
    <2>4. QED
      BY <1>2, <2>1, <2>2, <2>3
  <1>3. ASSUME NEW w \in Workers, Proceed(w) \/ Sweep(w) \/ Beat(w) \/ Crash(w)
        PROVE  TypeOK'
    <2> USE DEF Worker, Free, Holding
    <2>1. CASE Reap(w)
      <3>1. \A r \in Row : [r EXCEPT !.status = "failed", !.fresh = TRUE] \in Row
        BY DEF Row
      <3>2. job \in [Jobs -> Row]
        BY DEF Row
      <3>3. job' \in [Jobs -> Row]
        BY <2>1, <3>1, <3>2 DEF Reap
      <3>4. worker' \in [Workers -> Worker]
        BY <2>1 DEF Reap
      <3>5. UNCHANGED <<upload, claims, intakes, staged, aged>>
        BY <2>1 DEF Reap
      <3>6. job' \in [Jobs -> [status : {"none", "queued", "running"} \cup Terminal,
                                attempts : Nat, fresh : BOOLEAN]]
        BY <3>3 DEF Row
      <3>7. QED
        BY <3>4, <3>5, <3>6
    <2>2. CASE ClaimNext(w)
      BY <2>2 DEF ClaimNext
    <2>3. CASE QueueEmpty(w) \/ Poll(w) \/ Crash(w)
      BY <2>3 DEF QueueEmpty, Poll, Crash, Idle
    <2>4. CASE Check(w) \/ Load(w) \/ Recover(w)
      <3>2. worker[w].job \in Jobs
        BY <2>4, InHand DEF Check, Load, Recover
      <3>3. CASE Check(w)
        <4>1. UNCHANGED <<upload, job, claims, intakes, staged, aged>>
          BY <3>3 DEF Check
        <4>2. Conclude(w, "done") \/ GoTo(w, "load")
          BY <3>3 DEF Check
        <4>3. worker' \in [Workers -> Worker]
          BY <3>2, <4>2 DEF Conclude, GoTo
        <4>4. QED
          BY <4>1, <4>3
      <3>4. CASE Load(w)
        <4>1. GoTo(w, "read") \/ GoTo(w, "except")
          BY <3>4 DEF Load
        <4>2. QED
          BY <3>2, <3>4, <4>1 DEF Load, GoTo
      <3>5. CASE Recover(w)
        <4>1. Verdict(worker[w].job) \in Terminal
          BY DEF Verdict
        <4>2. QED
          BY <3>2, <3>5, <4>1 DEF Recover, Conclude
      <3>6. QED
        BY <2>4, <3>3, <3>4, <3>5
    <2>5. CASE Beat(w)
      <3>1. worker[w].job \in Jobs
        BY <2>5, InHand DEF Beat
      <3>2. job \in [Jobs -> Row]
        BY DEF Row
      <3>3. [job[worker[w].job] EXCEPT !.fresh = TRUE] \in Row
        BY <3>1, <3>2 DEF Row
      <3>4. job' \in [Jobs -> Row]
        BY <2>5, <3>1, <3>2, <3>3 DEF Beat
      <3>5. QED
        BY <2>5, <3>4 DEF Beat, Row
    <2>6. ASSUME NEW c \in BOOLEAN, NEW i \in BOOLEAN, worker[w].at = "read", File(w, c, i)
          PROVE  TypeOK'
      <3> DEFINE j == worker[w].job
      <3>1. j \in Jobs
        BY <2>6, InHand
      <3>2. claims' \in [Jobs -> Nat] /\ intakes' \in [Jobs -> Nat]
        BY <2>6, <3>1 DEF File
      <3>3. job' = [job EXCEPT ![j].status = "done", ![j].fresh = TRUE]
        BY <2>6 DEF File
      <3>4. job' \in [Jobs -> Row]
        <4>1. job \in [Jobs -> Row]
          BY DEF Row
        <4>2. \A r \in Row : [r EXCEPT !.status = "done", !.fresh = TRUE] \in Row
          BY DEF Row
        <4>3. QED
          BY <3>1, <3>3, <4>1, <4>2
      <3>5. worker' \in [Workers -> Worker] /\ UNCHANGED <<upload, staged, aged>>
        BY <2>6, <3>1 DEF File, GoTo
      <3>6. QED
        BY <3>2, <3>4, <3>5 DEF Row
    <2>7. CASE BuildClaim(w) \/ BuildIntakes(w)
      <3>1. \E c, i \in BOOLEAN : worker[w].at = "read" /\ File(w, c, i)
        BY <2>7 DEF BuildClaim, BuildIntakes, IntakeTaken
      <3>2. QED
        BY <2>6, <3>1
    <2>8. CASE ClaimCollides(w) \/ IntakeCollides(w) \/ BuildNothing(w) \/ Raise(w)
      BY <2>8 DEF ClaimCollides, IntakeCollides, BuildNothing, Raise, Unfiled, Conclude, GoTo
    <2>9. CASE Finish(w)
      BY <2>9 DEF Finish, GoTo
    <2>10. CASE Cleanup(w)
      BY <2>10 DEF Cleanup
    <2>11. CASE Sweep(w)
      BY <2>11 DEF Sweep, Idle
    <2>12. QED
      BY <1>3, <2>1, <2>2, <2>3, <2>4, <2>5, <2>7, <2>8, <2>9, <2>10, <2>11 DEF Proceed
  <1>4. QED
    BY <1>1, <1>2, <1>3 DEF Next

\* Every reachable state is well typed.
THEOREM TypeCorrect == Spec => []TypeOK
  <1>1. Init => TypeOK
    BY DEF Init, TypeOK, NoRow, Idle, Worker, Free
  <1>2. TypeOK /\ [Next]_vars => TypeOK'
    BY TypeStep
  <1>3. QED
    BY <1>1, <1>2, PTL DEF Spec

-----------------------------------------------------------------------------
(* Which steps touch what. *)

\* Only the two steps that file an upload write claims and intakes.
LEMMA Untouched ==
  ASSUME [Next]_vars
  PROVE  \/ UNCHANGED <<claims, intakes>>
         \/ \E w \in Workers : BuildClaim(w) \/ BuildIntakes(w)
  BY DEF Next, vars, Proceed, StageFiles, Enqueue, Abandon, GoStale, Age, Reap, ClaimNext,
         QueueEmpty, Check, Load, Beat, ClaimCollides, IntakeCollides, BuildNothing, Raise,
         Unfiled, Recover, Finish, Cleanup, Crash, Poll, Sweep

-----------------------------------------------------------------------------
(* One filing. *)

\* A claim is inserted only where the job has none, an intake likewise: the two
\* UNIQUE keys are what keeps a second reader of the upload out.
LEMMA FiledOnceStep ==
  ASSUME TypeOK, FiledOnce, [Next]_vars
  PROVE  FiledOnce'
  <1> USE DEF FiledOnce
  <1>1. CASE UNCHANGED <<claims, intakes>>
    BY <1>1
  <1>2. ASSUME NEW w \in Workers, BuildClaim(w)
        PROVE  FiledOnce'
    <2> DEFINE j == worker[w].job
    <2>1. j \in Jobs /\ claims[j] = 0
      BY <1>2, InHand DEF BuildClaim, ClaimTaken, Holding, TypeOK
    <2>2. CASE File(w, TRUE, FALSE)
      BY <2>1, <2>2 DEF File, TypeOK
    <2>3. CASE ~IntakeTaken(j) /\ File(w, TRUE, TRUE)
      <3>1. intakes[j] = 0
        BY <2>1, <2>3 DEF IntakeTaken, TypeOK
      <3>2. QED
        BY <2>1, <2>3, <3>1 DEF File, TypeOK
    <2>4. QED
      BY <1>2, <2>2, <2>3 DEF BuildClaim
  <1>3. ASSUME NEW w \in Workers, BuildIntakes(w)
        PROVE  FiledOnce'
    <2> DEFINE j == worker[w].job
    <2>1. j \in Jobs
      BY <1>3, InHand DEF BuildIntakes, Holding
    <2>2. claims' = claims
      BY <1>3, <2>1 DEF BuildIntakes, File, TypeOK
    <2>3. intakes' = [intakes EXCEPT ![j] = IF ~IntakeTaken(j) THEN @ + 1 ELSE @]
      BY <1>3 DEF BuildIntakes, File
    <2>4. ~IntakeTaken(j) => intakes[j] = 0
      BY <2>1 DEF IntakeTaken, TypeOK
    <2>5. QED
      BY <2>1, <2>2, <2>3, <2>4 DEF TypeOK
  <1>4. QED
    BY <1>1, <1>2, <1>3, Untouched

\* No interleaving of workers files an upload twice.
THEOREM UploadFiledOnce == Spec => []FiledOnce
  <1>1. Init => FiledOnce
    BY DEF Init, FiledOnce
  <1>2. TypeOK /\ FiledOnce /\ [Next]_vars => FiledOnce'
    BY FiledOnceStep
  <1>3. QED
    BY <1>1, <1>2, TypeCorrect, PTL DEF Spec

-----------------------------------------------------------------------------
(* Nothing is reported done that is not filed. *)

\* A worker that is about to report its job done has seen the job's documents,
\* and documents are never taken away from a job.
DoneInv ==
  /\ DoneIsFiled
  /\ \A w \in Workers :
       worker[w].at = "finish" =>
         (worker[w].verdict = "done" => Prior(worker[w].job))

LEMMA DoneStep ==
  ASSUME TypeOK, DoneInv, [Next]_vars
  PROVE  DoneInv'
  <1>0. \A j \in Jobs : claims[j] \in Nat /\ intakes[j] \in Nat
    BY DEF TypeOK
  <1>1. ASSUME UNCHANGED <<claims, intakes>>,
               \A j \in Jobs : job'[j].status = "done" => job[j].status = "done" \/ Prior(j),
               \A w \in Workers :
                 worker'[w].at = "finish" =>
                   \/ worker'[w] = worker[w]
                   \/ worker'[w].verdict = "done" => Prior(worker'[w].job)
        PROVE  DoneInv'
    <2>1. DoneIsFiled'
      BY <1>0, <1>1 DEF DoneInv, DoneIsFiled, Prior
    <2>2. QED
      BY <1>1, <2>1 DEF DoneInv, Prior
  <1>2. CASE UNCHANGED vars
    BY <1>2 DEF vars, DoneInv, DoneIsFiled, Prior
  <1>3. ASSUME NEW j \in Jobs,
               StageFiles(j) \/ Enqueue(j) \/ Abandon(j) \/ GoStale(j) \/ Age(j)
        PROVE  DoneInv'
    <2>1. UNCHANGED <<claims, intakes, worker>>
      BY <1>3 DEF StageFiles, Enqueue, Abandon, GoStale, Age
    <2>2. \A k \in Jobs : job'[k].status = "done" => job[k].status = "done"
      BY <1>3 DEF StageFiles, Enqueue, Abandon, GoStale, Age, TypeOK
    <2>3. QED
      BY <1>1, <2>1, <2>2
  <1>4. ASSUME NEW w \in Workers, NEW c \in BOOLEAN, NEW i \in BOOLEAN, File(w, c, i),
               worker[w].at = "read",
               c \/ i \/ Prior(worker[w].job)
        PROVE  DoneInv'
    <2>1. PICK j \in Jobs : j = worker[w].job
      BY <1>4, InHand DEF Holding
    <2>2. \A k \in Jobs : Prior(k) => Prior(k)'
      BY <1>0, <1>4, <2>1 DEF File, Prior, TypeOK
    <2>3. Prior(j)'
      BY <1>0, <1>4, <2>1 DEF File, Prior, TypeOK
    <2>4. \A k \in Jobs : job'[k].status = "done" => job[k].status = "done" \/ k = j
      BY <1>4, <2>1 DEF File, TypeOK
    <2>5. claims' \in [Jobs -> Nat] /\ intakes' \in [Jobs -> Nat]
      BY <1>4, <2>1 DEF File, TypeOK
    <2>6. DoneIsFiled'
      <3>1. \A k \in Jobs : job'[k].status = "done" => Prior(k)'
        BY <1>0, <2>2, <2>3, <2>4 DEF DoneInv, DoneIsFiled, Prior
      <3>2. QED
        BY <2>5, <3>1 DEF DoneIsFiled, Prior
    <2>7. \A v \in Workers : worker'[v].at = "finish" => worker'[v] = worker[v] /\ v # w
      BY <1>4 DEF File, GoTo, TypeOK
    <2>8. \A v \in Workers : worker[v].at = "finish" => worker[v].job \in Jobs
      BY InHand DEF Holding
    <2>9. QED
      BY <2>2, <2>6, <2>7, <2>8 DEF DoneInv
  <1>5. ASSUME NEW w \in Workers, Proceed(w) \/ Sweep(w) \/ Beat(w) \/ Crash(w)
        PROVE  DoneInv'
    <2>1. CASE Reap(w)
      BY <1>1, <2>1 DEF Reap, TypeOK
    <2>2. CASE ClaimNext(w)
      BY <1>1, <2>2 DEF ClaimNext, TypeOK
    <2>3. CASE QueueEmpty(w) \/ Poll(w) \/ Crash(w) \/ Cleanup(w) \/ Sweep(w)
      BY <1>1, <2>3 DEF QueueEmpty, Poll, Crash, Cleanup, Sweep, Idle, TypeOK
    <2>4. CASE Check(w) \/ Load(w)
      BY <1>1, <2>4 DEF Check, Load, Conclude, GoTo, TypeOK
    <2>5. CASE Beat(w)
      <3>1. worker[w].job \in Jobs
        BY <2>5, InHand DEF Beat, Holding
      <3>2. QED
        BY <1>1, <2>5, <3>1 DEF Beat, TypeOK
    <2>6. CASE ClaimCollides(w) \/ IntakeCollides(w) \/ BuildNothing(w) \/ Raise(w)
      BY <1>1, <2>6 DEF ClaimCollides, IntakeCollides, BuildNothing, Raise, Unfiled,
                        Conclude, GoTo, TypeOK
    <2>7. CASE Recover(w)
      <3>1. Verdict(worker[w].job) = "done" => Prior(worker[w].job)
        BY DEF Verdict, Prior
      <3>2. QED
        BY <1>1, <2>7, <3>1 DEF Recover, Conclude, TypeOK
    <2>8. CASE Finish(w)
      <3>1. worker[w].job \in Jobs
        BY <2>8, InHand DEF Finish, Holding
      <3>2. worker[w].verdict = "done" => Prior(worker[w].job)
        BY <2>8 DEF Finish, DoneInv
      <3>3. QED
        BY <1>1, <2>8, <3>1, <3>2 DEF Finish, GoTo, TypeOK
    <2>9. CASE BuildClaim(w)
      BY <1>4, <2>9 DEF BuildClaim
    <2>10. CASE BuildIntakes(w)
      <3>1. IntakeTaken(worker[w].job) => Prior(worker[w].job)
        BY DEF IntakeTaken, Prior
      <3>2. IntakeTaken(worker[w].job) \in BOOLEAN
        BY DEF IntakeTaken
      <3>3. QED
        BY <1>4, <2>10, <3>1, <3>2 DEF BuildIntakes
    <2>11. QED
      BY <1>5, <2>1, <2>2, <2>3, <2>4, <2>5, <2>6, <2>7, <2>8, <2>9, <2>10 DEF Proceed
  <1>6. QED
    BY <1>2, <1>3, <1>5 DEF Next

\* However workers overlap and crash, done means filed.
THEOREM NothingLost == Spec => []DoneIsFiled
  <1>1. Init => DoneInv
    BY DEF Init, DoneInv, DoneIsFiled, NoRow, Idle
  <1>2. TypeOK /\ DoneInv /\ [Next]_vars => DoneInv'
    BY DoneStep
  <1>3. DoneInv => DoneIsFiled
    BY DEF DoneInv
  <1>4. QED
    BY <1>1, <1>2, <1>3, TypeCorrect, PTL DEF Spec

-----------------------------------------------------------------------------
(* Files of the jobs that can run. *)

\* A row exists only once its request is over, and the janitor looks only at
\* directories of requests that are over; a worker has only jobs that have a row,
\* and removes the files only of a job that is done or failed, for good.
FilesInv ==
  /\ RunnableHasFiles
  /\ \A j \in Jobs : job[j].status # "none" => upload[j] = "over"
  /\ \A j \in Jobs : upload[j] = "staged" => j \in staged
  /\ \A j \in aged : upload[j] = "over"
  /\ \A w \in Workers :
       worker[w].at \in Holding =>
         /\ job[worker[w].job].status \in {"running"} \cup Terminal
         /\ worker[w].at = "cleanup" => job[worker[w].job].status \in Terminal

\* What a step of a worker may do to a row.
Forwards(s, t) ==
  \/ t = s
  \/ s = "queued" /\ t = "running"
  \/ s \in {"running"} \cup Terminal /\ t \in Terminal

LEMMA FilesStep ==
  ASSUME TypeOK, FilesInv, [Next]_vars
  PROVE  FilesInv'
  <1> USE DEF FilesInv, RunnableHasFiles
  <1>0. \A w \in Workers : worker[w].at \in Holding => worker[w].job \in Jobs
    BY InHand
  <1>1. CASE UNCHANGED vars
    BY <1>1 DEF vars
  <1>2. ASSUME NEW j \in Jobs,
               StageFiles(j) \/ Enqueue(j) \/ Abandon(j) \/ GoStale(j) \/ Age(j)
        PROVE  FilesInv'
    <2>1. CASE StageFiles(j)
      BY <1>0, <2>1 DEF StageFiles, TypeOK
    <2>2. CASE Enqueue(j)
      <3>1. job[j].status = "none" /\ j \in staged
        BY <2>2 DEF Enqueue
      <3>2. \A w \in Workers : worker[w].at \in Holding => worker[w].job # j
        BY <3>1 DEF Terminal
      <3>3. \A k \in Jobs \ {j} : job'[k] = job[k] /\ upload'[k] = upload[k]
        BY <2>2 DEF Enqueue, TypeOK
      <3>4. upload'[j] = "over"
        BY <2>2 DEF Enqueue, TypeOK
      <3>5. UNCHANGED <<staged, aged, worker>>
        BY <2>2 DEF Enqueue
      <3>6. aged \subseteq Jobs
        BY DEF TypeOK
      <3>7. QED
        BY <1>0, <3>1, <3>2, <3>3, <3>4, <3>5, <3>6
    <2>3. CASE Abandon(j) \/ Age(j)
      BY <1>0, <2>3 DEF Abandon, Age, TypeOK
    <2>4. CASE GoStale(j)
      BY <1>0, <2>4 DEF GoStale, TypeOK
    <2>5. QED
      BY <1>2, <2>1, <2>2, <2>3, <2>4
  <1>3. ASSUME upload' = upload, staged' = staged, aged' = aged,
               \A j \in Jobs : Forwards(job[j].status, job'[j].status),
               \A w \in Workers :
                 worker'[w].at \in Holding =>
                   /\ worker'[w].job \in Jobs
                   /\ job'[worker'[w].job].status \in {"running"} \cup Terminal
                   /\ worker'[w].at = "cleanup" => job'[worker'[w].job].status \in Terminal
        PROVE  FilesInv'
    <2>1. \A j \in Jobs : job'[j].status \in {"queued", "running"}
                             => job[j].status \in {"queued", "running"}
      BY <1>3 DEF Forwards, Terminal
    <2>2. \A j \in Jobs : job'[j].status # "none" => job[j].status # "none"
      BY <1>3 DEF Forwards, Terminal
    <2>3. QED
      BY <1>3, <2>1, <2>2
  <1>4. ASSUME \A j \in Jobs : Forwards(job[j].status, job'[j].status),
               NEW w \in Workers, worker'[w].at \in Holding, worker'[w] = worker[w]
        PROVE  /\ worker'[w].job \in Jobs
               /\ job'[worker'[w].job].status \in {"running"} \cup Terminal
               /\ worker'[w].at = "cleanup" => job'[worker'[w].job].status \in Terminal
    <2>1. PICK j \in Jobs : j = worker[w].job
      BY <1>0, <1>4
    <2>2. /\ job[j].status \in {"running"} \cup Terminal
          /\ worker[w].at = "cleanup" => job[j].status \in Terminal
      BY <1>4, <2>1
    <2>3. Forwards(job[j].status, job'[j].status)
      BY <1>4
    <2>4. QED
      BY <1>4, <2>1, <2>2, <2>3 DEF Forwards, Terminal
  <1>5. ASSUME upload' = upload, job' = job,
               staged' \subseteq staged, aged' \subseteq aged,
               \A j \in staged \ staged' : job[j].status \in {"none"} \cup Terminal
                                             /\ upload[j] = "over",
               \A w \in Workers : worker'[w].at \in Holding => worker'[w] = worker[w]
        PROVE  FilesInv'
    <2>1. RunnableHasFiles'
      BY <1>5 DEF Terminal
    <2>2. QED
      BY <1>5, <2>1
  <1>6. ASSUME NEW w \in Workers, Proceed(w) \/ Sweep(w) \/ Beat(w) \/ Crash(w)
        PROVE  FilesInv'
    <2>1. CASE Reap(w)
      <3>1. \A j \in Jobs : Forwards(job[j].status, job'[j].status)
        BY <2>1 DEF Reap, Poison, Stale, Forwards, Terminal, TypeOK
      <3>2. \A v \in Workers : worker'[v].at \in Holding => worker'[v] = worker[v]
        BY <2>1 DEF Reap, TypeOK, Holding
      <3>3. QED
        BY <1>3, <1>4, <2>1, <3>1, <3>2 DEF Reap
    <2>2. CASE ClaimNext(w)
      <3>1. PICK j \in Jobs :
              /\ Runnable(j)
              /\ job' = [job EXCEPT ![j].status = "running", ![j].attempts = @ + 1,
                                    ![j].fresh = TRUE]
              /\ worker' = [worker EXCEPT ![w] = [at |-> "check", job |-> j]]
        BY <2>2 DEF ClaimNext
      <3>2. \A k \in Jobs : Forwards(job[k].status, job'[k].status)
        BY <3>1 DEF Runnable, Stale, Forwards, TypeOK
      <3>3. /\ worker'[w].job = j /\ worker'[w].at = "check"
            /\ \A v \in Workers \ {w} : worker'[v] = worker[v]
        BY <3>1 DEF TypeOK
      <3>4. job'[j].status = "running"
        BY <3>1 DEF TypeOK
      <3>5. \A v \in Workers \ {w} :
              worker'[v].at \in Holding =>
                /\ worker'[v].job \in Jobs
                /\ job'[worker'[v].job].status \in {"running"} \cup Terminal
                /\ worker'[v].at = "cleanup" => job'[worker'[v].job].status \in Terminal
        BY <1>4, <3>2, <3>3
      <3>6. UNCHANGED <<upload, staged, aged>>
        BY <2>2 DEF ClaimNext
      <3>7. QED
        BY <1>3, <3>2, <3>3, <3>4, <3>5, <3>6
    <2>3. ASSUME UNCHANGED <<upload, job, staged, aged>>, worker[w].at \in Holding,
                 \E at \in Holding : GoTo(w, at) \/ Conclude(w, "done") \/ Conclude(w, "failed"),
                 worker'[w].at # "cleanup"
          PROVE  FilesInv'
      <3>1. worker'[w].job = worker[w].job /\ worker'[w].at \in Holding
        BY <2>3 DEF GoTo, Conclude, TypeOK, Holding
      <3>2. \A v \in Workers \ {w} : worker'[v] = worker[v]
        BY <2>3 DEF GoTo, Conclude, TypeOK
      <3>3. QED
        BY <1>0, <1>3, <2>3, <3>1, <3>2 DEF Forwards
    <2>4. CASE Check(w) \/ Load(w) \/ Recover(w)
      <3>1. worker[w].at \in Holding /\ UNCHANGED <<upload, job, staged, aged>>
        BY <2>4 DEF Check, Load, Recover, Holding
      <3>2. \/ GoTo(w, "load") \/ GoTo(w, "read") \/ GoTo(w, "except")
            \/ Conclude(w, "done") \/ Conclude(w, "failed")
        BY <2>4 DEF Check, Load, Recover, Verdict
      <3>3. worker'[w].at # "cleanup"
        BY <3>2 DEF GoTo, Conclude, TypeOK
      <3>4. \E at \in Holding : GoTo(w, at) \/ Conclude(w, "done") \/ Conclude(w, "failed")
        BY <3>1, <3>2 DEF Holding
      <3>5. QED
        BY <2>3, <3>1, <3>3, <3>4
    <2>5. CASE ClaimCollides(w) \/ IntakeCollides(w) \/ BuildNothing(w) \/ Raise(w)
      <3>1. worker[w].at \in Holding /\ UNCHANGED <<upload, job, staged, aged>>
        BY <2>5 DEF ClaimCollides, IntakeCollides, BuildNothing, Raise, Unfiled, Holding
      <3>2. GoTo(w, "except") \/ Conclude(w, "failed")
        BY <2>5 DEF ClaimCollides, IntakeCollides, BuildNothing, Raise
      <3>3. worker'[w].at # "cleanup"
        BY <3>2 DEF GoTo, Conclude, TypeOK
      <3>4. \E at \in Holding : GoTo(w, at) \/ Conclude(w, "done") \/ Conclude(w, "failed")
        BY <3>1, <3>2 DEF Holding
      <3>5. QED
        BY <2>3, <3>1, <3>3, <3>4
    <2>6. CASE Beat(w)
      <3>1. worker[w].job \in Jobs
        BY <2>6, <1>0 DEF Beat, Holding
      <3>2. \A j \in Jobs : job'[j].status = job[j].status
        BY <2>6, <3>1 DEF Beat, TypeOK
      <3>3. UNCHANGED <<upload, staged, aged, worker>>
        BY <2>6 DEF Beat
      <3>4. QED
        BY <1>0, <1>3, <3>2, <3>3 DEF Forwards
    <2>7. ASSUME worker[w].at \in Holding, UNCHANGED <<upload, staged, aged>>,
                 GoTo(w, "cleanup"),
                 NEW verdict \in Terminal,
                 job' = [job EXCEPT ![worker[w].job].status = verdict,
                                    ![worker[w].job].fresh = TRUE]
          PROVE  FilesInv'
      <3>1. PICK j \in Jobs : j = worker[w].job
        BY <1>0, <2>7
      <3>2. \A k \in Jobs : job'[k].status = IF k = j THEN verdict ELSE job[k].status
        BY <2>7, <3>1 DEF TypeOK
      <3>3. job[j].status \in {"running"} \cup Terminal
        BY <2>7, <3>1
      <3>4. \A k \in Jobs : Forwards(job[k].status, job'[k].status)
        BY <2>7, <3>2, <3>3 DEF Forwards
      <3>5. worker'[w].job = j /\ \A v \in Workers \ {w} : worker'[v] = worker[v]
        BY <2>7, <3>1 DEF GoTo, TypeOK
      <3>6. \A v \in Workers \ {w} :
              worker'[v].at \in Holding =>
                /\ worker'[v].job \in Jobs
                /\ job'[worker'[v].job].status \in {"running"} \cup Terminal
                /\ worker'[v].at = "cleanup" => job'[worker'[v].job].status \in Terminal
        BY <1>4, <3>4, <3>5
      <3>7. job'[j].status \in Terminal
        BY <2>7, <3>2
      <3>8. QED
        BY <1>3, <2>7, <3>4, <3>5, <3>6, <3>7
    <2>8. CASE Finish(w)
      <3>1. worker[w].at \in Holding /\ worker[w].verdict \in Terminal
        BY <2>8, InHand DEF Finish, Holding
      <3>2. QED
        BY <2>7, <2>8, <3>1 DEF Finish
    <2>9. CASE BuildClaim(w) \/ BuildIntakes(w)
      BY <2>7, <2>9 DEF BuildClaim, BuildIntakes, File, Holding, Terminal
    <2>10. CASE QueueEmpty(w) \/ Poll(w) \/ Crash(w)
      BY <1>5, <2>10 DEF QueueEmpty, Poll, Crash, Idle, Holding, TypeOK
    <2>11. CASE Cleanup(w)
      <3>1. worker[w].job \in Jobs /\ job[worker[w].job].status \in Terminal
        BY <1>0, <2>11 DEF Cleanup, Holding
      <3>2. upload[worker[w].job] = "over"
        BY <3>1 DEF Terminal
      <3>3. \A v \in Workers : worker'[v].at \in Holding => worker'[v] = worker[v]
        BY <2>11 DEF Cleanup, Holding, TypeOK
      <3>4. QED
        BY <1>5, <2>11, <3>1, <3>2, <3>3 DEF Cleanup
    <2>12. CASE Sweep(w)
      <3>1. \A v \in Workers : worker'[v].at \in Holding => worker'[v] = worker[v]
        BY <2>12 DEF Sweep, Idle, Holding, TypeOK
      <3>2. QED
        BY <1>5, <2>12, <3>1 DEF Sweep, Orphans
    <2>13. QED
      BY <1>6, <2>1, <2>2, <2>4, <2>5, <2>6, <2>8, <2>9, <2>10, <2>11, <2>12 DEF Proceed
  <1>7. QED
    BY <1>1, <1>2, <1>6 DEF Next

\* What the janitor and the workers rely on holds throughout.
LEMMA FilesInductive == Spec => []FilesInv
  <1>1. Init => FilesInv
    BY DEF Init, FilesInv, RunnableHasFiles, NoRow, Idle, Holding
  <1>2. TypeOK /\ FilesInv /\ [Next]_vars => FilesInv'
    BY FilesStep
  <1>3. QED
    BY <1>1, <1>2, TypeCorrect, PTL DEF Spec

\* A job that a worker can claim or claim again has its files.
THEOREM FilesKept == Spec => []RunnableHasFiles
  <1>1. FilesInv => RunnableHasFiles
    BY DEF FilesInv
  <1>2. QED
    BY <1>1, FilesInductive, PTL

-----------------------------------------------------------------------------
(* The attempts at a job. *)

\* Every worker that has the job in hand was charged to an attempt of its own; a
\* job that is still queued has had none, so that its first attempt is allowed.
AttemptsInv ==
  /\ AttemptsBounded
  /\ \A j \in Jobs : IsFiniteSet(Holders(j))
  /\ \A j \in Jobs : job[j].status \in {"none", "queued"} => job[j].attempts = 0

LEMMA AttemptsStep ==
  ASSUME TypeOK, FilesInv, AttemptsInv, [Next]_vars
  PROVE  AttemptsInv'
  <1>0. \A w \in Workers : worker[w].at \in Holding => worker[w].job \in Jobs
    BY InHand
  <1>1. ASSUME \A j \in Jobs : Holders(j)' \subseteq Holders(j),
               \A j \in Jobs : job'[j].attempts = job[j].attempts,
               \A j \in Jobs : job'[j].status \in {"none", "queued"}
                                 => job[j].status \in {"none", "queued"}
        PROVE  AttemptsInv'
    <2>1. ASSUME NEW j \in Jobs
          PROVE  IsFiniteSet(Holders(j)') /\ Cardinality(Holders(j)') <= job'[j].attempts
      <3> DEFINE H == Holders(j)
                 G == Holders(j)'
      <3>1. IsFiniteSet(H) /\ Cardinality(H) <= job[j].attempts
        BY DEF AttemptsInv, AttemptsBounded
      <3>2. IsFiniteSet(G) /\ Cardinality(G) <= Cardinality(H)
        <4>1. G \subseteq H
          BY <1>1
        <4>2. QED
          BY <3>1, <4>1, FS_Subset
      <3>3. Cardinality(G) \in Nat /\ Cardinality(H) \in Nat /\ job[j].attempts \in Nat
        BY <3>1, <3>2, FS_CardinalityType DEF TypeOK
      <3>4. QED
        <4> HIDE DEF H, G
        <4>1. job'[j].attempts = job[j].attempts
          BY <1>1
        <4>2. Cardinality(G) <= job'[j].attempts
          BY <3>1, <3>2, <3>3, <4>1
        <4>3. QED
          BY <3>2, <4>2 DEF G
    <2>2. QED
      BY <1>1, <2>1 DEF AttemptsInv, AttemptsBounded
  <1>2. ASSUME \A w \in Workers : worker'[w].at \in Holding =>
                                    worker[w].at \in Holding /\ worker'[w].job = worker[w].job
        PROVE  \A j \in Jobs : Holders(j)' \subseteq Holders(j)
    BY <1>2 DEF Holders
  <1>3. CASE UNCHANGED vars
    BY <1>1, <1>2, <1>3 DEF vars
  <1>4. ASSUME NEW j \in Jobs,
               StageFiles(j) \/ Enqueue(j) \/ Abandon(j) \/ GoStale(j) \/ Age(j)
        PROVE  AttemptsInv'
    <2>1. worker' = worker
      BY <1>4 DEF StageFiles, Enqueue, Abandon, GoStale, Age
    <2>2. CASE StageFiles(j) \/ Abandon(j) \/ Age(j)
      BY <1>1, <1>2, <2>1, <2>2 DEF StageFiles, Abandon, Age
    <2>3. CASE GoStale(j)
      BY <1>1, <1>2, <2>1, <2>3 DEF GoStale, TypeOK
    <2>4. CASE Enqueue(j)
      <3>1. job[j].status = "none"
        BY <2>4 DEF Enqueue, FilesInv
      <3>2. QED
        BY <1>1, <1>2, <2>1, <2>4, <3>1 DEF Enqueue, TypeOK
    <2>5. QED
      BY <1>4, <2>2, <2>3, <2>4
  <1>5. ASSUME NEW w \in Workers, NEW j \in Jobs,
               Runnable(j), worker[w].at = "poll",
               job' = [job EXCEPT ![j].status = "running", ![j].attempts = @ + 1,
                                  ![j].fresh = TRUE],
               worker' = [worker EXCEPT ![w] = [at |-> "check", job |-> j]]
        PROVE  AttemptsInv'
    <2>1. /\ Holders(j)' = Holders(j) \cup {w}
          /\ \A k \in Jobs \ {j} : Holders(k)' = Holders(k)
          /\ w \notin Holders(j)
      BY <1>5 DEF Holders, Holding, TypeOK
    <2>2. /\ job'[j].attempts = job[j].attempts + 1 /\ job'[j].status = "running"
          /\ \A k \in Jobs \ {j} : job'[k] = job[k]
      BY <1>5 DEF TypeOK
    <2>3. job[j].attempts \in Nat /\ job[j].attempts + 1 <= MaxAttempts
      BY <1>5, IngestAssumption DEF Runnable, Stale, AttemptsInv, TypeOK
    <2>4. IsFiniteSet(Holders(j)') /\ Cardinality(Holders(j)') <= job'[j].attempts
      <3> DEFINE H == Holders(j)
      <3>1. IsFiniteSet(H) /\ Cardinality(H) <= job[j].attempts
        BY DEF AttemptsInv, AttemptsBounded
      <3>2. w \notin H
        BY <2>1
      <3> HIDE DEF H
      <3>3. IsFiniteSet(H \cup {w}) /\ Cardinality(H \cup {w}) = Cardinality(H) + 1
        BY <3>1, <3>2, FS_AddElement
      <3>4. Cardinality(H) \in Nat
        BY <3>1, FS_CardinalityType
      <3>5. Cardinality(H \cup {w}) <= job'[j].attempts
        BY <2>2, <2>3, <3>1, <3>3, <3>4
      <3>6. QED
        BY <2>1, <3>3, <3>5 DEF H
    <2>5. ASSUME NEW k \in Jobs, k # j
          PROVE  /\ IsFiniteSet(Holders(k)') /\ Cardinality(Holders(k)') <= job'[k].attempts
                 /\ job'[k].attempts <= MaxAttempts
      BY <2>1, <2>2, <2>5 DEF AttemptsInv, AttemptsBounded
    <2>6. \A k \in Jobs : job'[k].status \in {"none", "queued"} => job'[k].attempts = 0
      BY <2>2 DEF AttemptsInv
    <2>7. QED
      BY <2>2, <2>3, <2>4, <2>5, <2>6 DEF AttemptsInv, AttemptsBounded
  <1>6. ASSUME NEW w \in Workers, Proceed(w) \/ Sweep(w) \/ Beat(w) \/ Crash(w)
        PROVE  AttemptsInv'
    <2>1. CASE Reap(w)
      <3>1. /\ \A j \in Jobs : job'[j].attempts = job[j].attempts
            /\ \A j \in Jobs : job'[j].status \in {"none", "queued"}
                                 => job[j].status \in {"none", "queued"}
        BY <2>1 DEF Reap, TypeOK
      <3>2. \A v \in Workers : worker'[v].at \in Holding => worker'[v] = worker[v]
        BY <2>1 DEF Reap, Holding, TypeOK
      <3>3. QED
        BY <1>1, <1>2, <3>1, <3>2
    <2>2. CASE ClaimNext(w)
      BY <1>5, <2>2 DEF ClaimNext
    <2>3. CASE QueueEmpty(w) \/ Poll(w) \/ Crash(w) \/ Cleanup(w) \/ Sweep(w)
      <3>1. job' = job
        BY <2>3 DEF QueueEmpty, Poll, Crash, Cleanup, Sweep
      <3>2. \A v \in Workers : worker'[v].at \in Holding => worker'[v] = worker[v]
        BY <2>3 DEF QueueEmpty, Poll, Crash, Cleanup, Sweep, Idle, Holding, TypeOK
      <3>3. QED
        BY <1>1, <1>2, <3>1, <3>2
    <2>4. ASSUME worker[w].at \in Holding,
                 \/ \E at \in Holding : GoTo(w, at)
                 \/ Conclude(w, "done") \/ Conclude(w, "failed")
          PROVE  \A j \in Jobs : Holders(j)' \subseteq Holders(j)
      <3>1. /\ worker'[w].job = worker[w].job
            /\ \A v \in Workers \ {w} : worker'[v] = worker[v]
        BY <2>4 DEF GoTo, Conclude, TypeOK
      <3>2. QED
        BY <1>2, <2>4, <3>1
    <2>5. CASE Check(w) \/ Load(w) \/ Recover(w)
      <3>1. worker[w].at \in Holding /\ job' = job
        BY <2>5 DEF Check, Load, Recover, Holding
      <3>2. \/ GoTo(w, "load") \/ GoTo(w, "read") \/ GoTo(w, "except")
            \/ Conclude(w, "done") \/ Conclude(w, "failed")
        BY <2>5 DEF Check, Load, Recover, Verdict
      <3>3. \A j \in Jobs : Holders(j)' \subseteq Holders(j)
        BY <2>4, <3>1, <3>2 DEF Holding
      <3>4. QED
        BY <1>1, <3>1, <3>3
    <2>6. CASE ClaimCollides(w) \/ IntakeCollides(w) \/ BuildNothing(w) \/ Raise(w)
      <3>1. worker[w].at \in Holding /\ job' = job
        BY <2>6 DEF ClaimCollides, IntakeCollides, BuildNothing, Raise, Unfiled, Holding
      <3>2. GoTo(w, "except") \/ Conclude(w, "failed")
        BY <2>6 DEF ClaimCollides, IntakeCollides, BuildNothing, Raise
      <3>3. \A j \in Jobs : Holders(j)' \subseteq Holders(j)
        BY <2>4, <3>1, <3>2 DEF Holding
      <3>4. QED
        BY <1>1, <3>1, <3>3
    <2>7. CASE Beat(w)
      <3>1. worker' = worker
        BY <2>7 DEF Beat
      <3>2. PICK j \in Jobs : job' = [job EXCEPT ![j].fresh = TRUE]
        BY <1>0, <2>7 DEF Beat, Holding
      <3>3. \A k \in Jobs : job'[k].attempts = job[k].attempts /\ job'[k].status = job[k].status
        BY <3>2 DEF TypeOK
      <3>4. QED
        BY <1>1, <1>2, <3>1, <3>3
    <2>8. ASSUME worker[w].at \in Holding, GoTo(w, "cleanup"), NEW verdict \in Terminal,
                 job' = [job EXCEPT ![worker[w].job].status = verdict,
                                    ![worker[w].job].fresh = TRUE]
          PROVE  AttemptsInv'
      <3>1. \A j \in Jobs : Holders(j)' \subseteq Holders(j)
        BY <2>4, <2>8 DEF Holding
      <3>2. PICK j \in Jobs : j = worker[w].job
        BY <1>0, <2>8
      <3>3. /\ \A k \in Jobs : job'[k].attempts = job[k].attempts
            /\ \A k \in Jobs : job'[k].status \in {"none", "queued"}
                                 => job[k].status \in {"none", "queued"}
        BY <2>8, <3>2 DEF Terminal, TypeOK
      <3>4. QED
        BY <1>1, <3>1, <3>3
    <2>9. CASE Finish(w)
      <3>1. worker[w].at \in Holding /\ worker[w].verdict \in Terminal
        BY <2>9, InHand DEF Finish, Holding
      <3>2. QED
        BY <2>8, <2>9, <3>1 DEF Finish
    <2>10. CASE BuildClaim(w) \/ BuildIntakes(w)
      BY <2>8, <2>10 DEF BuildClaim, BuildIntakes, File, Holding, Terminal
    <2>11. QED
      BY <1>6, <2>1, <2>2, <2>3, <2>5, <2>6, <2>7, <2>9, <2>10 DEF Proceed
  <1>7. QED
    BY <1>3, <1>4, <1>6 DEF Next

\* No job is read more than MaxAttempts times, and no more than so many workers
\* ever have it in hand at once.
THEOREM AttemptsStayBounded == Spec => []AttemptsBounded
  <1>1. Init => AttemptsInv
    <2>1. ASSUME Init PROVE \A j \in Jobs : Holders(j) = {}
      BY <2>1 DEF Init, Holders, Holding, Idle
    <2>2. IsFiniteSet({}) /\ Cardinality({}) = 0
      BY FS_EmptySet
    <2>3. ASSUME Init, NEW j \in Jobs
          PROVE  /\ IsFiniteSet(Holders(j)) /\ Cardinality(Holders(j)) = 0
                 /\ job[j].attempts = 0
      <3>1. Holders(j) = {}
        BY <2>1, <2>3
      <3>2. job[j].attempts = 0
        BY <2>3 DEF Init, NoRow
      <3>3. QED
        BY <2>2, <3>1, <3>2
    <2>4. QED
      BY <2>3, IngestAssumption DEF AttemptsInv, AttemptsBounded
  <1>2. TypeOK /\ FilesInv /\ AttemptsInv /\ [Next]_vars => AttemptsInv'
    BY AttemptsStep
  <1>3. AttemptsInv => AttemptsBounded
    BY DEF AttemptsInv
  <1>4. QED
    BY <1>1, <1>2, <1>3, TypeCorrect, FilesInductive, PTL DEF Spec

-----------------------------------------------------------------------------
(* What one worker alone guarantees. *)

\* A job that is not over has no documents, and the job in hand is running until
\* the worker has concluded it: nobody else can claim it, reap it or conclude it.
OneWorkerInv ==
  /\ \A j \in Jobs : job[j].status \notin Terminal => claims[j] = 0 /\ intakes[j] = 0
  /\ \A w \in Workers :
       worker[w].at \in Holding \ {"cleanup"} => job[worker[w].job].status = "running"

\* What a step does to one job, when it files nothing.
Advances(s, t) ==
  \/ t = s
  \/ s = "none" /\ t = "queued"
  \/ s = "queued" /\ t = "running"
  \/ s = "running" /\ t = "failed"

LEMMA OneWorkerStep ==
  ASSUME TypeOK, FilesInv, DoneInv, OneWorkerInv, [Next]_vars, NEW u, Workers = {u}
  PROVE  OneWorkerInv' /\ [Outcome!Next]_(Outcome!vars)
  <1>0. \A w \in Workers : worker[w].at \in Holding => worker[w].job \in Jobs
    BY InHand
  <1>1. ASSUME UNCHANGED <<claims, intakes>>,
               \A j \in Jobs : Advances(job[j].status, job'[j].status),
               worker'[u].at \in Holding \ {"cleanup"}
                 => job'[worker'[u].job].status = "running"
        PROVE  OneWorkerInv' /\ [Outcome!Next]_(Outcome!vars)
    <2>1. OneWorkerInv'
      BY <1>1 DEF OneWorkerInv, Advances, Terminal
    <2>2. ASSUME NEW j \in Jobs
          PROVE  \/ Promised(job'[j].status) = Promised(job[j].status)
                 \/ /\ Promised(job[j].status) = "absent"
                    /\ Promised(job'[j].status) = "pending"
                 \/ /\ Promised(job[j].status) = "pending"
                    /\ Promised(job'[j].status) = "failed"
      BY <1>1 DEF Advances, Promised
    <2>3. Outcome!Next
      BY <1>1, <2>2 DEF Outcome!Next, Outcome!Accept, Outcome!GiveUp, Outcome!Keep
    <2>4. QED
      BY <2>1, <2>3
  <1>2. CASE UNCHANGED vars
    <2>1. \A j \in Jobs : Advances(job[j].status, job'[j].status)
      BY <1>2 DEF Advances, vars
    <2>2. QED
      BY <1>1, <1>2, <2>1 DEF OneWorkerInv, vars
  <1>3. ASSUME NEW j \in Jobs,
               StageFiles(j) \/ Enqueue(j) \/ Abandon(j) \/ GoStale(j) \/ Age(j)
        PROVE  OneWorkerInv' /\ [Outcome!Next]_(Outcome!vars)
    <2>1. UNCHANGED <<claims, intakes, worker>>
      BY <1>3 DEF StageFiles, Enqueue, Abandon, GoStale, Age
    <2>2. CASE Enqueue(j)
      <3>1. job[j].status = "none"
        BY <2>2 DEF Enqueue, FilesInv
      <3>2. /\ job'[j].status = "queued"
            /\ \A k \in Jobs \ {j} : job'[k] = job[k]
        BY <2>2 DEF Enqueue, TypeOK
      <3>3. QED
        BY <1>0, <1>1, <2>1, <3>1, <3>2 DEF OneWorkerInv, Advances
    <2>3. CASE ~Enqueue(j)
      <3>1. \A k \in Jobs : job'[k].status = job[k].status
        BY <1>3, <2>3 DEF StageFiles, Abandon, GoStale, Age, TypeOK
      <3>2. QED
        BY <1>0, <1>1, <2>1, <3>1 DEF OneWorkerInv, Advances
    <2>4. QED
      BY <2>2, <2>3
  <1>4. ASSUME Proceed(u) \/ Sweep(u) \/ Beat(u) \/ Crash(u)
        PROVE  OneWorkerInv' /\ [Outcome!Next]_(Outcome!vars)
    <2>1. CASE Reap(u)
      <3>1. \A j \in Jobs : Advances(job[j].status, job'[j].status)
        BY <2>1 DEF Reap, Poison, Stale, Advances, TypeOK
      <3>2. worker'[u].at \notin Holding
        BY <2>1 DEF Reap, Holding, TypeOK
      <3>3. QED
        BY <1>1, <2>1, <3>1, <3>2 DEF Reap
    <2>2. CASE ClaimNext(u)
      <3>1. PICK j \in Jobs :
              /\ Runnable(j)
              /\ job' = [job EXCEPT ![j].status = "running", ![j].attempts = @ + 1,
                                    ![j].fresh = TRUE]
              /\ worker' = [worker EXCEPT ![u] = [at |-> "check", job |-> j]]
        BY <2>2 DEF ClaimNext
      <3>2. \A k \in Jobs : Advances(job[k].status, job'[k].status)
        BY <3>1 DEF Runnable, Stale, Advances, TypeOK
      <3>3. job'[worker'[u].job].status = "running"
        BY <3>1 DEF TypeOK
      <3>4. QED
        BY <1>1, <2>2, <3>2, <3>3 DEF ClaimNext
    <2>3. ASSUME UNCHANGED <<job, claims, intakes>>,
                 \/ worker'[u].at \notin Holding \ {"cleanup"}
                 \/ /\ worker[u].at \in Holding \ {"cleanup"}
                    /\ worker'[u].job = worker[u].job
          PROVE  OneWorkerInv' /\ [Outcome!Next]_(Outcome!vars)
      BY <1>1, <2>3 DEF OneWorkerInv, Advances
    <2>4. CASE QueueEmpty(u) \/ Poll(u) \/ Crash(u) \/ Cleanup(u) \/ Sweep(u)
      <3>1. worker'[u].at \notin Holding
        BY <2>4 DEF QueueEmpty, Poll, Crash, Cleanup, Sweep, Idle, Holding, TypeOK
      <3>2. QED
        BY <2>3, <2>4, <3>1 DEF QueueEmpty, Poll, Crash, Cleanup, Sweep
    <2>5. CASE Check(u) \/ Load(u) \/ Recover(u)
      <3>1. worker'[u].job = worker[u].job
        BY <2>5 DEF Check, Load, Recover, GoTo, Conclude, TypeOK
      <3>2. QED
        BY <2>3, <2>5, <3>1 DEF Check, Load, Recover, Holding
    <2>6. CASE ClaimCollides(u) \/ IntakeCollides(u) \/ BuildNothing(u) \/ Raise(u)
      <3>1. worker'[u].job = worker[u].job
        BY <2>6 DEF ClaimCollides, IntakeCollides, BuildNothing, Raise, GoTo, Conclude, TypeOK
      <3>2. worker[u].at = "read" /\ UNCHANGED <<job, claims, intakes>>
        BY <2>6 DEF ClaimCollides, IntakeCollides, BuildNothing, Raise, Unfiled
      <3>3. QED
        BY <2>3, <3>1, <3>2 DEF Holding
    <2>7. CASE Beat(u)
      <3>1. PICK j \in Jobs : job' = [job EXCEPT ![j].fresh = TRUE]
        BY <1>0, <2>7 DEF Beat, Holding
      <3>2. \A k \in Jobs : job'[k].status = job[k].status
        BY <3>1 DEF TypeOK
      <3>3. QED
        BY <1>0, <1>1, <2>7, <3>2 DEF Beat, OneWorkerInv, Advances
    <2>8. CASE Finish(u)
      <3>1. PICK j \in Jobs : j = worker[u].job
        BY <1>0, <2>8 DEF Finish, Holding
      <3>2. job[j].status = "running" /\ claims[j] = 0 /\ intakes[j] = 0
        BY <2>8, <3>1 DEF Finish, OneWorkerInv, Holding, Terminal
      <3>3. worker[u].verdict = "failed"
        BY <2>8, <3>1, <3>2, InHand DEF Finish, DoneInv, Prior, Holding, Terminal
      <3>4. /\ job'[j].status = "failed"
            /\ \A k \in Jobs \ {j} : job'[k] = job[k]
        BY <2>8, <3>1, <3>3 DEF Finish, TypeOK
      <3>5. worker'[u].at = "cleanup"
        BY <2>8 DEF Finish, GoTo, TypeOK
      <3>6. QED
        BY <1>1, <2>8, <3>2, <3>4, <3>5 DEF Finish, Advances
    <2>9. ASSUME worker[u].at = "read", NEW c \in BOOLEAN, NEW i \in BOOLEAN,
                 File(u, c, i), c \/ i
          PROVE  OneWorkerInv' /\ [Outcome!Next]_(Outcome!vars)
      <3>1. PICK j \in Jobs : j = worker[u].job
        BY <1>0, <2>9 DEF Holding
      <3>2. job[j].status = "running" /\ claims[j] = 0 /\ intakes[j] = 0
        BY <2>9, <3>1 DEF OneWorkerInv, Holding, Terminal
      <3>3. /\ job'[j].status = "done"
            /\ \A k \in Jobs \ {j} : job'[k] = job[k]
        BY <2>9, <3>1 DEF File, TypeOK
      <3>4. /\ claims'[j] = IF c THEN 1 ELSE 0
            /\ intakes'[j] = IF i THEN 1 ELSE 0
            /\ \A k \in Jobs \ {j} : claims'[k] = claims[k] /\ intakes'[k] = intakes[k]
        BY <2>9, <3>1, <3>2 DEF File, TypeOK
      <3>5. worker'[u].at = "cleanup"
        BY <2>9 DEF File, GoTo, TypeOK
      <3>6. OneWorkerInv'
        BY <3>3, <3>4, <3>5 DEF OneWorkerInv, Terminal
      <3>7. Promised(job[j].status) = "pending" /\ Promised(job'[j].status) = "filed"
        BY <3>2, <3>3 DEF Promised
      <3>8. Outcome!File(j)
        BY <2>9, <3>4, <3>7 DEF Outcome!File
      <3>9. \A k \in Jobs \ {j} : Outcome!Keep(k)
        BY <3>3, <3>4 DEF Outcome!Keep
      <3>10. QED
        BY <3>6, <3>8, <3>9 DEF Outcome!Next
    <2>10. CASE BuildClaim(u)
      BY <2>9, <2>10 DEF BuildClaim
    <2>11. CASE BuildIntakes(u)
      <3>1. PICK j \in Jobs : j = worker[u].job
        BY <1>0, <2>11 DEF BuildIntakes, Holding
      <3>2. ~IntakeTaken(worker[u].job)
        BY <2>11, <3>1 DEF BuildIntakes, OneWorkerInv, Holding, Terminal, IntakeTaken
      <3>3. QED
        BY <2>9, <2>11, <3>2 DEF BuildIntakes
    <2>12. QED
      BY <1>4, <2>1, <2>2, <2>4, <2>5, <2>6, <2>7, <2>8, <2>10, <2>11 DEF Proceed
  <1>5. QED
    BY <1>2, <1>3, <1>4 DEF Next

\* With one worker the queue makes only the steps that the uploader is promised: a
\* job is filed and reported done at once, or reported failed with nothing filed,
\* and neither is taken back.  (That one of them comes about is for TLC.)
THEOREM OneWorkerSafe ==
  ASSUME NEW u, Workers = {u}
  PROVE  Spec => Outcome!Safe
  <1>1. Init => OneWorkerInv /\ Outcome!Init
    BY DEF Init, OneWorkerInv, NoRow, Idle, Holding, Promised, Outcome!Init
  <1>2. Init => DoneInv
    BY DEF Init, DoneInv, DoneIsFiled, NoRow, Idle
  <1>3. TypeOK /\ DoneInv /\ [Next]_vars => DoneInv'
    BY DoneStep
  <1>4. TypeOK /\ FilesInv /\ DoneInv /\ OneWorkerInv /\ [Next]_vars
          => OneWorkerInv' /\ [Outcome!Next]_(Outcome!vars)
    BY OneWorkerStep
  <1>5. QED
    BY <1>1, <1>2, <1>3, <1>4, TypeCorrect, FilesInductive, PTL DEF Spec, Outcome!Safe
=============================================================================
