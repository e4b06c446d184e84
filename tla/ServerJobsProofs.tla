-------------------------- MODULE ServerJobsProofs --------------------------
(***************************************************************************)
(* The types of ServerJobs, that a playbook runs once at a time and that   *)
(* the cron retries at most max_retries times, for any number of rows,     *)
(* workers, operators, failures and deaths.                                *)
(*                                                                         *)
(* Neither property is inductive.  One run at a time rests on what RQ's    *)
(* one status per id tells: who finds it "idle" may push, because nobody   *)
(* queues, runs or is about to push the job (Exclusive).  The bound on the *)
(* retries rests on the row's own count: a run adds one failure to the     *)
(* count it read, and that is the row's as long as it is the only run      *)
(* (Counted), so that every retry of the cron has a failure of its own     *)
(* (Paid).                                                                 *)
(***************************************************************************)
EXTENDS ServerJobs, FiniteSetTheorems, TLAPS

OnIt(w, j) == worker[w].job = j
Retries(r, j) == retryer[r].job = j

\* Who does nothing holds no job.
Holders ==
    /\ \A w \in Workers : worker[w].at = "idle" <=> worker[w].job = 0
    /\ \A r \in Retryers : retryer[r].at = "idle" <=> retryer[r].job = 0
    /\ \A r \in Retryers : retryer[r].push => retryer[r].at \in {"checked", "committed"}
    /\ \A r \in Retryers : retryer[r].at = "committed" => retryer[r].push

\* The rows are used in their order.
Ordered == \E k \in 0 .. MaxJobs : \A j \in Jobs : job[j].status # "Absent" <=> j <= k

\* A row has a server, and nobody knows of one that is not inserted yet.
Untouched(j) ==
    IF job[j].status # "Absent" THEN job[j].server # None
    ELSE /\ rq[j] = "idle" /\ queue[j] = 0 /\ automatic[j] = 0
         /\ \A w \in Workers : ~OnIt(w, j)
         /\ \A r \in Retryers : ~Retries(r, j)

\* A queued id, a run and a push to come exclude one another.
Exclusive(j) ==
    /\ queue[j] <= 1
    /\ queue[j] > 0 => rq[j] = "queued" /\ job[j].status = "Pending"
    /\ \A w \in Workers : OnIt(w, j) => rq[j] = "started"
    /\ \A v, w \in Workers : OnIt(v, j) /\ OnIt(w, j) => v = w
    /\ \A r \in Retryers : Retries(r, j) =>
         /\ queue[j] = 0
         /\ retryer[r].push => rq[j] = "idle"
         /\ \A q \in Retryers : Retries(q, j) => q = r
         /\ \A w \in Workers : OnIt(w, j) => worker[w].at = "failed"

\* What the copies of the row tell of the row.
Counted(j) ==
    /\ \A w \in Workers : OnIt(w, j) =>
         /\ worker[w].at = "loaded" => job[j].status = "Pending"
         /\ worker[w].at = "playbook" => job[j].status = "Running"
         /\ worker[w].at = "succeeded" => job[j].status = "Success"
         /\ worker[w].at # "loaded" => worker[w].retries = job[j].retries
    /\ \A r \in Retryers : Retries(r, j) =>
         IF retryer[r].at = "committed" THEN job[j].status = "Pending"
         ELSE job[j].status = retryer[r].status

\* Every retry of the cron has a failure that no other retry answered.
Paid(j) ==
    /\ automatic[j] <= job[j].retries
    /\ automatic[j] <= MaxRetries
    /\ job[j].status = "Failed" => automatic[j] < job[j].retries
    /\ Retries(Cron, j) /\ retryer[Cron].at # "committed" /\ retryer[Cron].status = "Failed" =>
         job[j].retries <= MaxRetries

Sole(j) == Exclusive(j) /\ Counted(j) /\ Paid(j)

JobInv ==
    /\ JobTypeOK
    /\ Holders
    /\ Ordered
    /\ \A j \in Jobs : Untouched(j)
    /\ \A j \in Jobs \ collided : Sole(j)

\* The fields of the rows and of the copies.
LEMMA TypedFields ==
    ASSUME JobInv
    PROVE  /\ \A j \in Jobs : /\ queue[j] \in Nat /\ automatic[j] \in Nat /\ failures[j] \in Nat
                             /\ job[j].retries \in Nat /\ job[j].status \in JobStatus
                             /\ rq[j] \in {"idle", "queued", "started"}
           /\ \A w \in Workers : worker[w].job \in Jobs \cup {0} /\ worker[w].retries \in Nat
           /\ \A r \in Retryers : retryer[r].job \in Jobs \cup {0} /\ retryer[r].push \in BOOLEAN
BY DEF JobInv, JobTypeOK, Job, Worker, Retryer

LEMMA CronRetries == Cron \in Retryers
BY DEF Retryers

LEMMA ZeroIsNoJob == 0 \notin Jobs
BY DEF Jobs

\* Whoever does something does it to a row.
LEMMA HolderHasJob ==
    ASSUME JobInv
    PROVE  /\ \A w \in Workers : worker[w].at # "idle" => worker[w].job \in Jobs
           /\ \A r \in Retryers : retryer[r].at # "idle" => retryer[r].job \in Jobs
BY TypedFields DEF JobInv, Holders

\* A step that leaves the row i, its place in the queue and all copies of it alone.
SameFor(i) ==
    /\ job'[i] = job[i] /\ rq'[i] = rq[i] /\ queue'[i] = queue[i] /\ automatic'[i] = automatic[i]
    /\ \A w \in Workers : i \in {worker[w].job, worker'[w].job} => worker'[w] = worker[w]
    /\ \A r \in Retryers : i \in {retryer[r].job, retryer'[r].job} => retryer'[r] = retryer[r]

LEMMA Frame ==
    ASSUME NEW i \in Jobs, SameFor(i)
    PROVE  (Untouched(i) => Untouched(i)') /\ (Sole(i) => Sole(i)')
<1>1. Untouched(i) => Untouched(i)'
  BY DEF SameFor, Untouched, OnIt, Retries
<1>2. Exclusive(i) => Exclusive(i)'
  BY DEF SameFor, Exclusive, OnIt, Retries
<1>3. Counted(i) => Counted(i)'
  BY DEF SameFor, Counted, OnIt, Retries
<1>4. Paid(i) => Paid(i)'
  BY CronRetries DEF SameFor, Paid, Retries
<1> QED BY <1>1, <1>2, <1>3, <1>4 DEF Sole

\* What is left to show for a step that works on the row j only.
LEMMA StepOnOneRow ==
    ASSUME JobInv, JobTypeOK', Holders', NEW j \in Jobs, \A i \in Jobs \ {j} : SameFor(i),
           collided \subseteq collided',
           job[j].status # "Absent", job'[j].status # "Absent", job'[j].server = job[j].server,
           j \notin collided' => Sole(j)'
    PROVE  JobInv'
<1>1. \A i \in Jobs : job'[i].status # "Absent" <=> job[i].status # "Absent"
  BY DEF SameFor
<1>2. Ordered'
  BY <1>1 DEF JobInv, Ordered
<1>3. ASSUME NEW i \in Jobs PROVE Untouched(i)'
  <2>1. CASE i = j
    BY <2>1 DEF JobInv, Untouched
  <2>2. CASE i # j
    BY <2>2, Frame DEF JobInv
  <2> QED BY <2>1, <2>2
<1>4. ASSUME NEW i \in Jobs, i \notin collided' PROVE Sole(i)'
  BY <1>4, Frame DEF JobInv
<1> QED BY <1>2, <1>3, <1>4 DEF JobInv

\* RQ hands the id to a worker.
LEMMA TakeKeeps ==
    ASSUME JobInv, NEW w \in Workers, NEW j \in Jobs,
           Take(w, j)
    PROVE  JobInv'
<1>1. /\ queue[j] > 0
      /\ worker[w].at = "idle" /\ worker[w].job = 0
      /\ job[j].status # "Absent"
  BY TypedFields DEF JobInv, Take, Holders, Untouched
<1>2. UNCHANGED <<job, retryer, alive, failures, automatic, collided, deaths>>
  BY DEF Take
<1>3. /\ worker' \in [Workers -> Worker]
      /\ worker'[w].at = "loaded" /\ worker'[w].job = j
      /\ \A v \in Workers \ {w} : worker'[v] = worker[v]
  BY <1>1 DEF JobInv, Take, JobTypeOK, Worker, IdleWorker, JobStatus, Job
<1>4. /\ queue' \in [Jobs -> Nat]
      /\ queue'[j] = queue[j] - 1
      /\ \A i \in Jobs \ {j} : queue'[i] = queue[i]
  BY <1>1 DEF JobInv, Take, JobTypeOK
<1>5. /\ rq' \in [Jobs -> {"idle", "queued", "started"}]
      /\ rq'[j] = "started"
      /\ \A i \in Jobs \ {j} : rq'[i] = rq[i]
  BY <1>1 DEF JobInv, Take, JobTypeOK
<1>6. JobTypeOK'
  BY <1>2, <1>3, <1>4, <1>5 DEF JobInv, JobTypeOK
<1>7. Holders'
  BY <1>1, <1>2, <1>3, <1>4, <1>5, ZeroIsNoJob DEF JobInv, Holders
<1>8. \A i \in Jobs \ {j} : SameFor(i)
  BY <1>1, <1>2, <1>3, <1>4, <1>5, ZeroIsNoJob DEF SameFor
<1>9. ASSUME j \notin collided' PROVE Sole(j)'
  <2>0. Exclusive(j) /\ Counted(j) /\ Paid(j)
    BY <1>2, <1>3, <1>4, <1>5, <1>9 DEF JobInv, Sole
  <2>1. Exclusive(j)'
    BY <1>1, <1>2, <1>3, <1>4, <1>5, <1>9, <2>0, TypedFields, JobConstants, ZeroIsNoJob, CronRetries DEF
       JobInv, Holders, Exclusive, Counted, Paid, OnIt, Retries
  <2>2. Counted(j)'
    BY <1>1, <1>2, <1>3, <1>4, <1>5, <1>9, <2>0, TypedFields, JobConstants, ZeroIsNoJob, CronRetries DEF
       JobInv, Holders, Exclusive, Counted, Paid, OnIt, Retries
  <2>3. Paid(j)'
    BY <1>1, <1>2, <1>3, <1>4, <1>5, <1>9, <2>0, TypedFields, JobConstants, ZeroIsNoJob, CronRetries DEF
       JobInv, Holders, Exclusive, Counted, Paid, OnIt, Retries
  <2> QED BY <2>1, <2>2, <2>3 DEF Sole
<1> QED BY <1>1, <1>2, <1>3, <1>4, <1>5, <1>6, <1>7, <1>8, <1>9, StepOnOneRow

\* A row that runs elsewhere is left alone.
LEMMA SkipRunningKeeps ==
    ASSUME JobInv, NEW w \in Workers,
           SkipRunning(w)
    PROVE  JobInv'
<1>0. PICK j \in Jobs : worker[w].job = j
  BY HolderHasJob DEF SkipRunning, Returns
<1>1. /\ worker[w].at = "loaded"
      /\ job[j].status # "Absent"
  BY <1>0 DEF JobInv, SkipRunning, Returns, Untouched, OnIt
<1>2. UNCHANGED <<job, queue, retryer, alive, failures, automatic, collided, deaths>>
  BY DEF SkipRunning, Returns
<1>3. /\ worker' \in [Workers -> Worker]
      /\ worker'[w].at = "idle" /\ worker'[w].job = 0
      /\ \A v \in Workers \ {w} : worker'[v] = worker[v]
  BY <1>0, <1>1 DEF JobInv, SkipRunning, Returns, JobTypeOK, Worker, IdleWorker, JobStatus, Job
<1>4. /\ rq' \in [Jobs -> {"idle", "queued", "started"}]
      /\ rq'[j] = "idle"
      /\ \A i \in Jobs \ {j} : rq'[i] = rq[i]
  BY <1>0, <1>1 DEF JobInv, SkipRunning, Returns, JobTypeOK
<1>5. JobTypeOK'
  BY <1>2, <1>3, <1>4 DEF JobInv, JobTypeOK
<1>6. Holders'
  BY <1>0, <1>1, <1>2, <1>3, <1>4, ZeroIsNoJob DEF JobInv, Holders
<1>7. \A i \in Jobs \ {j} : SameFor(i)
  BY <1>0, <1>1, <1>2, <1>3, <1>4, ZeroIsNoJob DEF SameFor
<1>8. ASSUME j \notin collided' PROVE Sole(j)'
  <2>0. Exclusive(j) /\ Counted(j) /\ Paid(j)
    BY <1>2, <1>3, <1>4, <1>8 DEF JobInv, Sole
  <2>1. Exclusive(j)'
    BY <1>0, <1>1, <1>2, <1>3, <1>4, <1>8, <2>0, TypedFields, JobConstants, ZeroIsNoJob, CronRetries DEF
       JobInv, Holders, Exclusive, Counted, Paid, OnIt, Retries
  <2>2. Counted(j)'
    BY <1>0, <1>1, <1>2, <1>3, <1>4, <1>8, <2>0, TypedFields, JobConstants, ZeroIsNoJob, CronRetries DEF
       JobInv, Holders, Exclusive, Counted, Paid, OnIt, Retries
  <2>3. Paid(j)'
    BY <1>0, <1>1, <1>2, <1>3, <1>4, <1>8, <2>0, TypedFields, JobConstants, ZeroIsNoJob, CronRetries DEF
       JobInv, Holders, Exclusive, Counted, Paid, OnIt, Retries
  <2> QED BY <2>1, <2>2, <2>3 DEF Sole
<1> QED BY <1>1, <1>2, <1>3, <1>4, <1>5, <1>6, <1>7, <1>8, StepOnOneRow

\* The run starts with the count of the row.
LEMMA MarkRunningKeeps ==
    ASSUME JobInv, NEW w \in Workers,
           MarkRunning(w)
    PROVE  JobInv'
<1>0. PICK j \in Jobs : worker[w].job = j
  BY HolderHasJob DEF MarkRunning
<1>1. /\ worker[w].at = "loaded"
      /\ job[j].status # "Absent"
  BY <1>0 DEF JobInv, MarkRunning, Untouched, OnIt
<1>2. UNCHANGED <<rq, queue, retryer, alive, failures, automatic, collided, deaths>>
  BY DEF MarkRunning
<1>3. /\ job' \in [Jobs -> Job] /\ job'[j].server = job[j].server
      /\ job'[j].status = "Running" /\ job'[j].retries = job[j].retries
      /\ \A i \in Jobs \ {j} : job'[i] = job[i]
  BY <1>0, <1>1 DEF JobInv, MarkRunning, JobTypeOK, Job, JobStatus, Worker
<1>4. /\ worker' \in [Workers -> Worker]
      /\ worker'[w].at = "playbook" /\ worker'[w].job = j /\ worker'[w].retries = job[j].retries
      /\ \A v \in Workers \ {w} : worker'[v] = worker[v]
  BY <1>0, <1>1 DEF JobInv, MarkRunning, JobTypeOK, Worker, IdleWorker, JobStatus, Job
<1>5. JobTypeOK'
  BY <1>2, <1>3, <1>4 DEF JobInv, JobTypeOK
<1>6. Holders'
  BY <1>0, <1>1, <1>2, <1>3, <1>4, ZeroIsNoJob DEF JobInv, Holders
<1>7. \A i \in Jobs \ {j} : SameFor(i)
  BY <1>0, <1>1, <1>2, <1>3, <1>4, ZeroIsNoJob DEF SameFor
<1>8. ASSUME j \notin collided' PROVE Sole(j)'
  <2>0. Exclusive(j) /\ Counted(j) /\ Paid(j)
    BY <1>2, <1>3, <1>4, <1>8 DEF JobInv, Sole
  <2>1. Exclusive(j)'
    BY <1>0, <1>1, <1>2, <1>3, <1>4, <1>8, <2>0, TypedFields, JobConstants, ZeroIsNoJob, CronRetries DEF
       JobInv, Holders, Exclusive, Counted, Paid, OnIt, Retries
  <2>2. Counted(j)'
    BY <1>0, <1>1, <1>2, <1>3, <1>4, <1>8, <2>0, TypedFields, JobConstants, ZeroIsNoJob, CronRetries DEF
       JobInv, Holders, Exclusive, Counted, Paid, OnIt, Retries
  <2>3. Paid(j)'
    BY <1>0, <1>1, <1>2, <1>3, <1>4, <1>8, <2>0, TypedFields, JobConstants, ZeroIsNoJob, CronRetries DEF
       JobInv, Holders, Exclusive, Counted, Paid, OnIt, Retries
  <2> QED BY <2>1, <2>2, <2>3 DEF Sole
<1> QED BY <1>1, <1>2, <1>3, <1>4, <1>5, <1>6, <1>7, <1>8, StepOnOneRow

\* The row says Success before the callback.
LEMMA PlaybookPassesKeeps ==
    ASSUME JobInv, NEW w \in Workers,
           PlaybookPasses(w)
    PROVE  JobInv'
<1>0. PICK j \in Jobs : worker[w].job = j
  BY HolderHasJob DEF PlaybookPasses
<1>1. /\ worker[w].at = "playbook"
      /\ job[j].status # "Absent"
  BY <1>0 DEF JobInv, PlaybookPasses, Untouched, OnIt
<1>2. UNCHANGED <<rq, queue, retryer, alive, failures, automatic, collided, deaths>>
  BY DEF PlaybookPasses
<1>3. /\ job' \in [Jobs -> Job] /\ job'[j].server = job[j].server
      /\ job'[j].status = "Success" /\ job'[j].retries = job[j].retries
      /\ \A i \in Jobs \ {j} : job'[i] = job[i]
  BY <1>0, <1>1 DEF JobInv, PlaybookPasses, JobTypeOK, Job, JobStatus, Worker
<1>4. /\ worker' \in [Workers -> Worker]
      /\ worker'[w].at = "succeeded" /\ worker'[w].job = j /\ worker'[w].retries = worker[w].retries
      /\ \A v \in Workers \ {w} : worker'[v] = worker[v]
  BY <1>0, <1>1 DEF JobInv, PlaybookPasses, JobTypeOK, Worker, IdleWorker, JobStatus, Job
<1>5. JobTypeOK'
  BY <1>2, <1>3, <1>4 DEF JobInv, JobTypeOK
<1>6. Holders'
  BY <1>0, <1>1, <1>2, <1>3, <1>4, ZeroIsNoJob DEF JobInv, Holders
<1>7. \A i \in Jobs \ {j} : SameFor(i)
  BY <1>0, <1>1, <1>2, <1>3, <1>4, ZeroIsNoJob DEF SameFor
<1>8. ASSUME j \notin collided' PROVE Sole(j)'
  <2>0. Exclusive(j) /\ Counted(j) /\ Paid(j)
    BY <1>2, <1>3, <1>4, <1>8 DEF JobInv, Sole
  <2>1. Exclusive(j)'
    BY <1>0, <1>1, <1>2, <1>3, <1>4, <1>8, <2>0, TypedFields, JobConstants, ZeroIsNoJob, CronRetries DEF
       JobInv, Holders, Exclusive, Counted, Paid, OnIt, Retries
  <2>2. Counted(j)'
    BY <1>0, <1>1, <1>2, <1>3, <1>4, <1>8, <2>0, TypedFields, JobConstants, ZeroIsNoJob, CronRetries DEF
       JobInv, Holders, Exclusive, Counted, Paid, OnIt, Retries
  <2>3. Paid(j)'
    BY <1>0, <1>1, <1>2, <1>3, <1>4, <1>8, <2>0, TypedFields, JobConstants, ZeroIsNoJob, CronRetries DEF
       JobInv, Holders, Exclusive, Counted, Paid, OnIt, Retries
  <2> QED BY <2>1, <2>2, <2>3 DEF Sole
<1> QED BY <1>1, <1>2, <1>3, <1>4, <1>5, <1>6, <1>7, <1>8, StepOnOneRow

\* A failed run, or a callback that raised, adds one to the count the run started with.
LEMMA MarkFailedKeeps ==
    ASSUME JobInv, NEW w \in Workers, worker[w].at \in {"playbook", "succeeded"},
           MarkFailed(w), UNCHANGED <<rq, queue, retryer, alive, automatic, collided, deaths>>
    PROVE  JobInv'
<1>0. PICK j \in Jobs : worker[w].job = j
  BY HolderHasJob DEF MarkFailed
<1>1. /\ worker[w].at \in {"playbook", "succeeded"}
      /\ job[j].status # "Absent"
  BY <1>0 DEF JobInv, MarkFailed, Untouched, OnIt
<1>2. UNCHANGED <<rq, queue, retryer, alive, automatic, collided, deaths>>
  BY DEF MarkFailed
<1>3. /\ job' \in [Jobs -> Job] /\ job'[j].server = job[j].server
      /\ job'[j].status = "Failed" /\ job'[j].retries = worker[w].retries + 1
      /\ \A i \in Jobs \ {j} : job'[i] = job[i]
  BY <1>0, <1>1 DEF JobInv, MarkFailed, JobTypeOK, Job, JobStatus, Worker
<1>4. /\ worker' \in [Workers -> Worker]
      /\ worker'[w].at = "failed" /\ worker'[w].job = j /\ worker'[w].retries = worker[w].retries + 1
      /\ \A v \in Workers \ {w} : worker'[v] = worker[v]
  BY <1>0, <1>1 DEF JobInv, MarkFailed, JobTypeOK, Worker, IdleWorker, JobStatus, Job
<1>5. /\ failures' \in [Jobs -> Nat]
      /\ failures'[j] = failures[j] + 1
      /\ \A i \in Jobs \ {j} : failures'[i] = failures[i]
  BY <1>0, <1>1 DEF JobInv, MarkFailed, JobTypeOK
<1>6. JobTypeOK'
  BY <1>2, <1>3, <1>4, <1>5 DEF JobInv, JobTypeOK
<1>7. Holders'
  BY <1>0, <1>1, <1>2, <1>3, <1>4, <1>5, ZeroIsNoJob DEF JobInv, Holders
<1>8. \A i \in Jobs \ {j} : SameFor(i)
  BY <1>0, <1>1, <1>2, <1>3, <1>4, <1>5, ZeroIsNoJob DEF SameFor
<1>9. ASSUME j \notin collided' PROVE Sole(j)'
  <2>0. Exclusive(j) /\ Counted(j) /\ Paid(j)
    BY <1>2, <1>3, <1>4, <1>5, <1>9 DEF JobInv, Sole
  <2>1. Exclusive(j)'
    BY <1>0, <1>1, <1>2, <1>3, <1>4, <1>5, <1>9, <2>0, TypedFields, JobConstants, ZeroIsNoJob,
       CronRetries DEF JobInv, Holders, Exclusive, Counted, Paid, OnIt, Retries
  <2>2. Counted(j)'
    BY <1>0, <1>1, <1>2, <1>3, <1>4, <1>5, <1>9, <2>0, TypedFields, JobConstants, ZeroIsNoJob,
       CronRetries DEF JobInv, Holders, Exclusive, Counted, Paid, OnIt, Retries
  <2>3. Paid(j)'
    BY <1>0, <1>1, <1>2, <1>3, <1>4, <1>5, <1>9, <2>0, TypedFields, JobConstants, ZeroIsNoJob,
       CronRetries DEF JobInv, Holders, Exclusive, Counted, Paid, OnIt, Retries
  <2> QED BY <2>1, <2>2, <2>3 DEF Sole
<1> QED BY <1>1, <1>2, <1>3, <1>4, <1>5, <1>6, <1>7, <1>8, <1>9, StepOnOneRow

\* The worker is done: RQ forgets the id.
LEMMA CallbackEndsKeeps ==
    ASSUME JobInv, NEW w \in Workers, worker[w].at \in {"succeeded", "failed"},
           Returns(w), UNCHANGED <<job, queue, retryer, alive, failures, automatic, collided, deaths>>
    PROVE  JobInv'
<1>0. PICK j \in Jobs : worker[w].job = j
  BY HolderHasJob DEF Returns
<1>1. /\ worker[w].at \in {"succeeded", "failed"}
      /\ job[j].status # "Absent"
  BY <1>0 DEF JobInv, Returns, Untouched, OnIt
<1>2. UNCHANGED <<job, queue, retryer, alive, failures, automatic, collided, deaths>>
  BY DEF Returns
<1>3. /\ worker' \in [Workers -> Worker]
      /\ worker'[w].at = "idle" /\ worker'[w].job = 0
      /\ \A v \in Workers \ {w} : worker'[v] = worker[v]
  BY <1>0, <1>1 DEF JobInv, Returns, JobTypeOK, Worker, IdleWorker, JobStatus, Job
<1>4. /\ rq' \in [Jobs -> {"idle", "queued", "started"}]
      /\ rq'[j] = "idle"
      /\ \A i \in Jobs \ {j} : rq'[i] = rq[i]
  BY <1>0, <1>1 DEF JobInv, Returns, JobTypeOK
<1>5. JobTypeOK'
  BY <1>2, <1>3, <1>4 DEF JobInv, JobTypeOK
<1>6. Holders'
  BY <1>0, <1>1, <1>2, <1>3, <1>4, ZeroIsNoJob DEF JobInv, Holders
<1>7. \A i \in Jobs \ {j} : SameFor(i)
  BY <1>0, <1>1, <1>2, <1>3, <1>4, ZeroIsNoJob DEF SameFor
<1>8. ASSUME j \notin collided' PROVE Sole(j)'
  <2>0. Exclusive(j) /\ Counted(j) /\ Paid(j)
    BY <1>2, <1>3, <1>4, <1>8 DEF JobInv, Sole
  <2>1. Exclusive(j)'
    BY <1>0, <1>1, <1>2, <1>3, <1>4, <1>8, <2>0, TypedFields, JobConstants, ZeroIsNoJob, CronRetries DEF
       JobInv, Holders, Exclusive, Counted, Paid, OnIt, Retries
  <2>2. Counted(j)'
    BY <1>0, <1>1, <1>2, <1>3, <1>4, <1>8, <2>0, TypedFields, JobConstants, ZeroIsNoJob, CronRetries DEF
       JobInv, Holders, Exclusive, Counted, Paid, OnIt, Retries
  <2>3. Paid(j)'
    BY <1>0, <1>1, <1>2, <1>3, <1>4, <1>8, <2>0, TypedFields, JobConstants, ZeroIsNoJob, CronRetries DEF
       JobInv, Holders, Exclusive, Counted, Paid, OnIt, Retries
  <2> QED BY <2>1, <2>2, <2>3 DEF Sole
<1> QED BY <1>1, <1>2, <1>3, <1>4, <1>5, <1>6, <1>7, <1>8, StepOnOneRow

\* RQ goes on calling the job started.
LEMMA WorkerDiesKeeps ==
    ASSUME JobInv, NEW w \in Workers,
           WorkerDies(w)
    PROVE  JobInv'
<1>0. PICK j \in Jobs : worker[w].job = j
  BY HolderHasJob DEF WorkerDies
<1>1. /\ worker[w].at # "idle"
      /\ job[j].status # "Absent"
  BY <1>0 DEF JobInv, WorkerDies, Untouched, OnIt
<1>2. UNCHANGED <<job, rq, queue, retryer, alive, failures, automatic, collided>>
  BY DEF WorkerDies
<1>3. /\ worker' \in [Workers -> Worker]
      /\ worker'[w].at = "idle" /\ worker'[w].job = 0
      /\ \A v \in Workers \ {w} : worker'[v] = worker[v]
  BY <1>0, <1>1 DEF JobInv, WorkerDies, JobTypeOK, Worker, IdleWorker, JobStatus, Job
<1>4. deaths' \in Nat
  BY <1>0, <1>1 DEF JobInv, WorkerDies, JobTypeOK
<1>5. JobTypeOK'
  BY <1>2, <1>3, <1>4 DEF JobInv, JobTypeOK
<1>6. Holders'
  BY <1>0, <1>1, <1>2, <1>3, <1>4, ZeroIsNoJob DEF JobInv, Holders
<1>7. \A i \in Jobs \ {j} : SameFor(i)
  BY <1>0, <1>1, <1>2, <1>3, <1>4, ZeroIsNoJob DEF SameFor
<1>8. ASSUME j \notin collided' PROVE Sole(j)'
  <2>0. Exclusive(j) /\ Counted(j) /\ Paid(j)
    BY <1>2, <1>3, <1>4, <1>8 DEF JobInv, Sole
  <2>1. Exclusive(j)'
    BY <1>0, <1>1, <1>2, <1>3, <1>4, <1>8, <2>0, TypedFields, JobConstants, ZeroIsNoJob, CronRetries DEF
       JobInv, Holders, Exclusive, Counted, Paid, OnIt, Retries
  <2>2. Counted(j)'
    BY <1>0, <1>1, <1>2, <1>3, <1>4, <1>8, <2>0, TypedFields, JobConstants, ZeroIsNoJob, CronRetries DEF
       JobInv, Holders, Exclusive, Counted, Paid, OnIt, Retries
  <2>3. Paid(j)'
    BY <1>0, <1>1, <1>2, <1>3, <1>4, <1>8, <2>0, TypedFields, JobConstants, ZeroIsNoJob, CronRetries DEF
       JobInv, Holders, Exclusive, Counted, Paid, OnIt, Retries
  <2> QED BY <2>1, <2>2, <2>3 DEF Sole
<1> QED BY <1>1, <1>2, <1>3, <1>4, <1>5, <1>6, <1>7, <1>8, StepOnOneRow

\* RQ forgets a job that no worker has.
LEMMA RqCleansUpKeeps ==
    ASSUME JobInv, NEW j \in Jobs,
           RqCleansUp(j)
    PROVE  JobInv'
<1>1. /\ rq[j] = "started"
      /\ \A w \in Workers : worker[w].job # j
      /\ job[j].status # "Absent"
  BY DEF JobInv, RqCleansUp, Untouched
<1>2. UNCHANGED <<job, queue, worker, retryer, alive, failures, automatic, collided, deaths>>
  BY DEF RqCleansUp
<1>3. /\ rq' \in [Jobs -> {"idle", "queued", "started"}]
      /\ rq'[j] = "idle"
      /\ \A i \in Jobs \ {j} : rq'[i] = rq[i]
  BY <1>1 DEF JobInv, RqCleansUp, JobTypeOK
<1>4. JobTypeOK'
  BY <1>2, <1>3 DEF JobInv, JobTypeOK
<1>5. Holders'
  BY <1>1, <1>2, <1>3, ZeroIsNoJob DEF JobInv, Holders
<1>6. \A i \in Jobs \ {j} : SameFor(i)
  BY <1>1, <1>2, <1>3, ZeroIsNoJob DEF SameFor
<1>7. ASSUME j \notin collided' PROVE Sole(j)'
  <2>0. Exclusive(j) /\ Counted(j) /\ Paid(j)
    BY <1>2, <1>3, <1>7 DEF JobInv, Sole
  <2>1. Exclusive(j)'
    BY <1>1, <1>2, <1>3, <1>7, <2>0, TypedFields, JobConstants, ZeroIsNoJob, CronRetries DEF JobInv,
       Holders, Exclusive, Counted, Paid, OnIt, Retries
  <2>2. Counted(j)'
    BY <1>1, <1>2, <1>3, <1>7, <2>0, TypedFields, JobConstants, ZeroIsNoJob, CronRetries DEF JobInv,
       Holders, Exclusive, Counted, Paid, OnIt, Retries
  <2>3. Paid(j)'
    BY <1>1, <1>2, <1>3, <1>7, <2>0, TypedFields, JobConstants, ZeroIsNoJob, CronRetries DEF JobInv,
       Holders, Exclusive, Counted, Paid, OnIt, Retries
  <2> QED BY <2>1, <2>2, <2>3 DEF Sole
<1> QED BY <1>1, <1>2, <1>3, <1>4, <1>5, <1>6, <1>7, StepOnOneRow

\* Retry in the desk.
LEMMA OperatorReadsKeeps ==
    ASSUME JobInv, NEW r \in Operators, NEW j \in Jobs,
           OperatorReads(r, j)
    PROVE  JobInv'
<1>1. /\ retryer[r].at = "idle" /\ retryer[r].job = 0
      /\ r # Cron /\ r \in Retryers
      /\ \/ job[j].status = "Failed"
         \/ job[j].status = "Running" /\ \A w \in Workers : ~(worker[w].job = j /\ worker[w].at = "playbook")
      /\ job[j].status # "Absent"
  BY JobConstants DEF JobInv, OperatorReads, Reads, IsStale, Working, Holders, Retryers
<1>2. UNCHANGED <<job, rq, queue, worker, alive, failures, automatic, deaths>>
  BY DEF OperatorReads, Reads, IsStale, Working
<1>3. /\ retryer' \in [Retryers -> Retryer]
      /\ retryer'[r].at = "read" /\ retryer'[r].job = j
      /\ retryer'[r].status = job[j].status /\ retryer'[r].push = FALSE
      /\ \A q \in Retryers \ {r} : retryer'[q] = retryer[q]
  BY <1>1 DEF JobInv, OperatorReads, Reads, IsStale, Working, JobTypeOK, Retryer, IdleRetryer, JobStatus,
     Job
<1>4. /\ collided' \in SUBSET Jobs /\ collided \subseteq collided'
      /\ \A q \in Retryers : retryer[q].job = j => j \in collided'
  BY <1>1 DEF JobInv, OperatorReads, Reads, IsStale, Working, JobTypeOK
<1>5. JobTypeOK'
  BY <1>2, <1>3, <1>4 DEF JobInv, JobTypeOK
<1>6. Holders'
  BY <1>1, <1>2, <1>3, <1>4, ZeroIsNoJob DEF JobInv, Holders
<1>7. \A i \in Jobs \ {j} : SameFor(i)
  BY <1>1, <1>2, <1>3, <1>4, ZeroIsNoJob DEF SameFor
<1>8. ASSUME j \notin collided' PROVE Sole(j)'
  <2>0. Exclusive(j) /\ Counted(j) /\ Paid(j)
    BY <1>2, <1>3, <1>4, <1>8 DEF JobInv, Sole
  <2>9. /\ \A q \in Retryers : retryer'[q].job = j => q = r
        /\ \A w \in Workers : worker[w].job = j => worker[w].at = "failed"
        /\ queue[j] = 0
    BY <1>1, <1>3, <1>4, <1>8, <2>0, TypedFields, HolderHasJob DEF JobInv, JobTypeOK, Worker, Exclusive,
       Counted, Holders, OnIt, Retries
  <2>1. Exclusive(j)'
    BY <1>1, <1>2, <1>3, <1>4, <1>8, <2>0, <2>9, TypedFields, JobConstants, ZeroIsNoJob, CronRetries DEF
       JobInv, Holders, Exclusive, Counted, Paid, OnIt, Retries
  <2>2. Counted(j)'
    BY <1>1, <1>2, <1>3, <1>4, <1>8, <2>0, <2>9, TypedFields, JobConstants, ZeroIsNoJob, CronRetries DEF
       JobInv, Holders, Exclusive, Counted, Paid, OnIt, Retries
  <2>3. Paid(j)'
    BY <1>1, <1>2, <1>3, <1>4, <1>8, <2>0, <2>9, TypedFields, JobConstants, ZeroIsNoJob, CronRetries DEF
       JobInv, Holders, Exclusive, Counted, Paid, OnIt, Retries
  <2> QED BY <2>1, <2>2, <2>3 DEF Sole
<1> QED BY <1>1, <1>2, <1>3, <1>4, <1>5, <1>6, <1>7, <1>8, StepOnOneRow

\* The cron reads a row that is due, with the count it has then.
LEMMA CronReadsKeeps ==
    ASSUME JobInv, NEW j \in Jobs,
           CronReads(j)
    PROVE  JobInv'
<1>1. /\ retryer[Cron].at = "idle" /\ retryer[Cron].job = 0
      /\ Cron \in Retryers
      /\ \/ job[j].status = "Failed" /\ job[j].retries <= MaxRetries
         \/ job[j].status = "Running" /\ \A w \in Workers : ~(worker[w].job = j /\ worker[w].at = "playbook")
      /\ job[j].status # "Absent"
  BY JobConstants DEF JobInv, CronReads, Reads, DueForRetry, IsStale, Working, Holders, Retryers
<1>2. UNCHANGED <<job, rq, queue, worker, alive, failures, automatic, deaths>>
  BY DEF CronReads, Reads, DueForRetry, IsStale, Working
<1>3. /\ retryer' \in [Retryers -> Retryer]
      /\ retryer'[Cron].at = "read" /\ retryer'[Cron].job = j
      /\ retryer'[Cron].status = job[j].status /\ retryer'[Cron].push = FALSE
      /\ \A q \in Retryers \ {Cron} : retryer'[q] = retryer[q]
  BY <1>1 DEF JobInv, CronReads, Reads, DueForRetry, IsStale, Working, JobTypeOK, Retryer, IdleRetryer,
     JobStatus, Job
<1>4. /\ collided' \in SUBSET Jobs /\ collided \subseteq collided'
      /\ \A q \in Retryers : retryer[q].job = j => j \in collided'
  BY <1>1 DEF JobInv, CronReads, Reads, DueForRetry, IsStale, Working, JobTypeOK
<1>5. JobTypeOK'
  BY <1>2, <1>3, <1>4 DEF JobInv, JobTypeOK
<1>6. Holders'
  BY <1>1, <1>2, <1>3, <1>4, ZeroIsNoJob DEF JobInv, Holders
<1>7. \A i \in Jobs \ {j} : SameFor(i)
  BY <1>1, <1>2, <1>3, <1>4, ZeroIsNoJob DEF SameFor
<1>8. ASSUME j \notin collided' PROVE Sole(j)'
  <2>0. Exclusive(j) /\ Counted(j) /\ Paid(j)
    BY <1>2, <1>3, <1>4, <1>8 DEF JobInv, Sole
  <2>9. /\ \A q \in Retryers : retryer'[q].job = j => q = Cron
        /\ \A w \in Workers : worker[w].job = j => worker[w].at = "failed"
        /\ queue[j] = 0
    BY <1>1, <1>3, <1>4, <1>8, <2>0, TypedFields, HolderHasJob DEF JobInv, JobTypeOK, Worker, Exclusive,
       Counted, Holders, OnIt, Retries
  <2>1. Exclusive(j)'
    BY <1>1, <1>2, <1>3, <1>4, <1>8, <2>0, <2>9, TypedFields, JobConstants, ZeroIsNoJob, CronRetries DEF
       JobInv, Holders, Exclusive, Counted, Paid, OnIt, Retries
  <2>2. Counted(j)'
    BY <1>1, <1>2, <1>3, <1>4, <1>8, <2>0, <2>9, TypedFields, JobConstants, ZeroIsNoJob, CronRetries DEF
       JobInv, Holders, Exclusive, Counted, Paid, OnIt, Retries
  <2>3. Paid(j)'
    BY <1>1, <1>2, <1>3, <1>4, <1>8, <2>0, <2>9, TypedFields, JobConstants, ZeroIsNoJob, CronRetries DEF
       JobInv, Holders, Exclusive, Counted, Paid, OnIt, Retries
  <2> QED BY <2>1, <2>2, <2>3 DEF Sole
<1> QED BY <1>1, <1>2, <1>3, <1>4, <1>5, <1>6, <1>7, <1>8, StepOnOneRow

\* The cron reads a Pending row that RQ does not know.
LEMMA CronReadsPendingKeeps ==
    ASSUME JobInv, NEW j \in Jobs,
           CronReadsPending(j)
    PROVE  JobInv'
<1>1. /\ retryer[Cron].at = "idle" /\ retryer[Cron].job = 0
      /\ Cron \in Retryers
      /\ job[j].status = "Pending" /\ rq[j] = "idle"
      /\ job[j].status # "Absent"
  BY JobConstants DEF JobInv, CronReadsPending, Reads, IsEnqueued, Holders, Retryers
<1>2. UNCHANGED <<job, rq, queue, worker, alive, failures, automatic, deaths>>
  BY DEF CronReadsPending, Reads, IsEnqueued
<1>3. /\ retryer' \in [Retryers -> Retryer]
      /\ retryer'[Cron].at = "read" /\ retryer'[Cron].job = j
      /\ retryer'[Cron].status = job[j].status /\ retryer'[Cron].push = FALSE
      /\ \A q \in Retryers \ {Cron} : retryer'[q] = retryer[q]
  BY <1>1 DEF JobInv, CronReadsPending, Reads, IsEnqueued, JobTypeOK, Retryer, IdleRetryer, JobStatus,
     Job
<1>4. /\ collided' \in SUBSET Jobs /\ collided \subseteq collided'
      /\ \A q \in Retryers : retryer[q].job = j => j \in collided'
  BY <1>1 DEF JobInv, CronReadsPending, Reads, IsEnqueued, JobTypeOK
<1>5. JobTypeOK'
  BY <1>2, <1>3, <1>4 DEF JobInv, JobTypeOK
<1>6. Holders'
  BY <1>1, <1>2, <1>3, <1>4, ZeroIsNoJob DEF JobInv, Holders
<1>7. \A i \in Jobs \ {j} : SameFor(i)
  BY <1>1, <1>2, <1>3, <1>4, ZeroIsNoJob DEF SameFor
<1>8. ASSUME j \notin collided' PROVE Sole(j)'
  <2>0. Exclusive(j) /\ Counted(j) /\ Paid(j)
    BY <1>2, <1>3, <1>4, <1>8 DEF JobInv, Sole
  <2>9. /\ \A q \in Retryers : retryer'[q].job = j => q = Cron
        /\ \A w \in Workers : worker[w].job = j => worker[w].at = "failed"
        /\ queue[j] = 0
    BY <1>1, <1>3, <1>4, <1>8, <2>0, TypedFields, HolderHasJob DEF JobInv, JobTypeOK, Worker, Exclusive,
       Counted, Holders, OnIt, Retries
  <2>1. Exclusive(j)'
    BY <1>1, <1>2, <1>3, <1>4, <1>8, <2>0, <2>9, TypedFields, JobConstants, ZeroIsNoJob, CronRetries DEF
       JobInv, Holders, Exclusive, Counted, Paid, OnIt, Retries
  <2>2. Counted(j)'
    BY <1>1, <1>2, <1>3, <1>4, <1>8, <2>0, <2>9, TypedFields, JobConstants, ZeroIsNoJob, CronRetries DEF
       JobInv, Holders, Exclusive, Counted, Paid, OnIt, Retries
  <2>3. Paid(j)'
    BY <1>1, <1>2, <1>3, <1>4, <1>8, <2>0, <2>9, TypedFields, JobConstants, ZeroIsNoJob, CronRetries DEF
       JobInv, Holders, Exclusive, Counted, Paid, OnIt, Retries
  <2> QED BY <2>1, <2>2, <2>3 DEF Sole
<1> QED BY <1>1, <1>2, <1>3, <1>4, <1>5, <1>6, <1>7, <1>8, StepOnOneRow

\* Who finds the id idle will push it.
LEMMA DeduplicatesKeeps ==
    ASSUME JobInv, NEW r \in Retryers,
           Deduplicates(r)
    PROVE  JobInv'
<1>0. PICK j \in Jobs : retryer[r].job = j
  BY HolderHasJob DEF Deduplicates, IsEnqueued
<1>1. /\ retryer[r].at = "read"
      /\ job[j].status # "Absent"
  BY <1>0 DEF JobInv, Deduplicates, IsEnqueued, Untouched, Retries
<1>2. UNCHANGED <<job, rq, queue, worker, alive, failures, automatic, collided, deaths>>
  BY DEF Deduplicates, IsEnqueued
<1>3. /\ retryer' \in [Retryers -> Retryer]
      /\ retryer'[r].at = "checked" /\ retryer'[r].job = j
      /\ retryer'[r].status = retryer[r].status /\ retryer'[r].push = (rq[j] = "idle")
      /\ \A q \in Retryers \ {r} : retryer'[q] = retryer[q]
  BY <1>0, <1>1 DEF JobInv, Deduplicates, IsEnqueued, JobTypeOK, Retryer, IdleRetryer, JobStatus, Job
<1>4. JobTypeOK'
  BY <1>2, <1>3 DEF JobInv, JobTypeOK
<1>5. Holders'
  BY <1>0, <1>1, <1>2, <1>3, ZeroIsNoJob DEF JobInv, Holders
<1>6. \A i \in Jobs \ {j} : SameFor(i)
  BY <1>0, <1>1, <1>2, <1>3, ZeroIsNoJob DEF SameFor
<1>7. ASSUME j \notin collided' PROVE Sole(j)'
  <2>0. Exclusive(j) /\ Counted(j) /\ Paid(j)
    BY <1>2, <1>3, <1>7 DEF JobInv, Sole
  <2>1. Exclusive(j)'
    BY <1>0, <1>1, <1>2, <1>3, <1>7, <2>0, TypedFields, JobConstants, ZeroIsNoJob, CronRetries DEF
       JobInv, Holders, Exclusive, Counted, Paid, OnIt, Retries
  <2>2. Counted(j)'
    BY <1>0, <1>1, <1>2, <1>3, <1>7, <2>0, TypedFields, JobConstants, ZeroIsNoJob, CronRetries DEF
       JobInv, Holders, Exclusive, Counted, Paid, OnIt, Retries
  <2>3. Paid(j)'
    BY <1>0, <1>1, <1>2, <1>3, <1>7, <2>0, TypedFields, JobConstants, ZeroIsNoJob, CronRetries DEF
       JobInv, Holders, Exclusive, Counted, Paid, OnIt, Retries
  <2> QED BY <2>1, <2>2, <2>3 DEF Sole
<1> QED BY <1>1, <1>2, <1>3, <1>4, <1>5, <1>6, <1>7, StepOnOneRow

\* The row goes back to Pending; the cron's retry of a failure is counted.
LEMMA CommitsKeeps ==
    ASSUME JobInv, NEW r \in Retryers,
           Commits(r)
    PROVE  JobInv'
<1>0. PICK j \in Jobs : retryer[r].job = j
  BY HolderHasJob DEF Commits
<1>1. /\ retryer[r].at = "checked"
      /\ job[j].status # "Absent"
  BY <1>0 DEF JobInv, Commits, Untouched, Retries
<1>2. UNCHANGED <<rq, queue, worker, alive, failures, collided, deaths>>
  BY DEF Commits
<1>3. /\ job' \in [Jobs -> Job] /\ job'[j].server = job[j].server
      /\ job'[j].status = (IF retryer[r].status = "Pending" THEN job[j].status ELSE "Pending") /\ job'[j].retries = job[j].retries
      /\ \A i \in Jobs \ {j} : job'[i] = job[i]
  <2>1. CASE retryer[r].status = "Pending"
    BY <1>0, <1>1, <2>1 DEF JobInv, Commits, JobTypeOK, Job, JobStatus, Worker
  <2>2. CASE retryer[r].status # "Pending"
    BY <1>0, <1>1, <2>2 DEF JobInv, Commits, JobTypeOK, Job, JobStatus, Worker
  <2> QED BY <2>1, <2>2
<1>4. /\ retryer' \in [Retryers -> Retryer]
      /\ retryer'[r].at = (IF retryer[r].push THEN "committed" ELSE "idle") /\ retryer'[r].job = (IF retryer[r].push THEN j ELSE 0)
      /\ retryer'[r].status = (IF retryer[r].push THEN retryer[r].status ELSE "Absent") /\ retryer'[r].push = retryer[r].push
      /\ \A q \in Retryers \ {r} : retryer'[q] = retryer[q]
  BY <1>0, <1>1 DEF JobInv, Commits, JobTypeOK, Retryer, IdleRetryer, JobStatus, Job
<1>5. /\ automatic' \in [Jobs -> Nat]
      /\ automatic'[j] = IF r = Cron /\ retryer[r].status = "Failed" THEN automatic[j] + 1 ELSE automatic[j]
      /\ \A i \in Jobs \ {j} : automatic'[i] = automatic[i]
  BY <1>0, <1>1 DEF JobInv, Commits, JobTypeOK
<1>6. JobTypeOK'
  BY <1>2, <1>3, <1>4, <1>5 DEF JobInv, JobTypeOK
<1>7. Holders'
  BY <1>0, <1>1, <1>2, <1>3, <1>4, <1>5, ZeroIsNoJob DEF JobInv, Holders
<1>8. \A i \in Jobs \ {j} : SameFor(i)
  BY <1>0, <1>1, <1>2, <1>3, <1>4, <1>5, ZeroIsNoJob DEF SameFor
<1>9. ASSUME j \notin collided' PROVE Sole(j)'
  <2>0. Exclusive(j) /\ Counted(j) /\ Paid(j)
    BY <1>2, <1>3, <1>4, <1>5, <1>9 DEF JobInv, Sole
  <2>1. Exclusive(j)'
    BY <1>0, <1>1, <1>2, <1>3, <1>4, <1>5, <1>9, <2>0, TypedFields, JobConstants, ZeroIsNoJob,
       CronRetries DEF JobInv, Holders, Exclusive, Counted, Paid, OnIt, Retries
  <2>2. Counted(j)'
    BY <1>0, <1>1, <1>2, <1>3, <1>4, <1>5, <1>9, <2>0, TypedFields, JobConstants, ZeroIsNoJob,
       CronRetries DEF JobInv, Holders, Exclusive, Counted, Paid, OnIt, Retries
  <2>3. Paid(j)'
    BY <1>0, <1>1, <1>2, <1>3, <1>4, <1>5, <1>9, <2>0, TypedFields, JobConstants, ZeroIsNoJob,
       CronRetries DEF JobInv, Holders, Exclusive, Counted, Paid, OnIt, Retries
  <2> QED BY <2>1, <2>2, <2>3 DEF Sole
<1> QED BY <1>1, <1>2, <1>3, <1>4, <1>5, <1>6, <1>7, <1>8, <1>9, StepOnOneRow

\* The id stands in the queue.
LEMMA PushesKeeps ==
    ASSUME JobInv, NEW r \in Retryers,
           Pushes(r)
    PROVE  JobInv'
<1>0. PICK j \in Jobs : retryer[r].job = j
  BY HolderHasJob DEF Pushes
<1>1. /\ retryer[r].at = "committed"
      /\ job[j].status # "Absent"
  BY <1>0 DEF JobInv, Pushes, Untouched, Retries
<1>2. UNCHANGED <<job, worker, alive, failures, automatic, collided, deaths>>
  BY DEF Pushes
<1>3. /\ retryer' \in [Retryers -> Retryer]
      /\ retryer'[r].at = "idle" /\ retryer'[r].job = 0
      /\ retryer'[r].status = "Absent" /\ retryer'[r].push = FALSE
      /\ \A q \in Retryers \ {r} : retryer'[q] = retryer[q]
  BY <1>0, <1>1 DEF JobInv, Pushes, JobTypeOK, Retryer, IdleRetryer, JobStatus, Job
<1>4. /\ queue' \in [Jobs -> Nat]
      /\ queue'[j] = queue[j] + 1
      /\ \A i \in Jobs \ {j} : queue'[i] = queue[i]
  BY <1>0, <1>1 DEF JobInv, Pushes, JobTypeOK
<1>5. /\ rq' \in [Jobs -> {"idle", "queued", "started"}]
      /\ rq'[j] = "queued"
      /\ \A i \in Jobs \ {j} : rq'[i] = rq[i]
  BY <1>0, <1>1 DEF JobInv, Pushes, JobTypeOK
<1>6. JobTypeOK'
  BY <1>2, <1>3, <1>4, <1>5 DEF JobInv, JobTypeOK
<1>7. Holders'
  BY <1>0, <1>1, <1>2, <1>3, <1>4, <1>5, ZeroIsNoJob DEF JobInv, Holders
<1>8. \A i \in Jobs \ {j} : SameFor(i)
  BY <1>0, <1>1, <1>2, <1>3, <1>4, <1>5, ZeroIsNoJob DEF SameFor
<1>9. ASSUME j \notin collided' PROVE Sole(j)'
  <2>0. Exclusive(j) /\ Counted(j) /\ Paid(j)
    BY <1>2, <1>3, <1>4, <1>5, <1>9 DEF JobInv, Sole
  <2>1. Exclusive(j)'
    BY <1>0, <1>1, <1>2, <1>3, <1>4, <1>5, <1>9, <2>0, TypedFields, JobConstants, ZeroIsNoJob,
       CronRetries DEF JobInv, Holders, Exclusive, Counted, Paid, OnIt, Retries
  <2>2. Counted(j)'
    BY <1>0, <1>1, <1>2, <1>3, <1>4, <1>5, <1>9, <2>0, TypedFields, JobConstants, ZeroIsNoJob,
       CronRetries DEF JobInv, Holders, Exclusive, Counted, Paid, OnIt, Retries
  <2>3. Paid(j)'
    BY <1>0, <1>1, <1>2, <1>3, <1>4, <1>5, <1>9, <2>0, TypedFields, JobConstants, ZeroIsNoJob,
       CronRetries DEF JobInv, Holders, Exclusive, Counted, Paid, OnIt, Retries
  <2> QED BY <2>1, <2>2, <2>3 DEF Sole
<1> QED BY <1>1, <1>2, <1>3, <1>4, <1>5, <1>6, <1>7, <1>8, <1>9, StepOnOneRow

\* Nothing is pushed.
LEMMA RetryerDiesKeeps ==
    ASSUME JobInv, NEW r \in Retryers,
           RetryerDies(r)
    PROVE  JobInv'
<1>0. PICK j \in Jobs : retryer[r].job = j
  BY HolderHasJob DEF RetryerDies
<1>1. /\ retryer[r].at # "idle"
      /\ job[j].status # "Absent"
  BY <1>0 DEF JobInv, RetryerDies, Untouched, Retries
<1>2. UNCHANGED <<job, rq, queue, worker, alive, failures, automatic, collided>>
  BY DEF RetryerDies
<1>3. /\ retryer' \in [Retryers -> Retryer]
      /\ retryer'[r].at = "idle" /\ retryer'[r].job = 0
      /\ retryer'[r].status = "Absent" /\ retryer'[r].push = FALSE
      /\ \A q \in Retryers \ {r} : retryer'[q] = retryer[q]
  BY <1>0, <1>1 DEF JobInv, RetryerDies, JobTypeOK, Retryer, IdleRetryer, JobStatus, Job
<1>4. deaths' \in Nat
  BY <1>0, <1>1 DEF JobInv, RetryerDies, JobTypeOK
<1>5. JobTypeOK'
  BY <1>2, <1>3, <1>4 DEF JobInv, JobTypeOK
<1>6. Holders'
  BY <1>0, <1>1, <1>2, <1>3, <1>4, ZeroIsNoJob DEF JobInv, Holders
<1>7. \A i \in Jobs \ {j} : SameFor(i)
  BY <1>0, <1>1, <1>2, <1>3, <1>4, ZeroIsNoJob DEF SameFor
<1>8. ASSUME j \notin collided' PROVE Sole(j)'
  <2>0. Exclusive(j) /\ Counted(j) /\ Paid(j)
    BY <1>2, <1>3, <1>4, <1>8 DEF JobInv, Sole
  <2>1. Exclusive(j)'
    BY <1>0, <1>1, <1>2, <1>3, <1>4, <1>8, <2>0, TypedFields, JobConstants, ZeroIsNoJob, CronRetries DEF
       JobInv, Holders, Exclusive, Counted, Paid, OnIt, Retries
  <2>2. Counted(j)'
    BY <1>0, <1>1, <1>2, <1>3, <1>4, <1>8, <2>0, TypedFields, JobConstants, ZeroIsNoJob, CronRetries DEF
       JobInv, Holders, Exclusive, Counted, Paid, OnIt, Retries
  <2>3. Paid(j)'
    BY <1>0, <1>1, <1>2, <1>3, <1>4, <1>8, <2>0, TypedFields, JobConstants, ZeroIsNoJob, CronRetries DEF
       JobInv, Holders, Exclusive, Counted, Paid, OnIt, Retries
  <2> QED BY <2>1, <2>2, <2>3 DEF Sole
<1> QED BY <1>1, <1>2, <1>3, <1>4, <1>5, <1>6, <1>7, <1>8, StepOnOneRow
\* The rows in use are the first ones.
LEMMA UsedRows ==
    ASSUME JobInv
    PROVE  /\ Cardinality(Used) \in 0 .. MaxJobs
           /\ \A j \in Jobs : job[j].status # "Absent" <=> j <= Cardinality(Used)
<1>1. PICK k \in 0 .. MaxJobs : \A j \in Jobs : job[j].status # "Absent" <=> j <= k
  BY DEF JobInv, Ordered
<1>2. Used = 1 .. k
  BY <1>1, JobConstants DEF Used, Jobs
<1>3. Cardinality(1 .. k) = k
  BY <1>1, FS_Interval
<1> QED BY <1>1, <1>2, <1>3

NewRow(s) == [NoJob EXCEPT !.status = "Pending", !.server = s]

LEMMA NewRowWaits ==
    ASSUME NEW s \in Servers
    PROVE  NewRow(s) \in Job /\ NewRow(s).status = "Pending" /\ NewRow(s).retries = 0 /\ NewRow(s).server = s
BY DEF NewRow, NoJob, Job, JobStatus

LEMMA InsertKeeps ==
    ASSUME JobInv, NEW servers \in Seq(Servers), NEW pushed \in Nat, Insert(servers, pushed)
    PROVE  JobInv'
<1> DEFINE k == Cardinality(Used)
           l == Len(servers)
<1>1. /\ k \in Nat /\ l \in Nat /\ k + l <= MaxJobs /\ pushed <= l
      /\ \A j \in Jobs : job[j].status # "Absent" <=> j <= k
  <2>1. k + l <= MaxJobs /\ pushed <= l
    BY DEF Insert
  <2> QED BY <2>1, UsedRows, JobConstants
<1>2. worker' = worker /\ retryer' = retryer /\ alive' = alive /\ failures' = failures
      /\ automatic' = automatic /\ collided' = collided /\ deaths' \in {deaths, deaths + 1}
  BY DEF Insert
<1> HIDE DEF k, l
<1>3. /\ job' = [j \in Jobs |-> IF j > k /\ j <= k + l THEN NewRow(servers[j - k]) ELSE job[j]]
      /\ rq' = [j \in Jobs |-> IF j > k /\ j <= k + pushed THEN "queued" ELSE rq[j]]
      /\ queue' = [j \in Jobs |-> IF j > k /\ j <= k + pushed THEN 1 ELSE queue[j]]
  <2>1. ASSUME NEW j \in Jobs
        PROVE  LET new == IF j <= k THEN 0 ELSE j - k IN
                 /\ new \in DOMAIN servers <=> j > k /\ j <= k + l
                 /\ new \in 1 .. pushed <=> j > k /\ j <= k + pushed
                 /\ new \in DOMAIN servers => new = j - k
    BY <1>1 DEF Jobs, l
  <2> DEFINE new == [j \in Jobs |-> IF j <= k THEN 0 ELSE j - k]
  <2>2. /\ job' = [j \in Jobs |-> IF new[j] \in DOMAIN servers THEN NewRow(servers[new[j]]) ELSE job[j]]
        /\ rq' = [j \in Jobs |-> IF new[j] \in 1 .. pushed THEN "queued" ELSE rq[j]]
        /\ queue' = [j \in Jobs |-> IF new[j] \in 1 .. pushed THEN 1 ELSE queue[j]]
    <3>1. job' = [j \in Jobs |-> IF new[j] \in DOMAIN servers THEN NewRow(servers[new[j]]) ELSE job[j]]
      BY Zenon DEF Insert, NewRow, k
    <3>2. /\ rq' = [j \in Jobs |-> IF new[j] \in 1 .. pushed THEN "queued" ELSE rq[j]]
          /\ queue' = [j \in Jobs |-> IF new[j] \in 1 .. pushed THEN 1 ELSE queue[j]]
      BY Zenon DEF Insert, NewRow, k
    <3> QED BY <3>1, <3>2
  <2> QED BY <2>1, <2>2
<1>4. JobTypeOK'
  <2>1. ASSUME NEW j \in Jobs, j > k, j <= k + l
        PROVE  NewRow(servers[j - k]) \in Job
    <3>1. servers[j - k] \in Servers
      BY <2>1, <1>1 DEF Jobs, l
    <3> QED BY <3>1, NewRowWaits
  <2>2. job' \in [Jobs -> Job]
    BY <2>1, <1>3 DEF JobInv, JobTypeOK
  <2>3. rq' \in [Jobs -> {"idle", "queued", "started"}] /\ queue' \in [Jobs -> Nat]
    BY <1>3 DEF JobInv, JobTypeOK
  <2>4. deaths' \in Nat
    BY <1>2 DEF JobInv, JobTypeOK
  <2> QED BY <1>2, <2>2, <2>3, <2>4 DEF JobInv, JobTypeOK
<1>5. Holders'
  BY <1>2 DEF JobInv, Holders
<1>6. Ordered'
  <2>1. k + l \in 0 .. MaxJobs
    BY <1>1, JobConstants
  <2>2. \A j \in Jobs : job'[j].status # "Absent" <=> j <= k + l
    <3>1. ASSUME NEW j \in Jobs, j > k, j <= k + l PROVE job'[j].status # "Absent"
      <4>1. servers[j - k] \in Servers
        BY <3>1, <1>1 DEF Jobs, l
      <4> QED BY <4>1, <3>1, <1>3, NewRowWaits
    <3>2. ASSUME NEW j \in Jobs, ~(j > k /\ j <= k + l) PROVE job'[j] = job[j]
      BY <3>2, <1>3
    <3> QED BY <3>1, <3>2, <1>1 DEF Jobs
  <2> QED BY <2>1, <2>2 DEF Ordered
<1>7. ASSUME NEW i \in Jobs, ~(i > k /\ i <= k + l)
      PROVE  SameFor(i)
  BY <1>1, <1>2, <1>3, <1>7 DEF SameFor, Jobs
<1>8. ASSUME NEW i \in Jobs, i > k, i <= k + l
      PROVE  Untouched(i)' /\ (i \notin collided' => Sole(i)')
  <2>1. job[i].status = "Absent"
    BY <1>1, <1>8 DEF Jobs
  <2>2. /\ rq[i] = "idle" /\ queue[i] = 0 /\ automatic[i] = 0
        /\ \A w \in Workers : worker[w].job # i
        /\ \A r \in Retryers : retryer[r].job # i
    BY <2>1 DEF JobInv, Untouched, OnIt, Retries
  <2>3. job'[i].status = "Pending" /\ job'[i].retries = 0 /\ job'[i].server \in Servers
    <3>1. servers[i - k] \in Servers
      BY <1>8, <1>1 DEF Jobs, l
    <3> QED BY <1>3, <1>8, <3>1, NewRowWaits
  <2>4. queue'[i] \in {0, 1} /\ (queue'[i] = 1 => rq'[i] = "queued")
    BY <1>3, <1>8, <2>2
  <2>5. Exclusive(i)' /\ Counted(i)' /\ Paid(i)'
    BY <1>2, <2>2, <2>3, <2>4, JobConstants, CronRetries DEF Exclusive, Counted, Paid, OnIt, Retries
  <2> QED BY <2>3, <2>5, JobConstants DEF Untouched, Sole
<1>9. ASSUME NEW i \in Jobs PROVE Untouched(i)' /\ (i \notin collided' => Sole(i)')
  BY <1>2, <1>7, <1>8, Frame DEF JobInv
<1> QED BY <1>4, <1>5, <1>6, <1>9 DEF JobInv

LEMMA DeleteServerKeeps ==
    ASSUME JobInv, NEW s \in Servers, DeleteServer(s)
    PROVE  JobInv'
<1>1. UNCHANGED <<job, rq, queue, worker, retryer, failures, automatic, collided, deaths>>
      /\ alive' \in SUBSET Servers
  BY DEF DeleteServer, JobInv, JobTypeOK
<1>2. JobTypeOK' /\ Holders' /\ Ordered'
  BY <1>1 DEF JobInv, JobTypeOK, Holders, Ordered
<1>3. \A i \in Jobs : SameFor(i)
  BY <1>1 DEF SameFor
<1> QED BY <1>1, <1>2, <1>3, Frame DEF JobInv

\* The same rows, whatever else a step does.
LEMMA StutterKeeps ==
    ASSUME JobInv, UNCHANGED jobVars
    PROVE  JobInv'
<1>1. JobTypeOK' /\ Holders' /\ Ordered' /\ collided' = collided
  BY DEF jobVars, JobInv, JobTypeOK, Holders, Ordered
<1>2. \A i \in Jobs : SameFor(i)
  BY DEF jobVars, SameFor
<1> QED BY <1>1, <1>2, Frame DEF JobInv

\* The steps of a worker between taking a job and leaving it.
LEMMA WorkerStepKeeps ==
    ASSUME JobInv, NEW w \in Workers, WorkerStep(w)
    PROVE  JobInv'
<1>1. CASE SkipRunning(w)
  BY <1>1, SkipRunningKeeps
<1>2. CASE MarkRunning(w)
  BY <1>2, MarkRunningKeeps
<1>3. CASE PlaybookPasses(w)
  BY <1>3, PlaybookPassesKeeps
<1>4. CASE PlaybookFails(w) \/ CallbackRaises(w)
  BY <1>4, MarkFailedKeeps DEF PlaybookFails, CallbackRaises
<1>5. CASE CallbackWithoutServer(w) \/ CallbackSucceeds(w) \/ FailedCallback(w)
  BY <1>5, CallbackEndsKeeps DEF CallbackWithoutServer, CallbackSucceeds, FailedCallback
<1> QED BY <1>1, <1>2, <1>3, <1>4, <1>5 DEF WorkerStep

LEMMA RetryerStepKeeps ==
    ASSUME JobInv, NEW r \in Retryers, RetryerStep(r)
    PROVE  JobInv'
BY DeduplicatesKeeps, CommitsKeeps, PushesKeeps DEF RetryerStep

LEMMA JobInitHolds == JobInit => JobInv
<1> SUFFICES ASSUME JobInit PROVE JobInv
  OBVIOUS
<1>1. NoJob \in Job /\ IdleWorker \in Worker /\ IdleRetryer \in Retryer
  BY DEF NoJob, Job, JobStatus, IdleWorker, Worker, IdleRetryer, Retryer
<1>2. JobTypeOK
  BY <1>1 DEF JobInit, JobTypeOK
<1>3. \A j \in Jobs : job[j].status = "Absent" /\ job[j].retries = 0
  BY DEF JobInit, NoJob
<1>4. /\ \A w \in Workers : worker[w].at = "idle" /\ worker[w].job = 0
      /\ \A r \in Retryers : retryer[r].at = "idle" /\ retryer[r].job = 0 /\ ~retryer[r].push
  BY DEF JobInit, IdleWorker, IdleRetryer
<1>5. Holders
  BY <1>4 DEF Holders
<1>6. Ordered
  <2>1. 0 \in 0 .. MaxJobs /\ \A j \in Jobs : ~(j <= 0)
    BY JobConstants DEF Jobs
  <2> QED BY <2>1, <1>3 DEF Ordered
<1>7. ASSUME NEW j \in Jobs PROVE Untouched(j) /\ Sole(j)
  <2>1. rq[j] = "idle" /\ queue[j] = 0 /\ automatic[j] = 0
    BY DEF JobInit
  <2>2. Untouched(j)
    BY <2>1, <1>3, <1>4, ZeroIsNoJob DEF Untouched, OnIt, Retries
  <2>3. Exclusive(j) /\ Counted(j) /\ Paid(j)
    BY <2>1, <1>3, <1>4, ZeroIsNoJob, CronRetries, JobConstants DEF Exclusive, Counted, Paid, OnIt, Retries
  <2> QED BY <2>2, <2>3 DEF Sole
<1> QED BY <1>2, <1>5, <1>6, <1>7 DEF JobInv

LEMMA JobNextKeeps == JobInv /\ [JobNext]_jobVars => JobInv'
<1> SUFFICES ASSUME JobInv, [JobNext]_jobVars PROVE JobInv'
  OBVIOUS
<1>1. ASSUME NEW s \in alive, NEW pushed \in {0, 1}, Insert(<<s>>, pushed) PROVE JobInv'
  <2>1. <<s>> \in Seq(Servers)
    BY DEF JobInv, JobTypeOK
  <2> QED BY <1>1, <2>1, InsertKeeps
<1>2. ASSUME NEW s \in Servers, DeleteServer(s) PROVE JobInv'
  BY <1>2, DeleteServerKeeps
<1>3. ASSUME NEW w \in Workers, NEW j \in Jobs, Take(w, j) PROVE JobInv'
  BY <1>3, TakeKeeps
<1>4. ASSUME NEW w \in Workers, WorkerStep(w) \/ WorkerDies(w) PROVE JobInv'
  BY <1>4, WorkerStepKeeps, WorkerDiesKeeps
<1>5. ASSUME NEW j \in Jobs, RqCleansUp(j) \/ CronReads(j) \/ CronReadsPending(j) PROVE JobInv'
  BY <1>5, RqCleansUpKeeps, CronReadsKeeps, CronReadsPendingKeeps
<1>6. ASSUME NEW r \in Operators, NEW j \in Jobs, OperatorReads(r, j) PROVE JobInv'
  BY <1>6, OperatorReadsKeeps
<1>7. ASSUME NEW r \in Retryers, RetryerStep(r) \/ RetryerDies(r) PROVE JobInv'
  BY <1>7, RetryerStepKeeps, RetryerDiesKeeps
<1>8. CASE UNCHANGED jobVars
  BY <1>8, StutterKeeps
<1> QED BY <1>1, <1>2, <1>3, <1>4, <1>5, <1>6, <1>7, <1>8 DEF JobNext

\* What the invariant says of runs and retries.
LEMMA JobInvAllows == JobInv => OneRunAtATime /\ AutomaticRetriesBounded
<1> SUFFICES ASSUME JobInv PROVE OneRunAtATime /\ AutomaticRetriesBounded
  OBVIOUS
<1>1. ASSUME NEW j \in Jobs \ collided PROVE Cardinality(Working(j)) <= 1
  <2>1. \A v, w \in Working(j) : v = w
    BY DEF JobInv, Sole, Exclusive, OnIt, Working
  <2>2. CASE Working(j) = {}
    BY <2>2, FS_EmptySet
  <2>3. CASE Working(j) # {}
    <3>1. PICK w : Working(j) = {w}
      BY <2>1, <2>3
    <3> QED BY <3>1, FS_Singleton
  <2> QED BY <2>2, <2>3
<1>2. ASSUME NEW j \in Jobs \ collided PROVE automatic[j] <= MaxRetries
  BY DEF JobInv, Sole, Paid
<1> QED BY <1>1, <1>2 DEF OneRunAtATime, AutomaticRetriesBounded

\* A playbook never runs twice at once, and the cron retries a job at most max_retries times: for
\* every number of rows, workers, operators and faults (execute, enqueue, retry, retry_failed_jobs).
THEOREM JobsRunAsAllowed == JobSpec => [](JobTypeOK /\ OneRunAtATime /\ AutomaticRetriesBounded)
<1>1. JobInv => JobTypeOK
  BY DEF JobInv
<1> QED BY JobInitHolds, JobNextKeeps, JobInvAllows, <1>1, PTL DEF JobSpec
=============================================================================
