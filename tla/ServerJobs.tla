----------------------------- MODULE ServerJobs -----------------------------
(***************************************************************************)
(* Server Job: one playbook run on a Stalwart Node or an Egress Gateway,   *)
(* from the row's insertion to the callback on its server, with the        *)
(* five-minute retry (suite_cloud/doctype/server_job/server_job.py).       *)
(*                                                                         *)
(* A run is an RQ job whose id is the row's name.  RQ keeps one status per *)
(* id and a queue in which the id may stand more than once: the enqueue    *)
(* looks the status up before the commit and pushes the id after it.       *)
(* Nothing locks the row, so a worker and whoever retries the job work on  *)
(* the copy they read.  The worker timeout is the time after which a       *)
(* Running row is stale, so a stale row has lost its worker.               *)
(***************************************************************************)
EXTENDS Naturals, FiniteSets, Sequences

CONSTANTS
    Servers,      \* Stalwart Nodes and Egress Gateways
    Workers,      \* processes that serve the long queue
    Operators,    \* System Managers who press Retry
    Cron,         \* the scheduler's retry_failed_jobs
    None,         \* no server
    MaxJobs,      \* bound: Server Job rows; a row's number is its creation order
    MaxRetries,   \* max_retries of every row
    MaxFailures,  \* bound: an operator retries a job that failed less often than this
    MaxDeaths     \* bound: processes that die half-way

ASSUME JobConstants ==
    /\ None \notin Servers /\ Cron \notin Operators
    /\ MaxJobs \in Nat /\ MaxRetries \in Nat /\ MaxFailures \in Nat /\ MaxDeaths \in Nat

Jobs == 1 .. MaxJobs

Retryers == Operators \cup {Cron}

VARIABLES
    job,       \* the Server Job rows
    rq,        \* RQ's status of each job id, "idle" for none and for one that ended
    queue,     \* how often the id stands in the queue
    worker,    \* what each worker is doing, with its copy of the row
    retryer,   \* what each caller of retry() or enqueue() is doing
    alive,     \* servers whose row exists
    failures,  \* history: how often the job's playbook or its callback failed
    automatic, \* history: how often the cron retried the job after a failure
    collided,  \* history: jobs that two callers of retry() worked on at once
    deaths     \* processes that died so far

jobVars == <<job, rq, queue, worker, retryer, alive, failures, automatic, collided, deaths>>

----------------------------------------------------------------------------
(* Types *)

JobStatus == {"Absent", "Pending", "Running", "Success", "Failed"}

Job == [status: JobStatus, server: Servers \cup {None}, retries: Nat]

NoJob == [status |-> "Absent", server |-> None, retries |-> 0]

Worker == [at: {"idle", "loaded", "playbook", "succeeded", "failed"},
           job: Jobs \cup {0}, status: JobStatus, retries: Nat]

IdleWorker == [at |-> "idle", job |-> 0, status |-> "Absent", retries |-> 0]

Retryer == [at: {"idle", "read", "checked", "committed"}, job: Jobs \cup {0},
            status: JobStatus, push: BOOLEAN]

IdleRetryer == [at |-> "idle", job |-> 0, status |-> "Absent", push |-> FALSE]

JobTypeOK ==
    /\ job \in [Jobs -> Job]
    /\ rq \in [Jobs -> {"idle", "queued", "started"}]
    /\ queue \in [Jobs -> Nat]
    /\ worker \in [Workers -> Worker]
    /\ retryer \in [Retryers -> Retryer]
    /\ alive \in SUBSET Servers
    /\ failures \in [Jobs -> Nat]
    /\ automatic \in [Jobs -> Nat]
    /\ collided \in SUBSET Jobs
    /\ deaths \in Nat

JobInit ==
    /\ job = [j \in Jobs |-> NoJob]
    /\ rq = [j \in Jobs |-> "idle"]
    /\ queue = [j \in Jobs |-> 0]
    /\ worker = [w \in Workers |-> IdleWorker]
    /\ retryer = [r \in Retryers |-> IdleRetryer]
    /\ alive \in (SUBSET Servers) \ {{}}
    /\ failures = [j \in Jobs |-> 0]
    /\ automatic = [j \in Jobs |-> 0]
    /\ collided = {}
    /\ deaths = 0

----------------------------------------------------------------------------
(* Helpers *)

\* is_job_enqueued, which deduplicate=True asks too.
IsEnqueued(j) == rq[j] # "idle"

\* The playbook of the job runs.
Working(j) == {w \in Workers : worker[w].job = j /\ worker[w].at = "playbook"}

\* is_stale, once the timeout has passed: RQ has ended every run by then.
IsStale(j) == job[j].status = "Running" /\ Working(j) = {}

\* is_superseded: the row's number is its creation time.
IsSuperseded(j) ==
    \/ job[j].server \notin alive
    \/ \E k \in Jobs : k > j /\ job[k].status # "Absent" /\ job[k].server = job[j].server

\* What retry_failed_jobs retries.
DueForRetry(j) ==
    /\ ~IsSuperseded(j)
    /\ \/ job[j].status = "Failed" /\ job[j].retries <= MaxRetries
       \/ IsStale(j)

\* The worker is done with the RQ job.
Returns(w) ==
    /\ worker' = [worker EXCEPT ![w] = IdleWorker]
    /\ rq' = [rq EXCEPT ![worker[w].job] = "idle"]

----------------------------------------------------------------------------
(* Insertion: create_server_job, and the enqueue of after_insert *)

Used == {j \in Jobs : job[j].status # "Absent"}

\* One row for each server of the sequence, in one transaction.  The ids are
\* pushed after the commit; a process that dies before the last push leaves
\* Pending rows that no worker knows of.
Insert(servers, pushed) ==
    /\ Cardinality(Used) + Len(servers) <= MaxJobs /\ pushed <= Len(servers)
    /\ LET new == [j \in Jobs |-> IF j <= Cardinality(Used) THEN 0 ELSE j - Cardinality(Used)]
       IN /\ job' = [j \in Jobs |-> IF new[j] \in DOMAIN servers
                                     THEN [NoJob EXCEPT !.status = "Pending", !.server = servers[new[j]]]
                                     ELSE job[j]]
          /\ rq' = [j \in Jobs |-> IF new[j] \in 1 .. pushed THEN "queued" ELSE rq[j]]
          /\ queue' = [j \in Jobs |-> IF new[j] \in 1 .. pushed THEN 1 ELSE queue[j]]
    /\ deaths' = IF pushed = Len(servers) THEN deaths ELSE deaths + 1
    /\ deaths' <= MaxDeaths
    /\ UNCHANGED <<worker, retryer, alive, failures, automatic, collided>>

DeleteServer(s) ==
    /\ s \in alive
    /\ alive' = alive \ {s}
    /\ UNCHANGED <<job, rq, queue, worker, retryer, failures, automatic, collided, deaths>>

----------------------------------------------------------------------------
(* A worker: execute *)

\* RQ starts the job and the worker loads the row.
Take(w, j) ==
    /\ worker[w].at = "idle"
    /\ queue[j] > 0
    /\ queue' = [queue EXCEPT ![j] = @ - 1]
    /\ rq' = [rq EXCEPT ![j] = "started"]
    /\ worker' = [worker EXCEPT ![w] = [at |-> "loaded", job |-> j,
                                        status |-> job[j].status, retries |-> 0]]
    /\ UNCHANGED <<job, retryer, alive, failures, automatic, collided, deaths>>

\* Running, as far as this copy of the row tells, and not stale yet.
SkipRunning(w) ==
    /\ worker[w].at = "loaded"
    /\ worker[w].status = "Running"
    /\ Returns(w)
    /\ UNCHANGED <<job, queue, retryer, alive, failures, automatic, collided, deaths>>

\* mark_running, which reloads the row.
MarkRunning(w) ==
    /\ worker[w].at = "loaded"
    /\ LET j == worker[w].job IN
         /\ worker[w].status = "Running" => Working(j) = {}
         /\ job' = [job EXCEPT ![j].status = "Running"]
         /\ worker' = [worker EXCEPT ![w] = [at |-> "playbook", job |-> j, status |-> "Running",
                                             retries |-> job[j].retries]]
    /\ UNCHANGED <<rq, queue, retryer, alive, failures, automatic, collided, deaths>>

\* mark_finished("Failed"), committed before the callback runs.
MarkFailed(w) ==
    LET j == worker[w].job IN
      /\ job' = [job EXCEPT ![j].status = "Failed", ![j].retries = worker[w].retries + 1]
      /\ failures' = [failures EXCEPT ![j] = @ + 1]
      /\ worker' = [worker EXCEPT ![w].at = "failed", ![w].retries = @ + 1]

\* The playbook passed: mark_finished("Success"), committed too.
PlaybookPasses(w) ==
    /\ worker[w].at = "playbook"
    /\ job' = [job EXCEPT ![worker[w].job].status = "Success"]
    /\ worker' = [worker EXCEPT ![w].at = "succeeded"]
    /\ UNCHANGED <<rq, queue, retryer, alive, failures, automatic, collided, deaths>>

\* A task failed, the variables could not be built or the timeout came.
PlaybookFails(w) ==
    /\ worker[w].at = "playbook"
    /\ MarkFailed(w)
    /\ UNCHANGED <<rq, queue, retryer, alive, automatic, collided, deaths>>

\* fire_callback when the server is gone: nothing left to update.
CallbackWithoutServer(w) ==
    /\ worker[w].at \in {"succeeded", "failed"}
    /\ job[worker[w].job].server \notin alive
    /\ Returns(w)
    /\ UNCHANGED <<job, queue, retryer, alive, failures, automatic, collided, deaths>>

\* fire_callback(success=True): the server's method returned.
CallbackSucceeds(w) ==
    /\ worker[w].at = "succeeded"
    /\ job[worker[w].job].server \in alive
    /\ Returns(w)
    /\ UNCHANGED <<job, queue, retryer, alive, failures, automatic, collided, deaths>>

\* It raised: its work is rolled back and the job is marked Failed after all.
CallbackRaises(w) ==
    /\ worker[w].at = "succeeded"
    /\ job[worker[w].job].server \in alive
    /\ MarkFailed(w)
    /\ UNCHANGED <<rq, queue, retryer, alive, automatic, collided, deaths>>

\* fire_callback(success=False).
FailedCallback(w) ==
    /\ worker[w].at = "failed"
    /\ job[worker[w].job].server \in alive
    /\ Returns(w)
    /\ UNCHANGED <<job, queue, retryer, alive, failures, automatic, collided, deaths>>

\* Kill, deploy, out of memory.  RQ calls the job started until it cleans up.
WorkerDies(w) ==
    /\ worker[w].at # "idle"
    /\ deaths < MaxDeaths
    /\ deaths' = deaths + 1
    /\ worker' = [worker EXCEPT ![w] = IdleWorker]
    /\ UNCHANGED <<job, rq, queue, retryer, alive, failures, automatic, collided>>

\* RQ gives up a started job that no worker reports on.
RqCleansUp(j) ==
    /\ rq[j] = "started"
    /\ \A w \in Workers : worker[w].job # j
    /\ rq' = [rq EXCEPT ![j] = "idle"]
    /\ UNCHANGED <<job, queue, worker, retryer, alive, failures, automatic, collided, deaths>>

----------------------------------------------------------------------------
(* retry, by an operator or by retry_failed_jobs *)

Reads(r, j) ==
    /\ retryer[r].at = "idle"
    /\ retryer' = [retryer EXCEPT ![r] = [at |-> "read", job |-> j,
                                          status |-> job[j].status, push |-> FALSE]]
    /\ collided' = collided \cup {retryer[q].job : q \in {q \in Retryers : retryer[q].job = j}}
    /\ UNCHANGED <<job, rq, queue, worker, alive, failures, automatic, deaths>>

OperatorReads(r, j) ==
    /\ r \in Operators
    /\ failures[j] < MaxFailures
    /\ job[j].status = "Failed" \/ IsStale(j)
    /\ Reads(r, j)

CronReads(j) ==
    /\ DueForRetry(j)
    /\ Reads(Cron, j)

\* Mutant of CronReadsPending: only rows RQ still lists are looked at.
CronSkipsPending(j) ==
    /\ job[j].status = "Pending"
    /\ ~IsSuperseded(j)
    /\ IsEnqueued(j)
    /\ Reads(Cron, j)

\* A Pending row that is old and not enqueued; a row just inserted is neither.
CronReadsPending(j) ==
    /\ job[j].status = "Pending"
    /\ ~IsSuperseded(j)
    /\ ~IsEnqueued(j)
    /\ Reads(Cron, j)

\* Mutant of Deduplicates: deduplicate=False.
NeverDeduplicates(r) ==
    /\ retryer[r].at = "read"
    /\ retryer' = [retryer EXCEPT ![r].at = "checked", ![r].push = TRUE]
    /\ UNCHANGED <<job, rq, queue, worker, alive, failures, automatic, collided, deaths>>

\* frappe.enqueue(deduplicate=True) asks RQ while the transaction is open.
Deduplicates(r) ==
    /\ retryer[r].at = "read"
    /\ retryer' = [retryer EXCEPT ![r].at = "checked", ![r].push = ~IsEnqueued(retryer[r].job)]
    /\ UNCHANGED <<job, rq, queue, worker, alive, failures, automatic, collided, deaths>>

\* A retry writes Pending over whatever the row holds by now.
Commits(r) ==
    /\ retryer[r].at = "checked"
    /\ LET j == retryer[r].job IN
         /\ job' = IF retryer[r].status = "Pending" THEN job
                   ELSE [job EXCEPT ![j].status = "Pending"]
         /\ automatic' = IF r = Cron /\ retryer[r].status = "Failed"
                         THEN [automatic EXCEPT ![j] = @ + 1] ELSE automatic
    /\ retryer' = [retryer EXCEPT ![r] = IF retryer[r].push THEN [@ EXCEPT !.at = "committed"]
                                         ELSE IdleRetryer]
    /\ UNCHANGED <<rq, queue, worker, alive, failures, collided, deaths>>

\* enqueue_after_commit.
Pushes(r) ==
    /\ retryer[r].at = "committed"
    /\ queue' = [queue EXCEPT ![retryer[r].job] = @ + 1]
    /\ rq' = [rq EXCEPT ![retryer[r].job] = "queued"]
    /\ retryer' = [retryer EXCEPT ![r] = IdleRetryer]
    /\ UNCHANGED <<job, worker, alive, failures, automatic, collided, deaths>>

\* The request or the scheduler job dies: an open transaction is rolled back,
\* and after the commit the push is lost.
RetryerDies(r) ==
    /\ retryer[r].at # "idle"
    /\ deaths < MaxDeaths
    /\ deaths' = deaths + 1
    /\ retryer' = [retryer EXCEPT ![r] = IdleRetryer]
    /\ UNCHANGED <<job, rq, queue, worker, alive, failures, automatic, collided>>

----------------------------------------------------------------------------
(* Specification *)

WorkerStep(w) ==
    \/ SkipRunning(w)
    \/ MarkRunning(w)
    \/ PlaybookPasses(w)
    \/ PlaybookFails(w)
    \/ CallbackWithoutServer(w)
    \/ CallbackSucceeds(w)
    \/ CallbackRaises(w)
    \/ FailedCallback(w)

RetryerStep(r) ==
    \/ Deduplicates(r)
    \/ Commits(r)
    \/ Pushes(r)

JobNext ==
    \/ \E s \in alive, pushed \in {0, 1} : Insert(<<s>>, pushed)
    \/ \E s \in Servers : DeleteServer(s)
    \/ \E w \in Workers, j \in Jobs : Take(w, j)
    \/ \E w \in Workers : WorkerStep(w)
    \/ \E w \in Workers : WorkerDies(w)
    \/ \E j \in Jobs : RqCleansUp(j)
    \/ \E r \in Operators, j \in Jobs : OperatorReads(r, j)
    \/ \E j \in Jobs : CronReads(j)
    \/ \E j \in Jobs : CronReadsPending(j)
    \/ \E r \in Retryers : RetryerStep(r)
    \/ \E r \in Retryers : RetryerDies(r)

JobSpec == JobInit /\ [][JobNext]_jobVars

\* Workers serve the queue in order, a run ends (RQ enforces the timeout), RQ
\* cleans up, and every five minutes the cron looks at every row.
JobFairness ==
    /\ \A w \in Workers : WF_jobVars(WorkerStep(w))
    /\ \A j \in Jobs : SF_jobVars(\E w \in Workers : Take(w, j))
    /\ \A j \in Jobs : WF_jobVars(RqCleansUp(j))
    /\ \A j \in Jobs : SF_jobVars(CronReads(j) \/ CronReadsPending(j))
    /\ \A r \in Retryers : WF_jobVars(RetryerStep(r))

FairJobSpec == JobSpec /\ JobFairness

----------------------------------------------------------------------------
(* Properties *)

\* The playbook of a Server Job never runs twice at once: neither the retry of
\* a job whose worker died, nor the pick-up of a Pending row, nor a retry while
\* the callback of the failed run is still going starts a second run
\* (execute, enqueue, retry_failed_jobs).  Only an operator and the cron that
\* retry the job in the same moment can bring it about.
OneRunAtATime == \A j \in Jobs \ collided : Cardinality(Working(j)) <= 1

\* The cron retries a job after at most MaxRetries of its failures, whatever
\* becomes of the runs in between (retry_failed_jobs).
AutomaticRetriesBounded == \A j \in Jobs \ collided : automatic[j] <= MaxRetries

\* A job that waits for a worker, or whose worker vanished, comes to an end
\* unless a newer job supersedes it or its server is deleted, although a retry
\* may find the old run still listed by RQ and not enqueue anything
\* (retry_failed_jobs, enqueue).
JobsSettle ==
    \A j \in Jobs :
        job[j].status \in {"Pending", "Running"} ~>
            (job[j].status \in {"Success", "Failed"} \/ IsSuperseded(j))
=============================================================================
