--------------------------- MODULE SignupRequests ---------------------------
(***************************************************************************)
(* A Suite Tenant Request from the visitor's form to the site claimed for  *)
(* it: suite_tenant_request.py, api/signup and the labels of labels.py.    *)
(*                                                                         *)
(* Processes, and what separates their steps:                              *)
(*   - the request that inserts the row, which checks a given label with   *)
(*     the snapshot of its transaction and commits later;                  *)
(*   - the visitor's code, checked against a row read without a lock;      *)
(*   - the processing job (RQ id signup:<name>), which owns the row from   *)
(*     its FOR UPDATE read to the commit inside reserve_label, and reads   *)
(*     every other row as it was when its transaction began (MariaDB's     *)
(*     REPEATABLE READ): waiting for the label lock does not refresh it;   *)
(*   - the daily expiry, the five-minute resume, and an operator's Retry.  *)
(* All requests here are of one organization, so a generated label is the  *)
(* lowest free number (acme, acme-2, ...).  The tenant is made and linked  *)
(* in the transaction that claims the site, so it has no column here.      *)
(***************************************************************************)
EXTENDS Naturals, FiniteSets

CONSTANTS
    Requests,       \* names a Suite Tenant Request may get
    MaxLabel,       \* labels are 1 .. MaxLabel; the code tries 99
    Calls,          \* verify_otp calls being served at once
    Operators,      \* operator requests being served at once
    OtpAttempts,    \* OTP_ATTEMPTS
    MaxDeaths,      \* bound: workers that die and pushes to RQ that are lost
    None            \* a NULL column

Labels == 1 .. MaxLabel

VARIABLES
    req,        \* the committed rows
    code,       \* Redis: the wrong attempts at the request's code, None once it is gone
    overdue,    \* requests past expires_at
    visitor,    \* what each verify_otp call has read: its request and the wrong attempts
    lock,       \* requests whose row a processing job holds
    job,        \* the processing job: its RQ state, next step and snapshot
    expiring,   \* what expire_requests has read
    op,         \* the failed request each operator is retrying
    deaths      \* bounded by MaxDeaths

vars == <<req, code, overdue, visitor, lock, job, expiring, op, deaths>>

----------------------------------------------------------------------------
(* Types *)

\* "Draft" is a row being inserted, invisible to every other transaction.
Status == {"Absent", "Draft", "Pending", "Verified", "Processing", "Completed", "Failed", "Expired"}

Row == [status: Status, label: Labels \cup {None}, site: BOOLEAN]

NoRow == [status |-> "Absent", label |-> None, site |-> FALSE]

\* The labels a job's snapshot shows as taken, by site or by request of the given statuses.
Snapshot == [open: SUBSET Labels, processing: SUBSET Labels]

Job == [at: {"none", "queued", "begin", "reserve", "claim", "exit"}, seen: Snapshot]

NoJob == [at |-> "none", seen |-> [open |-> {}, processing |-> {}]]

VisitorState == [request: Requests \cup {None}, attempts: 0 .. OtpAttempts - 1]

NoVisitor == [request |-> None, attempts |-> 0]

TypeOK ==
    /\ req \in [Requests -> Row]
    /\ code \in [Requests -> (0 .. OtpAttempts) \cup {None}]
    /\ overdue \subseteq Requests
    /\ visitor \in [Calls -> VisitorState]
    /\ lock \subseteq Requests
    /\ job \in [Requests -> Job]
    /\ expiring \subseteq Requests
    /\ op \in [Operators -> Requests \cup {None}]
    /\ deaths \in 0 .. MaxDeaths

Init ==
    /\ req = [r \in Requests |-> NoRow]
    /\ code = [r \in Requests |-> None]
    /\ overdue = {}
    /\ visitor = [c \in Calls |-> NoVisitor]
    /\ lock = {}
    /\ job = [r \in Requests |-> NoJob]
    /\ expiring = {}
    /\ op = [o \in Operators |-> None]
    /\ deaths = 0

----------------------------------------------------------------------------
(* Labels *)

OpenStatuses == {"Pending", "Verified", "Processing"}

\* Suite Site's label, a unique column.
SiteLabels == {req[r].label : r \in {q \in Requests : req[q].site}}

\* is_taken(label, request, holders): a site's, or another request's in one of the statuses.
Taken(r, holders) ==
    (SiteLabels \cup {req[q].label : q \in {q \in Requests \ {r} : req[q].status \in holders}}) \ {None}

\* The first free one of acme, acme-2 and so on, with the labels in taken.
GenerateLabel(taken) == CHOOSE l \in Labels \ taken : \A m \in Labels \ taken : l <= m

----------------------------------------------------------------------------
(* The row is inserted *)

\* validate_request: a given label must be free in the snapshot of the insert.
Validate(r, given) ==
    /\ req[r].status = "Absent"
    /\ given \notin Taken(r, OpenStatuses)
    /\ req' = [req EXCEPT ![r].status = "Draft", ![r].label = given]
    /\ UNCHANGED <<code, overdue, visitor, lock, job, expiring, op, deaths>>

\* run_in_background: skipped while the job is queued or running; pushed after the commit,
\* which a process that dies in between never does.
Enqueue(r, lost) ==
    /\ lost => deaths < MaxDeaths
    /\ deaths' = IF lost THEN deaths + 1 ELSE deaths
    /\ job' = IF job[r].at = "none" /\ ~lost THEN [job EXCEPT ![r] = [NoJob EXCEPT !.at = "queued"]]
              ELSE job

\* create_request: the code is mailed, and then the row committed.
InsertSignup(r) ==
    /\ req[r].status = "Draft"
    /\ req' = [req EXCEPT ![r].status = "Pending"]
    /\ code' = [code EXCEPT ![r] = 0]
    /\ UNCHANGED <<overdue, visitor, lock, job, expiring, op, deaths>>

\* An operator's request in the desk is taken on their word.
InsertByOperator(r, lost) ==
    /\ req[r].status = "Draft"
    /\ req' = [req EXCEPT ![r].status = "Verified"]
    /\ Enqueue(r, lost)
    /\ UNCHANGED <<code, overdue, visitor, lock, expiring, op>>

\* The mail could not be sent: the insert is rolled back.
InsertFails(r) ==
    /\ req[r].status = "Draft"
    /\ req' = [req EXCEPT ![r] = NoRow]
    /\ UNCHANGED <<code, overdue, visitor, lock, job, expiring, op, deaths>>

----------------------------------------------------------------------------
(* The one-time code *)

\* verify_otp up to the comparison, on a row read without a lock.
VerifyReads(c, r) ==
    /\ visitor[c] = NoVisitor
    /\ req[r].status = "Pending" /\ r \notin overdue
    /\ code[r] # None /\ code[r] < OtpAttempts
    /\ visitor' = [visitor EXCEPT ![c] = [request |-> r, attempts |-> code[r]]]
    /\ UNCHANGED <<req, code, overdue, lock, job, expiring, op, deaths>>

\* The value read is written back with one more attempt, whatever became of it meanwhile.
VerifyWrong(c) ==
    /\ visitor[c] # NoVisitor
    /\ code' = [code EXCEPT ![visitor[c].request] = visitor[c].attempts + 1]
    /\ visitor' = [visitor EXCEPT ![c] = NoVisitor]
    /\ UNCHANGED <<req, overdue, lock, job, expiring, op, deaths>>

VerifyRight(c, lost) ==
    LET r == visitor[c].request IN
    /\ visitor[c] # NoVisitor
    /\ r \notin lock
    /\ code' = [code EXCEPT ![r] = None]
    /\ req' = [req EXCEPT ![r].status = "Verified"]
    /\ visitor' = [visitor EXCEPT ![c] = NoVisitor]
    /\ Enqueue(r, lost)
    /\ UNCHANGED <<overdue, lock, expiring, op>>

\* OTP_TTL seconds passed.
CodeExpires(r) ==
    /\ code[r] # None
    /\ code' = [code EXCEPT ![r] = None]
    /\ UNCHANGED <<req, overdue, visitor, lock, job, expiring, op, deaths>>

\* REQUEST_TTL_HOURS passed.
Overdue(r) ==
    /\ req[r].status = "Pending" /\ r \notin overdue
    /\ overdue' = overdue \cup {r}
    /\ UNCHANGED <<req, code, visitor, lock, job, expiring, op, deaths>>

----------------------------------------------------------------------------
(* process_request *)

JobReturns(r) ==
    /\ job' = [job EXCEPT ![r] = [NoJob EXCEPT !.at = "exit"]]
    /\ lock' = lock \ {r}

JobStart(r) ==
    /\ job[r].at = "queued"
    /\ job' = [job EXCEPT ![r].at = "begin"]
    /\ UNCHANGED <<req, code, overdue, visitor, lock, expiring, op, deaths>>

\* Mutant of HasWork: a request that has its site is processed again.
HasWorkAnyway(r) == req[r].status \in {"Verified", "Processing"}

HasWork(r) == req[r].status \in {"Verified", "Processing"} /\ ~req[r].site

\* The row FOR UPDATE, and the first plain read, which fixes what the job sees of the others.
JobBegin(r) ==
    /\ job[r].at = "begin"
    /\ HasWork(r)
    /\ lock' = lock \cup {r}
    /\ job' = [job EXCEPT ![r] = [at |-> "reserve",
                                  seen |-> [open |-> Taken(r, OpenStatuses),
                                            processing |-> Taken(r, {"Processing"})]]]
    /\ UNCHANGED <<req, code, overdue, visitor, expiring, op, deaths>>

JobNothingToDo(r) ==
    /\ job[r].at = "begin"
    /\ ~HasWork(r)
    /\ JobReturns(r)
    /\ UNCHANGED <<req, code, overdue, visitor, expiring, op, deaths>>

\* reserve_label inside the label lock, up to its commit, which releases the row.
Reserve(r, label) ==
    /\ job[r].at = "reserve"
    /\ req' = [req EXCEPT ![r].label = label, ![r].status = "Processing"]
    /\ lock' = lock \ {r}
    /\ job' = [job EXCEPT ![r].at = "claim"]
    /\ UNCHANGED <<code, overdue, visitor, expiring, op, deaths>>

\* Its own label, given or of an earlier attempt.
ReserveOwn(r) ==
    /\ req[r].label # None
    /\ req[r].label \notin job[r].seen.processing
    /\ Reserve(r, req[r].label)

ReserveGenerated(r) ==
    /\ req[r].label = None
    /\ Labels \ job[r].seen.open # {}
    /\ Reserve(r, GenerateLabel(job[r].seen.open))

\* User, tenant and claim_site in one transaction; the site's label is a unique column.
JobClaim(r) ==
    /\ job[r].at = "claim"
    /\ req[r].label \notin SiteLabels
    /\ req' = [req EXCEPT ![r].status = "Processing", ![r].site = TRUE]
    /\ JobReturns(r)
    /\ UNCHANGED <<code, overdue, visitor, expiring, op, deaths>>

\* Region disabled, no free label, label taken, or the claim failed: the step is undone, and a
\* label reserved before it is kept.
JobFails(r) ==
    /\ job[r].at \in {"reserve", "claim"}
    /\ req' = [req EXCEPT ![r].status = "Failed"]
    /\ JobReturns(r)
    /\ UNCHANGED <<code, overdue, visitor, expiring, op, deaths>>

\* The worker is killed: its transaction is rolled back, and RQ lists it until it cleans up.
JobDies(r) ==
    /\ job[r].at \in {"begin", "reserve", "claim"}
    /\ deaths < MaxDeaths
    /\ deaths' = deaths + 1
    /\ JobReturns(r)
    /\ UNCHANGED <<req, code, overdue, visitor, expiring, op>>

\* The job leaves RQ.
JobExit(r) ==
    /\ job[r].at = "exit"
    /\ job' = [job EXCEPT ![r] = NoJob]
    /\ UNCHANGED <<req, code, overdue, visitor, lock, expiring, op, deaths>>

JobStep(r) ==
    \/ JobBegin(r) \/ JobNothingToDo(r)
    \/ ReserveOwn(r) \/ ReserveGenerated(r) \/ JobClaim(r) \/ JobFails(r)

----------------------------------------------------------------------------
(* Cron, operators and the site *)

\* Mutant of ResumeRequests: only requests that reserved no label yet.
ResumeVerified(r) ==
    /\ req[r].status = "Verified" /\ ~req[r].site
    /\ Enqueue(r, FALSE)
    /\ UNCHANGED <<req, code, overdue, visitor, lock, expiring, op>>

\* resume_requests, for one row: RESUME_AFTER_MINUTES without a change.
ResumeRequests(r) ==
    /\ req[r].status \in {"Verified", "Processing"} /\ ~req[r].site
    /\ Enqueue(r, FALSE)
    /\ UNCHANGED <<req, code, overdue, visitor, lock, expiring, op>>

\* expire_requests: the rows are read at once and written one by one.
ExpireReads ==
    /\ expiring = {}
    /\ expiring' = {r \in overdue : req[r].status = "Pending"}
    /\ UNCHANGED <<req, code, overdue, visitor, lock, job, op, deaths>>

ExpireWrites(r) ==
    /\ r \in expiring /\ r \notin lock
    /\ req' = [req EXCEPT ![r].status = "Expired"]
    /\ expiring' = expiring \ {r}
    /\ UNCHANGED <<code, overdue, visitor, lock, job, op, deaths>>

\* Retry of a request without a site; one with a site retries that (SiteLifecycle).
RetryReads(o, r) ==
    /\ op[o] = None
    /\ req[r].status = "Failed" /\ ~req[r].site
    /\ op' = [op EXCEPT ![o] = r]
    /\ UNCHANGED <<req, code, overdue, visitor, lock, job, expiring, deaths>>

RetryWrites(o, lost) ==
    /\ op[o] # None /\ op[o] \notin lock
    /\ req' = [req EXCEPT ![op[o]].status = "Verified"]
    /\ op' = [op EXCEPT ![o] = None]
    /\ Enqueue(op[o], lost)
    /\ UNCHANGED <<code, overdue, visitor, lock, expiring>>

\* invite_owner: the site's own job completes the request.
Complete(r) ==
    /\ req[r].site /\ r \notin lock
    /\ req[r].status = "Processing"
    /\ req' = [req EXCEPT ![r].status = "Completed"]
    /\ UNCHANGED <<code, overdue, visitor, lock, job, expiring, op, deaths>>

----------------------------------------------------------------------------
(* Specification *)

Next ==
    \/ \E r \in Requests, given \in Labels \cup {None} : Validate(r, given)
    \/ \E r \in Requests : InsertSignup(r)
    \/ \E r \in Requests, lost \in BOOLEAN : InsertByOperator(r, lost)
    \/ \E r \in Requests : InsertFails(r)
    \/ \E c \in Calls, r \in Requests : VerifyReads(c, r)
    \/ \E c \in Calls : VerifyWrong(c)
    \/ \E c \in Calls, lost \in BOOLEAN : VerifyRight(c, lost)
    \/ \E r \in Requests : CodeExpires(r)
    \/ \E r \in Requests : Overdue(r)
    \/ \E r \in Requests : JobStart(r)
    \/ \E r \in Requests : JobStep(r)
    \/ \E r \in Requests : JobDies(r)
    \/ \E r \in Requests : JobExit(r)
    \/ \E r \in Requests : ResumeRequests(r)
    \/ ExpireReads
    \/ \E r \in Requests : ExpireWrites(r)
    \/ \E o \in Operators, r \in Requests : RetryReads(o, r)
    \/ \E o \in Operators, lost \in BOOLEAN : RetryWrites(o, lost)
    \/ \E r \in Requests : Complete(r)

Spec == Init /\ [][Next]_vars

\* RQ's workers take what is queued, a job's step ends (RQ enforces the timeout), RQ cleans up,
\* and the cron resumes every five minutes.
Fairness ==
    \A r \in Requests :
        /\ WF_vars(JobStart(r)) /\ WF_vars(JobStep(r)) /\ WF_vars(JobExit(r))
        /\ WF_vars(ResumeRequests(r))

FairSpec == Spec /\ Fairness

----------------------------------------------------------------------------
(* Properties *)

\* A step leaves a signup that has its site to that site: it neither fails nor moves to another label.
LeavesItToItsSite ==
    \A r \in Requests : req[r].site => req'[r].status # "Failed" /\ req'[r].label = req[r].label

\* A signup that has its site is not processed again: no second confirmation, resume, retry or
\* restarted job takes it to Failed, or to another label, while its site is being set up
\* (process_request, "or doc.suite_site"). That the site itself fails is SiteLifecycle's.
SiteEndsProcessing == [][LeavesItToItsSite]_vars

\* A signup whose email was confirmed, or an operator's, gets a site or shows an error, though
\* pushes are lost and workers die (resume_requests, "start again").
SignupSettles ==
    \A r \in Requests :
        (req[r].status \in {"Verified", "Processing"} /\ ~req[r].site) ~>
            (req[r].site \/ req[r].status \in {"Failed", "Expired"})

(* What the code's own words promise, and the code does not keep *)

\* reserve_label: "One request at a time, committed before the next, so no two pick one label."
NoTwoHoldOneLabel ==
    \A r, q \in Requests :
        r # q /\ req[r].status = "Processing" /\ req[q].status = "Processing" =>
            req[r].label = None \/ req[r].label # req[q].label
=============================================================================
