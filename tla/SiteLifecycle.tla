--------------------------- MODULE SiteLifecycle ---------------------------
(***************************************************************************)
(* A Suite Site from its row's insertion to the site a tenant works on,    *)
(* and back: hosting/sites.py with the callers that write a site row       *)
(* (capacity.claim_site, Suite Site, Suite Tenant.rotate_secret, the       *)
(* operator's Retry and Drop Site, the five-minute poller).                *)
(*                                                                         *)
(* Processes, and what separates their steps:                              *)
(*   - the setup job of a site (RQ id suite-site:<name>, at most one): it  *)
(*     reads the row FOR UPDATE, so it owns the row until its next         *)
(*     checkpoint; after a checkpoint it works on the copy it read;        *)
(*   - the drop job of a site (RQ id suite-site-drop:<name>);              *)
(*   - an operator's request (Retry, Rotate Secret), which reads the row   *)
(*     without a lock and writes it later in the same transaction;         *)
(*   - Pilot, the agent on the server, which runs a create task on its own *)
(*     time (external: modelled from how sites.py uses its answers).       *)
(* An UPDATE waits for the row lock of another transaction, so every write *)
(* of a row is guarded by Free(s).  A worker may die between any two of    *)
(* its steps; what it had not committed is lost.                           *)
(***************************************************************************)
EXTENDS Naturals, FiniteSets

CONSTANTS
    Sites,          \* names a Suite Site row may get
    Tenants,        \* Suite Tenants; each signed up with one request
    Operators,      \* operator requests being served at once
    None,           \* a NULL column
    MaxAttempts,    \* MAX_HOSTNAME_ATTEMPTS
    MaxSecret       \* bound: how often the secrets are rotated

ASSUME ConstantsAssumption ==
    /\ None \notin Tenants /\ None \notin Sites /\ None # "setup"
    /\ MaxAttempts \in Nat \ {0}
    /\ MaxSecret \in Nat \ {0}

VARIABLES
    site,       \* the committed Suite Site rows
    request,    \* status of the tenant's Suite Tenant Request
    lock,       \* the row lock of a site across steps: None, or "setup" for its setup job
    setup,      \* the setup job of each site: RQ state, next step, its copy of the row
    dropjob,    \* the drop job of each site: next step
    op,         \* what each operator request has read
    pilot,      \* per site and attempt: the create task, and whether the site exists
    secret,     \* the tenant's committed secret, as a version number
    siteSecret, \* the secret the site itself was last given; 0: none
    overwritten \* history: an operator's late write hit a site being dropped

vars == <<site, request, lock, setup, dropjob, op, pilot, secret, siteSecret, overwritten>>

----------------------------------------------------------------------------
(* Types *)

Attempts == 0 .. MaxAttempts - 1

SiteStatus == {"Absent", "Pending", "Creating", "Ready", "Assigned", "Configuring",
               "Active", "Failed", "Dropping", "Dropped", "Deleted"}

\* "Absent" and "Deleted" stand for a row not inserted yet and one deleted.
Row == [status: SiteStatus, tenant: Tenants \cup {None}, placed: BOOLEAN,
        created: BOOLEAN, task: BOOLEAN, configured: BOOLEAN,
        attempts: Attempts, mail: BOOLEAN, invited: BOOLEAN]

NoRow == [status |-> "Absent", tenant |-> None, placed |-> FALSE, created |-> FALSE,
          task |-> FALSE, configured |-> FALSE, attempts |-> 0, mail |-> FALSE,
          invited |-> FALSE]

RequestStatus == {"Verified", "Processing", "Failed", "Completed"}

\* RQ calls a job whose process is gone STARTED until its registry is cleaned
\* up: that is step "exit" too.
SetupStep == {"none", "queued", "begin", "create", "request", "save", "wait",
              "configure", "configured", "activate", "follow", "exit"}

Setup == [at: SetupStep, row: Row, secret: 0 .. MaxSecret, tried: SUBSET {"mail", "invite"}]

NoSetup == [at |-> "none", row |-> NoRow, secret |-> 0, tried |-> {}]

\* The drop job keeps the host name it read, here its attempt number.
DropJob == [at: {"none", "queued", "server", "finish"}, attempts: Attempts]

NoDrop == [at |-> "none", attempts |-> 0]

OpStep == {"idle", "retry", "rotate"}

OpState == [at: OpStep, site: Sites \cup {None}, row: Row, request: RequestStatus,
            tenant: Tenants \cup {None}]

NoOp == [at |-> "idle", site |-> None, row |-> NoRow, request |-> "Verified", tenant |-> None]

TaskStatus == {"none", "running", "success", "taken", "failed"}

TypeOK ==
    /\ site \in [Sites -> Row]
    /\ request \in [Tenants -> RequestStatus]
    /\ lock \in [Sites -> {None, "setup"}]
    /\ setup \in [Sites -> Setup]
    /\ dropjob \in [Sites -> DropJob]
    /\ op \in [Operators -> OpState]
    /\ pilot \in [Sites -> [Attempts -> [task: TaskStatus, exists: BOOLEAN]]]
    /\ secret \in [Tenants -> 1 .. MaxSecret]
    /\ siteSecret \in [Sites -> 0 .. MaxSecret]
    /\ overwritten \in [Sites -> BOOLEAN]

Init ==
    /\ site = [s \in Sites |-> NoRow]
    /\ request = [t \in Tenants |-> "Verified"]
    /\ lock = [s \in Sites |-> None]
    /\ setup = [s \in Sites |-> NoSetup]
    /\ dropjob = [s \in Sites |-> NoDrop]
    /\ op = [o \in Operators |-> NoOp]
    /\ pilot = [s \in Sites |-> [a \in Attempts |-> [task |-> "none", exists |-> FALSE]]]
    /\ secret = [t \in Tenants |-> 1]
    /\ siteSecret = [s \in Sites |-> 0]
    /\ overwritten = [s \in Sites |-> FALSE]

----------------------------------------------------------------------------
(* Helpers *)

\* No transaction holds the row: an UPDATE or a FOR UPDATE read goes through.
Free(s) == lock[s] = None

Exists(s) == site[s].status \notin {"Absent", "Deleted"}

\* is_provisioning: RQ calls the setup job STARTED.
IsProvisioning(s) == setup[s].at \notin {"none", "queued"}

\* run_in_background with deduplicate: skipped while the job is queued or running.
Enqueue(s) == IF setup[s].at = "none" THEN [NoSetup EXCEPT !.at = "queued"] ELSE setup[s]

\* What a commit of the setup job leaves in the row.
Committed(s) == IF lock[s] = "setup" THEN setup[s].row ELSE site[s]

\* pending_follow_ups, without the site domain (hosting/domains.py).
PendingFollowUps(r) ==
    CASE ~r.mail -> {"mail"}
      [] r.mail /\ ~r.invited -> {"invite"}
      [] OTHER -> {}

\* Mutant of ResumeStatus: the site is taken to exist.
ResumeStatusSkipsCreate(r) ==
    IF r.tenant = None THEN "Ready" ELSE IF r.configured THEN "Active" ELSE "Assigned"

ResumeStatus(r) ==
    CASE ~r.created -> "Pending"
      [] r.created /\ r.tenant = None -> "Ready"
      [] r.created /\ r.tenant # None /\ r.configured -> "Active"
      [] OTHER -> "Assigned"

RequestOf(t) == IF t = None THEN "Verified" ELSE request[t]

BeingDropped(s) == site[s].status \in {"Dropping", "Dropped"}

\* site.get_live_site: the tenant's sites that are not dropped.
LiveSites(t) == {s \in Sites : Exists(s) /\ site[s].tenant = t /\ site[s].status # "Dropped"}

Claimable == {s \in Sites : site[s].status = "Ready" /\ site[s].tenant = None /\ Free(s)}

----------------------------------------------------------------------------
(* Rows are inserted, claimed and deleted *)

\* fill_pool, or an operator's insert: before_insert places the site when a server has room.
InsertPooled(s) ==
    /\ site[s] = NoRow
    /\ \E room \in BOOLEAN :
         site' = [site EXCEPT ![s] = [NoRow EXCEPT !.status = "Pending", !.placed = room]]
    /\ setup' = [setup EXCEPT ![s] = Enqueue(s)]
    /\ UNCHANGED <<request, lock, dropjob, op, pilot, secret, siteSecret, overwritten>>

\* process_request and create_hosted_site claim for a tenant that has no live site.
Claiming(t) ==
    /\ LiveSites(t) = {}
    /\ request' = [request EXCEPT ![t] = IF @ = "Verified" THEN "Processing" ELSE @]

\* claim_site, from the pool: FOR UPDATE SKIP LOCKED.
ClaimReady(t, s) ==
    /\ Claiming(t)
    /\ s \in Claimable
    /\ site' = [site EXCEPT ![s].tenant = t, ![s].status = "Assigned"]
    /\ setup' = [setup EXCEPT ![s] = Enqueue(s)]
    /\ UNCHANGED <<lock, dropjob, op, pilot, secret, siteSecret, overwritten>>

\* claim_site with an empty pool: a site of the tenant's own.
ClaimNew(t, s) ==
    /\ Claiming(t)
    /\ Claimable = {}
    /\ site[s] = NoRow
    /\ \E room \in BOOLEAN :
         site' = [site EXCEPT ![s] = [NoRow EXCEPT !.status = "Pending", !.placed = room,
                                                   !.tenant = t]]
    /\ setup' = [setup EXCEPT ![s] = Enqueue(s)]
    /\ UNCHANGED <<lock, dropjob, op, pilot, secret, siteSecret, overwritten>>

\* on_trash of a site nobody claimed; Frappe locks the row before it runs the hook.
Trash(s) ==
    /\ Exists(s) /\ Free(s) /\ site[s].tenant = None
    /\ (site[s].created \/ site[s].task) => site[s].status = "Dropped"
    /\ site' = [site EXCEPT ![s] = [NoRow EXCEPT !.status = "Deleted"]]
    /\ UNCHANGED <<request, lock, setup, dropjob, op, pilot, secret, siteSecret, overwritten>>

----------------------------------------------------------------------------
(* The setup job *)

\* A step ends its job: the poller comes back to it.
SetupReturns(s) ==
    /\ setup' = [setup EXCEPT ![s].at = "exit"]
    /\ lock' = [lock EXCEPT ![s] = None]

\* A step committed and provision reads the row again.
SetupAdvances(s) ==
    /\ setup' = [setup EXCEPT ![s].at = "begin"]
    /\ lock' = [lock EXCEPT ![s] = None]

SetupStart(s) ==
    /\ setup[s].at = "queued"
    /\ setup' = [setup EXCEPT ![s].at = "begin"]
    /\ UNCHANGED <<site, request, lock, dropjob, op, pilot, secret, siteSecret, overwritten>>

\* The loop of provision: the row FOR UPDATE, and the step of its status. The transaction's
\* snapshot is of this moment, so the tenant's secret is the one committed by now.
SetupRead(s, step, row) ==
    /\ setup[s].at = "begin"
    /\ Free(s)
    /\ lock' = [lock EXCEPT ![s] = "setup"]
    /\ setup' = [setup EXCEPT ![s] =
                   [at |-> step, row |-> row, tried |-> {},
                    secret |-> IF row.tenant = None THEN 0 ELSE secret[row.tenant]]]
    /\ UNCHANGED <<site, request, dropjob, op, pilot, secret, siteSecret, overwritten>>

\* create: a site without a server is placed first.
CreateBegin(s) ==
    /\ site[s].status \in {"Pending", "Creating"}
    /\ SetupRead(s, "create", [site[s] EXCEPT !.placed = TRUE])

\* place found no server with room: the step returns False and changes only the error.
CreateNoRoom(s) ==
    /\ setup[s].at = "begin" /\ Free(s)
    /\ site[s].status \in {"Pending", "Creating"} /\ ~site[s].placed
    /\ SetupReturns(s)
    /\ UNCHANGED <<site, request, dropjob, op, pilot, secret, siteSecret, overwritten>>

\* configure: a site whose suite is configured already is only activated.
ConfigureBegin(s) ==
    /\ site[s].status \in {"Assigned", "Configuring"}
    /\ SetupRead(s, IF site[s].configured THEN "activate" ELSE "configure",
                 [site[s] EXCEPT !.status = "Configuring"])

FollowUpBegin(s) ==
    /\ site[s].status = "Active"
    /\ SetupRead(s, "follow", site[s])

\* No step for the status, or the row is gone.
NothingToDo(s) ==
    /\ setup[s].at = "begin" /\ Free(s)
    /\ site[s].status \in {"Ready", "Failed", "Dropping", "Dropped", "Deleted"}
    /\ SetupReturns(s)
    /\ UNCHANGED <<site, request, dropjob, op, pilot, secret, siteSecret, overwritten>>

SetupBegin(s) ==
    CreateBegin(s) \/ CreateNoRoom(s) \/ ConfigureBegin(s) \/ FollowUpBegin(s) \/ NothingToDo(s)

----------------------------------------------------------------------------
(* create *)

\* The create task and the site of the host name the job works on.
OnPilot(s) == pilot[s][setup[s].row.attempts]

\* mark_created, on the row as it now stands; the tenant is the one the job read.
MarkCreated(s, row) ==
    [row EXCEPT !.created = TRUE, !.task = FALSE,
                !.status = IF setup[s].row.tenant = None THEN "Ready" ELSE "Assigned"]

\* A task is known: wait_for_task commits and releases the row before it polls.
CreateResume(s) ==
    /\ setup[s].at = "create" /\ setup[s].row.task
    /\ site' = [site EXCEPT ![s] = Committed(s)]
    /\ lock' = [lock EXCEPT ![s] = None]
    /\ setup' = [setup EXCEPT ![s].at = "wait"]
    /\ UNCHANGED <<request, dropjob, op, pilot, secret, siteSecret, overwritten>>

\* The host name is on the server already: an earlier job died after creating it.
CreateFound(s) ==
    /\ setup[s].at = "create" /\ ~setup[s].row.task
    /\ OnPilot(s).exists
    /\ site' = [site EXCEPT ![s] = MarkCreated(s, Committed(s))]
    /\ SetupAdvances(s)
    /\ UNCHANGED <<request, dropjob, op, pilot, secret, siteSecret, overwritten>>

CreateMissing(s) ==
    /\ setup[s].at = "create" /\ ~setup[s].row.task
    /\ ~OnPilot(s).exists
    /\ setup' = [setup EXCEPT ![s].at = "request"]
    /\ UNCHANGED <<site, request, lock, dropjob, op, pilot, secret, siteSecret, overwritten>>

\* Pilot's answer to create_site with the key <name>:<attempts>: the running task of the
\* key, else a new one; a host name that exists by now is a site_name_conflict.
PilotCreates(s) ==
    LET a == setup[s].row.attempts IN
    /\ pilot[s][a].task = "running" \/ ~pilot[s][a].exists
    /\ pilot' = [pilot EXCEPT ![s][a].task = "running"]

CreateRequest(s) ==
    /\ setup[s].at = "request"
    /\ PilotCreates(s)
    /\ setup' = [setup EXCEPT ![s].at = "save", ![s].row.task = TRUE,
                              ![s].row.status = "Creating"]
    /\ UNCHANGED <<site, request, lock, dropjob, op, secret, siteSecret, overwritten>>

\* The answer is lost on the way: Pilot works on it, and the job waits without the task's id.
CreateRequestLost(s) ==
    /\ setup[s].at = "request"
    /\ PilotCreates(s)
    /\ site' = [site EXCEPT ![s] = Committed(s)]
    /\ SetupReturns(s)
    /\ UNCHANGED <<request, dropjob, op, secret, siteSecret, overwritten>>

\* wait_for_task's checkpoint: the task is on record before anything waits for it.
CreateSave(s) ==
    /\ setup[s].at = "save"
    /\ site' = [site EXCEPT ![s] = Committed(s)]
    /\ lock' = [lock EXCEPT ![s] = None]
    /\ setup' = [setup EXCEPT ![s].at = "wait"]
    /\ UNCHANGED <<request, dropjob, op, pilot, secret, siteSecret, overwritten>>

\* TASK_WAIT_SECONDS passed: the poller takes over.
WaitUnfinished(s) ==
    /\ setup[s].at = "wait"
    /\ OnPilot(s).task = "running"
    /\ SetupReturns(s)
    /\ UNCHANGED <<site, request, dropjob, op, pilot, secret, siteSecret, overwritten>>

TaskSucceeded(s) ==
    /\ setup[s].at = "wait" /\ Free(s) /\ Exists(s)
    /\ OnPilot(s).task = "success"
    /\ site' = [site EXCEPT ![s] = MarkCreated(s, site[s])]
    /\ SetupAdvances(s)
    /\ UNCHANGED <<request, dropjob, op, pilot, secret, siteSecret, overwritten>>

\* Mutant of RerollHostname: a task that is not finished in time counts as refused.
RerollUnfinished(s) ==
    /\ setup[s].at = "wait" /\ Free(s) /\ Exists(s)
    /\ OnPilot(s).task \in {"taken", "running"}
    /\ setup[s].row.attempts + 1 < MaxAttempts
    /\ site' = [site EXCEPT ![s].attempts = setup[s].row.attempts + 1,
                            ![s].task = FALSE, ![s].status = "Pending"]
    /\ SetupAdvances(s)
    /\ UNCHANGED <<request, dropjob, op, pilot, secret, siteSecret, overwritten>>

\* reroll_hostname: another server holds the label, so a new one is tried.
RerollHostname(s) ==
    /\ setup[s].at = "wait" /\ Free(s) /\ Exists(s)
    /\ OnPilot(s).task = "taken"
    /\ setup[s].row.attempts + 1 < MaxAttempts
    /\ site' = [site EXCEPT ![s].attempts = setup[s].row.attempts + 1,
                            ![s].task = FALSE, ![s].status = "Pending"]
    /\ SetupAdvances(s)
    /\ UNCHANGED <<request, dropjob, op, pilot, secret, siteSecret, overwritten>>

\* The row was deleted meanwhile: the next read of it raises.
RowGone(s) ==
    /\ setup[s].at = "wait" /\ ~Exists(s)
    /\ SetupReturns(s)
    /\ UNCHANGED <<site, request, dropjob, op, pilot, secret, siteSecret, overwritten>>

\* Mutant of Fail: the signup is left waiting.
FailSiteOnly(s) ==
    /\ site' = [site EXCEPT ![s].status = "Failed"]
    /\ UNCHANGED request

\* fail: the site and the signup waiting on it.
Fail(s) ==
    /\ site' = [site EXCEPT ![s].status = "Failed"]
    /\ request' = [t \in Tenants |->
                     IF t = site[s].tenant /\ request[t] = "Processing" THEN "Failed"
                     ELSE request[t]]

TaskFailed(s) ==
    /\ setup[s].at = "wait" /\ Free(s) /\ Exists(s)
    /\ \/ OnPilot(s).task = "failed"
       \/ OnPilot(s).task = "taken" /\ setup[s].row.attempts + 1 >= MaxAttempts
    /\ Fail(s)
    /\ SetupReturns(s)
    /\ UNCHANGED <<dropjob, op, pilot, secret, siteSecret, overwritten>>

\* A host name that was created between the listing and the request: site_name_conflict.
CreateConflict(s) ==
    /\ setup[s].at = "request"
    /\ OnPilot(s).exists /\ OnPilot(s).task # "running"
    /\ Fail(s)
    /\ SetupReturns(s)
    /\ UNCHANGED <<dropjob, op, pilot, secret, siteSecret, overwritten>>

----------------------------------------------------------------------------
(* Any step may have to wait, or fail *)

Raising == {"create", "request", "wait", "configure", "configured"}

\* WAITING_ERRORS (and a task_conflict): what the step did so far is committed.
StepWaits(s) ==
    /\ setup[s].at \in Raising /\ Exists(s)
    /\ site' = [site EXCEPT ![s] = Committed(s)]
    /\ SetupReturns(s)
    /\ UNCHANGED <<request, dropjob, op, pilot, secret, siteSecret, overwritten>>

\* Any other exception: undo_step rolls back to the last checkpoint, then fail.
StepFails(s) ==
    /\ setup[s].at \in Raising /\ Exists(s)
    /\ Fail(s)
    /\ SetupReturns(s)
    /\ UNCHANGED <<dropjob, op, pilot, secret, siteSecret, overwritten>>

----------------------------------------------------------------------------
(* configure *)

\* The site API of a row reaches the site its host name names.
Reachable(s, row) == row.placed /\ pilot[s][row.attempts].exists

\* push_tenant_credentials, with the secret the transaction read.
PushCredentials(s) ==
    /\ setup[s].at = "configure"
    /\ Reachable(s, setup[s].row)
    /\ siteSecret' = [siteSecret EXCEPT ![s] = setup[s].secret]
    /\ setup' = [setup EXCEPT ![s].at = "configured"]
    /\ UNCHANGED <<site, request, lock, dropjob, op, pilot, secret, overwritten>>

\* validate_suite_cloud_credentials (the site pings Suite Cloud with what it was given), then
\* suite_configured and a checkpoint. A secret that no longer holds is StepFails or StepWaits.
ConfigureSave(s) ==
    /\ setup[s].at = "configured"
    /\ siteSecret[s] = secret[setup[s].row.tenant]
    /\ site' = [site EXCEPT ![s] = [Committed(s) EXCEPT !.configured = TRUE]]
    /\ lock' = [lock EXCEPT ![s] = None]
    /\ setup' = [setup EXCEPT ![s].at = "activate"]
    /\ UNCHANGED <<request, dropjob, op, pilot, secret, siteSecret, overwritten>>

Activate(s) ==
    /\ setup[s].at = "activate"
    /\ site' = [site EXCEPT ![s] = [Committed(s) EXCEPT !.status = "Active"]]
    /\ SetupAdvances(s)
    /\ UNCHANGED <<request, dropjob, op, pilot, secret, siteSecret, overwritten>>

----------------------------------------------------------------------------
(* follow_up: each pending step once per run; a failure is only noted *)

FollowUpStep(s, label) ==
    /\ setup[s].at = "follow"
    /\ label \in PendingFollowUps(site[s]) \ setup[s].tried
    /\ setup' = [setup EXCEPT ![s].tried = @ \cup {label}]
    /\ lock' = [lock EXCEPT ![s] = None]

FollowUpPasses(s, label) ==
    /\ FollowUpStep(s, label)
    /\ UNCHANGED <<site, request, dropjob, op, pilot, secret, siteSecret, overwritten>>

\* hosted_domain.ensure: the tenant's mail domain is live.
MailVerified(s) ==
    /\ FollowUpStep(s, "mail")
    /\ site' = [site EXCEPT ![s].mail = TRUE]
    /\ UNCHANGED <<request, dropjob, op, pilot, secret, siteSecret, overwritten>>

\* invite_owner: the invite is created on the site, and the signup is complete.
InviteOwner(s) ==
    /\ FollowUpStep(s, "invite")
    /\ Reachable(s, site[s])
    /\ site' = [site EXCEPT ![s].invited = TRUE]
    /\ request' = [t \in Tenants |-> IF t = site[s].tenant THEN "Completed" ELSE request[t]]
    /\ UNCHANGED <<dropjob, op, pilot, secret, siteSecret, overwritten>>

FollowUpDone(s) ==
    /\ setup[s].at = "follow"
    /\ PendingFollowUps(site[s]) \subseteq setup[s].tried
    /\ SetupReturns(s)
    /\ UNCHANGED <<site, request, dropjob, op, pilot, secret, siteSecret, overwritten>>

FollowUp(s) ==
    \/ \E label \in {"mail", "invite"} : FollowUpPasses(s, label)
    \/ MailVerified(s) \/ InviteOwner(s) \/ FollowUpDone(s)

----------------------------------------------------------------------------
(* The job ends, its worker dies, the poller comes back *)

SetupExit(s) ==
    /\ setup[s].at = "exit"
    /\ setup' = [setup EXCEPT ![s] = NoSetup]
    /\ UNCHANGED <<site, request, lock, dropjob, op, pilot, secret, siteSecret, overwritten>>

\* The transaction is rolled back and its row lock is gone.
SetupDies(s) ==
    /\ setup[s].at \notin {"none", "exit"}
    /\ setup' = [setup EXCEPT ![s].at = "exit"]
    /\ lock' = [lock EXCEPT ![s] = IF @ = "setup" THEN None ELSE @]
    /\ UNCHANGED <<site, request, dropjob, op, pilot, secret, siteSecret, overwritten>>

\* Mutant of PollPendingSites: only sites being created are polled.
PollCreatingSites(s) ==
    /\ site[s].status \in {"Pending", "Creating"}
    /\ setup[s].at = "none"
    /\ setup' = [setup EXCEPT ![s] = Enqueue(s)]
    /\ UNCHANGED <<site, request, lock, dropjob, op, pilot, secret, siteSecret, overwritten>>

PollPendingSites(s) ==
    /\ \/ site[s].status \in {"Pending", "Creating", "Assigned", "Configuring"}
       \/ site[s].status = "Active" /\ PendingFollowUps(site[s]) # {}
    /\ setup[s].at = "none"
    /\ setup' = [setup EXCEPT ![s] = Enqueue(s)]
    /\ UNCHANGED <<site, request, lock, dropjob, op, pilot, secret, siteSecret, overwritten>>

\* Pilot finishes a create task (external).
PilotFinishes(s, a) ==
    /\ pilot[s][a].task = "running"
    /\ \E result \in {"success", "taken", "failed"} :
         pilot' = [pilot EXCEPT ![s][a] = [task |-> result,
                                           exists |-> @.exists \/ result = "success"]]
    /\ UNCHANGED <<site, request, lock, setup, dropjob, op, secret, siteSecret, overwritten>>

----------------------------------------------------------------------------
(* The drop job *)

DropSite(s) ==
    /\ Exists(s)
    /\ dropjob[s].at = "none"
    /\ dropjob' = [dropjob EXCEPT ![s].at = "queued"]
    /\ UNCHANGED <<site, request, lock, setup, op, pilot, secret, siteSecret, overwritten>>

\* Mutant of DropRefuses: a running setup job is not waited for.
DropIgnoresSetup(s) == site[s].status \in {"Dropped", "Deleted"}

\* A site that is dropped, or whose setup job runs, is left alone.
DropRefuses(s) == IsProvisioning(s) \/ site[s].status \in {"Dropped", "Deleted"}

\* The row FOR UPDATE, the checks, and Dropping is saved before anything else is done.
DropBegin(s) ==
    /\ dropjob[s].at = "queued" /\ Free(s)
    /\ IF DropRefuses(s)
       THEN /\ dropjob' = [dropjob EXCEPT ![s] = NoDrop]
            /\ UNCHANGED site
       ELSE /\ site' = [site EXCEPT ![s].status = "Dropping"]
            /\ dropjob' = [dropjob EXCEPT ![s] = [at |-> "server", attempts |-> site[s].attempts]]
    /\ UNCHANGED <<request, lock, setup, op, pilot, secret, siteSecret, overwritten>>

PilotDrops(s) == pilot' = [pilot EXCEPT ![s][dropjob[s].attempts].exists = FALSE]

\* drop_from_server: a host name the server does not list needs nothing.
DropFromServer(s) ==
    /\ dropjob[s].at = "server"
    /\ PilotDrops(s)
    /\ dropjob' = [dropjob EXCEPT ![s].at = "finish"]
    /\ UNCHANGED <<site, request, lock, setup, op, secret, siteSecret, overwritten>>

\* Pilot is still at it, failed or did not answer, or a record could not be deleted: the site
\* stays Dropping. Pilot may have dropped it all the same.
DropFails(s) ==
    /\ dropjob[s].at \in {"server", "finish"}
    /\ PilotDrops(s) \/ UNCHANGED pilot
    /\ dropjob' = [dropjob EXCEPT ![s] = NoDrop]
    /\ UNCHANGED <<site, request, lock, setup, op, secret, siteSecret, overwritten>>

\* The mail domain is detached, the DNS records are deleted, the label is free.
DropFinish(s) ==
    /\ dropjob[s].at = "finish" /\ Free(s)
    /\ site' = IF Exists(s)
               THEN [site EXCEPT ![s].status = "Dropped", ![s].mail = FALSE]
               ELSE site
    /\ dropjob' = [dropjob EXCEPT ![s] = NoDrop]
    /\ UNCHANGED <<request, lock, setup, op, pilot, secret, siteSecret, overwritten>>

----------------------------------------------------------------------------
(* Operator requests: one transaction, its reads of the snapshot it began with *)

RetryBegin(o, s) ==
    /\ op[o].at = "idle" /\ Exists(s)
    /\ op' = [op EXCEPT ![o] = [at |-> "retry", site |-> s, row |-> site[s],
                                request |-> RequestOf(site[s].tenant),
                                tenant |-> site[s].tenant]]
    /\ UNCHANGED <<site, request, lock, setup, dropjob, pilot, secret, siteSecret, overwritten>>

\* sites.retry, on the row as it was read.
Retry(o) ==
    LET s == op[o].site
        failed == op[o].row.status = "Failed" /\ Exists(s)
    IN
    /\ op[o].at = "retry" /\ Free(s)
    /\ site' = IF failed
               THEN [site EXCEPT ![s].status = ResumeStatus(op[o].row), ![s].task = FALSE]
               ELSE site
    /\ request' = [t \in Tenants |->
                     IF t = op[o].tenant /\ op[o].request = "Failed" THEN "Processing"
                     ELSE request[t]]
    /\ overwritten' = [overwritten EXCEPT ![s] = @ \/ (failed /\ BeingDropped(s))]
    /\ setup' = [setup EXCEPT ![s] = Enqueue(s)]
    /\ op' = [op EXCEPT ![o] = NoOp]
    /\ UNCHANGED <<lock, dropjob, pilot, secret, siteSecret>>

\* rotate_secret; the tenant's row is saved, so one rotation of a tenant at a time.
RotateBegin(o, t) ==
    /\ op[o].at = "idle"
    /\ secret[t] < MaxSecret
    /\ \A p \in Operators : ~(op[p].at = "rotate" /\ op[p].tenant = t)
    /\ \E s \in LiveSites(t) :
         op' = [op EXCEPT ![o] = [at |-> "rotate", site |-> s, row |-> site[s],
                                  request |-> request[t], tenant |-> t]]
    /\ UNCHANGED <<site, request, lock, setup, dropjob, pilot, secret, siteSecret, overwritten>>

\* push_secret_to_site: an Active site is given the new secret.
RotateReaches(o) ==
    LET s == op[o].site
        t == op[o].tenant
    IN
    /\ op[o].at = "rotate"
    /\ op[o].row.status = "Active" /\ Reachable(s, op[o].row)
    /\ secret' = [secret EXCEPT ![t] = @ + 1]
    /\ siteSecret' = [siteSecret EXCEPT ![s] = secret[t] + 1]
    /\ op' = [op EXCEPT ![o] = NoOp]
    /\ UNCHANGED <<site, request, lock, setup, dropjob, pilot, overwritten>>

\* Otherwise (not Active, or the site could not be reached) Configure runs again.
RotateReconfigures(o) ==
    LET s == op[o].site
        t == op[o].tenant
        row == op[o].row
    IN
    /\ op[o].at = "rotate"
    /\ row.configured => Free(s)
    /\ secret' = [secret EXCEPT ![t] = @ + 1]
    /\ IF row.configured /\ Exists(s)
       THEN /\ site' = [site EXCEPT ![s].configured = FALSE,
                                    ![s].status = IF row.status = "Active" THEN "Assigned" ELSE @]
            /\ setup' = [setup EXCEPT ![s] = Enqueue(s)]
            /\ overwritten' = [overwritten EXCEPT ![s] = @ \/ (row.status = "Active" /\ BeingDropped(s))]
       ELSE UNCHANGED <<site, setup, overwritten>>
    /\ op' = [op EXCEPT ![o] = NoOp]
    /\ UNCHANGED <<request, lock, dropjob, pilot, siteSecret>>

----------------------------------------------------------------------------
(* The specification *)

SetupJob(s) ==
    \/ SetupStart(s) \/ SetupBegin(s)
    \/ CreateResume(s) \/ CreateFound(s) \/ CreateMissing(s)
    \/ CreateRequest(s) \/ CreateRequestLost(s) \/ CreateConflict(s) \/ CreateSave(s)
    \/ WaitUnfinished(s) \/ TaskSucceeded(s) \/ RerollHostname(s) \/ TaskFailed(s) \/ RowGone(s)
    \/ StepWaits(s) \/ StepFails(s)
    \/ PushCredentials(s) \/ ConfigureSave(s) \/ Activate(s)
    \/ FollowUp(s)
    \/ SetupExit(s) \/ SetupDies(s)

DropJobStep(s) ==
    DropBegin(s) \/ DropFromServer(s) \/ DropFails(s) \/ DropFinish(s)

Operator(o) ==
    \/ \E s \in Sites : RetryBegin(o, s)
    \/ \E t \in Tenants : RotateBegin(o, t)
    \/ Retry(o) \/ RotateReaches(o) \/ RotateReconfigures(o)

Next ==
    \/ \E s \in Sites :
         \/ InsertPooled(s) \/ Trash(s) \/ DropSite(s) \/ PollPendingSites(s)
         \/ SetupJob(s) \/ DropJobStep(s)
         \/ \E t \in Tenants : ClaimReady(t, s) \/ ClaimNew(t, s)
         \/ \E a \in Attempts : PilotFinishes(s, a)
    \/ \E o \in Operators : Operator(o)

Spec == Init /\ [][Next]_vars

----------------------------------------------------------------------------
(* Properties *)

\* A site that is being dropped, or dropped, never comes back to life through its jobs: no
\* setup job writes its state back over the drop (sites.drop, "one already running could write
\* its state back afterwards, so the drop waits for it"). Only an operator's request that read
\* the row before the drop can undo it, and overwritten records that.
DropIsFinal ==
    [][\A s \in Sites :
         BeingDropped(s) /\ ~overwritten'[s] => site'[s].status \in {"Dropping", "Dropped", "Deleted"}]_vars

\* Nothing is created twice: whatever Pilot creates or has created for a row is of the row's
\* own host name, through lost answers, dead workers, re-rolls and retries
\* (hosting.checkpoint, "or the retry would create it twice").
NothingCreatedTwice ==
    \A s \in Sites : \A a \in Attempts :
        Exists(s) /\ (pilot[s][a].task = "running" \/ pilot[s][a].exists) => a = site[s].attempts

\* A site the pool offers, and one a tenant works on, exists on its server; a tenant works only
\* on a site that was given its credentials.
ServedSitesExist ==
    \A s \in Sites : ~overwritten[s] =>
        /\ site[s].status \in {"Ready", "Assigned", "Configuring", "Active"} =>
             site[s].created /\ pilot[s][site[s].attempts].exists
        /\ site[s].status = "Active" => site[s].tenant # None /\ siteSecret[s] > 0

\* The signup waits on a site that stopped.
Stranded(s) ==
    site[s].status = "Failed" /\ site[s].tenant # None /\ request[site[s].tenant] = "Processing"

\* The Retry of another site of the tenant, or of this one as it was before it failed.
RetriesElsewhere(o, s) ==
    /\ op[o].at = "retry" /\ op'[o] = NoOp
    /\ op[o].request = "Failed" /\ op[o].tenant = site[s].tenant
    /\ ~(op[o].site = s /\ op[o].row.status = "Failed")

\* No signup is left waiting on a site that stopped: fail() marks both and a Retry restarts both,
\* whoever claims, drops or retries meanwhile. Only the Retry of another site, or of this one read
\* before it failed, restarts the signup alone.
NoSignupWaitsOnFailedSite ==
    [][\A s \in Sites : Stranded(s)' =>
          Stranded(s) \/ \E o \in Operators : RetriesElsewhere(o, s)]_vars

(* Liveness *)

MidWay == {"Pending", "Creating", "Assigned", "Configuring"}

\* A worker dies, Pilot or the site does not answer, or no server has room.
Unlucky(s) == SetupDies(s) \/ StepWaits(s) \/ CreateRequestLost(s) \/ CreateNoRoom(s)

\* A worker takes a queued job and goes on with it, a finished job leaves RQ, the poller runs every
\* five minutes and a Pilot task ends; a site that is tried again and again is not unlucky for ever.
Fairness ==
    \A s \in Sites :
        /\ WF_vars(SetupJob(s)) /\ WF_vars(PollPendingSites(s))
        /\ \A a \in Attempts : WF_vars(PilotFinishes(s, a))
        /\ <>[][~Unlucky(s)]_vars

FairSpec == Spec /\ Fairness

\* A site mid-way never stays so: it gets to the pool, to its tenant, to an error an operator
\* sees, or is dropped, whichever jobs and workers are lost (poll_pending_sites, "sites mid-way
\* get their job again").
SetupSettles ==
    \A s \in Sites : site[s].status \in MidWay ~> site[s].status \notin MidWay

(* What the code's own words promise, and the code does not keep *)

\* push_secret_to_site: "An Active site gets the new secret now; otherwise Configure runs again
\* and carries it."
ActiveSiteHasSecret ==
    \A s \in Sites :
        (/\ site[s].status = "Active"
         /\ setup[s].at = "none"
         /\ \A o \in Operators : op[o].at = "idle") => siteSecret[s] = secret[site[s].tenant]
=============================================================================
