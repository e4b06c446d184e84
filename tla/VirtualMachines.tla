--------------------------- MODULE VirtualMachines ---------------------------
(***************************************************************************)
(* A server of Frappe Cloud from the row's insertion to the one that takes *)
(* sites: hosting/machines.py with the buttons of Virtual Machine.         *)
(*                                                                         *)
(* Processes, and what separates their steps:                              *)
(*   - the setup job of a server (RQ id virtual-machine:<name>, at most    *)
(*     one): each step reads the row FOR UPDATE and commits at its end, so *)
(*     it owns the row for the step; only install_suite commits before it  *)
(*     waits on Pilot's task and goes on with the copy it read;            *)
(*   - the fleet refresh, every five minutes, and the daily sync, which    *)
(*     also ends servers Central no longer lists: rows, then the registry, *)
(*     then the writes;                                                    *)
(*   - operator buttons, one transaction each, on the row they read.       *)
(* External, modelled from how machines.py uses the answers: Central (the  *)
(* creations and servers) and Pilot (the zone it serves, the Suite app).   *)
(***************************************************************************)
EXTENDS Naturals, FiniteSets

CONSTANTS
    Machines,       \* Virtual Machine names, of one region
    Zones,          \* wildcard zones a Pilot of the region may register sites under
    Operators,      \* operator requests being served at once
    Refreshes,      \* which refreshes run: FALSE every five minutes, TRUE the daily sync
    MaxDeaths,      \* bound: workers that die and answers that are lost
    None            \* a NULL column

VARIABLES
    vm,         \* the committed rows
    lock,       \* machines whose row a setup job holds across steps
    job,        \* the setup job of each machine: next step, and the actions its snapshot shows
    proxy,      \* the region's proxy_zone
    refresh,    \* the fleet refresh or daily sync: what it read of the rows, and the registry
    op,         \* the row each operator's Retry read
    creation,   \* Central: the creation each machine's request key started
    server,     \* Central: the server each creation became
    pilot,      \* Pilot on it: zone, Suite app and the app's install task
    deaths      \* bounded by MaxDeaths

vars == <<vm, lock, job, proxy, refresh, op, creation, server, pilot, deaths>>
external == <<creation, server, pilot>>

----------------------------------------------------------------------------
(* Types *)

\* "Provisioning" stands for Deploying too, and "Stopped" for Paused.
Status == {"Absent", "Pending", "Provisioning", "Running", "Stopped", "Failed", "Terminated"}

\* action and resource name the machine whose creation they are: Central folds identical
\* pending creations into one.
Row == [status: Status, action: Machines \cup {None}, resource: Machines \cup {None},
        verified: BOOLEAN, app: {"Pending", "Installing", "Installed", "Failed"}, task: BOOLEAN,
        error: BOOLEAN]

NoRow == [status |-> "Absent", action |-> None, resource |-> None, verified |-> FALSE,
          app |-> "Pending", task |-> FALSE, error |-> FALSE]

\* "creating" is create with the row held, "wait" install_suite after its commit.
JobStep == {"none", "queued", "create", "creating", "accept", "boot", "verify", "install", "wait",
            "exit"}

NoJob == [at |-> "none", seen |-> {}]

ServerStatus == {"none", "Provisioning", "Running", "Stopped", "gone"}

\* What the refresh uses of a row it read, once it is updated.
Seen == [status: Status, setup: BOOLEAN, error: BOOLEAN]

NothingSeen == [status |-> "Absent", setup |-> FALSE, error |-> FALSE]

\* todo: the rows read with a server; drive: the rows it will find building.
NoRefresh == [at |-> "idle", missing |-> FALSE, seen |-> [v \in Machines |-> NothingSeen],
              todo |-> {}, registry |-> [v \in Machines |-> "none"], drive |-> {}]

\* What Retry uses of the row it read: whether the creation or the install failed.
OpState == [machine: Machines \cup {None}, status: Status, creation: BOOLEAN, install: BOOLEAN]

NoOp == [machine |-> None, status |-> "Absent", creation |-> FALSE, install |-> FALSE]

TypeOK ==
    /\ vm \in [Machines -> Row]
    /\ lock \subseteq Machines
    /\ job \in [Machines -> [at: JobStep, seen: SUBSET Machines]]
    /\ proxy \in Zones \cup {None}
    /\ refresh \in [at: {"idle", "registry", "write"}, missing: BOOLEAN,
                    seen: [Machines -> Seen], todo: SUBSET Machines,
                    registry: [Machines -> ServerStatus], drive: SUBSET Machines]
    /\ op \in [Operators -> OpState]
    /\ creation \in [Machines -> {"none", "pending", "accepted", "failed"}]
    /\ server \in [Machines -> ServerStatus]
    /\ pilot \in [Machines -> [zone: Zones, app: BOOLEAN,
                               task: {"none", "running", "success", "failed"}]]
    /\ deaths \in 0 .. MaxDeaths

Init ==
    /\ vm = [v \in Machines |-> NoRow]
    /\ lock = {}
    /\ job = [v \in Machines |-> NoJob]
    /\ proxy = None
    /\ refresh = NoRefresh
    /\ op = [o \in Operators |-> NoOp]
    /\ creation = [v \in Machines |-> "none"]
    /\ server = [v \in Machines |-> "none"]
    /\ pilot \in [Machines -> {[zone |-> z, app |-> FALSE, task |-> "none"] : z \in Zones}]
    /\ deaths = 0

----------------------------------------------------------------------------
(* Helpers *)

Free(v) == v \notin lock

\* The server of the row, on Central and with its Pilot.
ServerOf(r) == server[r.resource]
PilotOf(r) == pilot[r.resource]

SetUp(r) == r.verified /\ r.app = "Installed"

IsReady(r) == r.status = "Running" /\ SetUp(r) /\ ~r.error

Building(s) ==
    ~s.error /\ (s.status \in {"Pending", "Provisioning"} \/ (s.status = "Running" /\ ~s.setup))

SeenOf(r) == [status |-> r.status, setup |-> SetUp(r), error |-> r.error]

IsBuilding(r) == Building(SeenOf(r))

\* run_in_background with deduplicate.
Enqueued(v) == IF job[v].at = "none" THEN [NoJob EXCEPT !.at = "queued"] ELSE job[v]

\* Ends the job, and the transaction that held the row.
JobReturns(v) ==
    /\ job' = [job EXCEPT ![v] = [NoJob EXCEPT !.at = "exit"]]
    /\ lock' = lock \ {v}

JobGoesOn(v, step) ==
    /\ job' = [job EXCEPT ![v] = [NoJob EXCEPT !.at = step]]
    /\ lock' = lock \ {v}

\* The row as a step leaves it; nothing else of the rest of the system changes.
Writes(v, r) == vm' = [vm EXCEPT ![v] = r]

----------------------------------------------------------------------------
(* The setup job *)

\* A Virtual Machine made by an operator, ensure_capacity or claim_site.
Insert(v) ==
    /\ vm[v] = NoRow
    /\ Writes(v, [NoRow EXCEPT !.status = "Pending"])
    /\ job' = [job EXCEPT ![v] = Enqueued(v)]
    /\ UNCHANGED <<lock, proxy, refresh, op, external, deaths>>

JobStart(v) ==
    /\ job[v].at = "queued"
    /\ JobGoesOn(v, "create")
    /\ UNCHANGED <<vm, proxy, refresh, op, external, deaths>>

\* provision at the top of its loop: the row FOR UPDATE, and no error on it.
At(v, step) ==
    /\ job[v].at = step
    /\ Free(v)
    /\ ~vm[v].error /\ vm[v].status \notin {"Failed", "Terminated"}

JobStops(v) ==
    /\ job[v].at \in {"create", "accept", "boot", "verify", "install"} /\ Free(v)
    /\ vm[v].error \/ vm[v].status \in {"Failed", "Terminated"}
    /\ JobReturns(v)
    /\ UNCHANGED <<vm, proxy, refresh, op, external, deaths>>

\* A step that was done before returns at once.
StepDone(v) ==
    /\ \E pair \in {<<"create", "accept">>, <<"accept", "boot">>, <<"boot", "verify">>,
                    <<"verify", "install">>, <<"install", "exit">>} :
         /\ At(v, pair[1])
         /\ CASE pair[1] = "create"  -> vm[v].action # None
              [] pair[1] = "accept"  -> vm[v].resource # None
              [] pair[1] = "boot"    -> vm[v].status = "Running"
              [] pair[1] = "verify"  -> vm[v].verified
              [] pair[1] = "install" -> vm[v].app = "Installed"
         /\ JobGoesOn(v, pair[2])
    /\ UNCHANGED <<vm, proxy, refresh, op, external, deaths>>

\* Central or Pilot does not answer, or has not finished: the fleet refresh comes back.
StepWaits(v) ==
    /\ \/ job[v].at = "creating"
       \/ At(v, "accept") /\ vm[v].resource = None
       \/ At(v, "boot") /\ vm[v].status # "Running"
       \/ At(v, "verify") /\ ~vm[v].verified
       \/ At(v, "install") /\ vm[v].app # "Installed"
       \/ job[v].at = "wait"
    /\ JobReturns(v)
    /\ UNCHANGED <<vm, proxy, refresh, op, external, deaths>>

\* Central rejects the call, Pilot passed its deadline, the host has a problem or the step
\* raised: the error stops the setup until an operator's Retry.
StepStops(v) ==
    /\ \/ job[v].at = "creating"
       \/ At(v, "accept") /\ vm[v].resource = None
       \/ At(v, "boot") /\ vm[v].status # "Running"
       \/ At(v, "verify") /\ ~vm[v].verified
       \/ At(v, "install") /\ vm[v].app # "Installed"
       \/ job[v].at = "wait" /\ Free(v)
    /\ Writes(v, [vm[v] EXCEPT !.error = TRUE])
    /\ JobReturns(v)
    /\ UNCHANGED <<proxy, refresh, op, external, deaths>>

\* create: the row is held, and its first plain read fixes the actions it sees of the others.
CreateBegin(v) ==
    /\ At(v, "create") /\ vm[v].action = None
    /\ lock' = lock \cup {v}
    /\ job' = [job EXCEPT ![v] = [at |-> "creating",
                                  seen |-> {vm[w].action : w \in Machines \ {v}} \ {None}]]
    /\ UNCHANGED <<vm, proxy, refresh, op, external, deaths>>

\* create_server: the same key returns its creation; a new one may be folded into another
\* machine's that is still pending.
CentralCreates(v, a) ==
    \/ a = v /\ creation' = IF creation[v] = "none" THEN [creation EXCEPT ![v] = "pending"] ELSE creation
    \/ a # v /\ creation[v] = "none" /\ creation[a] = "pending" /\ UNCHANGED creation

CreateSaves(v, a) ==
    /\ job[v].at = "creating"
    /\ CentralCreates(v, a)
    /\ a \notin job[v].seen
    /\ Writes(v, [vm[v] EXCEPT !.action = a])
    /\ JobGoesOn(v, "accept")
    /\ UNCHANGED <<proxy, refresh, op, server, pilot, deaths>>

CreateCollapsed(v, a) ==
    /\ job[v].at = "creating"
    /\ CentralCreates(v, a)
    /\ a \in job[v].seen
    /\ Writes(v, [vm[v] EXCEPT !.status = "Failed", !.error = TRUE])
    /\ JobReturns(v)
    /\ UNCHANGED <<proxy, refresh, op, server, pilot, deaths>>

\* The answer is lost or the worker dies before it is saved: Central has the creation.
CreateLost(v, a) ==
    /\ job[v].at = "creating"
    /\ deaths < MaxDeaths /\ deaths' = deaths + 1
    /\ CentralCreates(v, a)
    /\ JobReturns(v)
    /\ UNCHANGED <<vm, proxy, refresh, op, server, pilot>>

\* central_resource_id is a unique column: a second row of the same server stops with an error.
AcceptTaken(v) ==
    /\ At(v, "accept") /\ vm[v].resource = None
    /\ creation[vm[v].action] = "accepted"
    /\ \E w \in Machines : vm[w].resource = vm[v].action
    /\ Writes(v, [vm[v] EXCEPT !.error = TRUE])
    /\ JobReturns(v)
    /\ UNCHANGED <<proxy, refresh, op, external, deaths>>

Accept(v) ==
    /\ At(v, "accept") /\ vm[v].resource = None
    /\ creation[vm[v].action] = "accepted"
    /\ \A w \in Machines : vm[w].resource # vm[v].action
    /\ Writes(v, [vm[v] EXCEPT !.resource = vm[v].action, !.status = "Provisioning"])
    /\ JobGoesOn(v, "boot")
    /\ UNCHANGED <<proxy, refresh, op, external, deaths>>

AcceptFailed(v) ==
    /\ At(v, "accept") /\ vm[v].resource = None
    /\ creation[vm[v].action] = "failed"
    /\ Writes(v, [vm[v] EXCEPT !.status = "Failed", !.error = TRUE])
    /\ JobReturns(v)
    /\ UNCHANGED <<proxy, refresh, op, external, deaths>>

\* boot: Central's registry, if it lists the server.
Boot(v) ==
    /\ At(v, "boot") /\ vm[v].status # "Running"
    /\ ServerOf(vm[v]) # "gone"
    /\ Writes(v, [vm[v] EXCEPT !.status = ServerOf(vm[v])])
    /\ IF ServerOf(vm[v]) = "Running" THEN JobGoesOn(v, "verify") ELSE JobReturns(v)
    /\ UNCHANGED <<proxy, refresh, op, external, deaths>>

\* learn_proxy_zone reads the region FOR UPDATE, so it sees the zone another server set.
LearnProxyZone(zone) == proxy' = IF proxy = None THEN zone ELSE proxy

\* verify_host and host_problem, on the row r.
HostChecked(v, r) ==
    /\ ServerOf(r) = "Running"
    /\ LearnProxyZone(PilotOf(r).zone)
    /\ \E problem \in BOOLEAN :
         IF problem \/ proxy' # PilotOf(r).zone
         THEN Writes(v, [r EXCEPT !.error = TRUE])
         ELSE Writes(v, [r EXCEPT !.verified = TRUE])

Verify(v) ==
    /\ At(v, "verify") /\ ~vm[v].verified
    /\ HostChecked(v, vm[v])
    /\ IF vm'[v].verified THEN JobGoesOn(v, "install") ELSE JobReturns(v)
    /\ UNCHANGED <<refresh, op, external, deaths>>

\* install_suite: the app is there already.
InstallFound(v) ==
    /\ At(v, "install") /\ vm[v].app # "Installed" /\ ~vm[v].task
    /\ PilotOf(vm[v]).app
    /\ Writes(v, [vm[v] EXCEPT !.app = "Installed"])
    /\ JobReturns(v)
    /\ UNCHANGED <<proxy, refresh, op, external, deaths>>

PilotInstalls(v) == pilot' = [pilot EXCEPT ![vm[v].resource].task = "running"]

\* The task is on record before anything waits for it.
InstallStarts(v) ==
    /\ At(v, "install") /\ vm[v].app # "Installed" /\ ~vm[v].task
    /\ ~PilotOf(vm[v]).app /\ ServerOf(vm[v]) = "Running"
    /\ PilotInstalls(v)
    /\ Writes(v, [vm[v] EXCEPT !.app = "Installing", !.task = TRUE])
    /\ JobGoesOn(v, "wait")
    /\ UNCHANGED <<proxy, refresh, op, creation, server, deaths>>

InstallLost(v) ==
    /\ At(v, "install") /\ vm[v].app # "Installed" /\ ~vm[v].task
    /\ ~PilotOf(vm[v]).app /\ ServerOf(vm[v]) = "Running"
    /\ deaths < MaxDeaths /\ deaths' = deaths + 1
    /\ PilotInstalls(v)
    /\ JobReturns(v)
    /\ UNCHANGED <<vm, proxy, refresh, op, creation, server>>

InstallResumes(v) ==
    /\ At(v, "install") /\ vm[v].app # "Installed" /\ vm[v].task
    /\ JobGoesOn(v, "wait")
    /\ UNCHANGED <<vm, proxy, refresh, op, external, deaths>>

\* Mutant of HasApp: the task's success is taken for the app.
HasAppOnTask(v) == PilotOf(vm[v]).task = "success"

\* find_app(list_apps()).
HasApp(v) == PilotOf(vm[v]).app

\* The task ended; the row is written as it now stands.
InstallEnds(v) ==
    /\ job[v].at = "wait" /\ Free(v)
    /\ PilotOf(vm[v]).task \in {"success", "failed"}
    /\ IF PilotOf(vm[v]).task = "success" /\ HasApp(v)
       THEN Writes(v, [vm[v] EXCEPT !.app = "Installed", !.task = FALSE])
       ELSE Writes(v, [vm[v] EXCEPT !.app = "Failed", !.error = TRUE])
    /\ JobReturns(v)
    /\ UNCHANGED <<proxy, refresh, op, external, deaths>>

JobDies(v) ==
    /\ job[v].at \in JobStep \ {"none", "queued", "exit"}
    /\ deaths < MaxDeaths /\ deaths' = deaths + 1
    /\ JobReturns(v)
    /\ UNCHANGED <<vm, proxy, refresh, op, external>>

\* The job leaves RQ.
JobExit(v) ==
    /\ job[v].at = "exit"
    /\ job' = [job EXCEPT ![v] = NoJob]
    /\ UNCHANGED <<vm, lock, proxy, refresh, op, external, deaths>>

JobAdvances(v) ==
    \/ StepDone(v) \/ JobStops(v) \/ CreateBegin(v)
    \/ \E a \in Machines : CreateSaves(v, a) \/ CreateCollapsed(v, a)
    \/ Accept(v) \/ AcceptTaken(v) \/ AcceptFailed(v) \/ Boot(v) \/ Verify(v)
    \/ InstallFound(v) \/ InstallStarts(v) \/ InstallResumes(v) \/ InstallEnds(v)

----------------------------------------------------------------------------
(* refresh_fleet *)

\* Mutant of RefreshReads: only the rows that have a server.
RefreshReadsServers(missing) ==
    LET servers == {v \in Machines : vm[v].resource # None /\ vm[v].status # "Terminated"}
    IN /\ refresh.at = "idle"
       /\ refresh' = [NoRefresh EXCEPT
                        !.at = "registry", !.missing = missing, !.todo = servers,
                        !.seen = [v \in Machines |-> IF v \in servers THEN SeenOf(vm[v]) ELSE NothingSeen]]
       /\ UNCHANGED <<vm, lock, job, proxy, op, external, deaths>>

\* The rows, read before the registry.
RefreshReads(missing) ==
    /\ refresh.at = "idle"
    /\ refresh' = [NoRefresh EXCEPT
                     !.at = "registry", !.missing = missing,
                     !.seen = [v \in Machines |-> SeenOf(vm[v])],
                     !.todo = {v \in Machines : vm[v].resource # None /\ vm[v].status # "Terminated"}]
    /\ UNCHANGED <<vm, lock, job, proxy, op, external, deaths>>

\* apply_server, or mark_terminated for one the registry does not list.
Refreshed(s, listed) ==
    IF listed \notin {"none", "gone"} THEN [s EXCEPT !.status = listed]
    ELSE IF refresh.missing THEN [s EXCEPT !.status = "Terminated", !.error = TRUE]
    ELSE s

\* One registry call. The rows read, as they will be updated, say whom to drive on.
RefreshRegistry ==
    /\ refresh.at = "registry"
    /\ LET listed == [v \in Machines |-> IF v \in refresh.todo THEN server[vm[v].resource] ELSE "none"]
           Updated(v) == IF v \in refresh.todo THEN Refreshed(refresh.seen[v], listed[v])
                         ELSE refresh.seen[v]
       IN refresh' = [refresh EXCEPT
                        !.at = "write", !.seen = NoRefresh.seen, !.registry = listed,
                        !.drive = {v \in Machines : Building(Updated(v))}]
    /\ UNCHANGED <<vm, lock, job, proxy, op, external, deaths>>

\* Mutant of ToApply: the rows are read after the registry.
ToApplyNow == {v \in Machines : vm[v].resource # None /\ vm[v].status # "Terminated"}

ToApply == refresh.todo

RefreshWrites ==
    /\ refresh.at = "write"
    /\ \A v \in ToApply : Free(v)
    /\ vm' = [v \in Machines |-> IF v \in ToApply THEN Refreshed(vm[v], refresh.registry[v]) ELSE vm[v]]
    /\ job' = [v \in Machines |-> IF v \in refresh.drive THEN Enqueued(v) ELSE job[v]]
    /\ refresh' = NoRefresh
    /\ UNCHANGED <<lock, proxy, op, external, deaths>>

----------------------------------------------------------------------------
(* Operators *)

RetryReads(o, v) ==
    /\ op[o] = NoOp
    /\ vm[v] # NoRow
    /\ op' = [op EXCEPT ![o] = 
                                   [machine |-> v, status |-> vm[v].status,
                                    creation |-> vm[v].action # None /\ vm[v].resource = None
                                                 /\ vm[v].status = "Failed",
                                    install |-> vm[v].app = "Failed"]]
    /\ UNCHANGED <<vm, lock, job, proxy, refresh, external, deaths>>

\* reset_failed_install.
ResetInstall(r) == [r EXCEPT !.app = "Pending", !.task = FALSE]

\* A failed creation is asked to run again; the status read is written back.
RetryWrites(o) ==
    LET v == op[o].machine
        cleared == [vm[v] EXCEPT !.error = FALSE,
                                 !.status = IF op[o].status = "Failed" THEN "Pending" ELSE op[o].status]
    IN /\ op[o] # NoOp
       /\ Free(v)
       /\ creation' = IF op[o].creation
                      THEN [creation EXCEPT ![vm[v].action] = IF @ = "failed" THEN "pending" ELSE @]
                      ELSE creation
       /\ Writes(v, IF op[o].install THEN ResetInstall(cleared) ELSE cleared)
       /\ job' = [job EXCEPT ![v] = Enqueued(v)]
       /\ op' = [op EXCEPT ![o] = NoOp]
       /\ UNCHANGED <<lock, proxy, refresh, server, pilot, deaths>>

\* Central rejects the failed creation's retry: the error says so.
RetryRejected(o) ==
    LET v == op[o].machine
    IN /\ op[o] # NoOp /\ op[o].creation /\ Free(v)
       /\ Writes(v, [vm[v] EXCEPT !.error = TRUE])
       /\ op' = [op EXCEPT ![o] = NoOp]
       /\ UNCHANGED <<lock, job, proxy, refresh, external, deaths>>

\* Verify Host: from the start, in the operator's own transaction; a Pilot that does not answer
\* leaves the server unverified, with an error once it is past its deadline.
VerifyHost(v) ==
    LET reset == [vm[v] EXCEPT !.verified = FALSE, !.error = FALSE]
    IN /\ vm[v] # NoRow /\ Free(v)
       /\ \/ vm[v].resource # None /\ HostChecked(v, reset)
          \/ \E late \in BOOLEAN : Writes(v, [reset EXCEPT !.error = late]) /\ UNCHANGED proxy
       /\ UNCHANGED <<lock, job, refresh, op, external, deaths>>

InstallSuiteApp(v) ==
    /\ vm[v] # NoRow /\ Free(v)
    /\ Writes(v, IF vm[v].app = "Failed" THEN ResetInstall([vm[v] EXCEPT !.error = FALSE]) ELSE vm[v])
    /\ job' = [job EXCEPT ![v] = Enqueued(v)]
    /\ UNCHANGED <<lock, proxy, refresh, op, external, deaths>>

\* Terminate, of a server without sites; that no site is placed on it is placement's.
Terminate(v) ==
    /\ vm[v].resource # None /\ Free(v)
    /\ server' = [server EXCEPT ![vm[v].resource] = "gone"]
    /\ UNCHANGED <<vm, lock, job, proxy, refresh, op, creation, pilot, deaths>>

----------------------------------------------------------------------------
(* Central and Pilot *)

CentralDecides(a) ==
    /\ creation[a] = "pending"
    /\ \/ /\ creation' = [creation EXCEPT ![a] = "accepted"]
          /\ server' = [server EXCEPT ![a] = "Provisioning"]
       \/ /\ creation' = [creation EXCEPT ![a] = "failed"]
          /\ UNCHANGED server
    /\ UNCHANGED <<vm, lock, job, proxy, refresh, op, pilot, deaths>>

ServerBoots(a) ==
    /\ server[a] = "Provisioning"
    /\ server' = [server EXCEPT ![a] = "Running"]
    /\ UNCHANGED <<vm, lock, job, proxy, refresh, op, creation, pilot, deaths>>

\* Stopped, started or terminated from Central's dashboard.
ServerChanges(a, status) ==
    /\ server[a] \in {"Running", "Stopped"} /\ status \in {"Running", "Stopped", "gone"} \ {server[a]}
    /\ server' = [server EXCEPT ![a] = status]
    /\ UNCHANGED <<vm, lock, job, proxy, refresh, op, creation, pilot, deaths>>

PilotFinishes(a) ==
    /\ pilot[a].task = "running"
    /\ \E app \in BOOLEAN, task \in {"success", "failed"} :
         /\ app => task = "success"
         /\ pilot' = [pilot EXCEPT ![a].task = task, ![a].app = app]
    /\ UNCHANGED <<vm, lock, job, proxy, refresh, op, creation, server, deaths>>

----------------------------------------------------------------------------
(* Specification *)

Next ==
    \/ \E v \in Machines : Insert(v)
    \/ \E v \in Machines : JobStart(v)
    \/ \E v \in Machines : JobAdvances(v)
    \/ \E v \in Machines : StepWaits(v)
    \/ \E v \in Machines : StepStops(v)
    \/ \E v, a \in Machines : CreateLost(v, a)
    \/ \E v \in Machines : InstallLost(v)
    \/ \E v \in Machines : JobDies(v)
    \/ \E v \in Machines : JobExit(v)
    \/ \E missing \in Refreshes : RefreshReads(missing)
    \/ RefreshRegistry
    \/ RefreshWrites
    \/ \E o \in Operators, v \in Machines : RetryReads(o, v)
    \/ \E o \in Operators : RetryWrites(o)
    \/ \E o \in Operators : RetryRejected(o)
    \/ \E o \in Operators, v \in Machines : VerifyHost(v)
    \/ \E o \in Operators, v \in Machines : InstallSuiteApp(v)
    \/ \E o \in Operators, v \in Machines : Terminate(v)
    \/ \E a \in Machines : CentralDecides(a)
    \/ \E a \in Machines : ServerBoots(a)
    \/ \E a \in Machines, status \in ServerStatus : ServerChanges(a, status)
    \/ \E a \in Machines : PilotFinishes(a)

Spec == Init /\ [][Next]_vars

\* What may go wrong at any time but does not go wrong for ever: an answer that does not come, a
\* worker that dies, a server stopped or ended by hand, an operator's button.
Unlucky(v) ==
    \/ StepWaits(v) \/ JobDies(v) \/ InstallLost(v) \/ \E a \in Machines : CreateLost(v, a)
    \/ \E status \in ServerStatus : ServerChanges(v, status)
    \/ \E o \in Operators :
         RetryReads(o, v) \/ RetryWrites(o) \/ RetryRejected(o)
         \/ VerifyHost(v) \/ InstallSuiteApp(v) \/ Terminate(v)

\* Workers take what is queued, a job's steps go on, or meet the deadline for Pilot, and a finished
\* job leaves RQ; the sync runs daily, between the other refreshes (strong fairness); Central
\* decides and boots, and a Pilot task ends; and the bad luck ends.
Fairness ==
    /\ WF_vars(RefreshRegistry \/ RefreshWrites) /\ SF_vars(RefreshReads(TRUE))
    /\ \A v \in Machines :
         /\ WF_vars(JobStart(v) \/ JobExit(v) \/ JobAdvances(v) \/ (job[v].at = "verify" /\ StepStops(v)))
         /\ WF_vars(CentralDecides(v) \/ ServerBoots(v)) /\ WF_vars(PilotFinishes(v))
         /\ <>[][~Unlucky(v)]_vars

FairSpec == Spec /\ Fairness

----------------------------------------------------------------------------
(* Properties *)

\* The daily sync ends only servers that Central no longer has: one accepted while the registry
\* is read, retried or set up meanwhile is kept (refresh_fleet, "Read before the registry").
EndedIsGone ==
    \A v \in Machines : vm[v].status = "Terminated" =>
        vm[v].resource # None /\ ServerOf(vm[v]) = "gone"

\* A server takes sites only with the Suite app on it and under the region's one zone, whatever
\* answers were lost and whichever job, refresh and operator wrote the row (host_problem,
\* install_suite, is_ready).
ReadyIsSetUp ==
    \A v \in Machines : IsReady(vm[v]) => PilotOf(vm[v]).app /\ PilotOf(vm[v]).zone = proxy

\* A server on its way gets ready, shows an error, or is not on its way any more, though jobs are
\* lost and answers time out (refresh_fleet, "unfinished ones are driven on"); a server that is
\* stopped on Central is the one thing it waits for.
MachineSettles ==
    \A v \in Machines : IsBuilding(vm[v]) ~>
        \/ ~IsBuilding(vm[v])
        \/ vm[v].resource # None /\ ServerOf(vm[v]) = "Stopped"
=============================================================================
