----------------------------- MODULE MCServers -----------------------------
(* The servers: the nodes of a cluster with their jobs (ClusterNodes,      *)
(* extended here), a Server Job under every fault and a Virtual Machine,   *)
(* instantiated. They share no variable; a behaviour exercises the one its *)
(* part names.                                                             *)
EXTENDS ClusterNodes

CONSTANTS
    Parts,                              \* the parts a run exercises
    JobServers, JobWorkers, Retrying, JobMax, JobRetries, JobFailures, JobDeaths,
    Machines, Zones, MachineOperators, Refreshes, MachineDeaths, PairDeaths

ASSUME SingleConstants ==
    /\ None \notin JobServers /\ Cron \notin Retrying
    /\ JobMax \in Nat /\ JobRetries \in Nat /\ JobFailures \in Nat /\ JobDeaths \in Nat

ASSUME FleetConstants ==
    /\ Machines # {} /\ Zones # {} /\ None \notin Machines \cup Zones
    /\ Refreshes \subseteq BOOLEAN /\ MachineDeaths \in Nat /\ PairDeaths \in Nat

VARIABLES
    part,
    row, rqStatus, queued, runner, caller, rows, failed, auto, collision, died,
    vm, held, setup, proxy, refresh, op, creation, server, pilot, lost

Single == INSTANCE ServerJobs WITH
    Servers <- JobServers, Workers <- JobWorkers, Operators <- Retrying, MaxJobs <- JobMax, MaxRetries <- JobRetries,
    MaxFailures <- JobFailures, MaxDeaths <- JobDeaths,
    job <- row, rq <- rqStatus, queue <- queued, worker <- runner, retryer <- caller, alive <- rows,
    failures <- failed, automatic <- auto, collided <- collision, deaths <- died

Lone == CHOOSE v \in Machines : TRUE

\* One server with an operator and the daily sync, or two without.
Machine == INSTANCE VirtualMachines WITH
    Machines <- {Lone}, Zones <- {CHOOSE z \in Zones : TRUE},
    Operators <- MachineOperators, MaxDeaths <- MachineDeaths, lock <- held, job <- setup, deaths <- lost

Pair == INSTANCE VirtualMachines WITH
    Operators <- {}, Refreshes <- {}, MaxDeaths <- PairDeaths, lock <- held, job <- setup, deaths <- lost

single == <<row, rqStatus, queued, runner, caller, rows, failed, auto, collision, died>>
machine == <<vm, held, setup, proxy, refresh, op, creation, server, pilot, lost>>
all == <<part, vars, single, machine>>

MCInit ==
    /\ part \in Parts
    /\ Init /\ (part # "nodes" => alive = Servers /\ cluster = NewCluster(FALSE))
    /\ Single!JobInit /\ (part # "job" => rows = JobServers)
    /\ IF part = "pair" THEN Pair!Init ELSE Machine!Init

MCNext ==
    \/ part = "nodes" /\ Next /\ UNCHANGED <<part, single, machine>>
    \/ part = "job" /\ Single!JobNext /\ UNCHANGED <<part, vars, machine>>
    \/ part = "machine" /\ Machine!Next /\ UNCHANGED <<part, vars, single>>
    \/ part = "pair" /\ Pair!Next /\ UNCHANGED <<part, vars, single>>

MCSpec == MCInit /\ [][MCNext]_all

\* Of ClusterNodes' fairness, the poller's for one node: the others' settling is not needed for
\* its own.
Watched == CHOOSE n \in Servers : TRUE

\* The strong fairness of the parts. A part never changes, so that one formula over the
\* alternatives says of each what its own would. With the one job of these runs, weak fairness is
\* enough for the workers that take it.
StrongFairness ==
    SF_all(\/ part = "nodes" /\ CheckReads(Poll, Watched) /\ UNCHANGED <<part, single, machine>>
           \/ part = "machine" /\ Machine!RefreshReads(TRUE) /\ UNCHANGED <<part, vars, single>>
           \/ /\ part = "job" /\ \E j \in Single!Jobs : Single!CronReads(j) \/ Single!CronReadsPending(j)
              /\ UNCHANGED <<part, vars, machine>>)

NodeFairness ==
    /\ WF_vars(part = "nodes" /\ (CheckConfirms(Poll) \/ CheckExpires(Poll) \/ CheckChangesNothing(Poll)))
    /\ <>[][~Undecided]_vars

JobsFairness ==
    /\ \A w \in JobWorkers : WF_single(part = "job" /\ Single!WorkerStep(w))
    /\ \A j \in Single!Jobs :
         /\ WF_single(part = "job" /\ \E w \in JobWorkers : Single!Take(w, j))
         /\ WF_single(part = "job" /\ Single!RqCleansUp(j))
    /\ \A r \in Single!Retryers : WF_single(part = "job" /\ Single!RetryerStep(r))

MachineFairness ==
    /\ WF_machine(part = "machine" /\ (Machine!RefreshRegistry \/ Machine!RefreshWrites))
    /\ WF_machine(part = "machine" /\ (Machine!JobStart(Lone) \/ Machine!JobExit(Lone) \/ Machine!JobAdvances(Lone)
                                          \/ (setup[Lone].at = "verify" /\ Machine!StepStops(Lone))))
    /\ WF_machine(part = "machine" /\ (Machine!CentralDecides(Lone) \/ Machine!ServerBoots(Lone)))
    /\ WF_machine(part = "machine" /\ Machine!PilotFinishes(Lone))
    /\ <>[][~Machine!Unlucky(Lone)]_machine

MCFairSpec == MCSpec /\ StrongFairness /\ NodeFairness /\ JobsFairness /\ MachineFairness

\* The playbook of a Server Job never runs twice at once, and the cron starts it again at most
\* max_retries times, whichever worker died and whoever else retries it (enqueue,
\* retry_failed_jobs): of the nodes' jobs and of a job under every fault.
JobRunsAsAllowed ==
    /\ OneRunAtATime /\ AutomaticRetriesBounded
    /\ Single!OneRunAtATime /\ Single!AutomaticRetriesBounded

\* The daily sync ends only servers that Central no longer has, also one that is accepted, retried
\* or set up while the registry is read (refresh_fleet).
EndedIsGone == part = "machine" => Machine!EndedIsGone

\* A server takes sites only when it is set up, in the one zone of its region, also when two first
\* servers of a region are verified at once (is_ready, learn_proxy_zone).
ReadyIsSetUp == (part = "machine" => Machine!ReadyIsSetUp) /\ (part = "pair" => Pair!ReadyIsSetUp)

\* The node whose checks are fair, if it waits for Stalwart in an Active cluster, is activated,
\* failed or taken out of service in the end (check_node, poll_pending_nodes).
NodeSettles == Settles(Watched)

\* A job that is queued or runs ends as Success or Failed, unless a newer one supersedes it,
\* although a retry may find the old run still listed by RQ (retry_failed_jobs, enqueue).
JobsEnd == Single!JobsSettle

\* A server on its way gets ready, shows an error or waits for a stopped server only, although
\* jobs are lost and answers time out (refresh_fleet).
MachineSettles == Machine!MachineSettles
=============================================================================
