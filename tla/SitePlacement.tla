--------------------------- MODULE SitePlacement ---------------------------
(***************************************************************************)
(* Where the sites of one region go: claims that take a ready site or make *)
(* a new one, the cron job that fills the pool, the setup jobs that place  *)
(* sites still waiting for a server, and the servers added for them        *)
(* (hosting/capacity.py, sites.py, suite_site.py, virtual_machine.py).     *)
(*                                                                         *)
(* A placement locks the servers in name order and counts with the         *)
(* snapshot of its transaction. A claim and the pool have read before they *)
(* lock; a setup job reads first behind its locks. No index serves the     *)
(* locking read, so it locks every row, running or not, and the gap that a *)
(* new row would go to, until the commit. A site's further life is in      *)
(* SiteLifecycle, a server's in VirtualMachines; foreign sites and the     *)
(* sizes of servers are not modelled.                                      *)
(***************************************************************************)
EXTENDS Integers, FiniteSets, FiniteSetsExt

CONSTANTS
    Sites,
    Claims,         \* create_hosted_site and process_request, each for its own tenant
    Pool,           \* ensure_site_pool
    None,
    MaxServers,     \* bound: servers, in the order of their names
    MaxSites,       \* max_sites of a server
    ReadySites,     \* ready_sites_per_region
    MinFree,        \* min_free_site_slots
    AutoCreate,     \* auto_create_vms
    MaxFaults       \* bound: drops, workers that die, servers that fail and calls refused

Servers == 1 .. MaxServers
Placers == Claims \cup {Pool} \cup Sites   \* a site stands for its setup job

VARIABLES
    site,     \* the Suite Site rows: status, server (0 where none) and tenant
    server,   \* the Virtual Machine rows
    lock,     \* who holds each server's row for update
    placer,   \* each process: what it sees, the servers it passed, what it wrote so far
    adding,   \* ensure_capacity found too few slots and asks Central
    late,     \* history: servers that a claim or the pool took from a count that was out of date
    faults

vars == <<site, server, lock, placer, adding, late, faults>>

\* A Pending site may be in its creation; Assigned stands for every status of a tenant's site.
Site == [status: {"none", "Pending", "Ready", "Assigned", "Failed", "Dropped"},
         vm: Servers \cup {0}, tenant: Claims \cup {None}]

NoSite == [status |-> "none", vm |-> 0, tenant |-> None]

NewSite(vm, tenant) == [status |-> "Pending", vm |-> vm, tenant |-> tenant]

Now == [site |-> site, server |-> server]
NoView == [site |-> [s \in Sites |-> NoSite], server |-> [v \in Servers |-> "none"]]
Idle == [at |-> "idle", view |-> NoView, last |-> 0, pick |-> 0, made |-> {}]
Done == [Idle EXCEPT !.at = "done"]

----------------------------------------------------------------------------
(* Counting *)

site_count(view, v) == Cardinality({s \in Sites : view.site[s].vm = v /\ view.site[s].status # "Dropped"})

free_slots(view, v) == MaxSites - site_count(view, v)

Building(view) == {v \in Servers : view.server[v] = "building"}

Waiting(view) == {s \in Sites : view.site[s].status = "Pending" /\ view.site[s].vm = 0}

\* POOLED_STATUSES without a tenant.
Pooled(view) == {s \in Sites : view.site[s].status \in {"Pending", "Ready"} /\ view.site[s].tenant = None}

\* Not the code: sites that wait for a server are not counted.
RegionSlotsAll(view) ==
    MapThenSumSet(LAMBDA v : CASE view.server[v] = "ready" -> Max({free_slots(view, v), 0})
                               [] view.server[v] = "building" -> MaxSites
                               [] OTHER -> 0, Servers)

\* free_slots of the region: of ready servers and of those being built, less the sites that wait.
RegionSlots(view) ==
    MapThenSumSet(LAMBDA v : CASE view.server[v] = "ready" -> Max({free_slots(view, v), 0})
                               [] view.server[v] = "building" -> MaxSites
                               [] OTHER -> 0, Servers) - Cardinality(Waiting(view))

Short(view) == RegionSlots(view) < MinFree

\* The server with most free slots, the first of several; 0 when none has room.
Best(view, held) ==
    LET fits == {v \in held : view.server[v] = "ready" /\ free_slots(view, v) > 0}
    IN  IF fits = {} THEN 0
        ELSE Min({v \in fits : \A w \in fits : free_slots(view, w) <= free_slots(view, v)})

----------------------------------------------------------------------------
(* Locking *)

Held(p) == {v \in Servers : lock[v] = p}
Unlocked(p) == [v \in Servers |-> IF lock[v] = p THEN None ELSE lock[v]]

\* The rows that the locking read has not come to.
Ahead(p) == {v \in Servers : v > placer[p].last /\ server[v] # "none"}

\* Not the code: the servers are read without a lock.
LockNothing(p) ==
    /\ placer[p].at = "lock" /\ Ahead(p) # {}
    /\ placer' = [placer EXCEPT ![p].last = Min(Ahead(p))]
    /\ UNCHANGED <<site, server, lock, adding, late, faults>>

\* pick_virtual_machine locks one server after the other.
LockNext(p) ==
    /\ placer[p].at = "lock" /\ Ahead(p) # {}
    /\ lock[Min(Ahead(p))] \in {None, p}
    /\ lock' = [lock EXCEPT ![Min(Ahead(p))] = p]
    /\ placer' = [placer EXCEPT ![p].last = Min(Ahead(p))]
    /\ UNCHANGED <<site, server, adding, late, faults>>

Locked(p) == placer[p].at = "lock" /\ Ahead(p) = {}

\* The running servers, which the locking read returns.
Returned(p) == {v \in Servers : v <= placer[p].last /\ server[v] = "ready"}

\* History: p takes a slot of v and does not see all its sites.
Overlooks(p, v) == v # 0 /\ site_count(placer[p].view, v) < site_count(Now, v)

Unused == {s \in Sites : site[s].status = "none"} \ placer[Pool].made

\* The bound on sites: there is one for every claim under way, and one more.
Room == Cardinality(Unused) > Cardinality({c \in Claims : placer[c].at \in {"claim", "lock"}})

Unbuilt == {v \in Servers : server[v] = "none"}

AddServer(p) ==
    /\ \A v \in Servers : lock[v] \in {None, p}
    /\ server' = [server EXCEPT ![Min(Unbuilt)] = "building"]

----------------------------------------------------------------------------
(* claim_site *)

\* What create_hosted_site and process_request read before.
ClaimReads(c) ==
    /\ placer[c].at = "idle" /\ Room
    /\ placer' = [placer EXCEPT ![c].at = "claim", ![c].view = Now]
    /\ UNCHANGED <<site, server, lock, adding, late, faults>>

\* The locking read skips a site that its setup job has locked.
Claimable == {s \in Sites : site[s].status = "Ready" /\ site[s].tenant = None /\ placer[s].at = "idle"}

ClaimReady(c, s) ==
    /\ placer[c].at = "claim" /\ s \in Claimable
    /\ site' = [site EXCEPT ![s].tenant = c, ![s].status = "Assigned"]
    /\ placer' = [placer EXCEPT ![c] = Done]
    /\ UNCHANGED <<server, lock, adding, late, faults>>

ClaimNew(c) ==
    /\ placer[c].at = "claim" /\ Claimable = {}
    /\ placer' = [placer EXCEPT ![c].at = "lock"]
    /\ UNCHANGED <<site, server, lock, adding, late, faults>>

\* before_insert places the site, or leaves it waiting; then a server is added, unless one is coming.
ClaimPlaces(c) ==
    /\ Locked(c)
    /\ LET view == placer[c].view
           vm == Best(view, Returned(c))
           s == CHOOSE x \in Unused : TRUE
           seen == [view EXCEPT !.site[s] = NewSite(vm, c)]
       IN  /\ site' = [site EXCEPT ![s] = NewSite(vm, c)]
           /\ IF vm = 0 /\ AutoCreate /\ Building(view) = {} /\ Short(seen) /\ Unbuilt # {}
              THEN AddServer(c) ELSE UNCHANGED server
           /\ late' = IF Overlooks(c, vm) THEN late \cup {vm} ELSE late
    /\ lock' = Unlocked(c)
    /\ placer' = [placer EXCEPT ![c] = Done]
    /\ UNCHANGED <<adding, faults>>

----------------------------------------------------------------------------
(* ensure_site_pool *)

FillReads ==
    /\ placer[Pool].at = "idle" /\ Cardinality(Pooled(Now)) < ReadySites
    /\ placer' = [placer EXCEPT ![Pool].at = "lock", ![Pool].view = Now]
    /\ UNCHANGED <<site, server, lock, adding, late, faults>>

\* One more site, and the next placement, which sees it; a region without room ends the loop.
FillPlaces ==
    /\ Locked(Pool)
    /\ LET view == placer[Pool].view
           vm == Best(view, Returned(Pool))
           s == CHOOSE x \in Unused : TRUE
           seen == [view EXCEPT !.site[s] = NewSite(vm, None)]
       IN  IF vm = 0 \/ ~Room
           THEN placer' = [placer EXCEPT ![Pool].at = "save"] /\ UNCHANGED late
           ELSE /\ placer' = [placer EXCEPT
                      ![Pool].at = IF Cardinality(Pooled(seen)) < ReadySites THEN "lock" ELSE "save",
                      ![Pool].view = seen, ![Pool].made = @ \cup {s}, ![Pool].last = 0]
                /\ late' = IF Overlooks(Pool, vm) THEN late \cup {vm} ELSE late
    /\ UNCHANGED <<site, server, lock, adding, faults>>

FillSaves ==
    /\ placer[Pool].at = "save"
    /\ site' = [s \in Sites |-> IF s \in placer[Pool].made THEN placer[Pool].view.site[s] ELSE site[s]]
    /\ lock' = Unlocked(Pool)
    /\ placer' = [placer EXCEPT ![Pool] = Idle]
    /\ UNCHANGED <<server, adding, late, faults>>

----------------------------------------------------------------------------
(* The setup job of a site that waits for a server *)

\* poll_pending_sites; the job holds the site's row.
SetupStarts(s) ==
    /\ placer[s].at = "idle" /\ s \in Waiting(Now)
    /\ placer' = [placer EXCEPT ![s].at = "lock"]
    /\ UNCHANGED <<site, server, lock, adding, late, faults>>

\* Its first plain read comes after the locks. Without room it says so and is polled again.
SetupPicks(s) ==
    /\ Locked(s)
    /\ LET vm == Best(Now, Returned(s))
       IN  IF vm = 0 THEN placer' = [placer EXCEPT ![s] = Idle] /\ lock' = Unlocked(s)
           ELSE placer' = [placer EXCEPT ![s].at = "save", ![s].pick = vm] /\ UNCHANGED lock
    /\ UNCHANGED <<site, server, adding, late, faults>>

\* Committed once Pilot answered.
SetupSaves(s) ==
    /\ placer[s].at = "save"
    /\ site' = [site EXCEPT ![s].vm = placer[s].pick]
    /\ lock' = Unlocked(s)
    /\ placer' = [placer EXCEPT ![s] = Idle]
    /\ UNCHANGED <<server, adding, late, faults>>

\* Pilot refuses: the step is undone and the site fails, with no server.
SetupFails(s) ==
    /\ placer[s].at = "save" /\ faults < MaxFaults
    /\ faults' = faults + 1
    /\ site' = [site EXCEPT ![s].status = "Failed"]
    /\ lock' = Unlocked(s)
    /\ placer' = [placer EXCEPT ![s] = Idle]
    /\ UNCHANGED <<server, adding, late>>

\* The worker dies, or a claim's call to Central fails: the transaction goes with it.
PlacerDies(p) ==
    /\ placer[p].at \in {"claim", "lock", "save"} /\ faults < MaxFaults
    /\ faults' = faults + 1
    /\ lock' = Unlocked(p)
    /\ placer' = [placer EXCEPT ![p] = Idle]
    /\ UNCHANGED <<site, server, adding, late>>

----------------------------------------------------------------------------
(* ensure_capacity *)

CapacityReads ==
    /\ ~adding /\ AutoCreate /\ Short(Now)
    /\ adding' = TRUE
    /\ UNCHANGED <<site, server, lock, placer, late, faults>>

CapacityAdds ==
    /\ adding /\ Unbuilt # {}
    /\ AddServer(None)
    /\ adding' = FALSE
    /\ UNCHANGED <<site, lock, placer, late, faults>>

\* Central does not answer.
CapacityFails ==
    /\ adding /\ faults < MaxFaults
    /\ adding' = FALSE /\ faults' = faults + 1
    /\ UNCHANGED <<site, server, lock, placer, late>>

----------------------------------------------------------------------------
(* Servers and sites go their way *)

ServerReady(v) ==
    /\ server[v] = "building" /\ lock[v] = None
    /\ server' = [server EXCEPT ![v] = "ready"]
    /\ UNCHANGED <<site, lock, placer, adding, late, faults>>

\* It shows an error, or an operator decommissions it.
ServerOut(v) ==
    /\ server[v] \in {"building", "ready"} /\ lock[v] = None /\ faults < MaxFaults
    /\ server' = [server EXCEPT ![v] = "out"]
    /\ faults' = faults + 1
    /\ UNCHANGED <<site, lock, placer, adding, late>>

SiteCreated(s) ==
    /\ site[s].status = "Pending" /\ site[s].vm # 0 /\ placer[s].at = "idle"
    /\ site' = [site EXCEPT ![s].status = IF site[s].tenant = None THEN "Ready" ELSE "Assigned"]
    /\ UNCHANGED <<server, lock, placer, adding, late, faults>>

\* Its slot and its label are free again.
SiteDropped(s) ==
    /\ site[s].status \notin {"none", "Dropped"} /\ placer[s].at = "idle" /\ faults < MaxFaults
    /\ site' = [site EXCEPT ![s].status = "Dropped"]
    /\ faults' = faults + 1
    /\ UNCHANGED <<server, lock, placer, adding, late>>

----------------------------------------------------------------------------
Init ==
    /\ site = [s \in Sites |-> NoSite]
    /\ server \in {[v \in Servers |-> IF v = 1 THEN first ELSE "none"] : first \in {"none", "ready"}}
    /\ lock = [v \in Servers |-> None]
    /\ placer = [p \in Placers |-> Idle]
    /\ adding = FALSE /\ late = {} /\ faults = 0

ClaimStep(c) == ClaimNew(c) \/ ClaimPlaces(c) \/ \E s \in Sites : ClaimReady(c, s)
FillStep == FillPlaces \/ FillSaves
SetupStep(s) == SetupPicks(s) \/ SetupSaves(s)

Next ==
    \/ \E c \in Claims : ClaimReads(c) \/ ClaimStep(c)
    \/ FillReads \/ FillStep
    \/ \E s \in Sites :
          SetupStarts(s) \/ SetupStep(s) \/ SetupFails(s) \/ SiteCreated(s) \/ SiteDropped(s)
    \/ \E p \in Placers : LockNext(p) \/ PlacerDies(p)
    \/ CapacityReads \/ CapacityAdds \/ CapacityFails
    \/ \E v \in Servers : ServerReady(v) \/ ServerOut(v)

Spec == Init /\ [][Next]_vars

\* The poller, the hourly job, running transactions and Central go on; a setup job, a new server and
\* the news of a server get their turn at the rows they wait for.
Fairness ==
    /\ \A p \in Claims \cup {Pool} : WF_vars(LockNext(p))
    /\ \A c \in Claims : WF_vars(ClaimStep(c))
    /\ WF_vars(FillStep)
    /\ \A s \in Sites : SF_vars(LockNext(s)) /\ WF_vars(SetupStarts(s) \/ SetupStep(s))
    /\ WF_vars(CapacityReads) /\ SF_vars(CapacityAdds)
    /\ \A v \in Servers : SF_vars(ServerReady(v))

FairSpec == Spec /\ Fairness

----------------------------------------------------------------------------
\* No server has more sites than it takes, over setup jobs, claims, the pool and drops at once,
\* unless a claim or the pool counted before another placement committed (pick_virtual_machine).
ServersNotOverfull == \A v \in Servers \ late : free_slots(Now, v) >= 0

\* A site that waits for a server gets one, or an error, whatever others take the free slots:
\* servers are added until there is room, and no order of locks keeps everyone waiting (free_slots,
\* pick_virtual_machine). Excused once the bound on servers is reached.
WaitingIsPlaced == \A s \in Sites : s \in Waiting(Now) ~> (s \notin Waiting(Now) \/ Unbuilt = {})

\* pick_virtual_machine: "Every candidate is locked before its slots are counted, so a second
\* placement counts only once the first one is saved."
PlacementsCountSaved == late = {}
=============================================================================
