--------------------------- MODULE ClusterConfig ---------------------------
(***************************************************************************)
(* How a desk change reaches a running cluster: the queued push and its    *)
(* pending mark, the push lock, the pushes that read before they wait for  *)
(* it, and what a plan switches on: the objects that send the servers'     *)
(* Suite Cloud tokens, once every running node has its own, and the milter *)
(* of the outbound scan, once every one has its scanner                    *)
(* (mail/cluster/push.py, StalwartCluster, telemetry/install.py).          *)
(*                                                                         *)
(* A plan is what the properties tell apart of it: the desk changes it     *)
(* holds and its switches.  Transactions read a snapshot.                  *)
(***************************************************************************)
EXTENDS Naturals, FiniteSets

CONSTANTS
    Nodes,      \* Stalwart Nodes of one active cluster
    Workers,    \* processes that serve the long queue
    Users,      \* web processes of Sync Config
    Free,       \* nobody holds the push lock
    MaxClock,   \* bound: commits that a plan depends on
    MaxFaults   \* bound: pushes refused, processes that die, locks and marks that expire

ASSUME ConfigConstants ==
    /\ Free \notin Workers \cup Users /\ Workers \cap Users = {}
    /\ MaxClock \in Nat /\ MaxFaults \in Nat

Pushers == Workers \cup Users

Installs == {"token", "scanner"}

Running == {"Provisioned", "Active", "Draining"}

VARIABLES
    node,     \* status of each node, and what is marked installed on it
    set,      \* Enable Telemetry, its last turn, and whether the outbound scan is on
    clock,    \* commits that a plan depends on, so far
    desk,     \* the desk changes committed, as the clock of the last one
    applied,  \* the plan the cluster runs with
    mark,     \* the pending mark in Redis
    queue,    \* queued jobs of each kind
    lock,     \* holder of the push lock
    pusher,   \* what each process is doing, with the plan it has rendered
    turn,     \* ROLL_OUT_KEY: the turn that was rolled out last
    newest,   \* history: the latest snapshot applied so far
    lost,     \* history: a push failed or was lost, and no plan of all commits followed
    faults    \* failures so far

vars == <<node, set, clock, desk, applied, mark, queue, lock, pusher, turn, newest, lost, faults>>

Plan == [at: Nat, desk: Nat, hook: BOOLEAN, push: BOOLEAN, milter: BOOLEAN]

Kinds == {"resync", "start", "rollout"}

Pusher == [at: {"idle", "waiting", "locked", "applied"}, kind: Kinds \cup {"button"}, plan: Plan, turn: Nat]

----------------------------------------------------------------------------
(* The plan *)

\* has_every_token and has_every_scanner look for one of these.
Lacking(what) == {n \in Nodes : node[n].status \in Running /\ what \notin node[n].has}

\* hook_operation: the sending-limit hook.
HookOn == Lacking("token") = {}

\* is_push_enabled: WebHooks and the metrics push.
PushOn == set.telemetry /\ Lacking("token") = {}

\* is_scan_enabled.
MilterOn == set.scan /\ Lacking("scanner") = {}

\* cluster_plan, from what is committed now.
ClusterPlan == [at |-> clock, desk |-> desk, hook |-> HookOn, push |-> PushOn, milter |-> MilterOn]

Idle == [at |-> "idle", kind |-> "resync", plan |-> [at |-> 0, desk |-> 0, hook |-> FALSE, push |-> FALSE, milter |-> FALSE],
         turn |-> 0]

Ticks == clock < MaxClock /\ clock' = clock + 1

Faulty == faults < MaxFaults /\ faults' = faults + 1

----------------------------------------------------------------------------
(* Desk changes *)

\* queue_cluster_push, after the commit: one waiting push per cluster.
QueuePush ==
    IF mark THEN UNCHANGED <<mark, queue>>
    ELSE mark' = TRUE /\ queue' = [queue EXCEPT !["resync"] = @ + 1]

\* The callback after the commit runs, or its process died before it.
QueuesOrDies ==
    \/ QueuePush /\ UNCHANGED <<lost, faults>>
    \/ Faulty /\ lost' = TRUE /\ UNCHANGED <<mark, queue>>

\* A save that calls resync_cluster_after_commit.
Change ==
    /\ Ticks
    /\ desk' = clock'
    /\ QueuesOrDies
    /\ UNCHANGED <<node, set, applied, lock, pusher, turn, newest>>

\* apply_outbound_scan_change: Off is in the plan.
ToggleScan ==
    /\ Ticks
    /\ set' = [set EXCEPT !.scan = ~@]
    /\ QueuesOrDies
    /\ UNCHANGED <<node, desk, applied, lock, pusher, turn, newest>>

\* enqueue_roll_out_telemetry, after commit.
ToggleTelemetry ==
    /\ Ticks
    /\ set' = [set EXCEPT !.telemetry = ~@, !.turn = @ + 1]
    /\ queue' = [queue EXCEPT !["rollout"] = @ + 1]
    /\ UNCHANGED <<node, desk, applied, mark, lock, pusher, turn, newest, lost, faults>>

----------------------------------------------------------------------------
(* Pushes *)

Sets(p, r) == pusher' = [pusher EXCEPT ![p] = r]

\* Mutant of TakeResync: the mark is left for its TTL.
TakeResyncKeepsMark(p) ==
    /\ queue["resync"] > 0
    /\ queue' = [queue EXCEPT !["resync"] = @ - 1]
    /\ Sets(p, [Idle EXCEPT !.at = "waiting"])
    /\ UNCHANGED <<mark, turn>>

\* resync_cluster_job clears the mark before it waits, and reads nothing yet.
TakeResync(p) ==
    /\ queue["resync"] > 0
    /\ queue' = [queue EXCEPT !["resync"] = @ - 1]
    /\ mark' = FALSE
    /\ Sets(p, [Idle EXCEPT !.at = "waiting"])
    /\ UNCHANGED turn

\* start_push_job reads its cluster first, then waits.
TakeStart(p) ==
    /\ queue["start"] > 0
    /\ queue' = [queue EXCEPT !["start"] = @ - 1]
    /\ Sets(p, [Idle EXCEPT !.at = "waiting", !.kind = "start", !.plan = ClusterPlan])
    /\ UNCHANGED <<mark, turn>>

\* roll_out_telemetry, under its lock: nothing for a turn already rolled out, a queued push while
\* telemetry is off, a push of its own when every token is there, else a token job for each node
\* (Mark).
TakeRollOut(p) ==
    LET took == [queue EXCEPT !["rollout"] = @ - 1] IN
      /\ queue["rollout"] > 0
      /\ \A q \in Workers : pusher[q].at # "idle" => pusher[q].kind # "rollout"
      /\ \/ /\ turn = set.turn
            /\ queue' = took
            /\ UNCHANGED <<mark, pusher, turn>>
         \/ /\ turn # set.turn /\ ~set.telemetry
            /\ mark' = TRUE
            /\ queue' = [took EXCEPT !["resync"] = IF mark THEN @ ELSE @ + 1]
            /\ turn' = set.turn
            /\ UNCHANGED pusher
         \/ /\ turn # set.turn /\ PushOn
            /\ queue' = took
            /\ Sets(p, [at |-> "waiting", kind |-> "rollout", plan |-> ClusterPlan, turn |-> set.turn])
            /\ UNCHANGED <<mark, turn>>
         \/ /\ turn # set.turn /\ set.telemetry /\ ~PushOn
            /\ queue' = took
            /\ turn' = set.turn
            /\ UNCHANGED <<mark, pusher>>

Take(p) ==
    /\ pusher[p].at = "idle"
    /\ TakeResync(p) \/ TakeStart(p) \/ TakeRollOut(p)
    /\ UNCHANGED <<node, set, clock, desk, applied, lock, newest, lost, faults>>

\* Sync Config: the form's document is loaded, then the lock is waited for.
SyncConfig(u) ==
    /\ pusher[u].at = "idle"
    /\ Sets(u, [Idle EXCEPT !.at = "waiting", !.kind = "button", !.plan = ClusterPlan])
    /\ UNCHANGED <<node, set, clock, desk, applied, mark, queue, lock, turn, newest, lost, faults>>

\* push_lock is acquired; a queued push starts its transaction now.
Acquire(p) ==
    /\ pusher[p].at = "waiting" /\ lock = Free
    /\ lock' = p
    /\ Sets(p, [pusher[p] EXCEPT !.at = "locked", !.plan = IF pusher[p].kind = "resync" THEN ClusterPlan ELSE @])
    /\ UNCHANGED <<node, set, clock, desk, applied, mark, queue, turn, newest, lost, faults>>

Released(p) == lock' = IF lock = p THEN Free ELSE lock

\* A button's failure is its user's; any other leaves the cluster behind.
Fails(p) ==
    /\ Sets(p, Idle)
    /\ lost' = (lost \/ pusher[p].kind # "button")
    /\ turn' = IF pusher[p].kind = "rollout" THEN pusher[p].turn ELSE turn

\* Another push holds the lock for too long.
GiveUp(p) ==
    /\ pusher[p].at = "waiting" /\ lock # Free
    /\ Faulty
    /\ Fails(p)
    /\ UNCHANGED <<node, set, clock, desk, applied, mark, queue, lock, newest>>

\* apply_config: the plan is applied and the settings are reloaded.
Apply(p) ==
    /\ pusher[p].at = "locked"
    /\ applied' = pusher[p].plan
    /\ newest' = IF pusher[p].plan.at > newest THEN pusher[p].plan.at ELSE newest
    /\ lost' = (lost /\ pusher[p].plan.at < clock)
    /\ Sets(p, [pusher[p] EXCEPT !.at = "applied"])
    /\ UNCHANGED <<node, set, clock, desk, mark, queue, lock, turn, faults>>

\* The cluster refuses the plan, or does not answer.
ApplyFails(p) ==
    /\ pusher[p].at = "locked"
    /\ Faulty
    /\ Fails(p)
    /\ Released(p)
    /\ UNCHANGED <<node, set, clock, desk, applied, mark, queue, newest>>

\* The push returns and release_push_lock runs.
Finish(p) ==
    /\ pusher[p].at = "applied"
    /\ Sets(p, Idle)
    /\ Released(p)
    /\ turn' = IF pusher[p].kind = "rollout" THEN pusher[p].turn ELSE turn
    /\ UNCHANGED <<node, set, clock, desk, applied, mark, queue, newest, lost, faults>>

\* A worker dies; Redis drops its lock at the timeout (Expire).
Die(p) ==
    /\ pusher[p].at # "idle"
    /\ Faulty
    /\ Sets(p, Idle)
    /\ lost' = (lost \/ pusher[p].kind # "button")
    /\ UNCHANGED <<node, set, clock, desk, applied, mark, queue, lock, turn, newest>>

\* The lock outlives its timeout: the push that took it lost its turn, or its process died.
Expire ==
    /\ lock # Free
    /\ IF pusher[lock].at \in {"locked", "applied"} THEN Faulty ELSE UNCHANGED faults
    /\ lock' = Free
    /\ UNCHANGED <<node, set, clock, desk, applied, mark, queue, pusher, turn, newest, lost>>

\* PENDING_PUSH_TTL passed while the push still waits in the queue.
MarkExpires ==
    /\ mark
    /\ Faulty
    /\ mark' = FALSE
    /\ UNCHANGED <<node, set, clock, desk, applied, queue, lock, pusher, turn, newest, lost>>

----------------------------------------------------------------------------
(* Nodes and their installs *)

\* A Server Job passed that the roll-out, Install Suite Cloud Tokens, Install Outbound Scanners
\* or an upgrade created: mark_token_installed, mark_scanner_installed.  The last running node
\* without one starts the push, in a job of its own.
Mark(n, what) ==
    /\ Ticks
    /\ node[n].status \in Running
    /\ node' = [node EXCEPT ![n].has = @ \cup {what}]
    /\ IF Lacking(what) # {n} THEN UNCHANGED <<mark, queue>>
       ELSE IF what = "token" THEN queue' = [queue EXCEPT !["start"] = @ + 1] /\ UNCHANGED mark
       ELSE QueuePush
    /\ UNCHANGED <<set, desk, applied, lock, pusher, turn, newest, lost, faults>>

\* Mutant of ComesUp: the node runs before its installs are marked.
ComesUpUnmarked(n) == [status |-> "Provisioned", has |-> {}]

\* after_provision: both are marked while the node is not running yet.
ComesUp(n) == [status |-> "Provisioned", has |-> Installs]

\* The node's status, as ClusterNodes has it.
NodeMoves(n) ==
    /\ Ticks
    /\ \/ node[n].status = "off" /\ node' = [node EXCEPT ![n] = ComesUp(n)]
       \/ node[n].status = "Provisioned" /\ node' = [node EXCEPT ![n].status = "Active"]
       \/ node[n].status = "Active" /\ node' = [node EXCEPT ![n].status = "Draining"]
       \/ node[n].status \in Running /\ node' = [node EXCEPT ![n].status = "off"]
    /\ UNCHANGED <<set, desk, applied, mark, queue, lock, pusher, turn, newest, lost, faults>>

----------------------------------------------------------------------------

\* Nodes from before the tokens and the scanners run without.
Init ==
    /\ node \in [Nodes -> [status: {"off", "Active", "Draining"}, has: {{}}]]
    /\ set \in [telemetry: BOOLEAN, turn: {0}, scan: {FALSE}]
    /\ clock = 0 /\ desk = 0 /\ newest = 0 /\ turn = 0
    /\ applied = ClusterPlan
    /\ mark = FALSE /\ lost = FALSE
    /\ queue = [k \in Kinds |-> 0]
    /\ lock = Free
    /\ pusher = [p \in Pushers |-> Idle]
    /\ faults = 0

PusherSteps(p) == Acquire(p) \/ Apply(p) \/ Finish(p)

Next ==
    \/ Change \/ ToggleScan \/ ToggleTelemetry \/ Expire \/ MarkExpires
    \/ \E w \in Workers : Take(w)
    \/ \E u \in Users : SyncConfig(u)
    \/ \E p \in Pushers : PusherSteps(p) \/ GiveUp(p) \/ ApplyFails(p) \/ Die(p)
    \/ \E n \in Nodes : NodeMoves(n) \/ (\E what \in Installs : Mark(n, what))

Spec == Init /\ [][Next]_vars

\* Queues are served, pushes go on, and Redis drops a dead process's lock.
Fairness ==
    /\ \A w \in Workers : WF_vars(Take(w))
    /\ \A p \in Pushers : WF_vars(PusherSteps(p))
    /\ WF_vars(Expire)

FairSpec == Spec /\ Fairness

----------------------------------------------------------------------------
(* Properties *)

\* Types of the variables.
TypeOK ==
    /\ node \in [Nodes -> [status: Running \cup {"off"}, has: SUBSET Installs]]
    /\ set \in [telemetry: BOOLEAN, turn: Nat, scan: BOOLEAN]
    /\ clock \in Nat /\ desk \in Nat /\ newest \in Nat /\ turn \in Nat
    /\ applied \in Plan
    /\ mark \in BOOLEAN /\ lost \in BOOLEAN
    /\ queue \in [Kinds -> Nat]
    /\ lock \in Pushers \cup {Free}
    /\ pusher \in [Pushers -> Pusher]

\* server_token.py: "A reload that names a variable a running server lacks fails", so no plan the
\* cluster runs with, however late it was applied, has a sender on while a running node has no
\* token, or the milter while one has no scanner.
SwitchedOnWhereInstalled ==
    /\ applied.hook \/ applied.push => Lacking("token") = {}
    /\ applied.milter => Lacking("scanner") = {}

Quiet ==
    /\ \A k \in Kinds : queue[k] = 0
    /\ \A p \in Pushers : pusher[p].at = "idle"

\* An older plan was applied after a newer one.
Overtaken == applied.at < newest

\* queue_cluster_push and roll_out_telemetry: once nothing is queued or running, the cluster has
\* every desk change, no telemetry sender that was switched off and no milter, unless a push was
\* refused or lost or a plan read before another was applied after it.
QuietIsCurrent ==
    Quiet /\ ~lost /\ ~Overtaken
      => /\ applied.desk = desk
         /\ applied.push => set.telemetry
         /\ applied.milter => set.scan

\* resync_cluster_after_commit: a desk change reaches the cluster, or a push failed, whatever
\* turns the mark, the queue and the lock take.
ChangeArrives == []<>(applied.desk = desk \/ lost \/ Overtaken)

\* push_lock: "One config push per cluster at a time, so a push that started later never loses to
\* an older plan finishing after it."
NoPlanOvertakes == ~Overtaken
=============================================================================
