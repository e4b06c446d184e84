---------------------------- MODULE ClusterNodes ----------------------------
(***************************************************************************)
(* The nodes of one Stalwart cluster: provisioning, the bootstrap of the   *)
(* cluster, health checks, draining, upgrades and removal                  *)
(* (mail/cluster/bootstrap.py, Stalwart Node, Stalwart Cluster), on top of *)
(* the Server Jobs that run the playbooks.                                 *)
(*                                                                         *)
(* A desk request is one step on the current rows: a form is reloaded when *)
(* its document changes.  A callback is one step too: its first write      *)
(* locks the node's row until its commit.  A health check asks Stalwart    *)
(* over the network before it writes anything, so it writes what it        *)
(* concluded from the rows it read (CheckReads, CheckEnds).                *)
(***************************************************************************)
EXTENDS ServerJobs

CONSTANTS
    Outbound,    \* nodes with the outbound role
    Poll,        \* the five-minute health check
    Checkers     \* health checks that may run at once: Poll, and desk requests

ASSUME NodeConstants ==
    /\ Outbound \subseteq Servers
    /\ Poll \in Checkers

VARIABLES
    node,       \* the Stalwart Node rows
    cluster,    \* the Stalwart Cluster row
    ingress,    \* nodes whose addresses the cluster hostname's DNS Records hold
    check,      \* what each health check read
    kind,       \* what each Server Job runs
    installed   \* servers on which a playbook has passed

nodeVars == <<node, cluster, ingress, check, kind, installed>>
vars == <<jobVars, nodeVars>>

----------------------------------------------------------------------------
(* Types *)

NodeStatus == {"Pending", "Provisioning", "Provisioned", "Active", "Draining", "Failed", "Disabled"}

Node == [status: NodeStatus, enabled: BOOLEAN, bootstrap: BOOLEAN, inIngress: BOOLEAN]

Cluster == [status: {"Pending", "Bootstrapping", "Active", "Failed", "Disabled"},
            bootstrapNode: Servers \cup {None}, singleNode: BOOLEAN]

NewNode == [status |-> "Pending", enabled |-> TRUE, bootstrap |-> FALSE, inIngress |-> FALSE]

\* single: a store is embedded, so the cluster's only node holds it.
NewCluster(single) == [status |-> "Pending", bootstrapNode |-> None, singleNode |-> single]

\* The node a check decides on, as the check read it.
Check == [node: Servers \cup {None}, enabled: BOOLEAN, inIngress: BOOLEAN, first: BOOLEAN]

NoCheck == [node |-> None, enabled |-> FALSE, inIngress |-> FALSE, first |-> FALSE]

Kind == {"none", "provision", "upgrade"}

NodeTypeOK ==
    /\ JobTypeOK
    /\ node \in [Servers -> Node]
    /\ cluster \in Cluster
    /\ ingress \in SUBSET Servers
    /\ check \in [Checkers -> Check]
    /\ kind \in [Jobs -> Kind]
    /\ installed \in SUBSET Servers

\* A new cluster with new nodes.
Fresh(single) ==
    /\ node = [n \in Servers |-> NewNode]
    /\ cluster = NewCluster(single)
    /\ ingress = {}
    /\ installed = {}

\* A cluster in service, whose jobs are history.
InService(single) ==
    \E b \in alive \ Outbound :
        /\ node = [n \in Servers |->
                     IF n \in alive
                     THEN [status |-> "Active", enabled |-> TRUE, bootstrap |-> n = b,
                           inIngress |-> n \notin Outbound]
                     ELSE NewNode]
        /\ cluster = [status |-> "Active", bootstrapNode |-> b, singleNode |-> single]
        /\ ingress = alive \ Outbound
        /\ installed = alive

Init ==
    /\ JobInit
    /\ \E single \in BOOLEAN :
         /\ single => Cardinality(alive) = 1
         /\ Fresh(single) \/ InService(single)
    /\ check = [p \in Checkers |-> NoCheck]
    /\ kind = [j \in Jobs |-> "none"]

----------------------------------------------------------------------------
(* What the helpers of bootstrap.py and dns.py do to the rows and records.  *)
(* They work on a document, "doc", whose fields may be older than the rows. *)

World == [node |-> node, cluster |-> cluster, ingress |-> ingress]

Becomes(W) == node' = W.node /\ cluster' = W.cluster /\ ingress' = W.ingress

SetStatus(W, n, status) == [W EXCEPT !.node[n].status = status]

ServesClients(n) == n \notin Outbound

\* Mutant of SyncNodeRecords: the ingress record of a node is never removed.
SyncNodeRecordsOnlyAdds(W, n, doc, include) ==
    [W EXCEPT !.ingress = IF include THEN @ \cup {n} ELSE @,
              !.node[n].inIngress = IF include # doc.inIngress THEN include ELSE @]

\* The records follow "include"; the flag is written when the document says otherwise.
SyncNodeRecords(W, n, doc, include) ==
    [W EXCEPT !.ingress = IF include THEN @ \cup {n} ELSE @ \ {n},
              !.node[n].inIngress = IF include # doc.inIngress THEN include ELSE @]

ActivateNode(W, n, doc) ==
    SyncNodeRecords(SetStatus(W, n, "Active"), n, doc, ServesClients(n))

DrainedNode(W, n) ==
    SetStatus(SyncNodeRecords(W, n, W.node[n], FALSE), n,
              IF W.node[n].status = "Active" THEN "Draining" ELSE "Disabled")

IsLastIngressNode(W, n) ==
    /\ W.node[n].inIngress
    /\ \A m \in alive \ {n} : ~W.node[m].inIngress

\* upgrade_node up to its job.
PreparedForUpgrade(W, n) ==
    IF W.node[n].status = "Active" /\ ~IsLastIngressNode(W, n) THEN DrainedNode(W, n) ELSE W

\* Mutant of Decisions: a node that bootstrapped the cluster is left to finish_bootstrap for ever.
DecisionsLeaveBootstrap(W, n) ==
    {[node |-> m, enabled |-> W.node[m].enabled, inIngress |-> W.node[m].inIngress,
      first |-> W.node[n].bootstrap] :
       m \in {m \in Servers : /\ W.node[m].status = "Provisioned"
                             /\ IF W.node[n].bootstrap
                                THEN W.cluster.status = "Bootstrapping" /\ m = W.cluster.bootstrapNode
                                ELSE m = n /\ W.cluster.status = "Active"}}

\* What a check of n decides on: the cluster's bootstrap node while the cluster
\* is bootstrapped with n (finish_bootstrap), else n itself; nothing unless the
\* node is Provisioned.  "first": the cluster's own status follows.
Decisions(W, n) ==
    LET first == W.cluster.status = "Bootstrapping" /\ W.node[n].bootstrap IN
      {[node |-> b, enabled |-> W.node[b].enabled, inIngress |-> W.node[b].inIngress, first |-> first] :
         b \in {m \in Servers : /\ W.node[m].status = "Provisioned"
                              /\ IF first THEN m = W.cluster.bootstrapNode
                                 ELSE m = n /\ W.cluster.status = "Active"}}

\* Stalwart confirms a server it was installed on.  activate_node throws for a
\* disabled node, and a deleted one can own no DNS Record.
MayActivate(doc) == doc.node \in installed /\ doc.enabled /\ doc.node \in alive

\* check_node and finish_bootstrap: Stalwart confirmed the node.
Confirmed(W, doc) ==
    ActivateNode([W EXCEPT !.cluster.status = IF doc.first THEN "Active" ELSE @], doc.node, doc)

\* _not_ready past the deadline: the node is failed, and with it its cluster.
Expired(W, doc) ==
    SetStatus([W EXCEPT !.cluster.status = IF doc.first THEN "Failed" ELSE @], doc.node, "Failed")

\* A check inside a callback or a desk request that has just written the row.
\* The deadline starts with that write, so a node not confirmed yet waits.
CheckedNow(W, n) ==
    {W} \cup {Confirmed(W, doc) : doc \in {d \in Decisions(W, n) : MayActivate(d)}}

----------------------------------------------------------------------------
(* Desk requests *)

NewJobs(servers, k, pushed) ==
    /\ Insert(servers, pushed)
    /\ kind' = [j \in Jobs |-> IF j > Cardinality(Used) /\ j <= Cardinality(Used) + Len(servers)
                               THEN k ELSE kind[j]]

\* provision_node: is this provisioning (also) the bootstrap of the cluster?
StartsBootstrap(n) ==
    \/ cluster.status = "Failed"
    \/ cluster.status = "Pending" /\ cluster.bootstrapNode \in {None, n}
    \/ cluster.singleNode /\ cluster.status = "Active" /\ cluster.bootstrapNode = n

Provision(n, pushed) ==
    /\ n \in alive /\ node[n].enabled
    /\ \/ /\ StartsBootstrap(n)
          /\ ServesClients(n)
          /\ node' = [node EXCEPT ![n].status = "Provisioning", ![n].bootstrap = TRUE]
          /\ cluster' = [cluster EXCEPT !.status = "Bootstrapping", !.bootstrapNode = n]
          /\ NewJobs(<<n>>, "provision", pushed)
       \/ /\ ~StartsBootstrap(n)
          /\ cluster.status = "Active" \/ (cluster.status = "Bootstrapping" /\ node[n].bootstrap)
          /\ node' = [node EXCEPT ![n].status = "Provisioning"]
          /\ NewJobs(<<n>>, "provision", pushed)
          /\ UNCHANGED cluster
    /\ UNCHANGED <<ingress, check, installed>>

Upgrade(n, pushed) ==
    /\ n \in alive /\ node[n].enabled
    /\ Becomes(PreparedForUpgrade(World, n))
    /\ NewJobs(<<n>>, "upgrade", pushed)
    /\ UNCHANGED <<check, installed>>

\* upgrade_nodes: every Active node in turn, in one request; a disabled one
\* makes upgrade_node throw.
UpgradeNodes(n, m, pushed) ==
    /\ {n, m} = {k \in alive : node[k].status = "Active"}
    /\ node[n].enabled /\ node[m].enabled
    /\ Becomes(PreparedForUpgrade(PreparedForUpgrade(World, n), m))
    /\ NewJobs(IF n = m THEN <<n>> ELSE <<n, m>>, "upgrade", pushed)
    /\ UNCHANGED <<check, installed>>

Drain(n) ==
    /\ n \in alive
    /\ Becomes(DrainedNode(World, n))
    /\ UNCHANGED <<jobVars, check, kind, installed>>

Restore(n) ==
    /\ n \in alive /\ node[n].enabled
    /\ \E W \in CheckedNow(SetStatus(World, n, "Provisioned"), n) : Becomes(W)
    /\ UNCHANGED <<jobVars, check, kind, installed>>

\* Saving the node with Enabled cleared: on_update.
Disable(n) ==
    /\ n \in alive /\ node[n].enabled
    /\ LET W == [World EXCEPT !.node[n].enabled = FALSE] IN
         Becomes(IF node[n].status \in {"Active", "Provisioned"} THEN DrainedNode(W, n) ELSE W)
    /\ UNCHANGED <<jobVars, check, kind, installed>>

Enable(n) ==
    /\ n \in alive /\ ~node[n].enabled
    /\ node' = [node EXCEPT ![n].enabled = TRUE]
    /\ UNCHANGED <<jobVars, cluster, ingress, check, kind, installed>>

Removable == {"Pending", "Failed", "Disabled"}

Trash(n) ==
    /\ node[n].status \in Removable
    /\ ~(node[n].bootstrap /\ cluster.status = "Active")
    /\ DeleteServer(n)
    /\ cluster' = IF cluster.bootstrapNode = n THEN NewCluster(cluster.singleNode) ELSE cluster
    /\ node' = [node EXCEPT ![n] = NewNode]
    /\ ingress' = ingress \ {n}
    /\ installed' = installed \ {n}
    /\ UNCHANGED <<check, kind>>

\* Saving the cluster with Enabled cleared or set again: its on_update.
ToggleCluster ==
    /\ \/ cluster.status = "Active" /\ cluster' = [cluster EXCEPT !.status = "Disabled"]
       \/ cluster.status = "Disabled" /\ cluster' = [cluster EXCEPT !.status = "Active"]
    /\ UNCHANGED <<jobVars, node, ingress, check, kind, installed>>

----------------------------------------------------------------------------
(* Health checks: poll_pending_nodes, Check Health, Finish Bootstrap *)

CheckReads(p, n) ==
    /\ check[p] = NoCheck
    /\ n \in alive
    /\ p = Poll => node[n].status = "Provisioned"
    /\ \E doc \in Decisions(World, n) : check' = [check EXCEPT ![p] = doc]
    /\ UNCHANGED <<jobVars, node, cluster, ingress, kind, installed>>

CheckWrites(p, W) ==
    /\ check[p] # NoCheck
    /\ Becomes(W)
    /\ check' = [check EXCEPT ![p] = NoCheck]
    /\ UNCHANGED <<jobVars, kind, installed>>

CheckConfirms(p) == MayActivate(check[p]) /\ CheckWrites(p, Confirmed(World, check[p]))

CheckExpires(p) == check[p] # NoCheck /\ CheckWrites(p, Expired(World, check[p]))

\* Not confirmed before the deadline; or confirmed, and rolled back because
\* activate_node threw.
CheckChangesNothing(p) == CheckWrites(p, World)

----------------------------------------------------------------------------
(* Callbacks of the Server Jobs *)

IsProvisioning(j) == kind[j] = "provision"

AfterProvision(w) ==
    LET n == job[worker[w].job].server
        recovered == node[n].bootstrap /\ cluster.status = "Failed" /\ cluster.bootstrapNode = n
        W1 == IF recovered THEN [World EXCEPT !.cluster.status = "Bootstrapping"] ELSE World
        W == SyncNodeRecords(SetStatus(W1, n, "Provisioned"), n, node[n], node[n].bootstrap)
    IN /\ CallbackSucceeds(w)
       /\ IsProvisioning(worker[w].job)
       /\ \E V \in CheckedNow(W, n) : Becomes(V)
       /\ UNCHANGED <<check, kind, installed>>

AfterUpgrade(w) ==
    LET n == job[worker[w].job].server
        W == SetStatus(World, n, "Provisioned")
    IN /\ CallbackSucceeds(w)
       /\ ~IsProvisioning(worker[w].job)
       /\ \E V \in CheckedNow(W, n) : Becomes(V)
       /\ UNCHANGED <<check, kind, installed>>

\* after_provision_failed and after_upgrade_failed.
AfterFailed(w) ==
    LET j == worker[w].job
        n == job[j].server
        exhausted == worker[w].retries > MaxRetries
    IN /\ FailedCallback(w)
       /\ node' = [node EXCEPT ![n].status = "Failed"]
       /\ cluster' = IF /\ IsProvisioning(j) /\ node[n].bootstrap
                        /\ cluster.status = "Bootstrapping" /\ exhausted
                     THEN [cluster EXCEPT !.status = "Failed"] ELSE cluster
       /\ UNCHANGED <<ingress, check, kind, installed>>

PlaybookInstalls(w) ==
    /\ PlaybookPasses(w)
    /\ installed' = installed \cup {job[worker[w].job].server}
    /\ UNCHANGED <<node, cluster, ingress, check, kind>>

----------------------------------------------------------------------------
(* Specification *)

\* The steps of the job machinery that concern no node.
JobStep ==
    /\ \/ \E w \in Workers, j \in Jobs : Take(w, j)
       \/ \E w \in Workers : \/ SkipRunning(w) \/ MarkRunning(w) \/ PlaybookFails(w)
                             \/ CallbackWithoutServer(w) \/ CallbackRaises(w) \/ WorkerDies(w)
       \/ \E j \in Jobs : RqCleansUp(j) \/ CronReads(j) \/ CronReadsPending(j)
       \/ \E r \in Retryers : RetryerStep(r) \/ RetryerDies(r)
    /\ UNCHANGED nodeVars

Next ==
    \/ JobStep
    \/ \E w \in Workers : PlaybookInstalls(w)
    \/ \E w \in Workers : AfterProvision(w)
    \/ \E w \in Workers : AfterUpgrade(w)
    \/ \E w \in Workers : AfterFailed(w)
    \/ \E n \in Servers, pushed \in {0, 1} : Provision(n, pushed)
    \/ \E n \in Servers, pushed \in {0, 1} : Upgrade(n, pushed)
    \/ \E n, m \in Servers, pushed \in 0 .. 2 : UpgradeNodes(n, m, pushed)
    \/ \E n \in Servers : Drain(n)
    \/ \E n \in Servers : Restore(n)
    \/ \E n \in Servers : Disable(n)
    \/ \E n \in Servers : Enable(n)
    \/ \E n \in Servers : Trash(n)
    \/ ToggleCluster
    \/ \E p \in Checkers, n \in Servers : CheckReads(p, n)
    \/ \E p \in Checkers : CheckConfirms(p)
    \/ \E p \in Checkers : CheckExpires(p)
    \/ \E p \in Checkers : CheckChangesNothing(p)

Spec == Init /\ [][Next]_vars

\* Stalwart confirms an enabled node it was installed on, and the deadline has passed for one it
\* was not, yet the check ends without a decision.
Undecided ==
    /\ MayActivate(check[Poll]) \/ check[Poll].node \notin installed
    /\ CheckChangesNothing(Poll)

\* The poller looks at every Provisioned node every five minutes, and its calls time out, so a check
\* ends.  The deadline is 45 minutes, so checks do not go on undecided for ever.
Fairness ==
    /\ \A n \in Servers : SF_vars(CheckReads(Poll, n))
    /\ WF_vars(CheckConfirms(Poll) \/ CheckExpires(Poll) \/ CheckChangesNothing(Poll))
    /\ <>[][~Undecided]_vars

FairSpec == Spec /\ Fairness

----------------------------------------------------------------------------
(* Properties *)

\* The cluster hostname resolves to every Active node that serves clients and
\* to none that is out of service or only sends, whichever of a job's callback, the poller and
\* an operator wrote last (activate_node, drain_node, sync_node_records, serves_clients).
IngressFollowsStatus ==
    \A n \in alive :
        /\ node[n].status = "Active" /\ n \notin Outbound => n \in ingress
        /\ node[n].status \in {"Draining", "Disabled"} => n \notin ingress
        /\ n \in Outbound => n \notin ingress

Settles(n) ==
    (node[n].status = "Provisioned" /\ cluster.status = "Active") ~>
        (node[n].status # "Provisioned" \/ cluster.status # "Active" \/ ~node[n].enabled \/ n \notin alive)

\* A node of an Active cluster that waits for Stalwart is activated, failed or
\* taken out of service in the end (check_node, poll_pending_nodes).
ProvisionedSettles == \A n \in Servers : Settles(n)
=============================================================================
