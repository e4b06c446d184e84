---------------------------- MODULE ServersProofs ----------------------------
(***************************************************************************)
(* The nodes of a cluster: their types, that the cluster hostname follows  *)
(* the nodes' status, and that their jobs run as allowed, for any number   *)
(* of nodes, jobs and health checks; and what VirtualMachinesProofs shows  *)
(* of servers, for the instances of the runs.                              *)
(*                                                                         *)
(* IngressFollowsStatus is not inductive: the callback of a first node     *)
(* puts it into the records because it bootstraps the cluster, whatever    *)
(* its role.  What makes it hold is that only a node that serves clients   *)
(* bootstraps (Serves), and that every helper of bootstrap.py which sets a *)
(* status sets the records with it.                                        *)
(***************************************************************************)
EXTENDS MCServers, ServerJobsProofs

----------------------------------------------------------------------------
(* The rows and records a helper works on *)

Worlds == [node: [Servers -> Node], cluster: Cluster, ingress: SUBSET Servers]

\* The records follow the status of every node, and the outbound ones never bootstrap.
Serves(W) ==
    \A n \in Servers :
        /\ W.node[n].status = "Active" /\ n \notin Outbound => n \in W.ingress
        /\ W.node[n].status \in {"Draining", "Disabled"} => n \notin W.ingress
        /\ n \in Outbound => n \notin W.ingress
        /\ W.node[n].bootstrap => n \notin Outbound

Good(W) == W \in Worlds /\ Serves(W)

NodeInv ==
    /\ JobInv
    /\ Good(World)
    /\ check \in [Checkers -> Check]
    /\ \A p \in Checkers : check[p] # NoCheck => check[p].node \in Servers
    /\ kind \in [Jobs -> Kind]
    /\ installed \in SUBSET Servers

\* A node's row and the records are written: those of the other nodes stay.
Written(W, n, new, records) == [W EXCEPT !.ingress = records, !.node = [W.node EXCEPT ![n] = new]]

LEMMA WrittenWorld ==
    ASSUME NEW W \in Worlds, NEW n \in Servers, NEW new \in Node, NEW records \in SUBSET Servers
    PROVE  /\ Written(W, n, new, records) \in Worlds
           /\ Written(W, n, new, records).ingress = records
           /\ Written(W, n, new, records).node[n] = new
           /\ \A m \in Servers \ {n} : Written(W, n, new, records).node[m] = W.node[m]
<1> DEFINE V == Written(W, n, new, records)
<1>1. W.node \in [Servers -> Node]
  BY DEF Worlds
<1>2. V \in Worlds /\ V.node = [W.node EXCEPT ![n] = new] /\ V.ingress = records
  BY <1>1 DEF Worlds, Written
<1> HIDE DEF V
<1>3. V.node[n] = new /\ \A m \in Servers \ {n} : V.node[m] = W.node[m]
  BY <1>1, <1>2
<1> QED BY <1>2, <1>3 DEF V

\* What is left to show for a helper that writes one node.
LEMMA WriteKeeps ==
    ASSUME NEW W, Good(W), NEW n \in Servers, NEW new \in Node, NEW records \in SUBSET Servers,
           records \ {n} = W.ingress \ {n},
           new.status = "Active" /\ n \notin Outbound => n \in records,
           new.status \in {"Draining", "Disabled"} => n \notin records,
           n \in Outbound => n \notin records,
           new.bootstrap => n \notin Outbound
    PROVE  Good(Written(W, n, new, records))
<1> DEFINE V == Written(W, n, new, records)
<1>1. /\ V \in Worlds /\ V.ingress = records /\ V.node[n] = new
      /\ \A m \in Servers \ {n} : V.node[m] = W.node[m]
  BY WrittenWorld DEF Good
<1> HIDE DEF V
<1>2. \A m \in Servers \ {n} : m \in V.ingress <=> m \in W.ingress
  BY <1>1
<1>3. Good(V)
  BY <1>1, <1>2 DEF Good, Serves
<1> QED BY <1>3 DEF V

\* A status that says nothing about the records.
LEMMA StatusKeeps ==
    ASSUME NEW W, Good(W), NEW n \in Servers, NEW status \in {"Pending", "Provisioning", "Provisioned", "Failed"}
    PROVE  Good(SetStatus(W, n, status))
<1> DEFINE new == [W.node[n] EXCEPT !.status = status]
<1>1. W \in Worlds /\ W.node[n] \in Node /\ W.ingress \in SUBSET Servers
  BY DEF Good, Worlds
<1>2. new \in Node /\ new.status = status /\ new.bootstrap = W.node[n].bootstrap
  BY <1>1 DEF Node, NodeStatus
<1>3. SetStatus(W, n, status) = Written(W, n, new, W.ingress)
  BY <1>1 DEF SetStatus, Written, Worlds
<1> HIDE DEF new
<1>4. Good(Written(W, n, new, W.ingress))
  BY <1>1, <1>2, WriteKeeps DEF Good, Serves
<1> QED BY <1>3, <1>4

LEMMA ActivateKeeps ==
    ASSUME NEW W, Good(W), NEW n \in Servers, NEW doc
    PROVE  Good(ActivateNode(W, n, doc))
<1> DEFINE flag == IF ServesClients(n) # doc.inIngress THEN ServesClients(n) ELSE W.node[n].inIngress
           new == [W.node[n] EXCEPT !.status = "Active", !.inIngress = flag]
           records == IF ServesClients(n) THEN W.ingress \cup {n} ELSE W.ingress \ {n}
<1>1. W \in Worlds /\ W.node[n] \in Node /\ W.ingress \in SUBSET Servers
  BY DEF Good, Worlds
<1>2. flag \in BOOLEAN
  BY <1>1 DEF Node, ServesClients
<1>3. new \in Node /\ new.status = "Active" /\ new.bootstrap = W.node[n].bootstrap
  <2> HIDE DEF flag
  <2> QED BY <1>1, <1>2 DEF Node, NodeStatus
<1>4. records \in SUBSET Servers /\ records \ {n} = W.ingress \ {n} /\ (n \in records <=> n \notin Outbound)
  BY <1>1 DEF ServesClients
<1>5. ActivateNode(W, n, doc) = Written(W, n, new, records)
  BY <1>1 DEF ActivateNode, SetStatus, SyncNodeRecords, Written, Worlds, Node
<1> HIDE DEF new, records
<1>6. Good(Written(W, n, new, records))
  BY <1>1, <1>3, <1>4, WriteKeeps DEF Good, Serves
<1> QED BY <1>5, <1>6

LEMMA DrainKeeps ==
    ASSUME NEW W, Good(W), NEW n \in Servers
    PROVE  Good(DrainedNode(W, n))
<1> DEFINE status == IF W.node[n].status = "Active" THEN "Draining" ELSE "Disabled"
           new == [W.node[n] EXCEPT !.inIngress = FALSE, !.status = status]
<1>1. W \in Worlds /\ W.node[n] \in Node /\ W.ingress \in SUBSET Servers
  BY DEF Good, Worlds
<1>2. new \in Node /\ new.status \in {"Draining", "Disabled"} /\ new.bootstrap = W.node[n].bootstrap
  BY <1>1 DEF Node, NodeStatus
<1>3. DrainedNode(W, n) = Written(W, n, new, W.ingress \ {n})
  BY <1>1 DEF DrainedNode, SetStatus, SyncNodeRecords, Written, Worlds, Node
<1> HIDE DEF new
<1>4. Good(Written(W, n, new, W.ingress \ {n}))
  BY <1>1, <1>2, WriteKeeps DEF Good, Serves
<1> QED BY <1>3, <1>4

LEMMA PrepareKeeps ==
    ASSUME NEW W, Good(W), NEW n \in Servers
    PROVE  Good(PreparedForUpgrade(W, n))
BY DrainKeeps DEF PreparedForUpgrade

\* The cluster's own status has no part in it.
LEMMA ClusterStatusKeeps ==
    ASSUME NEW W, Good(W), NEW status \in {"Pending", "Bootstrapping", "Active", "Failed", "Disabled"}
    PROVE  Good([W EXCEPT !.cluster.status = status])
<1>1. W \in Worlds
  BY DEF Good
<1>2. W.cluster \in Cluster
  BY <1>1 DEF Worlds
<1>3. [W.cluster EXCEPT !.status = status] \in Cluster
  BY <1>2 DEF Cluster
<1>4. /\ [W EXCEPT !.cluster.status = status] \in Worlds
      /\ [W EXCEPT !.cluster.status = status].node = W.node
      /\ [W EXCEPT !.cluster.status = status].ingress = W.ingress
  BY <1>1, <1>3 DEF Worlds
<1> QED BY <1>4 DEF Good, Serves

LEMMA ConfirmedKeeps ==
    ASSUME NEW W, Good(W), NEW doc, doc.node \in Servers
    PROVE  Good(Confirmed(W, doc))
<1> DEFINE status == IF doc.first THEN "Active" ELSE W.cluster.status
<1>1. status \in {"Pending", "Bootstrapping", "Active", "Failed", "Disabled"}
  BY DEF Good, Worlds, Cluster
<1> HIDE DEF status
<1>2. Good([W EXCEPT !.cluster.status = status])
  BY <1>1, ClusterStatusKeeps
<1>3. Good(ActivateNode([W EXCEPT !.cluster.status = status], doc.node, doc))
  BY <1>2, ActivateKeeps
<1> QED BY <1>3 DEF Confirmed, status

LEMMA ExpiredKeeps ==
    ASSUME NEW W, Good(W), NEW doc, doc.node \in Servers
    PROVE  Good(Expired(W, doc))
<1> DEFINE status == IF doc.first THEN "Failed" ELSE W.cluster.status
<1>1. status \in {"Pending", "Bootstrapping", "Active", "Failed", "Disabled"}
  BY DEF Good, Worlds, Cluster
<1> HIDE DEF status
<1>2. Good([W EXCEPT !.cluster.status = status])
  BY <1>1, ClusterStatusKeeps
<1>3. Good(SetStatus([W EXCEPT !.cluster.status = status], doc.node, "Failed"))
  BY <1>2, StatusKeeps
<1> QED BY <1>3 DEF Expired, status

LEMMA CheckedNowKeeps ==
    ASSUME alive \subseteq Servers, NEW W, Good(W), NEW n \in Servers, NEW V \in CheckedNow(W, n)
    PROVE  Good(V)
<1>1. CASE V = W
  BY <1>1
<1>2. ASSUME NEW doc \in Decisions(W, n), MayActivate(doc), V = Confirmed(W, doc)
      PROVE  Good(V)
  BY <1>2, ConfirmedKeeps DEF MayActivate
<1> QED BY <1>1, <1>2 DEF CheckedNow

\* A check decides on a node of the cluster.
LEMMA DecisionIsCheck ==
    ASSUME NEW W \in Worlds, NEW n \in Servers, NEW doc \in Decisions(W, n)
    PROVE  doc \in Check /\ doc.node \in Servers
<1>1. PICK b \in Servers, first \in BOOLEAN :
        doc = [node |-> b, enabled |-> W.node[b].enabled, inIngress |-> W.node[b].inIngress, first |-> first]
  <2>1. W.node[n].bootstrap \in BOOLEAN
    BY DEF Worlds, Node
  <2> QED BY <2>1 DEF Decisions
<1>2. W.node[b].enabled \in BOOLEAN /\ W.node[b].inIngress \in BOOLEAN
  BY DEF Worlds, Node
<1> QED BY <1>1, <1>2 DEF Check

----------------------------------------------------------------------------
(* The steps *)

\* The servers that exist, and the one of a row that is used.
LEMMA ServersOfJobs ==
    ASSUME NodeInv
    PROVE  /\ alive \subseteq Servers
           /\ \A j \in Jobs : job[j].status # "Absent" => job[j].server \in Servers
<1>1. JobInv
  BY DEF NodeInv
<1>2. \A j \in Jobs : job[j].status # "Absent" => job[j].server # None
  BY <1>1 DEF JobInv, Untouched
<1>3. \A j \in Jobs : job[j].server \in Servers \cup {None}
  BY <1>1 DEF JobInv, JobTypeOK, Job
<1> QED BY <1>1, <1>2, <1>3 DEF JobInv, JobTypeOK

\* A request or a callback that leaves the rows W.
LEMMA BecomesKeeps ==
    ASSUME NEW W, Good(W), Becomes(W)
    PROVE  Good(World)'
<1>1. W = [node |-> W.node, cluster |-> W.cluster, ingress |-> W.ingress]
  BY DEF Good, Worlds
<1>2. World' = W
  BY <1>1 DEF Becomes, World
<1> QED BY <1>2 DEF Good, Serves, Worlds

LEMMA SameRows ==
    ASSUME NodeInv, UNCHANGED <<node, cluster, ingress>>
    PROVE  Good(World)'
BY DEF NodeInv, World, Good, Serves, Worlds

\* New jobs for nodes of the cluster.
LEMMA NewJobsKeeps ==
    ASSUME NodeInv, NEW servers \in Seq(Servers), NEW k \in Kind, NEW pushed \in Nat, NewJobs(servers, k, pushed)
    PROVE  JobInv' /\ kind' \in [Jobs -> Kind]
<1>1. JobInv'
  BY InsertKeeps DEF NodeInv, NewJobs
<1>2. kind' \in [Jobs -> Kind]
  BY DEF NewJobs, NodeInv
<1> QED BY <1>1, <1>2

LEMMA JobStepKeeps ==
    ASSUME NodeInv, JobStep
    PROVE  NodeInv'
<1>1. JobInv
  BY DEF NodeInv
<1>2. ASSUME NEW w \in Workers, NEW j \in Jobs, Take(w, j) PROVE JobInv'
  BY <1>1, <1>2, TakeKeeps
<1>3. ASSUME NEW w \in Workers,
             \/ SkipRunning(w) \/ MarkRunning(w) \/ PlaybookFails(w)
             \/ CallbackWithoutServer(w) \/ CallbackRaises(w) \/ WorkerDies(w)
      PROVE  JobInv'
  BY <1>1, <1>3, WorkerStepKeeps, WorkerDiesKeeps DEF WorkerStep
<1>4. ASSUME NEW j \in Jobs, RqCleansUp(j) \/ CronReads(j) \/ CronReadsPending(j) PROVE JobInv'
  BY <1>1, <1>4, RqCleansUpKeeps, CronReadsKeeps, CronReadsPendingKeeps
<1>5. ASSUME NEW r \in Retryers, RetryerStep(r) \/ RetryerDies(r) PROVE JobInv'
  BY <1>1, <1>5, RetryerStepKeeps, RetryerDiesKeeps
<1>6. JobInv'
  BY <1>2, <1>3, <1>4, <1>5 DEF JobStep
<1>7. UNCHANGED nodeVars
  BY DEF JobStep
<1> QED BY <1>6, <1>7, SameRows DEF NodeInv, nodeVars

LEMMA PlaybookInstallsKeeps ==
    ASSUME NodeInv, NEW w \in Workers, PlaybookInstalls(w)
    PROVE  NodeInv'
<1>1. JobInv'
  BY PlaybookPassesKeeps DEF NodeInv, PlaybookInstalls
<1>2. job[worker[w].job].server \in Servers
  <2>1. JobInv /\ worker[w].job \in Jobs
    BY HolderHasJob DEF NodeInv, PlaybookInstalls, PlaybookPasses
  <2>2. job[worker[w].job].status # "Absent"
    BY <2>1 DEF JobInv, Untouched, OnIt
  <2> QED BY <2>1, <2>2, ServersOfJobs
<1>3. installed' \in SUBSET Servers /\ UNCHANGED <<node, cluster, ingress, check, kind>>
  BY <1>2 DEF PlaybookInstalls, NodeInv
<1> QED BY <1>1, <1>3, SameRows DEF NodeInv

\* The rows a callback finds are those of a server that exists.
LEMMA CallbackServer ==
    ASSUME NodeInv, NEW w \in Workers, CallbackSucceeds(w) \/ FailedCallback(w)
    PROVE  JobInv' /\ job[worker[w].job].server \in Servers /\ alive \subseteq Servers
<1>1. JobInv'
  BY WorkerStepKeeps DEF NodeInv, WorkerStep
<1> QED BY <1>1, ServersOfJobs DEF CallbackSucceeds, FailedCallback

LEMMA AfterProvisionKeeps ==
    ASSUME NodeInv, NEW w \in Workers, AfterProvision(w)
    PROVE  NodeInv'
<1> DEFINE n == job[worker[w].job].server
           recovered == node[n].bootstrap /\ cluster.status = "Failed" /\ cluster.bootstrapNode = n
           W1 == IF recovered THEN [World EXCEPT !.cluster.status = "Bootstrapping"] ELSE World
           W == SyncNodeRecords(SetStatus(W1, n, "Provisioned"), n, node[n], node[n].bootstrap)
<1>1. JobInv' /\ n \in Servers /\ alive \subseteq Servers
  BY CallbackServer DEF AfterProvision
<1>2. PICK V \in CheckedNow(W, n) : Becomes(V)
  BY DEF AfterProvision
<1>3. UNCHANGED <<check, kind, installed>>
  BY DEF AfterProvision
<1> HIDE DEF n
<1>4. Good(W1) /\ W1.node = node /\ W1.ingress = ingress
  <2>1. Good(World) /\ World.node = node /\ World.ingress = ingress
    BY DEF NodeInv, World
  <2>2. Good([World EXCEPT !.cluster.status = "Bootstrapping"])
    BY <2>1, ClusterStatusKeeps
  <2>3. [World EXCEPT !.cluster.status = "Bootstrapping"].node = node
        /\ [World EXCEPT !.cluster.status = "Bootstrapping"].ingress = ingress
    BY DEF World
  <2> QED BY <2>1, <2>2, <2>3
<1> HIDE DEF W1
<1>5. Good(W)
  <2> DEFINE flag == IF node[n].bootstrap # node[n].inIngress THEN node[n].bootstrap ELSE node[n].inIngress
             new == [W1.node[n] EXCEPT !.status = "Provisioned", !.inIngress = flag]
             records == IF node[n].bootstrap THEN W1.ingress \cup {n} ELSE W1.ingress \ {n}
  <2>1. W1 \in Worlds /\ W1.node[n] \in Node /\ W1.ingress \in SUBSET Servers
    BY <1>1, <1>4 DEF Good, Worlds
  <2>2. flag \in BOOLEAN
    BY <1>4, <2>1 DEF Node
  <2>3. new \in Node /\ new.status = "Provisioned" /\ new.bootstrap = W1.node[n].bootstrap
    <3> HIDE DEF flag
    <3> QED BY <2>1, <2>2 DEF Node, NodeStatus
  <2>4. /\ records \in SUBSET Servers /\ records \ {n} = W1.ingress \ {n}
        /\ n \in records => W1.node[n].bootstrap
    BY <1>1, <1>4, <2>1
  <2>5. W = Written(W1, n, new, records)
    BY <1>1, <1>4, <2>1 DEF SetStatus, SyncNodeRecords, Written, Worlds, Node
  <2> HIDE DEF new, records, W
  <2>6. Good(Written(W1, n, new, records))
    BY <1>1, <1>4, <2>3, <2>4, WriteKeeps DEF Good, Serves
  <2> QED BY <2>5, <2>6
<1> HIDE DEF W
<1>6. Good(V)
  BY <1>1, <1>2, <1>5, CheckedNowKeeps
<1>7. Good(World)'
  BY <1>2, <1>6, BecomesKeeps
<1> QED BY <1>1, <1>3, <1>7 DEF NodeInv

LEMMA AfterUpgradeKeeps ==
    ASSUME NodeInv, NEW w \in Workers, AfterUpgrade(w)
    PROVE  NodeInv'
<1> DEFINE n == job[worker[w].job].server
<1>1. JobInv' /\ n \in Servers /\ alive \subseteq Servers
  BY CallbackServer DEF AfterUpgrade
<1>2. PICK V \in CheckedNow(SetStatus(World, n, "Provisioned"), n) : Becomes(V)
  BY DEF AfterUpgrade
<1>3. UNCHANGED <<check, kind, installed>>
  BY DEF AfterUpgrade
<1> HIDE DEF n
<1>4. Good(SetStatus(World, n, "Provisioned"))
  BY <1>1, StatusKeeps DEF NodeInv
<1>5. Good(V)
  BY <1>1, <1>2, <1>4, CheckedNowKeeps
<1>6. Good(World)'
  BY <1>2, <1>5, BecomesKeeps
<1> QED BY <1>1, <1>3, <1>6 DEF NodeInv

\* What is left to show for a step that writes one node's row, and the cluster's.
LEMMA RowStepKeeps ==
    ASSUME NodeInv, NEW n \in Servers, NEW new \in Node,
           node' = [node EXCEPT ![n] = new], cluster' \in Cluster, ingress' \in {ingress, ingress \ {n}},
           new.status = "Active" /\ n \notin Outbound => n \in ingress',
           new.status \in {"Draining", "Disabled"} => n \notin ingress',
           new.bootstrap => n \notin Outbound
    PROVE  Good(World)'
<1>1. /\ node \in [Servers -> Node] /\ ingress \in SUBSET Servers
      /\ Serves([node |-> node, cluster |-> cluster, ingress |-> ingress])
  BY DEF NodeInv, Good, World, Worlds
<1>2. node' \in [Servers -> Node] /\ ingress' \in SUBSET Servers
  BY <1>1
<1>3. World' \in Worlds /\ World'.node = node' /\ World'.ingress = ingress'
  BY <1>2 DEF World, Worlds
<1>4. ASSUME NEW m \in Servers
      PROVE  /\ node'[m].status = "Active" /\ m \notin Outbound => m \in ingress'
             /\ node'[m].status \in {"Draining", "Disabled"} => m \notin ingress'
             /\ m \in Outbound => m \notin ingress'
             /\ node'[m].bootstrap => m \notin Outbound
  <2>1. CASE m = n
    BY <1>1, <2>1 DEF Serves
  <2>2. CASE m # n
    BY <1>1, <2>2 DEF Serves
  <2> QED BY <2>1, <2>2
<1>5. Serves(World')
  BY <1>3, <1>4 DEF Serves
<1> QED BY <1>3, <1>5 DEF Good, Serves, Worlds

LEMMA AfterFailedKeeps ==
    ASSUME NodeInv, NEW w \in Workers, AfterFailed(w)
    PROVE  NodeInv'
<1> DEFINE n == job[worker[w].job].server
           new == [node[n] EXCEPT !.status = "Failed"]
<1>1. JobInv' /\ n \in Servers
  BY CallbackServer DEF AfterFailed
<1>2. /\ node' = [node EXCEPT ![n] = new] /\ cluster' \in {cluster, [cluster EXCEPT !.status = "Failed"]}
      /\ UNCHANGED <<ingress, check, kind, installed>>
  BY DEF AfterFailed
<1> HIDE DEF n
<1>3. /\ node[n] \in Node /\ cluster \in Cluster
      /\ node[n].bootstrap => n \notin Outbound
  BY <1>1 DEF NodeInv, Good, World, Worlds, Serves
<1>4. new \in Node /\ new.status = "Failed" /\ new.bootstrap = node[n].bootstrap
  BY <1>3 DEF Node, NodeStatus
<1>5. cluster' \in Cluster
  BY <1>2, <1>3 DEF Cluster
<1> HIDE DEF new
<1>6. Good(World)'
  BY <1>1, <1>2, <1>3, <1>4, <1>5, RowStepKeeps
<1> QED BY <1>1, <1>2, <1>6 DEF NodeInv

LEMMA ProvisionKeeps ==
    ASSUME NodeInv, NEW n \in Servers, NEW pushed \in {0, 1}, Provision(n, pushed)
    PROVE  NodeInv'
<1>1. /\ node[n] \in Node /\ cluster \in Cluster
      /\ node[n].bootstrap => n \notin Outbound
  BY DEF NodeInv, Good, World, Worlds, Serves
<1>2. JobInv' /\ kind' \in [Jobs -> Kind]
  <2>1. NewJobs(<<n>>, "provision", pushed) /\ <<n>> \in Seq(Servers) /\ "provision" \in Kind /\ pushed \in Nat
    BY DEF Provision, Kind
  <2> QED BY <2>1, NewJobsKeeps
<1>3. UNCHANGED <<ingress, check, installed>>
  BY DEF Provision
<1>4. CASE /\ ServesClients(n)
           /\ node' = [node EXCEPT ![n].status = "Provisioning", ![n].bootstrap = TRUE]
           /\ cluster' = [cluster EXCEPT !.status = "Bootstrapping", !.bootstrapNode = n]
  <2> DEFINE new == [node[n] EXCEPT !.status = "Provisioning", !.bootstrap = TRUE]
  <2>1. new \in Node /\ new.status = "Provisioning" /\ n \notin Outbound
    BY <1>1, <1>4 DEF Node, NodeStatus, ServesClients
  <2>2. node' = [node EXCEPT ![n] = new] /\ cluster' \in Cluster
    BY <1>1, <1>4 DEF Cluster, NodeInv, Good, World, Worlds
  <2> HIDE DEF new
  <2> QED BY <1>3, <2>1, <2>2, <1>2, RowStepKeeps DEF NodeInv
<1>5. CASE node' = [node EXCEPT ![n].status = "Provisioning"] /\ UNCHANGED cluster
  <2> DEFINE new == [node[n] EXCEPT !.status = "Provisioning"]
  <2>1. new \in Node /\ new.status = "Provisioning" /\ new.bootstrap = node[n].bootstrap
    BY <1>1 DEF Node, NodeStatus
  <2>2. node' = [node EXCEPT ![n] = new] /\ cluster' \in Cluster
    BY <1>1, <1>5
  <2> HIDE DEF new
  <2> QED BY <1>1, <1>3, <2>1, <2>2, <1>2, RowStepKeeps DEF NodeInv
<1> QED BY <1>4, <1>5 DEF Provision

LEMMA UpgradeKeeps ==
    ASSUME NodeInv, NEW n \in Servers, NEW pushed \in {0, 1}, Upgrade(n, pushed)
    PROVE  NodeInv'
<1>1. JobInv' /\ kind' \in [Jobs -> Kind]
  <2>1. NewJobs(<<n>>, "upgrade", pushed) /\ <<n>> \in Seq(Servers) /\ "upgrade" \in Kind /\ pushed \in Nat
    BY DEF Upgrade, Kind
  <2> QED BY <2>1, NewJobsKeeps
<1>2. Good(World)'
  BY PrepareKeeps, BecomesKeeps DEF Upgrade, NodeInv
<1> QED BY <1>1, <1>2 DEF Upgrade, NodeInv

LEMMA UpgradeNodesKeeps ==
    ASSUME NodeInv, NEW n \in Servers, NEW m \in Servers, NEW pushed \in 0 .. 2, UpgradeNodes(n, m, pushed)
    PROVE  NodeInv'
<1>1. JobInv' /\ kind' \in [Jobs -> Kind]
  <2> DEFINE servers == IF n = m THEN <<n>> ELSE <<n, m>>
  <2>1. NewJobs(servers, "upgrade", pushed) /\ "upgrade" \in Kind /\ pushed \in Nat
    BY DEF UpgradeNodes, Kind
  <2>2. servers \in Seq(Servers)
    OBVIOUS
  <2> HIDE DEF servers
  <2> QED BY <2>1, <2>2, NewJobsKeeps
<1>2. Good(PreparedForUpgrade(PreparedForUpgrade(World, n), m))
  BY PrepareKeeps DEF NodeInv
<1>3. Good(World)'
  BY <1>2, BecomesKeeps DEF UpgradeNodes
<1> QED BY <1>1, <1>3 DEF UpgradeNodes, NodeInv

LEMMA DrainStepKeeps ==
    ASSUME NodeInv, NEW n \in Servers, Drain(n)
    PROVE  NodeInv'
<1>1. Good(World)'
  BY DrainKeeps, BecomesKeeps DEF Drain, NodeInv
<1> QED BY <1>1, StutterKeeps DEF Drain, NodeInv

LEMMA RestoreKeeps ==
    ASSUME NodeInv, NEW n \in Servers, Restore(n)
    PROVE  NodeInv'
<1>1. PICK V \in CheckedNow(SetStatus(World, n, "Provisioned"), n) : Becomes(V)
  BY DEF Restore
<1>2. Good(SetStatus(World, n, "Provisioned"))
  BY StatusKeeps DEF NodeInv
<1>3. Good(V)
  BY <1>1, <1>2, CheckedNowKeeps, ServersOfJobs
<1>4. Good(World)'
  BY <1>1, <1>3, BecomesKeeps
<1> QED BY <1>4, StutterKeeps DEF Restore, NodeInv

LEMMA DisableKeeps ==
    ASSUME NodeInv, NEW n \in Servers, Disable(n)
    PROVE  NodeInv'
<1> DEFINE new == [node[n] EXCEPT !.enabled = FALSE]
           W == [World EXCEPT !.node[n].enabled = FALSE]
<1>1. /\ node[n] \in Node /\ World \in Worlds /\ World.node = node /\ World.ingress = ingress
      /\ ingress \in SUBSET Servers
  BY DEF NodeInv, Good, World, Worlds
<1>2. new \in Node /\ new.status = node[n].status /\ new.bootstrap = node[n].bootstrap
  BY <1>1 DEF Node
<1>3. W = Written(World, n, new, ingress)
  BY <1>1 DEF Written, Worlds
<1> HIDE DEF new, W
<1>4. Good(W)
  BY <1>1, <1>2, <1>3, WriteKeeps DEF NodeInv, Good, Serves
<1>5. Becomes(DrainedNode(W, n)) \/ Becomes(W)
  BY DEF Disable, W
<1>6. Good(World)'
  BY <1>4, <1>5, DrainKeeps, BecomesKeeps
<1> QED BY <1>6, StutterKeeps DEF Disable, NodeInv

LEMMA EnableKeeps ==
    ASSUME NodeInv, NEW n \in Servers, Enable(n)
    PROVE  NodeInv'
<1> DEFINE new == [node[n] EXCEPT !.enabled = TRUE]
<1>1. /\ node[n] \in Node /\ cluster \in Cluster /\ Serves(World) /\ World.node = node /\ World.ingress = ingress
  BY DEF NodeInv, Good, World, Worlds
<1>2. new \in Node /\ new.status = node[n].status /\ new.bootstrap = node[n].bootstrap
  BY <1>1 DEF Node
<1>3. node' = [node EXCEPT ![n] = new] /\ cluster' \in Cluster /\ UNCHANGED <<ingress, jobVars, check, kind, installed>>
  BY <1>1 DEF Enable
<1> HIDE DEF new
<1>4. Good(World)'
  BY <1>1, <1>2, <1>3, RowStepKeeps DEF Serves
<1> QED BY <1>3, <1>4, StutterKeeps DEF NodeInv

LEMMA TrashKeeps ==
    ASSUME NodeInv, NEW n \in Servers, Trash(n)
    PROVE  NodeInv'
<1>1. JobInv'
  BY DeleteServerKeeps DEF Trash, NodeInv
<1>2. NewNode \in Node /\ NewNode.status = "Pending" /\ ~NewNode.bootstrap
  BY DEF NewNode, Node, NodeStatus
<1>3. cluster' \in Cluster
  <2>1. cluster \in Cluster
    BY DEF NodeInv, Good, World, Worlds
  <2>2. NewCluster(cluster.singleNode) \in Cluster
    BY <2>1 DEF NewCluster, Cluster
  <2> QED BY <2>1, <2>2 DEF Trash
<1>4. node' = [node EXCEPT ![n] = NewNode] /\ ingress' = ingress \ {n} /\ installed' = installed \ {n}
      /\ UNCHANGED <<check, kind>>
  BY DEF Trash
<1>5. Good(World)'
  BY <1>2, <1>3, <1>4, RowStepKeeps
<1> QED BY <1>1, <1>4, <1>5 DEF NodeInv

LEMMA ToggleClusterKeeps ==
    ASSUME NodeInv, ToggleCluster
    PROVE  NodeInv'
<1>1. cluster' \in Cluster
  BY DEF ToggleCluster, NodeInv, Good, World, Worlds, Cluster
<1>2. Good(World)'
  BY <1>1 DEF ToggleCluster, NodeInv, Good, Serves, World, Worlds
<1> QED BY <1>2, StutterKeeps DEF ToggleCluster, NodeInv

LEMMA CheckReadsKeeps ==
    ASSUME NodeInv, NEW p \in Checkers, NEW n \in Servers, CheckReads(p, n)
    PROVE  NodeInv'
<1>1. PICK doc \in Decisions(World, n) : check' = [check EXCEPT ![p] = doc]
  BY DEF CheckReads
<1>2. doc \in Check /\ doc.node \in Servers
  BY DecisionIsCheck DEF NodeInv, Good
<1>3. check' \in [Checkers -> Check] /\ \A q \in Checkers : check'[q] # NoCheck => check'[q].node \in Servers
  BY <1>1, <1>2 DEF NodeInv
<1>4. Good(World)'
  BY SameRows DEF CheckReads
<1> QED BY <1>3, <1>4, StutterKeeps DEF CheckReads, NodeInv

LEMMA CheckWritesKeeps ==
    ASSUME NodeInv, NEW p \in Checkers, NEW W, Good(W), CheckWrites(p, W)
    PROVE  NodeInv'
<1>1. NoCheck \in Check
  BY DEF NoCheck, Check
<1>2. check' \in [Checkers -> Check] /\ \A q \in Checkers : check'[q] # NoCheck => check'[q].node \in Servers
  BY <1>1 DEF CheckWrites, NodeInv
<1>3. Good(World)'
  BY BecomesKeeps DEF CheckWrites
<1> QED BY <1>2, <1>3, StutterKeeps DEF CheckWrites, NodeInv

LEMMA CheckEndsKeeps ==
    ASSUME NodeInv, NEW p \in Checkers, CheckConfirms(p) \/ CheckExpires(p) \/ CheckChangesNothing(p)
    PROVE  NodeInv'
<1>1. check[p].node \in Servers
  BY DEF CheckConfirms, CheckExpires, CheckChangesNothing, CheckWrites, NodeInv
<1>2. Good(World) /\ Good(Confirmed(World, check[p])) /\ Good(Expired(World, check[p]))
  BY <1>1, ConfirmedKeeps, ExpiredKeeps DEF NodeInv
<1> QED BY <1>2, CheckWritesKeeps DEF CheckConfirms, CheckExpires, CheckChangesNothing

----------------------------------------------------------------------------
(* The specification *)

LEMMA NodeInitHolds == Init => NodeInv
<1> SUFFICES ASSUME Init PROVE NodeInv
  OBVIOUS
<1>1. JobInv
  BY JobInitHolds DEF Init
<1>2. alive \subseteq Servers
  BY <1>1 DEF JobInv, JobTypeOK
<1>3. PICK single_node \in BOOLEAN : Fresh(single_node) \/ InService(single_node)
  BY DEF Init
<1>4. NewNode \in Node /\ NewNode.status = "Pending" /\ ~NewNode.bootstrap
  BY DEF NewNode, Node, NodeStatus
<1>5. /\ node \in [Servers -> Node] /\ cluster \in Cluster /\ ingress \in SUBSET Servers
      /\ installed \in SUBSET Servers
      /\ \A n \in Servers :
           /\ node[n].status = "Active" /\ n \notin Outbound => n \in ingress
           /\ node[n].status \notin {"Draining", "Disabled"}
           /\ n \in Outbound => n \notin ingress
           /\ node[n].bootstrap => n \notin Outbound
  <2>1. CASE Fresh(single_node)
    BY <2>1, <1>4 DEF Fresh, NewCluster, Cluster
  <2>2. CASE InService(single_node)
    <3>1. PICK b \in alive \ Outbound :
            /\ node = [n \in Servers |->
                         IF n \in alive
                         THEN [status |-> "Active", enabled |-> TRUE, bootstrap |-> n = b,
                               inIngress |-> n \notin Outbound]
                         ELSE NewNode]
            /\ cluster = [status |-> "Active", bootstrapNode |-> b, singleNode |-> single_node]
            /\ ingress = alive \ Outbound
            /\ installed = alive
      BY <2>2 DEF InService
    <3>2. cluster \in Cluster /\ ingress \in SUBSET Servers /\ installed \in SUBSET Servers
      BY <1>2, <3>1 DEF Cluster
    <3>3. ASSUME NEW n \in Servers
          PROVE  /\ node[n] \in Node
                 /\ node[n].status = "Active" /\ n \notin Outbound => n \in ingress
                 /\ node[n].status \notin {"Draining", "Disabled"}
                 /\ n \in Outbound => n \notin ingress
                 /\ node[n].bootstrap => n \notin Outbound
      <4>1. CASE n \in alive
        BY <3>1, <4>1 DEF Node, NodeStatus
      <4>2. CASE n \notin alive
        BY <1>4, <3>1, <4>2
      <4> QED BY <4>1, <4>2
    <3>4. node \in [Servers -> Node]
      BY <3>1, <3>3
    <3> QED BY <3>2, <3>3, <3>4
  <2> QED BY <1>3, <2>1, <2>2
<1>6. Good(World)
  <2>1. World \in Worlds /\ World.node = node /\ World.ingress = ingress
    BY <1>5 DEF World, Worlds
  <2> QED BY <1>5, <2>1 DEF Good, Serves
<1>7. check \in [Checkers -> Check] /\ \A p \in Checkers : check[p] = NoCheck
  BY DEF Init, NoCheck, Check
<1>8. kind \in [Jobs -> Kind]
  BY DEF Init, Kind
<1> QED BY <1>1, <1>5, <1>6, <1>7, <1>8 DEF NodeInv

LEMMA NodeNextKeeps == NodeInv /\ [Next]_vars => NodeInv'
<1> SUFFICES ASSUME NodeInv, [Next]_vars PROVE NodeInv'
  OBVIOUS
<1>1. CASE JobStep
  BY <1>1, JobStepKeeps
<1>2. ASSUME NEW w \in Workers, PlaybookInstalls(w) \/ AfterProvision(w) \/ AfterUpgrade(w) \/ AfterFailed(w)
      PROVE  NodeInv'
  BY <1>2, PlaybookInstallsKeeps, AfterProvisionKeeps, AfterUpgradeKeeps, AfterFailedKeeps
<1>3. ASSUME NEW n \in Servers, NEW pushed \in {0, 1}, Provision(n, pushed) \/ Upgrade(n, pushed)
      PROVE  NodeInv'
  BY <1>3, ProvisionKeeps, UpgradeKeeps
<1>4. ASSUME NEW n \in Servers, NEW m \in Servers, NEW pushed \in 0 .. 2, UpgradeNodes(n, m, pushed)
      PROVE  NodeInv'
  BY <1>4, UpgradeNodesKeeps
<1>5. ASSUME NEW n \in Servers, Drain(n) \/ Restore(n) \/ Disable(n) \/ Enable(n) \/ Trash(n)
      PROVE  NodeInv'
  BY <1>5, DrainStepKeeps, RestoreKeeps, DisableKeeps, EnableKeeps, TrashKeeps
<1>6. CASE ToggleCluster
  BY <1>6, ToggleClusterKeeps
<1>7. ASSUME NEW p \in Checkers, NEW n \in Servers, CheckReads(p, n)
      PROVE  NodeInv'
  BY <1>7, CheckReadsKeeps
<1>8. ASSUME NEW p \in Checkers, CheckConfirms(p) \/ CheckExpires(p) \/ CheckChangesNothing(p)
      PROVE  NodeInv'
  BY <1>8, CheckEndsKeeps
<1>9. CASE UNCHANGED vars
  BY <1>9, StutterKeeps, SameRows DEF vars, nodeVars, NodeInv
<1> QED BY <1>1, <1>2, <1>3, <1>4, <1>5, <1>6, <1>7, <1>8, <1>9 DEF Next

LEMMA NodeInvShows == NodeInv => NodeTypeOK /\ IngressFollowsStatus /\ OneRunAtATime /\ AutomaticRetriesBounded
<1> SUFFICES ASSUME NodeInv PROVE NodeTypeOK /\ IngressFollowsStatus /\ OneRunAtATime /\ AutomaticRetriesBounded
  OBVIOUS
<1>1. JobTypeOK /\ OneRunAtATime /\ AutomaticRetriesBounded
  BY JobInvAllows DEF NodeInv, JobInv
<1>2. /\ World.node = node /\ World.ingress = ingress /\ Serves(World)
      /\ node \in [Servers -> Node] /\ cluster \in Cluster /\ ingress \in SUBSET Servers
  BY DEF NodeInv, Good, World, Worlds
<1>3. NodeTypeOK
  BY <1>1, <1>2 DEF NodeInv, NodeTypeOK
<1>4. IngressFollowsStatus
  BY <1>2, ServersOfJobs DEF IngressFollowsStatus, Serves
<1> QED BY <1>1, <1>3, <1>4

\* The hostname of a cluster resolves to its Active nodes that serve clients and to none that is out
\* of service or only sends, for every number of nodes, jobs and health checks
\* (sync_node_records, activate_node, drain_node, after_provision).
THEOREM IngressFollows == Spec => [](NodeTypeOK /\ IngressFollowsStatus)
BY NodeInitHolds, NodeNextKeeps, NodeInvShows, PTL DEF Spec

----------------------------------------------------------------------------
(* The job under every fault *)

Alone == INSTANCE ServerJobsProofs WITH
    Servers <- JobServers, Workers <- JobWorkers, Operators <- Retrying, MaxJobs <- JobMax, MaxRetries <- JobRetries,
    MaxFailures <- JobFailures, MaxDeaths <- JobDeaths,
    job <- row, rq <- rqStatus, queue <- queued, worker <- runner, retryer <- caller, alive <- rows,
    failures <- failed, automatic <- auto, collided <- collision, deaths <- died

LEMMA SameCardinality == \A S : Single!Cardinality(S) = Alone!Cardinality(S)
BY DEF Single!Cardinality, Alone!Cardinality

LEMMA SameInit == Single!JobInit => Alone!JobInit
BY DEF Single!JobInit, Alone!JobInit, Single!Jobs, Alone!Jobs, Single!Retryers, Alone!Retryers,
   Single!NoJob, Alone!NoJob, Single!IdleWorker, Alone!IdleWorker, Single!IdleRetryer, Alone!IdleRetryer

LEMMA SameNext == Single!JobNext => Alone!JobNext
<1>1. Single!Jobs = Alone!Jobs /\ Single!Retryers = Alone!Retryers
  BY DEF Single!Jobs, Alone!Jobs, Single!Retryers, Alone!Retryers
<1>2. ASSUME NEW servers, NEW pushed, Single!Insert(servers, pushed) PROVE Alone!Insert(servers, pushed)
  <2>1. Single!Used = Alone!Used /\ Single!NoJob = Alone!NoJob
    BY <1>1 DEF Single!Used, Alone!Used, Single!NoJob, Alone!NoJob
  <2>2. Single!Cardinality(Single!Used) = Alone!Cardinality(Alone!Used)
    BY <2>1, SameCardinality
  <2> QED BY <1>1, <1>2, <2>1, <2>2 DEF Single!Insert, Alone!Insert
<1>3. ASSUME NEW s, Single!DeleteServer(s) PROVE Alone!DeleteServer(s)
  BY <1>1, <1>3 DEF Single!DeleteServer, Alone!DeleteServer
<1>4. ASSUME NEW w, NEW j, Single!Take(w, j) PROVE Alone!Take(w, j)
  BY <1>1, <1>4 DEF Single!Take, Alone!Take
<1>5. ASSUME NEW w, Single!WorkerDies(w) PROVE Alone!WorkerDies(w)
  BY <1>1, <1>5 DEF Single!WorkerDies, Alone!WorkerDies, Single!IdleWorker, Alone!IdleWorker
<1>6. ASSUME NEW w, Single!SkipRunning(w) PROVE Alone!SkipRunning(w)
  BY <1>1, <1>6 DEF Single!SkipRunning, Alone!SkipRunning, Single!Returns, Alone!Returns, Single!IdleWorker, Alone!IdleWorker
<1>7. ASSUME NEW w, Single!MarkRunning(w) PROVE Alone!MarkRunning(w)
  BY <1>1, <1>7 DEF Single!MarkRunning, Alone!MarkRunning, Single!Working, Alone!Working
<1>8. ASSUME NEW w, Single!PlaybookPasses(w) PROVE Alone!PlaybookPasses(w)
  BY <1>1, <1>8 DEF Single!PlaybookPasses, Alone!PlaybookPasses
<1>9. ASSUME NEW w, Single!PlaybookFails(w) PROVE Alone!PlaybookFails(w)
  BY <1>1, <1>9 DEF Single!PlaybookFails, Alone!PlaybookFails, Single!MarkFailed, Alone!MarkFailed
<1>10. ASSUME NEW w, Single!CallbackWithoutServer(w) PROVE Alone!CallbackWithoutServer(w)
  BY <1>1, <1>10 DEF Single!CallbackWithoutServer, Alone!CallbackWithoutServer, Single!Returns, Alone!Returns, Single!IdleWorker, Alone!IdleWorker
<1>11. ASSUME NEW w, Single!CallbackSucceeds(w) PROVE Alone!CallbackSucceeds(w)
  BY <1>1, <1>11 DEF Single!CallbackSucceeds, Alone!CallbackSucceeds, Single!Returns, Alone!Returns, Single!IdleWorker, Alone!IdleWorker
<1>12. ASSUME NEW w, Single!CallbackRaises(w) PROVE Alone!CallbackRaises(w)
  BY <1>1, <1>12 DEF Single!CallbackRaises, Alone!CallbackRaises, Single!MarkFailed, Alone!MarkFailed
<1>13. ASSUME NEW w, Single!FailedCallback(w) PROVE Alone!FailedCallback(w)
  BY <1>1, <1>13 DEF Single!FailedCallback, Alone!FailedCallback, Single!Returns, Alone!Returns, Single!IdleWorker, Alone!IdleWorker
<1>14. ASSUME NEW j, Single!RqCleansUp(j) PROVE Alone!RqCleansUp(j)
  BY <1>1, <1>14 DEF Single!RqCleansUp, Alone!RqCleansUp
<1>15. ASSUME NEW r, NEW j, Single!OperatorReads(r, j) PROVE Alone!OperatorReads(r, j)
  BY <1>1, <1>15 DEF Single!OperatorReads, Alone!OperatorReads, Single!IsStale, Alone!IsStale, Single!Working, Alone!Working, Single!Reads, Alone!Reads, Single!Retryers, Alone!Retryers
<1>16. ASSUME NEW j, Single!CronReads(j) PROVE Alone!CronReads(j)
  BY <1>1, <1>16 DEF Single!CronReads, Alone!CronReads, Single!DueForRetry, Alone!DueForRetry, Single!IsStale, Alone!IsStale, Single!IsSuperseded, Alone!IsSuperseded, Single!Working, Alone!Working, Single!Reads, Alone!Reads, Single!Retryers, Alone!Retryers, Single!Jobs, Alone!Jobs
<1>17. ASSUME NEW j, Single!CronReadsPending(j) PROVE Alone!CronReadsPending(j)
  BY <1>1, <1>17 DEF Single!CronReadsPending, Alone!CronReadsPending, Single!IsSuperseded, Alone!IsSuperseded, Single!IsEnqueued, Alone!IsEnqueued, Single!Reads, Alone!Reads, Single!Retryers, Alone!Retryers, Single!Jobs, Alone!Jobs
<1>18. ASSUME NEW r, Single!RetryerStep(r) PROVE Alone!RetryerStep(r)
  BY <1>1, <1>18 DEF Single!RetryerStep, Alone!RetryerStep, Single!Deduplicates, Alone!Deduplicates, Single!IsEnqueued, Alone!IsEnqueued, Single!Commits, Alone!Commits, Single!Pushes, Alone!Pushes, Single!IdleRetryer, Alone!IdleRetryer
<1>19. ASSUME NEW r, Single!RetryerDies(r) PROVE Alone!RetryerDies(r)
  BY <1>1, <1>19 DEF Single!RetryerDies, Alone!RetryerDies, Single!IdleRetryer, Alone!IdleRetryer
<1> QED BY <1>1, <1>2, <1>3, <1>4, <1>5, <1>6, <1>7, <1>8, <1>9, <1>10, <1>11, <1>12, <1>13, <1>14, <1>15, <1>16, <1>17, <1>18, <1>19 DEF Single!JobNext, Alone!JobNext, Single!WorkerStep, Alone!WorkerStep

LEMMA SameRuns ==
    Alone!OneRunAtATime /\ Alone!AutomaticRetriesBounded => Single!OneRunAtATime /\ Single!AutomaticRetriesBounded
<1>1. Single!Jobs = Alone!Jobs /\ \A j : Single!Working(j) = Alone!Working(j)
  BY DEF Single!Jobs, Alone!Jobs, Single!Working, Alone!Working
<1> QED BY <1>1, SameCardinality DEF Single!OneRunAtATime, Alone!OneRunAtATime,
   Single!AutomaticRetriesBounded, Alone!AutomaticRetriesBounded

\* A playbook never runs twice at once, and the cron starts it again at most max_retries times: of
\* the nodes' jobs and of a job under every fault, for every number of jobs, workers, operators and
\* deaths (enqueue, execute, retry_failed_jobs).
THEOREM JobsRunOnce == MCSpec => []JobRunsAsAllowed
<1>1. MCInit => NodeInv /\ Alone!JobInv
  <2>1. Alone!JobInit => Alone!JobInv
    BY Alone!JobInitHolds, SingleConstants
  <2> QED BY <2>1, NodeInitHolds, SameInit DEF MCInit
<1>2. NodeInv /\ Alone!JobInv /\ [MCNext]_all => NodeInv' /\ Alone!JobInv'
  <2> SUFFICES ASSUME NodeInv, Alone!JobInv, [MCNext]_all PROVE NodeInv' /\ Alone!JobInv'
    OBVIOUS
  <2>1. [Next]_vars /\ (Single!JobNext \/ UNCHANGED single)
    BY DEF MCNext, all
  <2>2. NodeInv'
    BY <2>1, NodeNextKeeps
  <2>3. [Alone!JobNext]_(Alone!jobVars)
    BY <2>1, SameNext DEF single, Alone!jobVars
  <2>4. Alone!JobInv /\ [Alone!JobNext]_(Alone!jobVars) => Alone!JobInv'
    BY Alone!JobNextKeeps, SingleConstants
  <2> QED BY <2>2, <2>3, <2>4
<1>3. NodeInv /\ Alone!JobInv => JobRunsAsAllowed
  <2>1. Alone!JobInv => Alone!OneRunAtATime /\ Alone!AutomaticRetriesBounded
    BY Alone!JobInvAllows, SingleConstants
  <2> QED BY <2>1, NodeInvShows, SameRuns DEF JobRunsAsAllowed
<1> QED BY <1>1, <1>2, <1>3, PTL DEF MCSpec

----------------------------------------------------------------------------
(* The Virtual Machines: one with an operator and the daily sync, and two *)

AnyMachine == INSTANCE VirtualMachinesProofs WITH
    Machines <- {Lone}, Zones <- {CHOOSE z \in Zones : TRUE},
    Operators <- MachineOperators, MaxDeaths <- MachineDeaths, lock <- held, job <- setup, deaths <- lost

AnyPair == INSTANCE VirtualMachinesProofs WITH
    Operators <- {}, Refreshes <- {}, MaxDeaths <- PairDeaths, lock <- held, job <- setup, deaths <- lost

LEMMA MachineInit == Machine!Init => AnyMachine!Init
BY DEF Machine!Init, AnyMachine!Init, Machine!NoRow, AnyMachine!NoRow, Machine!NoJob, AnyMachine!NoJob,
   Machine!NoRefresh, AnyMachine!NoRefresh, Machine!NothingSeen, AnyMachine!NothingSeen,
   Machine!NoOp, AnyMachine!NoOp

LEMMA MachineNext == Machine!Next => AnyMachine!Next
BY DEF Machine!external, AnyMachine!external, Machine!NoRow, AnyMachine!NoRow, Machine!JobStep,
   AnyMachine!JobStep, Machine!NoJob, AnyMachine!NoJob, Machine!ServerStatus,
   AnyMachine!ServerStatus, Machine!NothingSeen, AnyMachine!NothingSeen, Machine!NoRefresh,
   AnyMachine!NoRefresh, Machine!NoOp, AnyMachine!NoOp, Machine!Free, AnyMachine!Free,
   Machine!ServerOf, AnyMachine!ServerOf, Machine!PilotOf, AnyMachine!PilotOf, Machine!SetUp,
   AnyMachine!SetUp, Machine!Building, AnyMachine!Building, Machine!SeenOf, AnyMachine!SeenOf,
   Machine!Enqueued, AnyMachine!Enqueued, Machine!JobReturns, AnyMachine!JobReturns,
   Machine!JobGoesOn, AnyMachine!JobGoesOn, Machine!Writes, AnyMachine!Writes, Machine!Insert,
   AnyMachine!Insert, Machine!JobStart, AnyMachine!JobStart, Machine!At, AnyMachine!At,
   Machine!JobStops, AnyMachine!JobStops, Machine!StepDone, AnyMachine!StepDone, Machine!StepWaits,
   AnyMachine!StepWaits, Machine!StepStops, AnyMachine!StepStops, Machine!CreateBegin,
   AnyMachine!CreateBegin, Machine!CentralCreates, AnyMachine!CentralCreates, Machine!CreateSaves,
   AnyMachine!CreateSaves, Machine!CreateCollapsed, AnyMachine!CreateCollapsed, Machine!CreateLost,
   AnyMachine!CreateLost, Machine!AcceptTaken, AnyMachine!AcceptTaken, Machine!Accept,
   AnyMachine!Accept, Machine!AcceptFailed, AnyMachine!AcceptFailed, Machine!Boot, AnyMachine!Boot,
   Machine!LearnProxyZone, AnyMachine!LearnProxyZone, Machine!HostChecked, AnyMachine!HostChecked,
   Machine!Verify, AnyMachine!Verify, Machine!InstallFound, AnyMachine!InstallFound,
   Machine!PilotInstalls, AnyMachine!PilotInstalls, Machine!InstallStarts, AnyMachine!InstallStarts,
   Machine!InstallLost, AnyMachine!InstallLost, Machine!InstallResumes, AnyMachine!InstallResumes,
   Machine!HasApp, AnyMachine!HasApp, Machine!InstallEnds, AnyMachine!InstallEnds, Machine!JobDies,
   AnyMachine!JobDies, Machine!JobExit, AnyMachine!JobExit, Machine!JobAdvances,
   AnyMachine!JobAdvances, Machine!RefreshReads, AnyMachine!RefreshReads, Machine!Refreshed,
   AnyMachine!Refreshed, Machine!RefreshRegistry, AnyMachine!RefreshRegistry, Machine!ToApply,
   AnyMachine!ToApply, Machine!RefreshWrites, AnyMachine!RefreshWrites, Machine!RetryReads,
   AnyMachine!RetryReads, Machine!ResetInstall, AnyMachine!ResetInstall, Machine!RetryWrites,
   AnyMachine!RetryWrites, Machine!RetryRejected, AnyMachine!RetryRejected, Machine!VerifyHost,
   AnyMachine!VerifyHost, Machine!InstallSuiteApp, AnyMachine!InstallSuiteApp, Machine!Terminate,
   AnyMachine!Terminate, Machine!CentralDecides, AnyMachine!CentralDecides, Machine!ServerBoots,
   AnyMachine!ServerBoots, Machine!ServerChanges, AnyMachine!ServerChanges, Machine!PilotFinishes,
   AnyMachine!PilotFinishes, Machine!Next, AnyMachine!Next

LEMMA MachineShows == AnyMachine!EndedIsGone /\ AnyMachine!ReadyIsSetUp => Machine!EndedIsGone /\ Machine!ReadyIsSetUp
BY DEF Machine!EndedIsGone, AnyMachine!EndedIsGone, Machine!ReadyIsSetUp, AnyMachine!ReadyIsSetUp,
   Machine!IsReady, AnyMachine!IsReady, Machine!SetUp, AnyMachine!SetUp, Machine!ServerOf,
   AnyMachine!ServerOf, Machine!PilotOf, AnyMachine!PilotOf

LEMMA PairInit == Pair!Init => AnyPair!Init
BY DEF Pair!Init, AnyPair!Init, Pair!NoRow, AnyPair!NoRow, Pair!NoJob, AnyPair!NoJob, Pair!NoRefresh,
   AnyPair!NoRefresh, Pair!NothingSeen, AnyPair!NothingSeen, Pair!NoOp, AnyPair!NoOp

LEMMA PairNext == Pair!Next => AnyPair!Next
BY DEF Pair!external, AnyPair!external, Pair!NoRow, AnyPair!NoRow, Pair!JobStep, AnyPair!JobStep,
   Pair!NoJob, AnyPair!NoJob, Pair!ServerStatus, AnyPair!ServerStatus, Pair!NothingSeen,
   AnyPair!NothingSeen, Pair!NoRefresh, AnyPair!NoRefresh, Pair!NoOp, AnyPair!NoOp, Pair!Free,
   AnyPair!Free, Pair!ServerOf, AnyPair!ServerOf, Pair!PilotOf, AnyPair!PilotOf, Pair!SetUp,
   AnyPair!SetUp, Pair!Building, AnyPair!Building, Pair!SeenOf, AnyPair!SeenOf, Pair!Enqueued,
   AnyPair!Enqueued, Pair!JobReturns, AnyPair!JobReturns, Pair!JobGoesOn, AnyPair!JobGoesOn,
   Pair!Writes, AnyPair!Writes, Pair!Insert, AnyPair!Insert, Pair!JobStart, AnyPair!JobStart,
   Pair!At, AnyPair!At, Pair!JobStops, AnyPair!JobStops, Pair!StepDone, AnyPair!StepDone,
   Pair!StepWaits, AnyPair!StepWaits, Pair!StepStops, AnyPair!StepStops, Pair!CreateBegin,
   AnyPair!CreateBegin, Pair!CentralCreates, AnyPair!CentralCreates, Pair!CreateSaves,
   AnyPair!CreateSaves, Pair!CreateCollapsed, AnyPair!CreateCollapsed, Pair!CreateLost,
   AnyPair!CreateLost, Pair!AcceptTaken, AnyPair!AcceptTaken, Pair!Accept, AnyPair!Accept,
   Pair!AcceptFailed, AnyPair!AcceptFailed, Pair!Boot, AnyPair!Boot, Pair!LearnProxyZone,
   AnyPair!LearnProxyZone, Pair!HostChecked, AnyPair!HostChecked, Pair!Verify, AnyPair!Verify,
   Pair!InstallFound, AnyPair!InstallFound, Pair!PilotInstalls, AnyPair!PilotInstalls,
   Pair!InstallStarts, AnyPair!InstallStarts, Pair!InstallLost, AnyPair!InstallLost,
   Pair!InstallResumes, AnyPair!InstallResumes, Pair!HasApp, AnyPair!HasApp, Pair!InstallEnds,
   AnyPair!InstallEnds, Pair!JobDies, AnyPair!JobDies, Pair!JobExit, AnyPair!JobExit,
   Pair!JobAdvances, AnyPair!JobAdvances, Pair!RefreshReads, AnyPair!RefreshReads, Pair!Refreshed,
   AnyPair!Refreshed, Pair!RefreshRegistry, AnyPair!RefreshRegistry, Pair!ToApply, AnyPair!ToApply,
   Pair!RefreshWrites, AnyPair!RefreshWrites, Pair!RetryReads, AnyPair!RetryReads,
   Pair!ResetInstall, AnyPair!ResetInstall, Pair!RetryWrites, AnyPair!RetryWrites,
   Pair!RetryRejected, AnyPair!RetryRejected, Pair!VerifyHost, AnyPair!VerifyHost,
   Pair!InstallSuiteApp, AnyPair!InstallSuiteApp, Pair!Terminate, AnyPair!Terminate,
   Pair!CentralDecides, AnyPair!CentralDecides, Pair!ServerBoots, AnyPair!ServerBoots,
   Pair!ServerChanges, AnyPair!ServerChanges, Pair!PilotFinishes, AnyPair!PilotFinishes, Pair!Next,
   AnyPair!Next

LEMMA PairShows == AnyPair!EndedIsGone /\ AnyPair!ReadyIsSetUp => Pair!EndedIsGone /\ Pair!ReadyIsSetUp
BY DEF Pair!EndedIsGone, AnyPair!EndedIsGone, Pair!ReadyIsSetUp, AnyPair!ReadyIsSetUp, Pair!IsReady,
   AnyPair!IsReady, Pair!SetUp, AnyPair!SetUp, Pair!ServerOf, AnyPair!ServerOf, Pair!PilotOf,
   AnyPair!PilotOf

LEMMA MachineConstantsHold == AnyMachine!MachineConstants /\ AnyPair!MachineConstants
<1>1. Lone \in Machines /\ (CHOOSE z \in Zones : TRUE) \in Zones
  BY FleetConstants DEF Lone
<1> QED BY <1>1, FleetConstants DEF AnyMachine!MachineConstants, AnyPair!MachineConstants

FleetInv == IF part = "pair" THEN AnyPair!MachineInv ELSE AnyMachine!MachineInv

\* The daily sync ends only servers that Central no longer has, and a server takes sites only set
\* up, in its region's one zone: for a server with any number of operators and deaths, and for any
\* number of servers that set up side by side (refresh_fleet, verify_host, is_ready).
THEOREM FleetIsTrue == MCSpec => [](EndedIsGone /\ ReadyIsSetUp)
<1>1. MCInit => FleetInv
  <2>1. AnyMachine!MachineConstants /\ AnyMachine!Init => AnyMachine!MachineInv
    BY AnyMachine!MachineInitHolds
  <2>2. AnyPair!MachineConstants /\ AnyPair!Init => AnyPair!MachineInv
    BY AnyPair!MachineInitHolds
  <2> QED BY <2>1, <2>2, MachineConstantsHold, MachineInit, PairInit DEF MCInit, FleetInv
<1>2. FleetInv /\ [MCNext]_all => FleetInv'
  <2> SUFFICES ASSUME FleetInv, [MCNext]_all PROVE FleetInv'
    OBVIOUS
  <2>1. part' = part
    BY DEF MCNext, all
  <2>2. CASE part = "pair"
    <3>1. [AnyPair!Next]_(AnyPair!vars)
      BY <2>2, PairNext DEF MCNext, all, machine, AnyPair!vars
    <3>2. AnyPair!MachineInv /\ [AnyPair!Next]_(AnyPair!vars) => AnyPair!MachineInv'
      BY AnyPair!MachineNextKeeps
    <3> QED BY <2>1, <2>2, <3>1, <3>2 DEF FleetInv
  <2>3. CASE part # "pair"
    <3>1. [AnyMachine!Next]_(AnyMachine!vars)
      BY <2>3, MachineNext DEF MCNext, all, machine, AnyMachine!vars
    <3>2. AnyMachine!MachineInv /\ [AnyMachine!Next]_(AnyMachine!vars) => AnyMachine!MachineInv'
      BY AnyMachine!MachineNextKeeps
    <3> QED BY <2>1, <2>3, <3>1, <3>2 DEF FleetInv
  <2> QED BY <2>2, <2>3
<1>3. FleetInv => EndedIsGone /\ ReadyIsSetUp
  <2>1. AnyMachine!MachineInv => AnyMachine!EndedIsGone /\ AnyMachine!ReadyIsSetUp
    BY AnyMachine!MachineInvShows
  <2>2. AnyPair!MachineInv => AnyPair!EndedIsGone /\ AnyPair!ReadyIsSetUp
    BY AnyPair!MachineInvShows
  <2> QED BY <2>1, <2>2, MachineShows, PairShows DEF FleetInv, EndedIsGone, ReadyIsSetUp
<1> QED BY <1>1, <1>2, <1>3, PTL DEF MCSpec
=============================================================================
