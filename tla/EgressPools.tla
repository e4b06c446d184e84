---------------------------- MODULE EgressPools ----------------------------
(***************************************************************************)
(* Egress of one active cluster: which pool a sender's mail leaves         *)
(* through, the route expression the cluster is given for it, the gateways *)
(* that host a pool's addresses, their relay listeners and firewall ports, *)
(* and the round robin of a pool's hostname (mail/cluster/egress.py, the   *)
(* Egress IP Pool and Egress Gateway documents and mail/cluster/dns.py).   *)
(*                                                                         *)
(* A pool is its number: p1, p2, ... as naming.py hands the names out.  A  *)
(* gateway carries one address of a pool.  The Server Job of a gateway is  *)
(* reduced to the variables it is built from and its outcome (ServerJobs   *)
(* has its life), and a cluster push is one step (ClusterConfig has the    *)
(* order of pushes).                                                       *)
(***************************************************************************)
EXTENDS Naturals, FiniteSets, Sequences, SequencesExt, Selections

CONSTANTS
    Gateways,   \* Egress Gateways
    Domains,    \* Mail Domains of the cluster, all of one tenant
    None,       \* a domain that is not the cluster's
    NodeIps,    \* how many addresses the cluster's nodes send from
    SpfLimit,   \* mechanisms that fit one SPF text (SPF_TEXT_LIMIT)
    MaxPools,   \* bound: pools at one time
    MaxPort,    \* bound: relay ports, from FIRST_RELAY_PORT = 1
    MaxEdits,   \* bound: what operators do
    MaxFaults   \* bound: pushes that fail, jobs that are lost, provider errors

ASSUME EgressConstants ==
    /\ None \notin Domains /\ IsFiniteSet(Gateways) /\ NodeIps \in Nat /\ SpfLimit \in Nat \ {0}
    /\ MaxPools \in Nat /\ MaxPort \in Nat /\ MaxEdits \in Nat /\ MaxFaults \in Nat

Pools == 1 .. MaxPools

VARIABLES
    pool,     \* the Egress IP Pool rows: the gateways of their addresses and the relay port
    gw,       \* the Egress Gateway rows, with what the server itself has
    rows,     \* default, tenant and domain pools, relaying and enabled domains
    strategy, \* the cluster's MtaOutboundStrategy
    push,     \* a queued push of the cluster's configuration
    jobs,     \* queued and running apply_pool_changes_job
    listed,   \* DNS Records of a pool's hostname: the gateways in its round robin
    spf,      \* DNS Records of the SPF include target: the texts it consists of
    check,    \* the status a running check_gateway read, of each gateway
    synced,   \* history: the strategy was pushed from the rows as they are
    missed,   \* history: <<gateway, port>> that a pool's job did not open
    strays,   \* history: gateways whose pool records could not follow, or not see, a change
    edits,    \* operations so far
    faults    \* failures so far

vars == <<pool, gw, rows, strategy, push, jobs, listed, spf, check, synced, missed, strays, edits, faults>>

----------------------------------------------------------------------------
(* Rows *)

NoPool == [on |-> {}, port |-> 0]

Pool == [on: SUBSET Gateways, port: 0 .. MaxPort]

GatewayStatus == {"Absent", "Pending", "Provisioning", "Provisioned", "Active", "Failed", "Disabled"}

\* open and opening: ufw's ports; serves: the listeners' ports; job: the Server Job, built or not.
Gateway == [status: GatewayStatus, enabled: BOOLEAN, open: SUBSET (1 .. MaxPort),
            opening: SUBSET (1 .. MaxPort), serves: [Pools -> 0 .. MaxPort],
            job: {"none", "provision", "upgrade"}, built: [Pools -> 0 .. MaxPort] \cup {<<>>}]

NewGateway == [status |-> "Pending", enabled |-> TRUE, open |-> {}, opening |-> {},
               serves |-> [p \in Pools |-> 0], job |-> "none", built |-> <<>>]

Exists(p) == pool[p].port # 0

Rule == [when: {"address", "domain", "sender", "foreign"}, domains: SUBSET Domains,
         then: {"local", "egress", "foreign"} \X (0 .. MaxPools)]

\* Every pool of a set of rows that a gateway hosts, with its port.
Hosted(ps, g) == [p \in Pools |-> IF g \in ps[p].on THEN ps[p].port ELSE 0]

PortsOf(f) == {f[p] : p \in Pools} \ {0}

Serving(g) == gw[g].status = "Active"

\* next_label: one past the highest number in use.
NextPool == 1 + (CHOOSE n \in 0 .. MaxPools : /\ n = 0 \/ Exists(n)
                                              /\ \A p \in Pools : Exists(p) => p <= n)

\* next_relay_port.
NextPort == 1 + (CHOOSE n \in 0 .. MaxPort : /\ n = 0 \/ \E p \in Pools : pool[p].port = n
                                             /\ \A p \in Pools : pool[p].port <= n)

----------------------------------------------------------------------------
(* The route expression *)

\* populated_pools: those with an address.
Populated == {p \in Pools : pool[p].on # {}}

\* pool_for_domain; 0 is no pool.
PoolForDomain(d) ==
    IF rows.domain[d] # 0 THEN rows.domain[d] ELSE IF rows.tenant # 0 THEN rows.tenant ELSE rows.default

\* default_pool.
DefaultPool == IF rows.default \in Populated THEN rows.default ELSE 0

\* domains_by_pool: one pool's domains.
DomainsOf(p) == {d \in rows.enabled : PoolForDomain(d) = p /\ p \in Populated}

\* Mutant of LocalRules: a relaying domain's mail is local as well.
LocalRulesForAll == <<[when |-> "domain", domains |-> {}, then |-> <<"local", 0>>]>>

\* local_rules: the domains of the rule are those it leaves out.
LocalRules ==
    LET relaying == rows.relaying \cap rows.enabled IN
      IF relaying = {}
      THEN <<[when |-> "domain", domains |-> {}, then |-> <<"local", 0>>]>>
      ELSE <<[when |-> "address", domains |-> {}, then |-> <<"local", 0>>],
             [when |-> "domain", domains |-> relaying, then |-> <<"local", 0>>]>>

\* The rules of cluster_operations: a pool that is not the default has one for its domains.  They
\* come in the order of the domains' names; no two are about one domain.
PoolRules ==
    SetToSeq({[when |-> "sender", domains |-> DomainsOf(p), then |-> <<"egress", p>>] :
              p \in {q \in Pools \ {DefaultPool} : DomainsOf(q) # {}}})

\* Rules of others: what Suite Cloud wrote routes to 'local' or to a pool.
ForeignRules == {r \in Rule : r.then[1] \notin {"local", "egress"}}

Foreign(rules) == Select(rules, ForeignRules)

\* route_expression, given what current_route_expression read.
RouteExpression(current) ==
    [rules |-> LocalRules \o PoolRules \o Foreign(current.rules),
     else |-> IF DefaultPool # 0 THEN <<"egress", DefaultPool>>
              ELSE IF current.else[1] = "egress" THEN <<"mx", 0>> ELSE current.else]

\* What current_route_expression returns when the cluster does not answer it.
NoExpression == [rules |-> <<>>, else |-> <<"mx", 0>>]

\* How Stalwart evaluates a rule and the expression.
Matches(r, mail) ==
    \/ r.when = "address" /\ mail.held
    \/ r.when = "domain" /\ mail.to # None /\ mail.to \notin r.domains
    \/ r.when = "sender" /\ mail.from \in r.domains
    \/ r.when = "foreign" /\ mail.to = None

Leaves(mail) ==
    LET hits == {i \in DOMAIN strategy.rules : Matches(strategy.rules[i], mail)}
    IN IF hits = {} THEN strategy.else
       ELSE strategy.rules[CHOOSE i \in hits : \A j \in hits : i <= j].then

\* sending_ips: the nodes' addresses, then those of the pools.
SendingIps(ps) ==
    [i \in 1 .. NodeIps |-> <<0, i>>]
    \o SetToSeq(UNION {{<<p, g>> : g \in ps[p].on} : p \in Pools})

\* spf_texts: as many addresses in a text as fit it; more than one text are children that the
\* include target lists.
SpfTexts(ips) ==
    LET texts == (Len(ips) + SpfLimit - 1) \div SpfLimit
    IN [i \in 1 .. texts |-> SubSeq(ips, (i - 1) * SpfLimit + 1, IF i = texts THEN Len(ips) ELSE i * SpfLimit)]

\* sync_spf_record; an include target that lists too many children raises.
SyncSpf == spf' = SpfTexts(SendingIps(pool')) /\ Len(spf') <= SpfLimit

----------------------------------------------------------------------------
(* Steps that several operations share *)

Edits == edits < MaxEdits /\ edits' = edits + 1

\* A fault happens, within the bound.
Faulty == faults < MaxFaults /\ faults' = faults + 1

\* push_config of the cluster, as far as routes go; the read of the expression may fail.
\* @param current what it read
Pushed(current) == strategy' = RouteExpression(current) /\ synced' = TRUE

\* The push passes, or fails and is kept on the cluster's form.
PushPasses ==
    \/ Pushed(strategy) /\ UNCHANGED faults
    \/ Pushed(NoExpression) /\ Faulty

\* Gateway.push_config from a set of pool rows: listeners are upserted, none is removed.
WithPlan(r, g, ps) ==
    LET plan == Hosted(ps, g)
    IN [r EXCEPT !.serves = [p \in Pools |-> IF plan[p] # 0 THEN plan[p] ELSE r.serves[p]]]

\* pool_records, as sync_pool_records lists them for the pools of a set.
Listing(ps, after, pools) ==
    [p \in Pools |-> IF p \in pools THEN {g \in ps[p].on : after[g].status = "Active"} ELSE listed[p]]

\* Mutant of SetStatus: the pool records do not follow.
SetStatusOnly(g, seen, after) ==
    /\ gw' = after
    /\ UNCHANGED <<listed, strays, faults>>

\* set_status by a caller that read the status seen: the records of the gateway's pools follow
\* when that copy says serving changed; a provider's error is logged.
SetStatus(g, seen, after) ==
    LET hosting == {p \in Pools : g \in pool[p].on}
        changes == (seen = "Active") # (after[g].status = "Active")
    IN /\ gw' = after
       /\ \/ /\ changes
             /\ listed' = Listing(pool, after, hosting)
             /\ UNCHANGED <<strays, faults>>
          \/ /\ changes /\ hosting # {} /\ Faulty
             /\ strays' = strays \cup {g}
             /\ UNCHANGED listed
          \/ /\ ~changes
             /\ strays' = IF seen = gw[g].status THEN strays ELSE strays \cup {g}
             /\ UNCHANGED <<listed, faults>>

----------------------------------------------------------------------------
(* Pools: EgressIPPool *)

\* after on_update: pool and SPF records now, the rest in a job after commit.
SavePool(p, new, fresh) ==
    /\ pool' = [pool EXCEPT ![p] = new]
    /\ listed' = Listing(pool', gw, {p})
    /\ SyncSpf
    /\ jobs' = jobs \cup {[pool |-> p, fresh |-> fresh, todo |-> {}, seen |-> <<>>, up |-> {}]}
    /\ synced' = FALSE
    /\ UNCHANGED <<gw, rows, strategy, push, check, missed, strays, faults>>

InsertPool(on) ==
    /\ Edits
    /\ NextPool \in Pools /\ NextPort <= MaxPort
    /\ \A g \in on : gw[g].status # "Absent"
    /\ SavePool(NextPool, [on |-> on, port |-> NextPort], on)

\* Mutant of NewPortOn: a port that moved is taken for open.
NewPortOnAdded(p, on, port) == on \ pool[p].on

\* The gateways that newly host the relay port (apply_pool_changes).
NewPortOn(p, on, port) == IF port # pool[p].port THEN on ELSE on \ pool[p].on

\* The addresses change, or the port does; new_port_on is worked out from the row before.
EditPool(p, on, port) ==
    /\ Edits
    /\ Exists(p) /\ port \in {pool[p].port, NextPort} /\ port <= MaxPort
    /\ \A g \in on : gw[g].status # "Absent"
    /\ [on |-> on, port |-> port] # pool[p]
    /\ SavePool(p, [on |-> on, port |-> port], NewPortOn(p, on, port))

DeletePool(p) ==
    /\ Edits
    /\ Exists(p)
    /\ p \notin {rows.default, rows.tenant} \cup {rows.domain[d] : d \in Domains}
    /\ pool' = [pool EXCEPT ![p] = NoPool]
    /\ listed' = [listed EXCEPT ![p] = {}]
    /\ SyncSpf
    /\ push' = TRUE
    /\ synced' = FALSE
    /\ UNCHANGED <<gw, rows, strategy, jobs, check, missed, strays, faults>>

\* A desk change that routing depends on resyncs the cluster: the cluster's default pool, a
\* tenant's, a domain's pool, allow_relaying and enabled.
Assign(new) ==
    /\ Edits
    /\ rows' = new /\ new # rows
    /\ push' = TRUE
    /\ synced' = FALSE
    /\ UNCHANGED <<pool, gw, strategy, jobs, listed, spf, check, missed, strays, faults>>

Assignments ==
    LET held == {0} \cup {p \in Pools : Exists(p)} IN
      {[rows EXCEPT !.default = p] : p \in held} \cup {[rows EXCEPT !.tenant = p] : p \in held}
      \cup {[rows EXCEPT !.domain[d] = p] : d \in Domains, p \in held}
      \cup {[rows EXCEPT !.relaying = ds] : ds \in SUBSET Domains}
      \cup {[rows EXCEPT !.enabled = ds] : ds \in SUBSET Domains}

\* Somebody edits the strategy on the cluster itself: a rule in front, or the fallback.
EditForeign ==
    /\ Edits
    /\ strategy' \in {[strategy EXCEPT !.rules = <<[when |-> "foreign", domains |-> {}, then |-> <<"foreign", 0>>]>> \o @],
                      [strategy EXCEPT !.else = <<"foreign", 0>>]}
    /\ synced' = FALSE
    /\ UNCHANGED <<pool, gw, rows, push, jobs, listed, spf, check, missed, strays, faults>>

\* resync_cluster_job; a failure is recorded, and the next push carries the change.
ClusterPush ==
    /\ push
    /\ push' = FALSE
    /\ \/ PushPasses
       \/ Faulty /\ UNCHANGED <<strategy, synced>>
    /\ UNCHANGED <<pool, gw, rows, jobs, listed, spf, check, missed, strays, edits>>

\* The job is lost: its worker died, or the push of the cluster or of a gateway raised.
LoseJob(j) ==
    /\ Faulty
    /\ jobs' = jobs \ {j}
    /\ missed' = missed \cup {<<g, pool[j.pool].port>> : g \in j.fresh}
    /\ UNCHANGED <<pool, gw, rows, strategy, push, listed, spf, check, synced, strays, edits>>

\* apply_pool_changes_job, up to the end of the cluster's push.  All it reads from
\* here on is what its transaction saw now.
StartJob(j) ==
    /\ j.seen = <<>>
    /\ IF Exists(j.pool)
       THEN /\ PushPasses
            /\ jobs' = (jobs \ {j}) \cup {[j EXCEPT !.seen = pool, !.todo = pool[j.pool].on,
                                                     !.up = {g \in Gateways : Serving(g)}]}
       ELSE /\ jobs' = jobs \ {j}
            /\ UNCHANGED <<strategy, synced, faults>>
    /\ UNCHANGED <<pool, gw, rows, push, listed, spf, check, missed, strays, edits>>

\* One gateway of the pool: its configuration, and a Server Job for a port that is new on it.
JobPushesGateway(j, g) ==
    LET port == j.seen[j.pool].port
        rest == jobs \ {j}
    IN /\ j.seen # <<>> /\ g \in j.todo
       /\ IF g \in j.up
          THEN /\ gw' = [gw EXCEPT ![g] = [WithPlan(gw[g], g, j.seen) EXCEPT
                                              !.opening = IF g \in j.fresh THEN @ \cup {port} ELSE @]]
               /\ UNCHANGED missed
          ELSE /\ missed' = IF g \in j.fresh THEN missed \cup {<<g, port>>} ELSE missed
               /\ UNCHANGED gw
       /\ jobs' = IF j.todo = {g} THEN rest
                  ELSE rest \cup {[j EXCEPT !.todo = @ \ {g}, !.fresh = @ \ {g}]}
       /\ UNCHANGED <<pool, rows, strategy, push, listed, spf, check, synced, strays, edits, faults>>

\* A pool whose addresses were all removed has no gateway left to push.
EndJob(j) ==
    /\ j.seen # <<>> /\ j.todo = {}
    /\ jobs' = jobs \ {j}
    /\ UNCHANGED <<pool, gw, rows, strategy, push, listed, spf, check, synced, missed, strays, edits, faults>>

\* The Server Job of open_relay_port ends.
OpenPort(g, port) ==
    /\ port \in gw[g].opening
    /\ \/ /\ gw' = [gw EXCEPT ![g].opening = @ \ {port}, ![g].open = @ \cup {port}]
          /\ UNCHANGED <<missed, faults>>
       \/ /\ Faulty
          /\ gw' = [gw EXCEPT ![g].opening = @ \ {port}]
          /\ missed' = missed \cup {<<g, port>>}
    /\ UNCHANGED <<pool, rows, strategy, push, jobs, listed, spf, check, synced, strays, edits>>

----------------------------------------------------------------------------
(* Gateways: EgressGateway *)

InsertGateway(g) ==
    /\ Edits
    /\ gw[g].status = "Absent"
    /\ gw' = [gw EXCEPT ![g] = NewGateway]
    /\ UNCHANGED <<pool, rows, strategy, push, jobs, listed, spf, check, synced, missed, strays, faults>>

TrashGateway(g) ==
    /\ Edits
    /\ gw[g].status \in {"Pending", "Failed", "Disabled"} /\ gw[g].job = "none"
    /\ \A p \in Pools : g \notin pool[p].on
    /\ gw' = [gw EXCEPT ![g] = [NewGateway EXCEPT !.status = "Absent"]]
    /\ check' = [check EXCEPT ![g] = "none"]
    /\ UNCHANGED <<pool, rows, strategy, push, jobs, listed, spf, synced, missed, strays, faults>>

\* provision and upgrade: neither looks at the status.  One job of a gateway at a time.
StartServerJob(g, kind) ==
    /\ Edits
    /\ gw[g].status # "Absent" /\ gw[g].job = "none"
    /\ LET after == [gw EXCEPT ![g].job = kind, ![g].status = IF kind = "provision" THEN "Provisioning" ELSE @]
       IN SetStatus(g, gw[g].status, after)
    /\ UNCHANGED <<pool, rows, strategy, push, jobs, spf, check, synced, missed>>

\* build_gateway_variables, when a worker takes the job.
BuildVariables(g) ==
    /\ gw[g].job # "none" /\ gw[g].built = <<>>
    /\ gw' = [gw EXCEPT ![g].built = Hosted(pool, g)]
    /\ UNCHANGED <<pool, rows, strategy, push, jobs, listed, spf, check, synced, missed, strays, edits, faults>>

Ended(r) == [r EXCEPT !.job = "none", !.built = <<>>]

\* What the playbook leaves on the server: the ports open and, for a new gateway, the plan applied.
Ran(r) ==
    [Ended(r) EXCEPT !.open = @ \cup PortsOf(r.built),
                     !.serves = IF r.job = "upgrade" THEN @
                                ELSE [p \in Pools |-> IF r.built[p] # 0 THEN r.built[p] ELSE @[p]]]

\* The playbook failed, or the callback raised: after_provision_failed, after_upgrade_failed.
ServerJobFails(g) ==
    /\ gw[g].built # <<>>
    /\ \E server \in {Ended(gw[g]), Ran(gw[g])} :
         SetStatus(g, gw[g].status, [gw EXCEPT ![g] = [server EXCEPT !.status = "Failed"]])
    /\ UNCHANGED <<pool, rows, strategy, push, jobs, spf, check, synced, missed, edits>>

\* after_provision and after_upgrade: the status, then a check of its own.
\* @param to "Provisioned" when the check it ends with finds the server not ready
ServerJobPasses(g, to) ==
    /\ gw[g].built # <<>>
    /\ LET built == gw[g].built
           provisioned == [gw EXCEPT ![g] = [Ran(gw[g]) EXCEPT !.status = "Provisioned"]]
       IN /\ missed' = missed \ ({g} \X PortsOf(built))
          /\ \/ /\ to = "Provisioned"
                /\ SetStatus(g, IF gw[g].job = "upgrade" THEN gw[g].status ELSE "Provisioned", provisioned)
                /\ UNCHANGED <<strategy, synced>>
             \/ /\ to = "Active"
                /\ gw' = [provisioned EXCEPT ![g].status = "Active"]
                /\ Pushed(strategy)
                /\ listed' = IF gw[g].job = "upgrade" /\ Serving(g)
                             THEN Listing(pool, provisioned, {p \in Pools : g \in pool[p].on})
                             ELSE listed
                /\ UNCHANGED <<strays, faults>>
    /\ UNCHANGED <<pool, rows, push, jobs, spf, check, edits>>

\* check_gateway of the poller or the button: reads the row, then asks the server.
CheckReads(g) ==
    /\ gw[g].status \in {"Provisioned", "Active"} /\ check[g] = "none"
    /\ check' = [check EXCEPT ![g] = gw[g].status]
    /\ UNCHANGED <<pool, gw, rows, strategy, push, jobs, listed, spf, synced, missed, strays, edits, faults>>

\* The server answers: a plain column write makes it Active, then the cluster is pushed.
CheckPasses(g) ==
    /\ check[g] # "none"
    /\ check' = [check EXCEPT ![g] = "none"]
    /\ IF check[g] = "Active"
       THEN UNCHANGED <<gw, strategy, synced>>
       ELSE gw' = [gw EXCEPT ![g].status = "Active"] /\ Pushed(strategy)
    /\ UNCHANGED <<pool, rows, push, jobs, listed, spf, missed, strays, edits, faults>>

\* It does not, or the push raised and the status is rolled back: nothing, before the deadline.
CheckFails(g) ==
    /\ check[g] # "none"
    /\ check' = [check EXCEPT ![g] = "none"]
    /\ \/ UNCHANGED <<gw, listed, strays, faults>>
       \/ /\ check[g] = "Provisioned"
          /\ SetStatus(g, "Provisioned", [gw EXCEPT ![g].status = "Failed"])
    /\ UNCHANGED <<pool, rows, strategy, push, jobs, spf, synced, missed, edits>>

\* on_update: enabled is cleared or set.
ToggleGateway(g) ==
    /\ Edits
    /\ gw[g].status # "Absent"
    /\ LET disables == gw[g].enabled /\ gw[g].status \in {"Provisioned", "Active"}
       IN SetStatus(g, gw[g].status,
                    [gw EXCEPT ![g].enabled = ~@, ![g].status = IF disables THEN "Disabled" ELSE @])
    /\ UNCHANGED <<pool, rows, strategy, push, jobs, spf, check, synced, missed>>

\* on_update: a new address of the gateway itself renews the records of its pools.
MoveGateway(g) ==
    /\ Edits
    /\ gw[g].status # "Absent"
    /\ listed' = Listing(pool, gw, {p \in Pools : g \in pool[p].on})
    /\ UNCHANGED <<pool, gw, rows, strategy, push, jobs, spf, check, synced, missed, strays, faults>>

\* sync_config of an active gateway.
SyncGateway(g) ==
    /\ Edits
    /\ Serving(g)
    /\ gw' = [gw EXCEPT ![g] = WithPlan(gw[g], g, pool)]
    /\ UNCHANGED <<pool, rows, strategy, push, jobs, listed, spf, check, synced, missed, strays, faults>>

----------------------------------------------------------------------------

Init ==
    /\ pool = [p \in Pools |-> NoPool]
    /\ gw \in [Gateways -> {NewGateway, [NewGateway EXCEPT !.status = "Absent"]}]
    /\ rows = [default |-> 0, tenant |-> 0, domain |-> [d \in Domains |-> 0],
               relaying |-> {}, enabled |-> Domains]
    /\ strategy = [rules |-> <<[when |-> "domain", domains |-> {}, then |-> <<"local", 0>>]>>,
                   else |-> <<"mx", 0>>]
    /\ push = FALSE
    /\ jobs = {}
    /\ listed = [p \in Pools |-> {}]
    /\ spf = SpfTexts(SendingIps(pool))
    /\ check = [g \in Gateways |-> "none"]
    /\ synced = TRUE
    /\ missed = {}
    /\ strays = {}
    /\ edits = 0
    /\ faults = 0

Next ==
    \/ \E on \in SUBSET Gateways : InsertPool(on)
    \/ \E p \in Pools, on \in SUBSET Gateways, port \in 1 .. MaxPort : EditPool(p, on, port)
    \/ \E p \in Pools : DeletePool(p)
    \/ \E new \in Assignments : Assign(new)
    \/ EditForeign
    \/ ClusterPush
    \/ \E j \in jobs : LoseJob(j) \/ StartJob(j) \/ EndJob(j) \/ (\E g \in Gateways : JobPushesGateway(j, g))
    \/ \E g \in Gateways :
         \/ InsertGateway(g) \/ TrashGateway(g) \/ ToggleGateway(g) \/ MoveGateway(g) \/ SyncGateway(g)
         \/ \E kind \in {"provision", "upgrade"} : StartServerJob(g, kind)
         \/ BuildVariables(g) \/ ServerJobFails(g)
         \/ \E to \in {"Provisioned", "Active"} : ServerJobPasses(g, to)
         \/ CheckReads(g) \/ CheckPasses(g) \/ CheckFails(g)
         \/ \E port \in 1 .. MaxPort : OpenPort(g, port)

Spec == Init /\ [][Next]_vars

----------------------------------------------------------------------------
(* Properties *)

\* Types of the variables.
TypeOK ==
    /\ pool \in [Pools -> Pool]
    /\ gw \in [Gateways -> Gateway]
    /\ rows \in [default: 0 .. MaxPools, tenant: 0 .. MaxPools, domain: [Domains -> 0 .. MaxPools],
                 relaying: SUBSET Domains, enabled: SUBSET Domains]
    /\ strategy.rules \in Seq(Rule)
    /\ push \in BOOLEAN /\ synced \in BOOLEAN
    /\ listed \in [Pools -> SUBSET Gateways]
    /\ check \in [Gateways -> {"none", "Provisioned", "Active"}]

\* Mail that stays: a held address, or an enabled domain that keeps no mailbox elsewhere.
Stays(mail) == mail.held \/ mail.to \in Domains \ (rows.relaying \cap rows.enabled)

Mails == [from: Domains \cup {None}, to: Domains, held: BOOLEAN]
         \cup [from: Domains \cup {None}, to: {None}, held: {FALSE}]

\* route_expression: once the cluster holds the expression of the current rows, mail between its
\* domains stays on it, other mail of a domain leaves through the domain's, its tenant's or the
\* cluster's pool, in this order, no mail is routed to a pool that has no address, whatever
\* expression (former pools, rules of others) the new one was built from, and SPF lists every
\* address of the pool the mail is routed to.
MailLeavesAsAssigned ==
    synced => \A mail \in Mails :
      LET target == Leaves(mail)
          wanted == IF mail.from \in rows.enabled THEN PoolForDomain(mail.from) ELSE rows.default
      IN /\ Stays(mail) <=> target[1] = "local"
         /\ target[1] = "egress" => /\ target[2] \in Populated
                                    /\ \A g \in pool[target[2]].on :
                                         \E i \in DOMAIN spf : <<target[2], g>> \in Range(spf[i])
         /\ ~Stays(mail) /\ wanted \in Populated /\ Foreign(strategy.rules) = <<>>
              => target = <<"egress", wanted>>

\* pool_records: "a gateway that is not serving must not be in the round robin".  The records
\* follow every status a gateway takes, unless the provider refused, or the change was made by a
\* check that had read the status before another made the gateway Active.
RoundRobinServes ==
    \A p \in Pools : \A g \in listed[p] : Serving(g) \/ g \in strays

\* open_relay_port: a relay listener an active gateway has for a pool it hosts is reachable: its
\* port is open, or a job will open it, or the pool's job failed or passed the gateway over.
RelayPortsOpen ==
    \A g \in Gateways, p \in Pools :
      LET port == gw[g].serves[p] IN
        Serving(g) /\ g \in pool[p].on /\ port # 0 /\ port = pool[p].port
          => \/ port \in gw[g].open \cup gw[g].opening
             \/ <<g, port>> \in missed
             \/ \E j \in jobs : j.pool = p /\ g \in j.fresh

\* resync_pool_records: "The pool hostnames list only serving gateways, so they follow this one's
\* status."  A serving gateway is listed by every pool it hosts, when nothing failed.
PoolHostnameFollowsStatus ==
    faults = 0 => \A p \in Pools : \A g \in pool[p].on : Serving(g) => g \in listed[p]
=============================================================================
