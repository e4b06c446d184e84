# Suite Cloud, specified in TLA+

Suite Cloud (`src/suite_cloud`) is a Frappe application: Python web workers and RQ background jobs
over MariaDB and Redis. It hosts Suite sites on Frappe Cloud servers, runs clusters of Stalwart mail
servers, keeps their directory, DNS and sending limits, and collects their telemetry. Almost nothing
in it is a tight algorithm; what is hard is that many short-lived processes (web requests, RQ jobs,
cron jobs, remote services) read rows, talk to something over the network and write the rows back
later, while workers die, answers are lost and operators press buttons. That is what these modules
model.

`PROJECT.json` lists the components, the runs, the mutants, the source lines behind every
definition, the hazards and the theorems. To check a run: `tlc -config <Run>.cfg <Module>`; to check
the proofs: `tlapm <Module>.tla` for each of `HostingProofs`, `MailProofs`,
`ClusterConfigProofs`, `ServerJobsProofs`, `VirtualMachinesProofs`, `ServersProofs`,
`TrafficProofs` and `DomainsProofs`.

## The system

| Part | State | Operations | Talks to | Hard because |
|---|---|---|---|---|
| Site lifecycle (`hosting/sites.py`) | Suite Site rows, setup and drop jobs | create, configure, activate, follow up, claim, retry, drop, poll | Pilot, tenants, requests | a setup job, a drop job and operators write one row; Pilot's tasks run on their own time |
| Signup requests (`suite_tenant_request.py`, `labels.py`) | requests, codes in Redis, labels | insert, verify, process, resume, expire, retry | sites, placement | snapshots older than locks; confirmation racing expiry |
| Virtual machines (`hosting/machines.py`) | Virtual Machine rows | create, accept, boot, verify, install, refresh, sync, buttons | Central, Pilot | folded and lost creations; rows older than the registry |
| Placement and pool (`hosting/capacity.py`) | slots of servers | pick a server, fill the pool, add servers | sites, machines | row locks with counts from an older snapshot |
| Server jobs (`server_job.py`) | job rows, RQ | enqueue, execute, callback, retry, cron | nodes, gateways | one id in RQ twice; a worker dying before the callback |
| Nodes and bootstrap (`bootstrap.py`, `stalwart_node.py`, `cluster/dns.py`) | nodes, cluster, ingress records | provision, upgrade, drain, restore, enable, check, delete | server jobs, Stalwart, DNS | a check decides on rows read before its network call |
| Sending limits (`sending_limits.py`, `mail_send_usage.py`) | Redis counters and cache, usage rows | check, seed, flush, save, delete | Stalwart's RCPT hook | many workers, lost keys, midnight, failing flushes |
| Site domains (`hosting/domains.py`) | domains of a site, tokens, tasks | add, verify, attach, make primary, remove, poll | Central, Pilot, DNS | Pilot outlives the wait for it; the save afterwards may be refused |
| Egress gateways and pools (`cluster/egress.py`) | gateways, pools, routes, DNS | health, drain, pool changes | server jobs, push, DNS | order of cluster and gateway changes; overlapping jobs |
| Configuration push (`cluster/push.py`, `stalwart_cluster.py`) | pending mark, push lock | queue, push, sync | clusters | a lock that expires; snapshots older than the lock |
| Server tokens, telemetry roll-out (`telemetry/install.py`) | tokens and scanners of servers | install, rotate, switch on | server jobs, push | the last of several jobs switches on |
| DNS zones and records (`dns_record.py`, `dns/provider.py`) | records here and at the provider | push, delete, reconcile, verify | provider | provider calls inside and after transactions |
| Mail domains (`mail_domain.py`) | a domain here and on the cluster | insert, edit, check, refresh, recheck, delete | Stalwart, resolvers | a check decides on a row read before it resolved |
| Mail directory (`mail_group.py`, `mailing_list.py`, `tenancy/`) | accounts, groups, lists, aliases | insert, save, adopt, delete | Stalwart | pushes inside a transaction that may roll back |
| Account credentials (`mail_account.py`, `account_credentials.py`) | the row's mirror, the cluster's credentials | create, rotate, revoke, refresh | Stalwart | made before a commit, revoked after it |
| Telemetry (`telemetry/`, `api/telemetry`) | spool files, warehouse | push, stage, load, prune | servers, warehouse | exactly-once over files and a warehouse |
| Quotas, reports, alerts | sums, reports, alerts | check, fetch, open, resolve | clusters, telemetry | counts from an older snapshot |

Clients of HTTP services, permissions, settings, patches and pure formatting carry no protocol of
their own and are listed as not modelled.

### How the platform is modelled

- **Transactions.** MariaDB runs at REPEATABLE READ: a plain read sees the snapshot of the
  transaction's first read, a `FOR UPDATE` read and an `UPDATE` see and lock the current row. A step
  is what happens between two points at which another process can see or change something: a commit,
  a network call, a lock that is waited for. A row lock held across such points is a variable, and
  every write of that row is guarded by it.
- **Requests.** Where a request reads a row, decides on it and writes it later, the model has two
  steps. Where nothing but local work lies between the read and the write, and the form checks that
  its document did not change, it has one (`ClusterNodes` says where).
- **RQ.** A deduplicated enqueue looks the job id up; an id stays taken until the job's process has
  left the registry ("exit"); workers die between any two steps; an enqueue after a commit may be
  lost with its process.
- **Remote services** (Central, Pilot, Stalwart) are external: they finish on their own time, fail,
  or do what was asked while the answer is lost.
- **Cron jobs** may run at any time; only fairness assumes that they do run.

## Modules

| Module | Models | Composition |
|---|---|---|
| `SiteLifecycle` | a site from its row to the site a tenant uses, and its drop | extended by `MCHosting`; proofs in `HostingProofs` |
| `SignupRequests` | signups of one organization, their codes and labels | instantiated by `MCHosting`; proofs in `HostingProofs` |
| `SitePlacement` | where the sites of a region go: claims, the pool, waiting sites, new servers | instantiated by `MCHosting`; proofs in `HostingProofs` |
| `SiteDomains` | the domains of one site | instantiated by `MCDomains`; proofs in `DomainsProofs` |
| `SendingLimits` | the RCPT check, the Redis counters, the flush, the usage rows | `MCSendingLimits`, extended by `MCMail`; proofs in `MailProofs` |
| `ServerJobs` | Server Job over RQ, with callbacks and retries | extended by `ClusterNodes`, instantiated by `MCServers`; proofs in `ServerJobsProofs` |
| `ClusterNodes` | nodes of one cluster, its bootstrap, checks and ingress | extends `ServerJobs`; extended by `MCServers`; proofs in `ServersProofs` |
| `VirtualMachines` | servers on Central, the fleet refresh, the region's zone | instantiated twice by `MCServers`; proofs in `VirtualMachinesProofs` |
| `Selections` | selection from a sequence by a set | extended by `EgressPools` and `Telemetry` |
| `EgressPools` | pools, gateways, routes, relay ports, round robin and SPF of one cluster | proofs in `TrafficProofs` |
| `ClusterConfig` | queued and locked pushes, tokens, scanners, the telemetry roll-out | proofs in `ClusterConfigProofs` |
| `Telemetry` | pushes, the scan shipper, the spool, the loader, the retention | implements `BatchLog`; proofs in `TrafficProofs` |
| `BatchLog` | what the telemetry store promises: every batch held once | the abstract specification |
| `MailDomains` | one mail domain, its copy on the cluster and its DNS checks | proofs in `DomainsProofs` |
| `DnsRecords` | records of owners that share them, and the provider | extended by `MCDomains`; proofs in `DomainsProofs` |
| `MailAccounts` | one account and its app passwords | instantiated by `MCMail`; proofs in `MailProofs` |
| `MailDirectory` | an account, a group and a list with aliases, members, recipients | instantiated by `MCMail`; proofs in `MailProofs` |

`MCHosting`, `MCServers`, `MCDomains` and `MCMail` put modules that share no variable into one run. A
variable `part`, chosen in the initial state and never changed, says which of them a behaviour
exercises; the others keep their initial values. The fairness of a part is asked for only of the
behaviours that exercise it, and because `part` never changes, one strong-fairness formula over
alternatives of different parts is the same as one for each. Every property of a part is then the
property of the module, checked on all behaviours of that module. The
sending limits, which have runs of their own, are one of the parts of `MCMail` with the smallest bounds.

**SiteLifecycle.** `site` holds the rows, `setup` and `dropjob` the jobs with the copy of the row
they work on, `op` what an operator's request has read, `pilot` the create task and the existence of
each host name tried. One action per stretch of `sites.py` between two checkpoints (`CreateBegin`,
`CreateRequest`, `CreateSave`, `TaskSucceeded`, `PushCredentials`, `Activate`, ...), one per caller
(`ClaimReady`, `ClaimNew`, `Retry`, `RotateReaches`, `DropSite`, `PollPendingSites`). A tenant's
secret is a version number.

**SignupRequests.** `job[r].seen` is the snapshot a processing job reads labels with. All requests
are of one organization, so the generated label is the lowest number that looks free.

**SitePlacement.** A claim, the pool's cron job and a waiting site's setup job are each a `placer`: it
locks the servers' rows in name order, counts with the snapshot in `placer[p].view` and holds the
locks until it commits. `late` records a server taken from a count that was out of date.

**SiteDomains.** `row` and `primary` are Suite Cloud's side, `attached`, `pprimary` and `tasks` Pilot's,
`token`, `sent` and `shown` the ownership token at Central, at the DNS provider and at the resolvers.
A process that waits for Pilot is one step up to the wait, a step of Pilot (which may end the task
well, badly or after the wait) and one step after it, which saves or is refused because the row was
saved meanwhile.

**SendingLimits.** `counter`, `live`, `touched`, `flushing` and `cache` are the Redis keys, `usage`
and `stored` the Mail Send Usage rows, `worker` the requests of Stalwart and `flusher` the flush job.
`CountRecipient` is the Lua script, the one atomic step on the counters. The refused counter takes
the same path as the sent counter and is left out. `accepted` and `held` are history.

**ServerJobs.** `rq` is RQ's status per id and `queue` how often the id stands in the queue; both are
needed because the enqueue looks the status up before the commit and pushes after it.

**ClusterNodes.** Extends ServerJobs: `AfterProvision`, `AfterUpgrade` and `AfterFailed` are the
callbacks of its jobs. A health check is two steps around the call to Stalwart; everything it writes
is computed by one operator on the rows as they are and the node as it was read. The initial states
are a new cluster and one in service, of one or more nodes, with a shared or an embedded store.

**VirtualMachines.** `refresh` holds what `refresh_fleet` read of the rows and then of the registry.
`action` and `resource` name the machine whose creation they came from, so that two rows can be
folded into one creation.

**EgressPools.** `rows` are the assignments (default, tenant and domain pools), `strategy` what the
cluster was last given for them, `gw` the gateways with what is really installed on their servers,
`jobs` the `apply_pool_changes` jobs, which may overlap, `listed` and `spf` the DNS rows. A pool is
its number, which `naming.py` hands out again once the highest one is deleted. `synced`, `missed` and
`strays` record failures that the code does not repair.

**ClusterConfig.** A plan is the clock of the snapshot it was rendered from, the desk changes in it
and its two switches. A pusher reads its snapshot, waits for the lock, pushes and lets go; the lock
and the pending mark can expire under it. `lost` records that a push failed or was overtaken and no
complete one has followed.

**Telemetry.** A push is staged as one file for each of its tables; `loader` copies at most
`ChunkFiles` files under its lock, skips a batch the table already has, computes each counter's change
against the last point within a day, commits, and deletes the files. Requests time out after or before they are
staged, files are damaged, the loader dies between any two of its steps. `Log` maps files and rows to
`BatchLog`: a batch staged and not yet in the warehouse waits (`Waiting`), the rows are what is held
(`Copies`). A row says how many rows of its batch the table had before it, so a second one would be a copy
of its own and not disappear in the set. `ever`, of a counter and of a push, is history: what the host has
counted over all its restarts, against which the changes are judged.

**MailDomains.** A check is three steps: it reads the row and resolves, it tells the cluster, it saves
and is refused if the row changed. `recheck_vouched_domains` goes through the list it read at its
start. `untold` records that a push happened whose save did not, or the reverse. Its names are its own, so
that one proof module can extend it and `MCDomains`.

**DnsRecords.** An owner turns its wishes, its transaction deletes stale rows and their records one by
one, then commits, and the pushes of the new rows are queued. `lost` and `leaked` record the races of
two owners of one record and the provider's refusals.

**MailAccounts.** A save holds the row's lock from its check of `modified`, pushes call by call, and
revokes credentials after the commit, or those it made after a rollback. Opening the form writes the
cluster's list over the mirror. `handed` is the login the tenant was last given.

**MailDirectory.** A request is what it checks, the rows it writes at its commit and the sequence of
calls it makes before; a failed call or a dead worker leaves the calls made so far on the cluster,
except the ones the code takes back. A request writes a row at most once, so a transaction is a set of
writes (`Write`): each row gets the value of its write, and without one the membership goes with the
account and the recipients with the list.

## Runs

Bounds are constants of the modules, each named and commented there. An instance has one object of a
kind where the code treats objects independently and two where they compete (workers, nodes,
requests, first servers), at least one failure of every sort the bound counts, and limits small
enough to be reached exactly and passed.

| Run | Instance | Shows |
|---|---|---|
| `Hosting` | 1 site, 1 tenant, 1 operator, 2 host names, 2 secrets | a site's life: `NothingCreatedTwice`, `ServedSitesExist`, `NoSignupWaitsOnFailedSite`, `DropIsFinal`; `SetupSettles`: a site mid-way becomes Ready, Active, Failed or dropped |
| | 1 signup, 2 confirmations, 2 operators, 2 deaths or lost pushes | `SiteEndsProcessing`; `SignupSettles`: a confirmed signup gets its site or shows an error |
| | 3 sites, 1 claim, the pool (2 ready sites), 3 servers of 1 site each, 1 fault | `ServersNotOverfull`; `WaitingIsPlaced`: a site waiting for a server gets one or an error |
| `SiteSecretRace` | 1 site, 1 operator, 2 secrets | the divergence described below |
| `SendingLimits` | 1 account, 2 workers, 1 day, 1 save, 1 loss | `SentWithinLimit`, `NeverOvercounted` |
| `SendingFlushed` | 1 worker, 2 days of one month, 1 save | over midnight: `PastLimitIsKept`; `CountsAreStored`: every count is stored in the end |
| `Servers` | a full and an outbound node, or a single one; 2 jobs, every button | `IngressFollowsStatus`, outbound nodes included |
| | 1 server, an operator, the daily sync; or 2 first servers, 2 zones, 1 loss | `EndedIsGone`, `ReadyIsSetUp` (one zone per region, folded creations included) |
| `ServersSettle` | 1 full and 1 outbound node, 1 job, the poller | `NodeSettles`: a Provisioned node is promoted, failed or taken away |
| | 1 Server Job, 2 workers, cron and operator, 2 failures, 1 death | `JobRunsAsAllowed`: one run at a time, automatic retries bounded; `JobsEnd` |
| | 1 server, both refreshes, 1 loss | `MachineSettles`: a server on its way gets ready or shows an error |
| `EgressPools` | 2 pools, 2 domains, 1 gateway, 2 ports, 4 operations, 1 fault | `MailLeavesAsAssigned`, `RoundRobinServes`, `RelayPortsOpen` |
| `ClusterConfig` | 2 nodes, 2 workers, 1 operator, 2 commits, 1 fault | `SwitchedOnWhereInstalled`, `QuietIsCurrent`; `ChangeArrives`: a desk change reaches the cluster |
| `Telemetry` | 1 host, metrics and scans, 3 pushes, 2 ticks, 1 fault | `LoggedOnce` (refinement of `BatchLog`), `ChangesNeverOvercount`; `AckedArrives` |
| `MailDomains` | 1 domain, 1 policy record, 1 key, 2 workers, 3 edits, 1 fault | `ClusterFollows`; `VouchingEnds`: nothing stays live on the cloud's word once the setting stays off |
| `Domains` | 2 owners, 1 shared record, 2 TTLs, 2 workers, 4 changes, 1 fault | `RecordsMatchRows`; `Confirmed`: an owner that waits is confirmed |
| | the site's own and one more domain, 2 operators, the poller, 2 tokens, 2 edits, 1 fault | `PilotFollows`: rows and Pilot agree; `SiteDomainArrives`: the own domain is attached in the end |
| `MailDirectory` | 1 account, 2 requests, 3 credentials, 3 edits, 1 fault | `AccountFollows`, `CredentialsFollow`, `LoginAnswers` |
| | account, group and list, 1 alias, 2 recipients, 2 requests, 1 fault | `AddressHeldOnce`, `DirectoryFollows` |

One signup is enough: another one acts on it only through the labels, and reserving one may fail at
any time. `ServerJobs` has one row because only the newest job of a server is retried; that an older
one is superseded happens in `ClusterNodes`, where the second job does it. One gateway is enough
because the code reads gateways only through the pools they host, and one gateway hosts both pools.
The domains, records, credentials and objects that the code never compares with each other appear
once; the ones that compete (two owners of one record, two requests for one alias) appear twice.

Every property of a passing run has a mutant in `PROJECT.json`: a definition changed the way a
plausible bug would change the code, under which the same run finds the property violated.

Some properties hold under a condition that is worth knowing, and a history variable says when it
fails. `JobRunsAsAllowed` leaves out the jobs in `collided`: an operator who presses Retry at the
moment the cron retries the same job can have it run twice. `DropIsFinal` allows for an operator's
request that read the row before the drop (`overwritten`). The rows of a domain, an account, a site or
a directory follow the remote side unless a push was made whose save was lost, or the reverse
(`untold`, `parted`, `lost`, `overlaid`); the same goes for records (`lost`, `leaked`), gateways
(`missed`, `strays`) and pushes (`lost`, and `newest` for an older plan that overtook). Each of these is
set only in the step that causes it, and the table and the list below say which behaviours of the code
they are. `ChangesNeverOvercount` leaves out a push loaded after a later one of its host (`late`), and
`ServersNotOverfull` the servers that a claim or the pool took from a count that was out of date (`late`
of `SitePlacement`). `NoSignupWaitsOnFailedSite` is about the steps that leave a site Failed, and leaves
out a Retry of another site of the tenant and one that read the row before it failed.

### Where the code and its own words differ

One run checks a sentence of the code's own documentation, and TLC finds a behaviour of the code that
contradicts it: `SiteSecretRace`. An Active site gets the new secret, or Configure carries it
(`suite_tenant.py`, `push_secret_to_site`); but the secret may be rotated while Configure is under
way, and the site becomes Active with the old one.

The models have other behaviours that a reader of the code's comments would not expect. A formula in
the last column shows as a violation when it is added to a cfg as an invariant.

| Where | The sentence | The behaviour |
|---|---|---|
| `labels.py:112` | no two requests pick one label | the snapshot the label is checked with is older than the lock: `NoTwoHoldOneLabel` with two requests, `MaxLabel` 2, one call and no operators |
| `stalwart_cluster.py:408` | a later push never loses to an older plan | the snapshot is read before the lock is waited for, and the lock expires: `NoPlanOvertakes` |
| `egress_gateway.py:161` | the pool hostnames follow the gateway's status | a check makes a gateway Active by a plain column write, so one that was upgraded stays out of the round robin: `PoolHostnameFollowsStatus` |
| `sites.py:326` | no setup job starts on a site being dropped | a Retry that read Failed before the drop overwrites Dropping: `dropjob[s].at \in {"server", "finish"} => lock[s] # "setup"` |
| `suite_site.json:78` | Dropped: deleted from its server | the create task finishes after the drop looked for the site: `site[s].status = "Dropped" => ~pilot[s][a].exists` |
| `sites.py:75` | the site and the signup waiting on it fail together, and the signup's Retry then retries the site | a Retry of the tenant's earlier, dropped site, or one that read this one before it failed, sets the signup back to Processing while the site stays Failed: `site[s].status = "Failed" => request[site[s].tenant] # "Processing"` for the site its tenant uses, with two sites |
| `capacity.py:36` | a second placement counts only once the first one is saved | a claim and the pool count with a snapshot older than the locks: `PlacementsCountSaved` |
| `sites.py:350` | the label is free again | the site's request is still Processing and keeps it taken: `site[s].status = "Dropped" => request[site[s].tenant] # "Processing"` |
| `mail_account.py:192` | a changed limit takes effect on the next recipient | a reader fills the cache with the old limit after the clear: `a \notin clearing => cache[a] \in {None, account[a]}` |
| `sending-limits.md:57` | a period keeps the limit it had while current | the first flush of a day comes after midnight: `stored[DayKey(a, d)] # 0 => \E l \in held[a][d] : l.daily = stored[DayKey(a, d)]` |
| `server_job.json:233` | the callback runs when the job ends | the worker dies between Success and the callback: no worker is at `succeeded`, and nothing looks at a Success again |
| `bootstrap.py:251` | Draining stays put | a check that read the node before the drain writes Active: `CheckConfirms` of a Draining node |
| `bootstrap.py:226` | a Provisioned node is promoted or failed | a node disabled during its job is neither, at every poll: `ProvisionedSettles` without `~node[n].enabled` |
| `stalwart_node.json:87` | a disabled node is out of service | disabled while a job runs, it keeps its records: `n \in alive \cap ingress => node[n].enabled` |
| `stalwart_node.json:156` | the flag says whether the hostname resolves to the node | a check and a drain leave them apart: `node[n].inIngress <=> n \in ingress` |
| `README.md:117` | Upgrade Nodes goes one node at a time | all jobs are queued at once: with two workers two are at `playbook` |
| `suite_tenant_request.py:246` | signups that never confirmed expire | a code entered between the expiry's read and its write is confirmed and then Expired: `VerifyRight`, then `ExpireWrites` |
| `egress.py:148` | foreign rules of the strategy are preserved | when reading the strategy fails, it is rewritten without them |
| `egress.py:249` | provisioning opens every port | a pool saved while a gateway is being provisioned, after its job took its ports, never has its own opened there (`missed`) |
| `naming.py:6` | a rebuilt server never inherits a name | it does when the highest number was deleted |
| `mail_domain.py:281` | cluster first: the local flag is never ahead | the save after the push is refused, or a save with Skip Domain Verification on vouches without a push (`untold`) |
| `domains.py:67` | a renewed token means publishing again | the new records are saved and then rolled back with the refusal, so every later verification throws again |
| `account_credentials.py:4` | a row taken out is revoked once the save commits | a save that also disables the account revokes with a login that is shut by then (`lost`) |
| `adopt.py:9` | every object is its own transaction | objects are savepoints of one transaction |

Other behaviours of the code; the ones the models reach are what the properties name and excuse:

- **Server jobs.** A job superseded by a newer one of its server stays Pending or Running for ever when
  its worker vanishes (`server_job.py:281`). Two first provisions of one cluster both bootstrap it
  (`bootstrap.py:43`).
- **Configuration push.** Two nodes that mark their token installed at the same moment each see the
  other's missing, and no push follows; a node without a token that leaves the running ones makes the
  rest complete, and no push follows either. A successful push of an older plan erases the error a
  newer one left on the form.
- **Egress.** A check under way when a gateway is disabled makes it Active again. Two pools
  inserted at once get the same relay port.
- **Telemetry.** A push loaded after a later one of its host makes the sums too large. The id of a
  batch does not depend on its stream, and a chunk with a rejected file ends its table's turn early. A
  webhook sent again with newer events is stored twice, as `docs/api/telemetry.md:52` says.
- **Mail domains.** Verifying a disabled domain lets it be enabled later without a fresh check. A
  check that is overtaken each time is refused each time.
- **DNS.** A first push that raises leaves the row unchecked, and only the daily check pushes it
  again. A rollback after the provider's delete leaves confirmed rows without a record, a push that
  outlives its row leaves a record without a row, and so do two owners each of whom leaves it to the
  other. A TTL change deletes and then creates, and may fail in between.
- **Site domains.** Making a domain primary or removing it takes effect at Pilot although the save is
  refused or the wait runs out.
- **Accounts.** A form opened beside a rotation writes the old login back into the mirror; opened
  between commit and revocation it shows two Suite Cloud rows, and later saves throw. Opening does not
  change `modified`, so an edit loaded before it revokes the credentials it mirrored. An answer that
  got lost leaves a login nobody knows.
- **Directory.** A group whose members fail to save is not taken back, as accounts and lists are. A
  recipient enabled while others are removed stays on the cluster. Setting members while the group is
  deleted leaves a membership of nothing. An address may be held twice while a deletion is uncommitted.

### Fairness

The runs with a liveness property assume fairness, and only of what the deployment keeps running.

- RQ workers take queued jobs, a running job makes its next step, a job whose process ended leaves
  RQ's registry, the scheduler runs its cron jobs and remote tasks end: weak fairness. Where the next
  step is chosen among several (the job a worker takes, the row the poll looks at, the daily sync
  between the other refreshes), each one that comes up again and again has its turn: strong fairness.
- Bad luck ends: workers do not die, answers do not stay out and flushes do not fail for ever. This
  is a conjunct `<>[][~Unlucky(s)]_vars` of the specification (`[~FlushFails]`, `[~Undecided]`), so any
  finite number of failures is covered, at any step; deaths are bounded besides where the module has
  `MaxDeaths`. In `VirtualMachines`, `Unlucky` includes the operator's buttons and servers stopped or
  ended by hand, and `MachineSettles` excuses a server while it is stopped on Central.
- `ClusterConfig`: workers take queued jobs, pushers go on, and a lock whose holder died expires: weak
  fairness. `Telemetry`: the loader starts and goes on. `SitePlacement`:
  transactions and the cron jobs go on (weak), and a setup job, a new server and the news of a server
  have their turn at the rows they wait for (strong). `SiteDomains`: the poller runs, Pilot's tasks
  end in some way, records propagate. `DnsRecords`: pushes, the daily check and the confirmation run;
  each queued push has its turn among the workers (strong). `MailDomains`: a started check goes on,
  and the hourly jobs come although the workers are sometimes busy (strong). In these modules failures
  are bounded by `MaxFaults`.
- Nothing is assumed of visitors, tenants and limits, nor of operators elsewhere.

## Proofs

The theorems hold for every value of the constants that satisfies the module's `ASSUME`: any number
of sites, nodes, jobs, servers, operators, failures and deaths. Each invariant was checked by TLC on
the run's instance before it was proved. Each action is shown to keep the invariant for the object it
writes, and a frame lemma shows that it leaves the others alone.

**HostingProofs.** `TypeCorrect` (`Spec => []TypeOK`) needs `Underway`: an operator's request
in progress has a site, and two rotations of one tenant exclude each other, without which the secret
could pass its bound. `DropsAreFinal` (`Spec => DropIsFinal`) needs `DropInv`: a site being dropped
that no late request has overwritten has no setup job in a step that writes the row (`Quiet`), and a
drop job that is working (`Working`) has such a site. Each action is shown to preserve this for its
own site (`DropStep`), and to leave the other sites alone (`OneSiteAtATime`). `RowsTellTheTruth`
(`NothingCreatedTwice` and `ServedSitesExist`) needs `LifeInv`: a setup job that holds the row has the row, and one that let go still has its host
name (`Copies`); a job that configures has a tenant's site that is created (`Configures`); Pilot works
only on the row's host name (`Hosts`); what the row says is so on Pilot until it is dropped (`Says`);
what an operator's request has read is not undone (`Recalls`); and a drop is of a row (`Drops`).
`FailedSitesAreTold` states `NoSignupWaitsOnFailedSite`. It was an invariant before; the attempt to
prove it showed that it is false with two sites, and the property now says which steps make it so
(see `sites.py:75` above). `ServersKeepTheirLimit` (`MCSpec => []ServersNotOverfull`) is about placement.
The sites of a server are not all in the rows: the pool puts several down before it commits, so
`PlaceInv` bounds the saved sites and those the pool is to save together (`HasRoom`). A process has
locked every server it has passed (`Behind`), because a new server can only be added where nobody holds
a row; a setup job's pick has room until it commits, since it holds the row (`Picked`); and on the
servers where the pool puts sites, what it counted covers what is there and what it has added (`Fills`).
`BestFits` says what the choice of a server returns, with `Least` in place of induction. `Reserved` is
about the model: the bound on sites leaves one for each claim under way. It assumes finitely many sites
and claims, and that the names of the processes differ (`PlacementConstants`). `SiteIsTheEnd`
(`MCSpec => SiteEndsProcessing`) needs `SignupInv`: a job that reserves or claims works for a signup that
has no site yet, although the row was unlocked in between, and a row with a site is committed and has
not failed.

**MailProofs.** Of `SendingLimits`: `TypeCorrect` needs `Busy` and `Matched` (what a request and the flush carry
with them). `NothingOvercounted` (`[]NeverOvercounted`) needs `ReadCounts`: the counts a request or
the flush has read and will write are themselves at most what was accepted. `LimitsAreKept`
(`[]SentWithinLimit`) needs `LimitsHeld` (every limit on its way from the row through the cache to
the script is one the account had) and `Exact` (while Redis lost nothing, a counter equals what was
accepted, and a key that does not exist has nothing accepted); from them the script's comparison is
one with the accepted recipients. `PastLimitsAreKept` (`Spec => PastLimitIsKept`) follows from the type
invariant: of all actions only the flush writes a stored limit, and of a past period only where none is.
Of `MailAccounts`, in the specification that the run checks: `AccountIsFollowed` (`[]AccountFollows`),
`CredentialsAreFollowed` (`[]CredentialsFollow`) and `TenantKeepsItsLogin` (`[]LoginAnswers`) share one
invariant, `AccountInv`. The first two speak of quiet states, so the invariant says what a save under way
has done: which pushes an insert, an update and a deletion still have (`Planned`), and that every field
whose push is no longer to come is as the save wants it, while one that pushed nothing has left the
account alone (`Reached`). Every credential on the cluster is mirrored, the owner's, lost, or in some
request's hand (`Accounted`); the login handed out is mirrored, alone, works, and no revocation under way
is of it (`Handed`); a save that mints keeps no login, and what it created is in nobody else's hand
(`Replaces`), so that the new login can take the old one's place in the commit. `Following` holds until the
account parted from the cluster's, `Listed` until a form wrote over a list, besides.
Of `MailDirectory`, in the same specification: `DirectoryIsFollowed` (`[]DirectoryFollows`) and
`AddressesAreHeldOnce` (`[]AddressHeldOnce`), from `DirInv`. Row by row, either nobody has the row locked and
the cluster has it as the database does, or one request has, and the cluster has what the database would
have with the writes which that request has pushed so far (`RowsFollow`); requests that push have disjoint
locks (`Excluding`). A push then moves one write over (`PushedOn`), a commit moves all of them into the
database, and a request that leaves otherwise must leave its rows the same on both sides (`Settles`): it has
pushed nothing, or its creation is undone, which takes what was pushed with the object. The invariant
says for each kind of request that it writes within its locks, each row once (`WellWritten`), that a
creation pushes its object first (`CreatesFirst`), and what its writes rely on (`Supposes`): a member's account is
there and locked, and a recipient that reached the cluster has a list, which nobody can be deleting since that
would lock the recipient. The addresses of the cluster's objects are disjoint (`ClusterHeldOnce`), as it accepts no
other push; while nobody lets an address go the rows have no address that the cluster has not, so the rows'
are disjoint although they are checked without a lock. Before an adoption nothing can be created
(`NothingAdopted`), and it writes all that the cluster has (`OldWritesMake`). The proof assumes that the account, the
group, the list and the alias are four addresses (`DirectoryConstants`); nothing is assumed of the requests.

**ClusterConfigProofs.** `TypeCorrect`, and `SendersHaveTokens` (`Spec => []SwitchedOnWhereInstalled`):
no plan a cluster runs with has a sender on while a running node lacks its token, or the milter while
one lacks its scanner. The property speaks of the applied plan only, but an old plan may be applied at
any later time; the inductive invariant `IInv` therefore adds `PlansSound`, that the plan every pusher
carries is sound as well. It is kept because the nodes that lack an install only become fewer
(`LackingShrinks`): what was switched on by an old snapshot is still right later. The theorem holds
for any number of nodes, workers, users, commits and faults, and without any assumption on the lock.
`QuietClusterIsCurrent` (`[]QuietIsCurrent`) needs `PushInv`: a plan is of a moment so far, and one of this
moment is right (`Dated`); a roll-out that runs while telemetry is off is of an earlier turn (`Turns`);
the mark is of a push that waits (`Marked`); and for the desk changes, the sender and the milter each,
every wrong plan about is older than the newest one sent (`Newer`), or a right plan is on its way
(`Coming`), or a push was lost.

**ServerJobsProofs.** `JobsRunAsAllowed` is `OneRunAtATime` and `AutomaticRetriesBounded`, from
`JobInv`: of every job that has not collided, a queued id, a run and a push to come exclude one another
(`Exclusive`), the copies of the row agree with it (`Counted`), and every retry of the cron has a
failure that no other retry answered (`Paid`). It rests on who holds a job at all (`Holders`), on rows
used in their order (`Ordered`) and on nobody knowing a row not yet inserted (`Untouched`). The
proof found that `Insert` could push an id past the rows of its own call (`Upgrade Nodes` with both
nodes the same one); it now has the guard.

**VirtualMachinesProofs.** `MachinesAreAsTheySay` is `EndedIsGone` and `ReadyIsSetUp`, from `MachineInv`:
a creation has a server once it is accepted (`Central`), the columns of a row are true of Central and of
Pilot (`RowTrue`), a job past accept has a server (`JobTrue`), and what the refresh and a Retry have
read of an ended server stays so (`Sees`, `Recall`).

**ServersProofs.** `IngressFollows` (`[]IngressFollowsStatus`) rests on `Serves`, the property
together with the fact that an outbound node never bootstraps; it is proved first of the operators that
compute a callback's and a check's rows, then of the actions. `JobsRunOnce` and `FleetIsTrue` carry the two
previous results over to the specification that the runs check, where the parts are instances.

**TrafficProofs.** Of `EgressPools`: `MailIsRouted` (`[]MailLeavesAsAssigned`): an expression that is in step with the rows
is local delivery, then the rules of the pools in some order, then rules of others (`Routed`), whatever
expression it was built from, because `Foreign` keeps no rule that routes to a pool or to local delivery
(`Selected`, by induction over the sequence). The first rule that matches is then the one of the domain's
pool, since no two pools have one domain (`RoutedLeaves`). The chunks of the SPF texts leave no address out
(`SpfHasAll`), so `SpfCovers` holds after every change of a pool. `RoundRobinsServe` (`[]RoundRobinServes`) needs `ListedHosts`: a pool lists only
gateways it is on, and an absent gateway is on none. `RelaysAreReachable` (`[]RelayPortsOpen`) needs
`PortsDue`: for every pool a gateway hosts, whether it serves yet or not, the port is open or about to
be, or a job that read the pool's present port still has the gateway to do (`Opens`), or it was missed.
`Least` and `Greatest` (a non-empty bounded set of naturals has a least
and a greatest element) stand in for induction where ports and pool numbers are handed out.
Of `Telemetry`, in the specification that the run checks: `BatchesAreLoggedOnce` (`LoggedOnce`) shows that every
step is one of `BatchLog`'s or leaves it as it is. The files that `Delete` removes are in the warehouse, or have expired since
the insert and are no longer owed (`LoaderKnows`): a load that dies or defers leaves them, and one that
committed has their rows. A push has at most one row in a table (`RowsOnce`), since what is sent again replaces its own
file and the insert skips what is there. `ChangesAreCounted` (`[]ChangesNeverOvercount`) needs a bound on each single
change: from one reading of a counter to a later one it went on or began again from zero (`Since`), so the
change that `get_change` returns fits between what was counted at its point and at every point of the host
held before it (`Fits`, `ChangeFits`). If an earlier point is in reach, the newest of them is what the change was taken from; if only
an older one is, the push without the counter shows a restart since. Changes that fit do not overlap,
and the sum follows by taking away the latest one (`SumFits`), over the subsets of the rows by size
(`Sized`), with the recursive function behind `MapThenSumSet` shown to exist (`SumExists`).

**DomainsProofs.** `ProviderFollowsRows` (`[]RecordsMatchRows`): between the provider's delete and the
commit the rows are behind, so what holds all along leaves out the rows that a reconciliation is done
with (`Going`). Every confirmed row that is not going has its record at the provider (`Backed`), and every
record there has a row that is not going (`Named`), for each record by itself. `PilotIsFollowed` (`[]PilotFollows` of the
specification that the run checks) speaks of states without waits; the invariant needs to say what a wait
has done meanwhile. A task that took effect is an outcome to save (`Pending`). Once one is stale, or there
are two, one of them will be lost: that is `Broken`, which never mends (`StaysBroken`). Until then the
rows and the one pending outcome together agree with Pilot (`PrimaryAgrees`, `Agrees`). What a process that
can still save has read stays true whether or not something is broken (`Current`). `ClusterServesLiveDomains`
(`[]ClusterFollows` of `MailDomains`): while no check has told the cluster something, its copy is as the
row has it (`CopyAgrees`); a check that can still save carries a document as live as the row, or as live as
the cluster if it told it and nobody else did (`Carries`).

Every invariant and every action property of the runs is stated by a theorem, and so is the refinement of
`BatchLog`. Only model-checked is liveness, which needs fairness and ENABLED: `SetupSettles`, `SignupSettles`,
`WaitingIsPlaced`, `CountsAreStored`, `NodeSettles`, `JobsEnd`, `MachineSettles`, `ChangeArrives`, `AckedArrives`,
`VouchingEnds`, `Confirmed` and `SiteDomainArrives`.

## Not modelled, and not checked

- Of placement: foreign sites, the sizes of servers and the check of a plan against them, the sync of
  regions. Two `create_hosted_site` calls of one tenant both pass the check for a live site
  (`suite_tenant.py:184`).
- The invite and its repetition, plan and image choice, `install_app`
  without an idempotency key, Trash and Decommission of servers.
- The tenant and user a signup creates (one step here), reserved words and the form of labels, Resend
  Invite.
- The content of playbooks, configuration plans, mails and reports; SSH verification of addresses, PTR
  checks and the DKIM keys of gateways; `sync_exempt_accounts`.
- Derived columns and dimension tables of the warehouse, `fill_deltas`, request throttling.
- Names, catch-all addresses and DKIM contents of domains; API keys and edits of a credential's
  expiry and addresses; zones without a provider, and two reconciliations of one owner at once.
- Quotas (sums compared with a limit on save), mail reports (fetched once, pruned after the cluster's
  copy expired) and telemetry alerts (opened, resolved, dismissed).
- Clients of HTTP services, Ansible, permissions, settings, patches and displays: no protocol of their
  own; the answers they give are actions of the modules that use them.
- Of two operators who press Retry on one signup at the same moment, the slower one writes Verified
  over a request that has its site, and nothing completes it afterwards; no property is about it.
- A signup that lost its label to another keeps the label it asked for, so each of its retries fails
  again until an operator changes it; `SignupSettles` counts the error as settled.

## Plan

1. `Alerts` and `Reports` as one module, then quotas with two concurrent saves.
