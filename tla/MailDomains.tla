---------------------------- MODULE MailDomains ----------------------------
(***************************************************************************)
(* One Mail Domain, its copy in the cluster and the records its owner      *)
(* publishes: adding, editing and deleting it, the DNS checks that put it  *)
(* online and take it offline, and Skip Domain Verification, which takes   *)
(* domains on the cloud's word until it is turned off (mail_domain.py,     *)
(* tenancy/ownership.py, sync.py, addresses.py, cluster/zone.py).          *)
(*                                                                         *)
(* A check reads the row, resolves, tells the cluster and then saves; a    *)
(* save of a row that changed since is refused, as Frappe refuses it.      *)
(* Names, catch-all addresses and routes are not modelled.                 *)
(***************************************************************************)
EXTENDS Naturals, FiniteSets

CONSTANTS
    Policies,    \* the SPF and DMARC rows
    Selectors,   \* the DKIM rows, one for each selector
    Checkers,    \* processes that check and refresh: web, scheduler, long queue
    Free,        \* nobody holds the row's lock
    MaxJobs,     \* bound: queued recheck jobs
    MaxChanges,  \* bound: changes, checks and refreshes that people ask for
    MaxDeaths    \* bound: calls refused and processes that die

ASSUME DomainConstants ==
    /\ Policies \cap Selectors = {} /\ Free \notin Checkers
    /\ {MaxJobs, MaxChanges, MaxDeaths} \subseteq Nat

Mandatory == Policies \cup Selectors

VARIABLES
    skip,       \* Skip Domain Verification
    domain,     \* the Mail Domain; the values of one that does not exist do not matter
    cluster,    \* the cluster's domain, and its isEnabled
    published,  \* the mandatory records that public resolvers show
    lock,       \* who holds the row for update
    rechecks,   \* queued recheck_vouched_domains
    checks,     \* what each worker does, with the document it read
    untold,     \* history: the row and the cluster's copy parted when a push or a save got lost
    changes,
    deaths

domainVars == <<skip, domain, cluster, published, lock, rechecks, checks, untold, changes, deaths>>

\* exempt: skip_scheduled_verification; vouched: verification_skipped; proved: the verified rows.
Row == [exists: BOOLEAN, enabled: BOOLEAN, verified: BOOLEAN, exempt: BOOLEAN, vouched: BOOLEAN,
        proved: SUBSET Mandatory]

NoDomainRow == [exists |-> FALSE, enabled |-> FALSE, verified |-> FALSE, exempt |-> FALSE, vouched |-> FALSE,
          proved |-> {}]

Proc == [at: {"idle", "resolve", "push", "save"}, doc: Row, fresh: BOOLEAN, told: BOOLEAN]

Resting == [at |-> "idle", doc |-> NoDomainRow, fresh |-> FALSE, told |-> FALSE]

DomainTypeOK ==
    /\ skip \in BOOLEAN /\ untold \in BOOLEAN
    /\ domain \in Row
    /\ cluster \in [exists: BOOLEAN, enabled: BOOLEAN]
    /\ published \subseteq Mandatory
    /\ lock \in Checkers \cup {Free}
    /\ checks \in [Checkers -> Proc]
    /\ rechecks \in 0 .. MaxJobs /\ changes \in 0 .. MaxChanges /\ deaths \in 0 .. MaxDeaths

----------------------------------------------------------------------------
(* The document *)

Live(r) == r.exists /\ r.enabled /\ r.verified

\* compute_is_verified: every SPF and DMARC row, and one DKIM row.
Proof(S) == Policies \subseteq S /\ S \cap Selectors # {}

\* Not the code: the exemption is set and the mark is forgotten.
VouchUnmarked(r) == IF skip THEN [r EXCEPT !.verified = r.enabled, !.exempt = TRUE] ELSE r

\* validate, of the part that vouches: every save does this while the setting is on.
Vouch(r) == IF skip THEN [r EXCEPT !.verified = r.enabled, !.exempt = TRUE, !.vouched = TRUE] ELSE r

\* validate: proof of control lapses when the domain is disabled.
Validated(old, new) ==
    Vouch([new EXCEPT !.verified = @ /\ ~(old.enabled /\ ~new.enabled)])

\* domains_due_for_verification
Due(r) == r.exists /\ r.enabled /\ ~r.exempt /\ (~r.verified \/ r.proved # Mandatory)

\* A committed save makes every document read before it stale.
Committed(new, ps) ==
    /\ domain' = new
    /\ checks' = [w \in Checkers |-> [ps[w] EXCEPT !.fresh = FALSE]]

Unlocked == lock = Free

----------------------------------------------------------------------------
(* People *)

\* after_insert: the cluster's domain first, then its zone; both go when either fails.
Add ==
    /\ ~domain.exists /\ ~cluster.exists /\ changes < MaxChanges
    /\ changes' = changes + 1
    /\ LET new == Vouch([NoDomainRow EXCEPT !.exists = TRUE, !.enabled = TRUE])
       IN  /\ cluster' = [exists |-> TRUE, enabled |-> Live(new)]
           /\ Committed(new, checks)
    /\ untold' = FALSE
    /\ UNCHANGED <<skip, published, lock, rechecks, deaths>>

\* The insert rolls back after the cluster has the domain, and the cleanup is lost.
AddDies ==
    /\ ~domain.exists /\ ~cluster.exists /\ deaths < MaxDeaths
    /\ deaths' = deaths + 1
    /\ cluster' = [exists |-> TRUE, enabled |-> skip]
    /\ untold' = TRUE
    /\ UNCHANGED <<skip, domain, published, lock, rechecks, checks, changes>>

\* on_update: a save of a changed pushed field tells the cluster before it commits.
Edit(enabled, verified) ==
    /\ domain.exists /\ Unlocked /\ changes < MaxChanges
    /\ changes' = changes + 1
    /\ LET new == Validated(domain, [domain EXCEPT !.enabled = enabled, !.verified = verified])
           pushed == new.enabled # domain.enabled \/ new.verified # domain.verified
       IN  /\ pushed => cluster.exists
           /\ cluster' = IF pushed THEN [cluster EXCEPT !.enabled = Live(new)] ELSE cluster
           /\ untold' = (untold /\ ~pushed)
           /\ Committed(new, checks)
    /\ UNCHANGED <<skip, published, lock, rechecks, deaths>>

EditDies(enabled) ==
    /\ domain.exists /\ Unlocked /\ cluster.exists /\ enabled # domain.enabled /\ deaths < MaxDeaths
    /\ deaths' = deaths + 1
    /\ cluster' = [cluster EXCEPT !.enabled = Live(Validated(domain, [domain EXCEPT !.enabled = enabled]))]
    /\ untold' = TRUE
    /\ UNCHANGED <<skip, domain, published, lock, rechecks, checks, changes>>

\* on_trash: refused while addresses are on the domain, which nothing here depends on.
Delete ==
    /\ domain.exists /\ Unlocked /\ changes < MaxChanges
    /\ changes' = changes + 1
    /\ cluster' = [cluster EXCEPT !.exists = FALSE]
    /\ Committed(NoDomainRow, checks)
    /\ untold' = FALSE
    /\ UNCHANGED <<skip, published, lock, rechecks, deaths>>

DeleteDies ==
    /\ domain.exists /\ Unlocked /\ cluster.exists /\ deaths < MaxDeaths
    /\ deaths' = deaths + 1
    /\ cluster' = [cluster EXCEPT !.exists = FALSE]
    /\ untold' = TRUE
    /\ UNCHANGED <<skip, domain, published, lock, rechecks, checks, changes>>

\* replace_dkim_keys: same selectors, new values, so what is published no longer matches.
ReplaceKeys ==
    /\ domain.exists /\ Unlocked /\ cluster.exists /\ changes < MaxChanges
    /\ changes' = changes + 1
    /\ published' = published \ Selectors
    /\ LET new == Vouch([domain EXCEPT !.proved = @ \ Selectors])
       IN  /\ Committed(new, checks)
           /\ untold' = (untold \/ Live(new) # Live(domain))
    /\ UNCHANGED <<skip, cluster, lock, rechecks, deaths>>

Publish(r) ==
    /\ published' = IF r \in published THEN published \ {r} ELSE published \cup {r}
    /\ UNCHANGED <<skip, domain, cluster, lock, rechecks, checks, untold, changes, deaths>>

\* Turning the setting off queues a job for each turn.
ToggleSkip ==
    /\ changes < MaxChanges /\ rechecks < MaxJobs
    /\ changes' = changes + 1
    /\ skip' = ~skip
    /\ rechecks' = IF skip THEN rechecks + 1 ELSE rechecks
    /\ UNCHANGED <<domain, cluster, published, lock, checks, untold, deaths>>

----------------------------------------------------------------------------
(* The checks *)

Reads(w, at, doc) == checks' = [checks EXCEPT ![w] = [at |-> at, doc |-> doc, fresh |-> TRUE, told |-> FALSE]]

\* verify_dns_records, from the form or the API.
StartCheck(w) ==
    /\ checks[w].at = "idle" /\ domain.exists /\ changes < MaxChanges
    /\ changes' = changes + 1
    /\ Reads(w, "resolve", domain)
    /\ UNCHANGED <<skip, domain, cluster, published, lock, rechecks, untold, deaths>>

\* verify_unverified_domains, its first part.
HourlyCheck(w) ==
    /\ checks[w].at = "idle" /\ Due(domain)
    /\ Reads(w, "resolve", domain)
    /\ UNCHANGED <<skip, domain, cluster, published, lock, rechecks, untold, changes, deaths>>

\* refresh_dns_records: the rows are read anew and keep their verification.
StartRefresh(w) ==
    /\ checks[w].at = "idle" /\ domain.exists /\ cluster.exists /\ changes < MaxChanges
    /\ changes' = changes + 1
    /\ Reads(w, "save", domain)
    /\ UNCHANGED <<skip, domain, cluster, published, lock, rechecks, untold, deaths>>

\* _recheck_vouched, up to its first save: under the row's lock, the mark and the exemption go.
Recheck(w) ==
    LET doc == Vouch([domain EXCEPT !.vouched = FALSE, !.exempt = FALSE])
    IN  /\ Unlocked
        /\ lock' = w
        /\ Live(doc) # Live(domain) => cluster.exists
        /\ cluster' = IF Live(doc) # Live(domain) THEN [cluster EXCEPT !.enabled = Live(doc)] ELSE cluster
        /\ checks' = [checks EXCEPT ![w] = [at |-> "resolve", doc |-> doc, fresh |-> TRUE,
                                            told |-> Live(doc) # Live(domain)]]

\* recheck_vouched_domains, as the job that the turn of the setting queued.
RecheckJob(w) ==
    /\ checks[w].at = "idle" /\ rechecks > 0
    /\ rechecks' = rechecks - 1
    /\ IF domain.exists /\ domain.vouched THEN Recheck(w) ELSE UNCHANGED <<lock, cluster, checks>>
    /\ UNCHANGED <<skip, domain, published, untold, changes, deaths>>

\* verify_unverified_domains, its second part: what the job did not reach.
HourlyRecheck(w) ==
    /\ checks[w].at = "idle" /\ ~skip /\ domain.exists /\ domain.vouched
    /\ Recheck(w)
    /\ UNCHANGED <<skip, domain, published, rechecks, untold, changes, deaths>>

\* Not the code: whether the domain was live is read after the flag is set.
TellAfterwards(before, after) == IF Live(after) # Live(after) THEN "push" ELSE "save"

\* The cluster hears only of a change.
Tell(before, after) == IF Live(before) # Live(after) THEN "push" ELSE "save"

\* A resolver that cannot answer says nothing about the record: its row keeps its state.
Resolve(w, answered) ==
    /\ checks[w].at = "resolve"
    /\ LET doc == checks[w].doc
           proved == (doc.proved \ answered) \cup (published \cap answered)
           checked == [doc EXCEPT !.proved = proved, !.verified = skip \/ Proof(proved)]
       IN  checks' = [checks EXCEPT ![w].doc = checked, ![w].at = Tell(doc, checked)]
    /\ UNCHANGED <<skip, domain, cluster, published, lock, rechecks, untold, changes, deaths>>

Unlock(w) == IF lock = w THEN Free ELSE lock

\* Cluster first.
Push(w) ==
    /\ checks[w].at = "push" /\ cluster.exists
    /\ cluster' = [cluster EXCEPT !.enabled = Live(checks[w].doc)]
    /\ checks' = [checks EXCEPT ![w].at = "save", ![w].told = TRUE]
    /\ UNCHANGED <<skip, domain, published, lock, rechecks, untold, changes, deaths>>

\* save_records: no push, whatever the save's own validation changes.
Save(w) ==
    /\ checks[w].at = "save" /\ checks[w].fresh
    /\ lock \in {Free, w}
    /\ LET new == Vouch(checks[w].doc)
       IN  /\ Committed(new, [checks EXCEPT ![w] = Resting])
           /\ untold' = (untold \/ Live(new) # Live(checks[w].doc))
    /\ lock' = Unlock(w)
    /\ UNCHANGED <<skip, cluster, published, rechecks, changes, deaths>>

\* The document changed since it was read, or the push met no domain: everything rolls back.
Refused(w) ==
    /\ \/ checks[w].at = "save" /\ ~checks[w].fresh /\ lock \in {Free, w}
       \/ checks[w].at = "push" /\ ~cluster.exists
    /\ checks' = [checks EXCEPT ![w] = Resting]
    /\ lock' = Unlock(w)
    /\ untold' = (untold \/ checks[w].told)
    /\ UNCHANGED <<skip, domain, cluster, published, rechecks, changes, deaths>>

\* A push that the cluster refuses, or a worker that dies.
Fails(w) ==
    /\ checks[w].at # "idle" /\ deaths < MaxDeaths
    /\ deaths' = deaths + 1
    /\ checks' = [checks EXCEPT ![w] = Resting]
    /\ lock' = Unlock(w)
    /\ untold' = (untold \/ checks[w].told)
    /\ UNCHANGED <<skip, domain, cluster, published, rechecks, changes>>

----------------------------------------------------------------------------
DomainInit ==
    /\ skip \in BOOLEAN /\ untold = FALSE
    /\ domain = NoDomainRow /\ cluster = [exists |-> FALSE, enabled |-> FALSE]
    /\ published = {} /\ lock = Free /\ rechecks = 0 /\ changes = 0 /\ deaths = 0
    /\ checks = [w \in Checkers |-> Resting]

People ==
    \/ Add \/ AddDies \/ Delete \/ DeleteDies \/ ReplaceKeys \/ ToggleSkip
    \/ \E e, v \in BOOLEAN : Edit(e, v)
    \/ \E e \in BOOLEAN : EditDies(e)
    \/ \E r \in Mandatory : Publish(r)

DomainNext ==
    \/ People
    \/ \E w \in Checkers :
          \/ StartCheck(w) \/ HourlyCheck(w) \/ StartRefresh(w) \/ RecheckJob(w) \/ HourlyRecheck(w)
          \/ \E answered \in SUBSET Mandatory : Resolve(w, answered)
          \/ Push(w) \/ Save(w) \/ Refused(w) \/ Fails(w)

DomainSpec == DomainInit /\ [][DomainNext]_domainVars

\* A process goes on, and the hourly job comes back to a domain it found before.
FairDomainSpec ==
    /\ DomainSpec
    /\ \A w \in Checkers :
          /\ WF_domainVars(\E answered \in SUBSET Mandatory : Resolve(w, answered))
          /\ WF_domainVars(Push(w) \/ Save(w) \/ Refused(w))
    /\ SF_domainVars(\E w \in Checkers : HourlyCheck(w))
    /\ SF_domainVars(\E w \in Checkers : HourlyRecheck(w))

----------------------------------------------------------------------------
\* With nothing under way, the cluster serves the domain exactly while the row is live, over every
\* order of checks, edits, rechecks and turns of the setting, unless a push or a save was lost on
\* the way: the process died in between, the save came too late, or a save that tells the cluster
\* nothing vouched for the domain (verify_dns_records, save_records, validate).
ClusterFollows ==
    (\A w \in Checkers : checks[w].at = "idle") =>
        untold \/ (cluster.exists = domain.exists /\ (domain.exists => cluster.enabled = Live(domain)))

\* Once the setting stays off, no domain stays live on the cloud's word: the job of the turn, or
\* the hourly check behind it, gives every one the cluster has a proof of its own or takes it
\* offline (recheck_vouched_domains, verify_unverified_domains).
VouchingEnds == <>[]~skip => []<>(Live(domain) /\ cluster.exists => Proof(domain.proved))
=============================================================================
