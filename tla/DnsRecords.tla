----------------------------- MODULE DnsRecords -----------------------------
(***************************************************************************)
(* DNS Records kept for their owners (nodes, gateways, pools, hosted mail  *)
(* domains, sites) and what the zone's provider holds: reconciling one     *)
(* owner's rows, the pushes that follow its commit, the daily check and    *)
(* the confirmation a site waits for (dns_record.py, dns/provider.py).     *)
(*                                                                         *)
(* A transaction reads its own snapshot; the provider is told of a delete  *)
(* inside it and of an insert after it. One transaction at a time changes  *)
(* the rows of one owner. Every zone here has a provider.                  *)
(***************************************************************************)
EXTENDS Naturals, FiniteSets

CONSTANTS
    Owners,
    Records,    \* what two owners may share: zone, host, type and value
    Ttls,
    DefaultTtl,  \* of the zone or the settings
    Workers,
    MaxTurns,   \* bound: changes of what an owner wants
    MaxFaults   \* bound: transactions that roll back and provider calls that fail

ASSUME DnsConstants == Ttls \subseteq Nat \ {0} /\ DefaultTtl \in Ttls /\ {MaxTurns, MaxFaults} \subseteq Nat

Keys == Owners \X Records

VARIABLES
    rows,      \* the DNS Record of each owner and value: its state and TTL
    provider,  \* the TTL of each record at the provider, 0 where it has none
    visible,   \* what public resolvers show
    jobs,      \* queued pushes
    proc,      \* what each worker does
    lost,      \* history: records taken from an owner that has them in its rows
    leaked,    \* history: records put or left at the provider with no row
    turns,
    faults

vars == <<rows, provider, visible, jobs, proc, lost, leaked, turns, faults>>

\* new: never pushed (no last_checked_at); good and bad: is_verified at the last push or check.
States == {"none", "new", "bad", "good"}

NoRow == [state |-> "none", ttl |-> 0]

Idle == [at |-> "idle"]

Reconciling ==
    [at: {"reconcile"}, owner: Owners, wanted: SUBSET Records, seen: SUBSET Keys, stale: SUBSET Records]

Pushing == [at: {"push"}, key: Keys, ttl: Ttls, gone: BOOLEAN]

TypeOK ==
    /\ rows \in [Keys -> [state: States, ttl: Ttls \cup {0}]]
    /\ provider \in [Records -> Ttls \cup {0}]
    /\ visible \subseteq Records /\ jobs \subseteq Keys
    /\ proc \in [Workers -> {Idle} \cup Reconciling \cup Pushing]
    /\ lost \subseteq Records /\ leaked \subseteq Records
    /\ turns \in 0..MaxTurns /\ faults \in 0..MaxFaults

Present == {k \in Keys : rows[k].state # "none"}

Held(owner) == {r \in Records : <<owner, r>> \in Present}

----------------------------------------------------------------------------
(* Reconciling an owner *)

\* reconcile_managed_records reads the owner's rows; delete_managed_records wants none.
Reconcile(w, owner, wanted) ==
    /\ proc[w] = Idle /\ turns < MaxTurns
    /\ \A v \in Workers : proc[v].at = "reconcile" => proc[v].owner # owner
    /\ Held(owner) # wanted
    /\ turns' = turns + 1
    /\ proc' = [proc EXCEPT ![w] = [at |-> "reconcile", owner |-> owner, wanted |-> wanted,
                                    seen |-> Present, stale |-> Held(owner) \ wanted]]
    /\ UNCHANGED <<rows, provider, visible, jobs, lost, leaked, faults>>

\* Not the code: the record goes though another owner's row wants it.
StillWantedIgnored(seen, owner, r) == FALSE

\* delete_from_provider: another row of the same value keeps the record.
StillWanted(seen, owner, r) == \E other \in Owners \ {owner} : <<other, r>> \in seen

\* on_trash, for one stale row. The provider forgets it now; the row goes with the commit.
DeleteStale(w, r) ==
    LET p == proc[w]
        kept == StillWanted(p.seen, p.owner, r)
        \* the rows that kept the record are gone or going: each owner leaves it to the other
        going == {<<proc[v].owner, r>> : v \in {v \in Workers : proc[v].at = "reconcile" /\ r \notin proc[v].wanted}}
        misled == p.seen \cap (Owners \X {r}) \cap Present \subseteq going
        unseen == \E other \in Owners \ {p.owner} : <<other, r>> \in Present \ p.seen
    IN  /\ p.at = "reconcile" /\ r \in p.stale
        /\ proc' = [proc EXCEPT ![w].stale = @ \ {r}]
        /\ provider' = IF kept THEN provider ELSE [provider EXCEPT ![r] = 0]
        /\ lost' = IF ~kept /\ unseen THEN lost \cup {r} ELSE lost
        /\ leaked' = IF ~kept THEN leaked \ {r} ELSE IF misled THEN leaked \cup {r} ELSE leaked
        /\ UNCHANGED <<rows, visible, jobs, turns, faults>>

\* delete_dns_record swallows the provider's refusal, so the row goes and the record stays.
DeleteRefused(w, r) ==
    /\ proc[w].at = "reconcile" /\ r \in proc[w].stale /\ faults < MaxFaults
    /\ ~StillWanted(proc[w].seen, proc[w].owner, r)
    /\ faults' = faults + 1
    /\ proc' = [proc EXCEPT ![w].stale = @ \ {r}]
    /\ leaked' = leaked \cup {r}
    /\ UNCHANGED <<rows, provider, visible, jobs, lost, turns>>

\* A running push of a row that goes will write to no row.
Forgets(p, owner, gone) == IF p.at = "push" /\ p.key[1] = owner /\ p.key[2] \in gone THEN [p EXCEPT !.gone = TRUE] ELSE p

\* Missing rows are inserted and their pushes queued once the transaction commits.
Commit(w) ==
    LET p == proc[w]
        owner == p.owner
        gone == Held(owner) \ p.wanted
        new == p.wanted \ Held(owner)
    IN  /\ p.at = "reconcile" /\ p.stale = {}
        /\ rows' = [k \in Keys |->
              IF k[1] # owner THEN rows[k]
              ELSE IF k[2] \in gone THEN NoRow
              ELSE IF k[2] \in new THEN [state |-> "new", ttl |-> DefaultTtl]
              ELSE rows[k]]
        /\ jobs' = (jobs \ ({owner} \X gone)) \cup ({owner} \X new)
        /\ proc' = [v \in Workers |-> IF v = w THEN Idle ELSE Forgets(proc[v], owner, gone)]
        /\ UNCHANGED <<provider, visible, lost, leaked, turns, faults>>

\* Something later in the owner's transaction fails: the rows come back, the records do not.
Rollback(w) ==
    LET p == proc[w]
    IN  /\ p.at = "reconcile" /\ faults < MaxFaults
        /\ faults' = faults + 1
        /\ proc' = [proc EXCEPT ![w] = Idle]
        /\ lost' = lost \cup {r \in Held(p.owner) \ (p.wanted \cup p.stale) : provider[r] = 0}
        /\ UNCHANGED <<rows, provider, visible, jobs, leaked, turns>>

\* A row saved with another TTL is pushed again.
EditTtl(key, ttl) ==
    /\ key \in Present /\ rows[key].ttl # ttl /\ turns < MaxTurns
    /\ turns' = turns + 1
    /\ rows' = [rows EXCEPT ![key].ttl = ttl]
    /\ jobs' = jobs \cup {key}
    /\ UNCHANGED <<provider, visible, proc, lost, leaked, faults>>

----------------------------------------------------------------------------
(* Pushing *)

TakePush(w, key) ==
    /\ proc[w] = Idle /\ key \in jobs
    /\ jobs' = jobs \ {key}
    /\ proc' = [proc EXCEPT ![w] = [at |-> "push", key |-> key, ttl |-> rows[key].ttl, gone |-> FALSE]]
    /\ UNCHANGED <<rows, provider, visible, lost, leaked, turns, faults>>

\* The row goes, or has gone, with the record already taken from the provider.
Outlives(p) ==
    \/ p.gone
    \/ \E v \in Workers :
          /\ proc[v].at = "reconcile" /\ proc[v].owner = p.key[1]
          /\ p.key[2] \notin proc[v].wanted \cup proc[v].stale

\* ensure_dns_record leaves a record of the same TTL alone and otherwise deletes it and creates it anew.
Ensure(r, ttl) == [provider EXCEPT ![r] = ttl]

\* create_or_update_record_in_dns_provider
FinishPush(w) ==
    LET p == proc[w]
        r == p.key[2]
    IN  /\ p.at = "push"
        /\ provider' = Ensure(r, p.ttl)
        /\ rows' = IF p.gone THEN rows ELSE [rows EXCEPT ![p.key].state = "good"]
        /\ lost' = lost \ {r}
        /\ leaked' = IF Outlives(p) THEN leaked \cup {r} ELSE leaked
        /\ proc' = [proc EXCEPT ![w] = Idle]
        /\ UNCHANGED <<visible, jobs, turns, faults>>

\* The provider's error ends the job: before anything changed, or between the delete and the create.
PushFails(w, deleted) ==
    LET p == proc[w]
        r == p.key[2]
    IN  /\ p.at = "push" /\ faults < MaxFaults
        /\ deleted => provider[r] \notin {0, p.ttl}
        /\ faults' = faults + 1
        /\ provider' = IF deleted THEN [provider EXCEPT ![r] = 0] ELSE provider
        /\ lost' = IF deleted THEN lost \cup {r} ELSE lost
        /\ proc' = [proc EXCEPT ![w] = Idle]
        /\ UNCHANGED <<rows, visible, jobs, leaked, turns>>

----------------------------------------------------------------------------
(* Checking *)

\* Resolvers catch up with the provider.
Propagate ==
    /\ visible # {r \in Records : provider[r] # 0}
    /\ visible' = {r \in Records : provider[r] # 0}
    /\ UNCHANGED <<rows, provider, jobs, proc, lost, leaked, turns, faults>>

\* verify_dns_record of the resolver: one public resolver that shows the value is enough.
Found(r) == IF r \in visible THEN "good" ELSE "bad"

\* verify_all_dns_records, for one row; a resolver that cannot answer changes nothing.
DailyCheck(key) ==
    LET found == Found(key[2])
    IN  /\ key \in Present /\ rows[key].state # found
        /\ rows' = [rows EXCEPT ![key].state = found]
        /\ lost' = IF found = "good" /\ provider[key[2]] = 0 THEN lost \cup {key[2]} ELSE lost
        /\ UNCHANGED <<provider, visible, jobs, proc, leaked, turns, faults>>

\* Not the code: the row of a record that was never pushed is the only one pushed.
UnconfirmedNew(owner) == {k \in Present : k[1] = owner /\ rows[k].state = "new"}

\* A new row's first push is still queued, so only rows checked before are pushed again.
Unconfirmed(owner) == {k \in Present : k[1] = owner /\ rows[k].state = "bad"}

\* confirm_managed_records, at each poll of a site that waits for its records.
Confirm(owner) ==
    /\ ~(Unconfirmed(owner) \subseteq jobs)
    /\ jobs' = jobs \cup Unconfirmed(owner)
    /\ UNCHANGED <<rows, provider, visible, proc, lost, leaked, turns, faults>>

----------------------------------------------------------------------------
Init ==
    /\ rows = [k \in Keys |-> NoRow]
    /\ provider = [r \in Records |-> 0] /\ visible = {}
    /\ jobs = {} /\ proc = [w \in Workers |-> Idle]
    /\ lost = {} /\ leaked = {} /\ turns = 0 /\ faults = 0

Next ==
    \/ \E w \in Workers :
          \/ \E owner \in Owners, wanted \in SUBSET Records : Reconcile(w, owner, wanted)
          \/ \E r \in Records : DeleteStale(w, r) \/ DeleteRefused(w, r)
          \/ Commit(w) \/ Rollback(w)
          \/ \E key \in Keys : TakePush(w, key)
          \/ FinishPush(w) \/ \E deleted \in BOOLEAN : PushFails(w, deleted)
    \/ \E key \in Keys : DailyCheck(key) \/ \E ttl \in Ttls : EditTtl(key, ttl)
    \/ Propagate
    \/ \E owner \in Owners : Confirm(owner)

Spec == Init /\ [][Next]_vars

\* Jobs run, resolvers catch up, the daily job comes back and a waiting owner is polled.
FairSpec ==
    /\ Spec
    /\ \A w \in Workers : WF_vars(FinishPush(w)) /\ WF_vars(Commit(w) \/ \E r \in Records : DeleteStale(w, r))
    /\ \A key \in Keys : SF_vars(\E w \in Workers : TakePush(w, key)) /\ WF_vars(DailyCheck(key))
    /\ WF_vars(Propagate)
    /\ \A owner \in Owners : WF_vars(Confirm(owner))

----------------------------------------------------------------------------
Quiet == jobs = {} /\ \A w \in Workers : proc[w] = Idle

\* With no push and no reconciliation under way, every record an owner had confirmed is at the
\* provider, also when the other owner of the same record let go of it, unless the deletion could
\* not see that owner's row, was rolled back or was the first half of a TTL change that failed, or a
\* resolver still showed what was gone; and the provider holds nothing that no row names, unless a push outlived its row, the provider
\* refused the deletion or each of two owners left it to the other (delete_from_provider).
RecordsMatchRows ==
    Quiet => \A r \in Records :
        /\ provider[r] = 0 /\ r \notin lost => \A o \in Owners : rows[<<o, r>>].state # "good"
        /\ provider[r] # 0 /\ r \notin leaked => \E o \in Owners : <<o, r>> \in Present

\* An owner that waits for its records gets them confirmed again and again, whatever was lost,
\* rolled back or failed before: a push that fails after the first is repeated at the next poll, one
\* that fails the first time once the daily check has looked (confirm_managed_records).
Confirmed == \A owner \in Owners : []<>(\A r \in Held(owner) : rows[<<owner, r>>].state = "good" /\ provider[r] # 0)
=============================================================================
