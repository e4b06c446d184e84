---------------------------- MODULE SiteDomains ----------------------------
(***************************************************************************)
(* The domains of one hosted site: the poller gives the site its own       *)
(* domain, and operators add, verify, remove and make primary others       *)
(* (hosting/domains.py, suite_site.py, central/pilot.py).                  *)
(*                                                                         *)
(* Every wait for Pilot commits first and holds no lock, so whoever saves  *)
(* the site afterwards is refused when someone else saved it meanwhile.    *)
(* What a process does between two waits is one step. The managed records  *)
(* of the site's own domain are one record here; DnsRecords has their      *)
(* details.                                                                *)
(***************************************************************************)
EXTENDS Naturals, FiniteSets

CONSTANTS
    Own,         \* <label>.<site zone>
    Customs,     \* domains that operators add
    NoDomain,
    Poller,
    Operators,   \* requests of operators
    MaxTokens,   \* bound: verification tokens of one domain
    MaxEdits,    \* bound: operators' requests
    MaxFaults    \* bound: Pilot tasks that fail and waits that run out

Domains == Customs \cup {Own}
Processes == Operators \cup {Poller}

VARIABLES
    row,       \* the site's rows: status, stored token, older than RECORDS_MAX_AGE_HOURS, task, primary_skipped
    primary,   \* primary_domain
    token,     \* Central's token of each domain
    sent,      \* the token in the managed record at the provider
    shown,     \* the token that resolvers show
    attached,  \* Pilot's domains of the site
    pprimary,  \* Pilot's primary domain
    tasks,     \* Pilot's last attach task of each domain
    https,     \* the domains that answer over HTTPS
    proc,      \* what each process waits for, and Pilot's task for it
    parted,    \* history: a Pilot task took effect and its outcome was not saved
    edits,
    faults

vars == <<row, primary, token, sent, shown, attached, pprimary, tasks, https, proc, parted, edits, faults>>

NoRow == [status |-> "none", token |-> 0, old |-> FALSE, task |-> FALSE, skipped |-> FALSE]

Row == [status: {"none", "Pending", "Active", "Failed"}, token: 0..MaxTokens, old: BOOLEAN, task: BOOLEAN,
        skipped: BOOLEAN]

Kinds == {"attach", "primary", "remove"}

Ended == {"success", "failed"}
Tasks == {"none", "running"} \cup Ended

Idle == [at |-> "idle", dom |-> NoDomain, fresh |-> FALSE, task |-> "none"]

TypeOK ==
    /\ row \in [Domains -> Row]
    /\ primary \in Domains \cup {NoDomain} /\ pprimary \in Domains \cup {NoDomain}
    /\ token \in [Domains -> 1..MaxTokens]
    /\ sent \in 0..MaxTokens /\ shown \in [Domains -> 0..MaxTokens]
    /\ attached \subseteq Domains /\ https \subseteq Domains
    /\ tasks \in [Domains -> Tasks]
    /\ proc \in [Processes -> [at: Kinds \cup {"idle", "https"}, dom: Domains \cup {NoDomain}, fresh: BOOLEAN, task: Tasks]]
    /\ parted \in BOOLEAN /\ edits \in 0..MaxEdits /\ faults \in 0..MaxFaults

HasSiteDomain == row[Own].status = "Active" /\ (primary # NoDomain \/ row[Own].skipped)

----------------------------------------------------------------------------
(* Saving and waiting *)

\* A process goes on to wait, or ends, with the site saved or not; a save makes the others stale.
Moves(p, at, d, saved) ==
    proc' = [q \in Processes |->
        IF q = p THEN (IF at = "idle" THEN Idle
                       ELSE [at |-> at, dom |-> d, fresh |-> TRUE, task |-> IF at = "https" THEN "none" ELSE "running"])
        ELSE IF saved THEN [proc[q] EXCEPT !.fresh = FALSE] ELSE proc[q]]

Keeps(p, at, d) == Moves(p, at, d, FALSE) /\ UNCHANGED <<row, primary>>

SetRow(p, at, d, r) ==
    /\ row' = [row EXCEPT ![d] = r]
    /\ Moves(p, at, d, row[d] # r)
    /\ UNCHANGED primary

\* fetch_records: Pilot is asked again when the stored token is missing or near its end.
Fetched(d) ==
    IF row[d].token # 0 /\ ~row[d].old THEN row[d] ELSE [row[d] EXCEPT !.token = token[d], !.old = FALSE]

\* attach, up to the wait: Pilot refuses a domain whose current token Central does not see.
Attach(p, d, r, after) ==
    \/ /\ r.task
       /\ SetRow(p, "attach", d, r) /\ UNCHANGED tasks
    \/ /\ ~r.task /\ d \in attached
       /\ SetRow(p, after, d, [r EXCEPT !.status = "Active"]) /\ UNCHANGED tasks
    \/ /\ ~r.task /\ d \notin attached /\ shown[d] # token[d]
       /\ SetRow(p, "idle", d, r) /\ UNCHANGED tasks
    \/ /\ ~r.task /\ d \notin attached /\ shown[d] = token[d]
       /\ SetRow(p, "attach", d, [r EXCEPT !.task = TRUE])
       /\ tasks' = [tasks EXCEPT ![d] = "running"]

----------------------------------------------------------------------------
(* The poller *)

\* Only a site without a primary domain goes on to HTTPS.
Onward == IF primary = NoDomain THEN "https" ELSE "idle"

\* ensure_site_domain, up to its first wait; its records are published but may not be confirmed.
Ensure ==
    LET r == IF row[Own].status = "none" THEN [Fetched(Own) EXCEPT !.status = "Pending"] ELSE Fetched(Own)
    IN  /\ proc[Poller] = Idle /\ ~HasSiteDomain
        /\ \/ row[Own].status = "Active" /\ Keeps(Poller, Onward, Own) /\ UNCHANGED tasks
           \/ /\ row[Own].status # "Active" /\ (sent # r.token \/ shown[Own] # r.token)
              /\ SetRow(Poller, "idle", Own, r) /\ UNCHANGED tasks
           \/ /\ row[Own].status # "Active" /\ sent = r.token /\ shown[Own] = r.token
              /\ Attach(Poller, Own, r, Onward)
        /\ UNCHANGED <<token, sent, shown, attached, pprimary, https, parted, edits, faults>>

\* wait_for_https gave up: the site keeps its host name.
SkipPrimary ==
    /\ proc[Poller].at = "https" /\ proc[Poller].fresh /\ Own \notin https
    /\ SetRow(Poller, "idle", Own, [row[Own] EXCEPT !.skipped = TRUE])
    /\ UNCHANGED <<token, sent, shown, attached, pprimary, tasks, https, parted, edits, faults>>

\* Pilot is asked whatever happened to the site during the wait.
ServesHttps ==
    /\ proc[Poller].at = "https" /\ Own \in https
    /\ proc' = [proc EXCEPT ![Poller].at = "primary", ![Poller].task = "running"]
    /\ UNCHANGED <<row, primary, token, sent, shown, attached, pprimary, tasks, https, parted, edits, faults>>

----------------------------------------------------------------------------
(* Operators *)

Asked(p) == proc[p] = Idle /\ edits < MaxEdits /\ edits' = edits + 1

AddDomain(p, d) ==
    /\ Asked(p) /\ row[d].status = "none"
    /\ SetRow(p, "idle", d, [Fetched(d) EXCEPT !.status = "Pending"])
    /\ UNCHANGED <<token, sent, shown, attached, pprimary, tasks, https, parted, faults>>

\* verify_domain: a renewed token, or records that do not resolve, refuse the request, which rolls
\* back what fetch_records saved.
VerifyDomain(p, d) ==
    /\ Asked(p) /\ row[d].status # "none"
    /\ Fetched(d).token = row[d].token /\ shown[d] = row[d].token
    /\ Attach(p, d, Fetched(d), "idle")
    /\ UNCHANGED <<token, sent, shown, attached, pprimary, https, parted, faults>>

MakePrimary(p, d) ==
    /\ Asked(p) /\ row[d].status = "Active" /\ d \in https
    /\ Keeps(p, "primary", d)
    /\ UNCHANGED <<token, sent, shown, attached, pprimary, tasks, https, parted, faults>>

\* Not the code: the primary domain may go too.
RemovableAny(d) == row[d].status # "none"

Removable(d) == row[d].status # "none" /\ primary # d

\* remove_domain: an attached domain goes from Pilot first.
RemoveDomain(p, d) ==
    /\ Asked(p) /\ Removable(d)
    /\ \/ row[d].status = "Active" /\ Keeps(p, "remove", d) /\ UNCHANGED parted
       \/ /\ row[d].status # "Active"
          /\ SetRow(p, "idle", d, NoRow)
          /\ parted' = (parted \/ row[d].task)
    /\ UNCHANGED <<token, sent, shown, attached, pprimary, tasks, https, faults>>

----------------------------------------------------------------------------
(* After a wait *)

TaskOf(p) == IF proc[p].at = "attach" THEN tasks[proc[p].dom] ELSE proc[p].task

\* The task ended well and the site is as it was: its outcome is saved.
Collect(p) ==
    LET d == proc[p].dom
        at == proc[p].at
    IN  /\ at \in Kinds /\ TaskOf(p) = "success" /\ proc[p].fresh
        /\ \/ /\ at = "attach"
              /\ SetRow(p, IF p = Poller THEN Onward ELSE "idle", d, [row[d] EXCEPT !.status = "Active", !.task = FALSE])
           \/ /\ at = "remove"
              /\ SetRow(p, "idle", d, NoRow)
           \/ /\ at = "primary"
              /\ primary' = d
              /\ row' = [row EXCEPT ![d].skipped = FALSE]
              /\ Moves(p, "idle", d, TRUE)
        /\ UNCHANGED <<token, sent, shown, attached, pprimary, tasks, https, parted, edits, faults>>

\* Not the code: a task that failed stays on the row.
AttachFailedKept(r) == [r EXCEPT !.status = "Failed"]

AttachFailed(r) == [r EXCEPT !.status = "Failed", !.task = FALSE]

\* The task failed: an attachment is marked, anything else is reported to the operator.
CollectFailure(p) ==
    LET d == proc[p].dom
        at == proc[p].at
    IN  /\ at \in Kinds /\ TaskOf(p) = "failed" /\ proc[p].fresh
        /\ IF at = "attach" THEN SetRow(p, "idle", d, AttachFailed(row[d])) ELSE Keeps(p, "idle", d)
        /\ UNCHANGED <<token, sent, shown, attached, pprimary, tasks, https, parted, edits, faults>>

\* The save is refused: someone saved the site during the wait. An attachment is found again by
\* its task; nothing finds the others.
Refused(p) ==
    LET d == proc[p].dom
        at == proc[p].at
    IN  /\ ~proc[p].fresh
        /\ at = "https" \/ (at \in Kinds /\ TaskOf(p) \in Ended)
        /\ at = "https" => Own \notin https
        /\ proc' = [proc EXCEPT ![p] = Idle]
        /\ parted' = (parted \/ (at \in {"primary", "remove"} /\ TaskOf(p) = "success"))
        /\ UNCHANGED <<row, primary, token, sent, shown, attached, pprimary, tasks, https, edits, faults>>

\* What a task changes at Pilot; the removal of the primary domain leaves none.
Does(kind, d) ==
    /\ attached' = CASE kind = "attach" -> attached \cup {d} [] kind = "remove" -> attached \ {d} [] OTHER -> attached
    /\ pprimary' = CASE kind = "primary" -> d [] kind = "remove" /\ pprimary = d -> NoDomain [] OTHER -> pprimary

\* TASK_WAIT_SECONDS passed: the poller comes back for an attachment, nobody for the others, which
\* may yet take effect.
WaitRunsOut(p) ==
    /\ proc[p].at \in Kinds /\ TaskOf(p) = "running" /\ faults < MaxFaults
    /\ faults' = faults + 1
    /\ parted' = (parted \/ proc[p].at # "attach")
    /\ proc' = [proc EXCEPT ![p] = Idle]
    /\ IF proc[p].at # "attach" /\ proc[p].dom \in attached THEN Does(proc[p].at, proc[p].dom) ELSE UNCHANGED <<attached, pprimary>>
    /\ UNCHANGED <<row, primary, token, sent, shown, tasks, https, edits>>

----------------------------------------------------------------------------
(* Pilot, Central, DNS *)

Attaches(d, outcome) ==
    /\ tasks[d] = "running"
    /\ outcome = "failed" => faults < MaxFaults
    /\ faults' = IF outcome = "failed" THEN faults + 1 ELSE faults
    /\ tasks' = [tasks EXCEPT ![d] = outcome]
    /\ IF outcome = "success" THEN Does("attach", d) ELSE UNCHANGED <<attached, pprimary>>
    /\ UNCHANGED <<row, primary, token, sent, shown, https, proc, parted, edits>>

\* A task for a domain that Pilot does not have fails.
Works(p, outcome) ==
    LET d == proc[p].dom
        able == d \in attached
    IN  /\ proc[p].at \in {"primary", "remove"} /\ proc[p].task = "running"
        /\ outcome = "success" => able
        /\ outcome = "failed" => ~able \/ faults < MaxFaults
        /\ faults' = IF outcome = "failed" /\ able THEN faults + 1 ELSE faults
        /\ proc' = [proc EXCEPT ![p].task = outcome]
        /\ IF outcome = "success" THEN Does(proc[p].at, d) ELSE UNCHANGED <<attached, pprimary>>
        /\ UNCHANGED <<row, primary, token, sent, shown, tasks, https, parted, edits>>

\* The certificate of an attached domain comes and lapses.
Certificate(d) ==
    /\ d \in attached \/ d \in https
    /\ https' = IF d \in https THEN https \ {d} ELSE https \cup {d}
    /\ UNCHANGED <<row, primary, token, sent, shown, attached, pprimary, tasks, proc, parted, edits, faults>>

\* Stored records grow old before Central's token ends.
Ages(d) ==
    /\ row[d].token # 0 /\ ~row[d].old /\ token[d] < MaxTokens
    /\ row' = [row EXCEPT ![d].old = TRUE]
    /\ UNCHANGED <<primary, token, sent, shown, attached, pprimary, tasks, https, proc, parted, edits, faults>>

Renews(d) ==
    /\ row[d].old /\ token[d] < MaxTokens
    /\ token' = [token EXCEPT ![d] = @ + 1]
    /\ UNCHANGED <<row, primary, sent, shown, attached, pprimary, tasks, https, proc, parted, edits, faults>>

\* The push of the managed record that publish_managed_records keeps for the stored token.
PushManaged ==
    /\ sent # row[Own].token
    /\ sent' = row[Own].token
    /\ UNCHANGED <<row, primary, token, shown, attached, pprimary, tasks, https, proc, parted, edits, faults>>

\* Resolvers show the provider's record, or the one the tenant published as the site's row says.
Shows(d) ==
    LET t == IF d = Own THEN sent ELSE row[d].token
    IN  /\ shown[d] # t
        /\ shown' = [shown EXCEPT ![d] = t]
        /\ UNCHANGED <<row, primary, token, sent, attached, pprimary, tasks, https, proc, parted, edits, faults>>

----------------------------------------------------------------------------
Init ==
    /\ row = [d \in Domains |-> NoRow] /\ primary = NoDomain /\ pprimary = NoDomain
    /\ token = [d \in Domains |-> 1] /\ sent = 0 /\ shown = [d \in Domains |-> 0]
    /\ attached = {} /\ https = {} /\ tasks = [d \in Domains |-> "none"]
    /\ proc = [p \in Processes |-> Idle] /\ parted = FALSE /\ edits = 0 /\ faults = 0

Operates(p, d) == AddDomain(p, d) \/ VerifyDomain(p, d) \/ MakePrimary(p, d) \/ RemoveDomain(p, d)

Next ==
    \/ Ensure \/ SkipPrimary \/ ServesHttps
    \/ \E p \in Operators, d \in Domains : Operates(p, d)
    \/ \E p \in Processes : Collect(p) \/ CollectFailure(p) \/ Refused(p) \/ WaitRunsOut(p)
    \/ \E outcome \in Ended : (\E d \in Domains : Attaches(d, outcome)) \/ \E p \in Processes : Works(p, outcome)
    \/ \E d \in Domains : Certificate(d) \/ Ages(d) \/ Renews(d) \/ Shows(d)
    \/ PushManaged

Spec == Init /\ [][Next]_vars

\* What ends a wait of the process.
GoesOn(p) == Collect(p) \/ CollectFailure(p) \/ Refused(p) \/ (p = Poller /\ (SkipPrimary \/ ServesHttps))

\* The poller comes back to an unfinished site, waits end, Pilot works, and pushes and DNS get through.
Fairness ==
    /\ WF_vars(Ensure) /\ WF_vars(PushManaged) /\ WF_vars(Shows(Own))
    /\ \A p \in Processes : WF_vars(GoesOn(p))
    /\ \A p \in Processes : WF_vars(\E outcome \in Ended : Works(p, outcome))
    /\ \A d \in Domains : WF_vars(\E outcome \in Ended : Attaches(d, outcome))

FairSpec == Spec /\ Fairness

----------------------------------------------------------------------------
\* With nothing under way, the rows are active exactly where Pilot has the domain attached and the
\* primary domain is Pilot's, one of the site's own active rows, over every order of the poller and
\* two operators, unless a task took effect whose outcome nobody saved (make_primary, remove_domain).
PilotFollows ==
    (\A p \in Processes : proc[p] = Idle) /\ ~parted =>
        /\ pprimary = primary
        /\ primary # NoDomain => row[primary].status = "Active"
        /\ \A d \in Domains : row[d].task \/ (row[d].status = "Active" <=> d \in attached)

\* The site's own domain arrives whatever Pilot's tasks, the tokens and the operators do meanwhile:
\* in the end it is attached and the site has a primary domain or is known not to get HTTPS, unless
\* a task took effect whose outcome nobody saved (ensure_site_domain).
SiteDomainArrives == <>[](HasSiteDomain \/ parted)
=============================================================================
