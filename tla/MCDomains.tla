----------------------------- MODULE MCDomains -----------------------------
(* The DNS records of owners and the domains of a site share no variable. A *)
(* behaviour exercises one of them, chosen at its start: the records        *)
(* (DnsRecords, extended here) or the site's domains (instantiated); the    *)
(* other stays where it began.                                              *)
EXTENDS DnsRecords

CONSTANTS Own, Customs, NoDomain, Poller, Operators, MaxTokens, MaxEdits

VARIABLES part,
          row, primary, token, sent, shown, attached, pprimary, tasks, https, acting, parted, edits, failed

Site == INSTANCE SiteDomains WITH proc <- acting, faults <- failed

site == <<row, primary, token, sent, shown, attached, pprimary, tasks, https, acting, parted, edits, failed>>

MCInit == part \in {"records", "site"} /\ Init /\ Site!Init

MCNext ==
    \/ part = "records" /\ Next /\ UNCHANGED <<part, site>>
    \/ part = "site" /\ Site!Next /\ UNCHANGED <<part, vars>>

\* The fairness of each part, when it is exercised.
RecordsFairness ==
    /\ \A w \in Workers :
          /\ WF_vars(part = "records" /\ FinishPush(w))
          /\ WF_vars(part = "records" /\ (Commit(w) \/ \E r \in Records : DeleteStale(w, r)))
    /\ \A key \in Keys :
          /\ SF_vars(part = "records" /\ \E w \in Workers : TakePush(w, key))
          /\ WF_vars(part = "records" /\ DailyCheck(key))
    /\ WF_vars(part = "records" /\ Propagate)
    /\ \A owner \in Owners : WF_vars(part = "records" /\ Confirm(owner))

SiteFairness ==
    /\ WF_site(part = "site" /\ Site!Ensure)
    /\ WF_site(part = "site" /\ Site!PushManaged)
    /\ WF_site(part = "site" /\ Site!Shows(Own))
    /\ \A p \in Site!Processes : WF_site(part = "site" /\ Site!GoesOn(p))
    /\ \A p \in Site!Processes : WF_site(part = "site" /\ \E outcome \in Site!Ended : Site!Works(p, outcome))
    /\ \A d \in Site!Domains : WF_site(part = "site" /\ \E outcome \in Site!Ended : Site!Attaches(d, outcome))

MCSpec == MCInit /\ [][MCNext]_<<part, vars, site>> /\ RecordsFairness /\ SiteFairness

\* The rows of a site's domains and its primary domain follow what Pilot has, outside the outcomes
\* that could not be saved (attach, make_primary, remove_domain).
PilotFollows == Site!PilotFollows

\* A site gets its own domain in the end, unless the outcome of a task was not saved
\* (ensure_site_domain).
SiteDomainArrives == part = "site" => Site!SiteDomainArrives
=============================================================================
