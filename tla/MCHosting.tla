----------------------------- MODULE MCHosting -----------------------------
(* Hosting has three parts that share no variable: the signup requests, a  *)
(* site's life and the placement of sites on servers. A behaviour          *)
(* exercises one of them, chosen at its start: the site (SiteLifecycle,    *)
(* extended here), or one of the others (instantiated); the rest stays     *)
(* where it began.                                                         *)
EXTENDS SiteLifecycle

CONSTANTS Requests, MaxLabel, Calls, Retryers, OtpAttempts, MaxDeaths,
          Placed, Claims, Pool, MaxServers, MaxSites, ReadySites, MinFree, AutoCreate, MaxFaults

ASSUME PlacementConstants ==
    /\ Placed \cap Claims = {} /\ Pool \notin Placed \cup Claims /\ None \notin Placed \cup Claims \cup {Pool}
    /\ IsFiniteSet(Placed) /\ IsFiniteSet(Claims)
    /\ MaxServers \in Nat /\ MaxSites \in Nat

VARIABLES part,
          req, code, overdue, visitor, locked, job, expiring, retrying, deaths,
          slot, server, held, placer, adding, late, faults

Signup == INSTANCE SignupRequests WITH Operators <- Retryers, lock <- locked, op <- retrying

Place == INSTANCE SitePlacement WITH Sites <- Placed, site <- slot, lock <- held

signup == <<req, code, overdue, visitor, locked, job, expiring, retrying, deaths>>
place == <<slot, server, held, placer, adding, late, faults>>

MCInit ==
    /\ part \in {"site", "signup", "placement"}
    /\ Init /\ Signup!Init /\ Place!Init
    /\ part # "placement" => \A v \in Place!Servers : server[v] = "none"

MCNext ==
    \/ part = "site" /\ Next /\ UNCHANGED <<part, signup, place>>
    \/ part = "signup" /\ Signup!Next /\ UNCHANGED <<part, vars, place>>
    \/ part = "placement" /\ Place!Next /\ UNCHANGED <<part, vars, signup>>

\* The fairness of each part, when it is exercised.
SiteFairness ==
    \A s \in Sites :
        /\ WF_vars(part = "site" /\ SetupJob(s)) /\ WF_vars(part = "site" /\ PollPendingSites(s))
        /\ \A a \in Attempts : WF_vars(part = "site" /\ PilotFinishes(s, a))
        /\ <>[][~Unlucky(s)]_vars

SignupFairness ==
    \A r \in Requests :
        /\ WF_signup(part = "signup" /\ Signup!JobStart(r)) /\ WF_signup(part = "signup" /\ Signup!JobStep(r))
        /\ WF_signup(part = "signup" /\ Signup!JobExit(r)) /\ WF_signup(part = "signup" /\ Signup!ResumeRequests(r))

\* With one claim at most one site ever waits, and servers are built once: fairness of any one is
\* fairness of each.
PlaceFairness ==
    /\ SF_place(part = "placement" /\ \E s \in Placed : Place!LockNext(s))
    /\ SF_place(part = "placement" /\ (Place!CapacityAdds \/ \E v \in Place!Servers : Place!ServerReady(v)))
    /\ WF_place(part = "placement" /\ \E s \in Placed : Place!SetupStarts(s) \/ Place!SetupStep(s))
    /\ WF_place(part = "placement" /\ Place!CapacityReads)
    /\ \A p \in Claims : WF_place(part = "placement" /\ (Place!LockNext(p) \/ Place!ClaimStep(p)))
    /\ WF_place(part = "placement" /\ (Place!LockNext(Pool) \/ Place!FillStep))

MCSpec ==
    /\ MCInit /\ [][MCNext]_<<part, vars, signup, place>>
    /\ SiteFairness /\ SignupFairness /\ PlaceFairness

\* A signup that has its site is never processed again: a second confirmation, a Retry or the cron
\* neither fails it nor changes its label (process_request).
SiteEndsProcessing == [][Signup!LeavesItToItsSite]_signup

\* A confirmed signup gets its site, shows an error or expires, although workers die and pushes
\* are lost (resume_requests).
SignupSettles == Signup!SignupSettles

\* No server gets more sites than it takes while setup jobs, a claim, the pool and drops place and
\* free slots at once, unless a claim or the pool counted before another placement committed
\* (pick_virtual_machine).
ServersNotOverfull == Place!ServersNotOverfull

\* A site that waits for a server gets one, or an error, whoever takes the free slots and in
\* whatever order the rows are locked (free_slots, pick_virtual_machine).
WaitingIsPlaced ==
    Place!Waiting(Place!Now) # {} ~> (Place!Waiting(Place!Now) = {} \/ Place!Unbuilt = {})
=============================================================================
