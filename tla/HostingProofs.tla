--------------------------- MODULE HostingProofs ---------------------------
(***************************************************************************)
(* Proofs about SiteLifecycle, for any number of sites, tenants, operator  *)
(* requests, host names tried and secrets, and about SitePlacement and     *)
(* SignupRequests as MCHosting has them, for any number of sites, claims,  *)
(* servers, slots, signups and labels.                                     *)
(***************************************************************************)
EXTENDS WellFoundedInduction, FiniteSetTheorems, MCHosting, TLAPS

\* The rest of the type invariant: what an operator's request works on. Rotations of one tenant
\* exclude each other, which is why the bound on secrets holds when the second one commits.
Underway ==
    /\ \A o \in Operators : op[o].at # "idle" => op[o].site \in Sites
    /\ \A o \in Operators : op[o].at = "rotate" =>
         op[o].tenant \in Tenants /\ secret[op[o].tenant] < MaxSecret
    /\ \A o, p \in Operators :
         op[o].at = "rotate" /\ op[p].at = "rotate" /\ op[o].tenant = op[p].tenant => o = p

TypeInv == TypeOK /\ Underway

LEMMA Empty ==
    /\ NoRow \in Row
    /\ NoSetup \in Setup
    /\ NoDrop \in DropJob
    /\ NoOp \in OpState
<1>1. 0 \in Attempts /\ 0 \in 0 .. MaxSecret
  BY ConstantsAssumption DEF Attempts
<1>2. NoRow \in Row
  BY <1>1 DEF NoRow, Row, SiteStatus
<1>3. NoSetup \in Setup
  BY <1>1, <1>2 DEF NoSetup, Setup, SetupStep
<1>4. NoDrop \in DropJob
  BY <1>1 DEF NoDrop, DropJob
<1>5. NoOp \in OpState
  BY <1>2 DEF NoOp, OpState, OpStep, RequestStatus
<1> QED
  BY <1>2, <1>3, <1>4, <1>5

LEMMA InitTypeInv == Init => TypeInv
<1> SUFFICES ASSUME Init PROVE TypeInv
  OBVIOUS
<1>1. pilot \in [Sites -> [Attempts -> [task: TaskStatus, exists: BOOLEAN]]]
  BY DEF Init, TaskStatus
<1>2. TypeOK
  BY <1>1, Empty, ConstantsAssumption DEF Init, TypeOK, RequestStatus
<1> QED
  BY <1>2 DEF Init, TypeInv, Underway, NoOp

\* What a job or a poll leaves in RQ.
LEMMA EnqueueType ==
    ASSUME TypeOK, NEW s \in Sites
    PROVE  Enqueue(s) \in Setup
BY Empty DEF Enqueue, TypeOK, Setup, SetupStep

LEMMA CommittedType ==
    ASSUME TypeOK, NEW s \in Sites
    PROVE  Committed(s) \in Row /\ setup[s].row \in Row
BY DEF Committed, TypeOK, Setup

\* A change of site, request, setup and lock alone.
LEMMA SiteStep ==
    ASSUME TypeInv, NEW s \in Sites, NEW r \in Row, NEW j \in Setup, NEW l \in {None, "setup"},
           site' = [site EXCEPT ![s] = r] \/ site' = site,
           setup' = [setup EXCEPT ![s] = j] \/ setup' = setup,
           lock' = [lock EXCEPT ![s] = l] \/ lock' = lock,
           request' \in [Tenants -> RequestStatus],
           UNCHANGED <<dropjob, op, pilot, secret, siteSecret, overwritten>>
    PROVE  TypeInv'
<1>1. TypeOK'
  BY DEF TypeInv, TypeOK
<1> QED
  BY <1>1 DEF TypeInv, Underway
\* A job that goes on, or ends, with the row it holds.
LEMMA JobAt ==
    ASSUME TypeOK, NEW s \in Sites, NEW step \in SetupStep
    PROVE  [setup[s] EXCEPT !.at = step] \in Setup
BY DEF TypeOK, Setup

\* The claims, the pool and the deletion of a row.
LEMMA RowsTypeInv ==
    ASSUME TypeInv, NEW s \in Sites,
           \/ InsertPooled(s) \/ Trash(s) \/ PollPendingSites(s)
           \/ \E t \in Tenants : ClaimReady(t, s) \/ ClaimNew(t, s)
    PROVE  TypeInv'
<1> USE DEF TypeInv
<1>0. site[s] \in Row /\ Enqueue(s) \in Setup /\ request \in [Tenants -> RequestStatus]
  BY EnqueueType DEF TypeOK
<1>a. ASSUME NEW r \in Row, site' = [site EXCEPT ![s] = r] \/ site' = site,
             setup' = [setup EXCEPT ![s] = Enqueue(s)] \/ setup' = setup,
             request' \in [Tenants -> RequestStatus],
             UNCHANGED <<lock, dropjob, op, pilot, secret, siteSecret, overwritten>>
      PROVE  TypeInv'
  BY <1>0, <1>a, SiteStep
<1>1. ASSUME InsertPooled(s) PROVE TypeInv'
  <2>1. PICK room \in BOOLEAN :
          site' = [site EXCEPT ![s] = [NoRow EXCEPT !.status = "Pending", !.placed = room]]
    BY <1>1 DEF InsertPooled
  <2>2. [NoRow EXCEPT !.status = "Pending", !.placed = room] \in Row
    BY Empty DEF Row, SiteStatus
  <2> QED
    BY <1>1, <2>1, <2>2, <1>0, <1>a DEF InsertPooled
<1>2. ASSUME Trash(s) PROVE TypeInv'
  <2>1. [NoRow EXCEPT !.status = "Deleted"] \in Row
    BY Empty DEF Row, SiteStatus
  <2> QED
    BY <1>2, <2>1, <1>0, <1>a DEF Trash
<1>3. ASSUME PollPendingSites(s) PROVE TypeInv'
  BY <1>3, <1>0, <1>a DEF PollPendingSites
<1>4. ASSUME NEW t \in Tenants, ClaimReady(t, s) PROVE TypeInv'
  <2>1. [site[s] EXCEPT !.tenant = t, !.status = "Assigned"] \in Row
    BY <1>0 DEF Row, SiteStatus
  <2>2. request' \in [Tenants -> RequestStatus]
    BY <1>4, <1>0 DEF ClaimReady, Claiming, RequestStatus
  <2>3. site' = [site EXCEPT ![s] = [site[s] EXCEPT !.tenant = t, !.status = "Assigned"]]
    BY <1>4 DEF ClaimReady
  <2> QED
    BY <1>4, <2>1, <2>2, <2>3, <1>a DEF ClaimReady
<1>5. ASSUME NEW t \in Tenants, ClaimNew(t, s) PROVE TypeInv'
  <2>1. PICK room \in BOOLEAN :
          site' = [site EXCEPT ![s] = [NoRow EXCEPT !.status = "Pending", !.placed = room, !.tenant = t]]
    BY <1>5 DEF ClaimNew
  <2>2. [NoRow EXCEPT !.status = "Pending", !.placed = room, !.tenant = t] \in Row
    BY Empty DEF Row, SiteStatus
  <2>3. request' \in [Tenants -> RequestStatus]
    BY <1>5, <1>0 DEF ClaimNew, Claiming, RequestStatus
  <2> QED
    BY <1>5, <2>1, <2>2, <2>3, <1>a DEF ClaimNew
<1> QED
  BY <1>1, <1>2, <1>3, <1>4, <1>5
\* Pilot starts or finishes a task, or drops a site.
LEMMA PilotStep ==
    ASSUME TypeOK, NEW s \in Sites, NEW a \in Attempts, NEW v \in [task: TaskStatus, exists: BOOLEAN],
           pilot' = [pilot EXCEPT ![s][a] = v]
    PROVE  pilot' \in [Sites -> [Attempts -> [task: TaskStatus, exists: BOOLEAN]]]
BY DEF TypeOK

LEMMA PilotCreatesType ==
    ASSUME TypeOK, NEW s \in Sites, PilotCreates(s)
    PROVE  pilot' \in [Sites -> [Attempts -> [task: TaskStatus, exists: BOOLEAN]]]
<1> DEFINE a == setup[s].row.attempts
           v == [pilot[s][a] EXCEPT !.task = "running"]
<1>1. a \in Attempts
  BY DEF TypeOK, Setup, Row
<1>2. pilot[s][a] \in [task: TaskStatus, exists: BOOLEAN]
  BY <1>1 DEF TypeOK
<1>3. v \in [task: TaskStatus, exists: BOOLEAN]
  BY <1>2 DEF TaskStatus
<1>4. pilot' = [pilot EXCEPT ![s][a] = v]
  BY DEF PilotCreates
<1> QED
  BY <1>1, <1>3, <1>4, PilotStep

\* The steps of the setup job that leave Pilot and the site's secret alone.
LEMMA SetupStepsTypeInv ==
    ASSUME TypeInv, NEW s \in Sites,
           \/ SetupStart(s) \/ SetupBegin(s) \/ CreateResume(s) \/ CreateFound(s) \/ CreateMissing(s)
           \/ CreateConflict(s) \/ CreateSave(s) \/ WaitUnfinished(s) \/ TaskSucceeded(s)
           \/ RerollHostname(s) \/ TaskFailed(s) \/ RowGone(s) \/ StepWaits(s) \/ StepFails(s)
           \/ ConfigureSave(s) \/ Activate(s) \/ FollowUp(s) \/ SetupExit(s) \/ SetupDies(s)
    PROVE  TypeInv'
<1> USE DEF TypeInv
<1>0. /\ site[s] \in Row /\ Committed(s) \in Row /\ setup[s].row \in Row /\ setup[s] \in Setup
      /\ request \in [Tenants -> RequestStatus] /\ lock[s] \in {None, "setup"}
  BY CommittedType DEF TypeOK
<1>a. ASSUME NEW r \in Row, NEW step \in SetupStep,
             site' = [site EXCEPT ![s] = r] \/ site' = site,
             setup' = [setup EXCEPT ![s].at = step],
             lock' = [lock EXCEPT ![s] = None] \/ lock' = lock,
             request' \in [Tenants -> RequestStatus],
             UNCHANGED <<dropjob, op, pilot, secret, siteSecret, overwritten>>
      PROVE  TypeInv'
  <2>1. setup' = [setup EXCEPT ![s] = [setup[s] EXCEPT !.at = step]]
    BY <1>a
  <2> QED
    BY <1>a, <2>1, JobAt, SiteStep
<1>b. ASSUME NEW r \in Row
      PROVE  /\ \A st \in SiteStatus : [r EXCEPT !.status = st] \in Row
             /\ [r EXCEPT !.configured = TRUE] \in Row
             /\ [r EXCEPT !.mail = TRUE] \in Row
             /\ [r EXCEPT !.invited = TRUE] \in Row
             /\ MarkCreated(s, r) \in Row
  BY DEF Row, SiteStatus, MarkCreated
<1>c. {"begin", "exit", "wait", "request", "activate"} \subseteq SetupStep
  BY DEF SetupStep
<1>1. ASSUME SetupStart(s) PROVE TypeInv'
  BY <1>1, <1>a, <1>c, <1>0 DEF SetupStart
<1>2. ASSUME SetupBegin(s) PROVE TypeInv'
  <2>a. ASSUME NEW step \in SetupStep, NEW r \in Row, SetupRead(s, step, r) PROVE TypeInv'
    <3> DEFINE j == [at |-> step, row |-> r, tried |-> {},
                     secret |-> IF r.tenant = None THEN 0 ELSE secret[r.tenant]]
    <3>0. (IF r.tenant = None THEN 0 ELSE secret[r.tenant]) \in 0 .. MaxSecret
      BY ConstantsAssumption DEF Row, TypeOK
    <3>1. j \in Setup
      BY <3>0 DEF Setup
    <3>2. setup' = [setup EXCEPT ![s] = j]
      BY <2>a DEF SetupRead
    <3> HIDE DEF j
    <3> QED
      BY <2>a, <3>1, <3>2, <1>0, SiteStep DEF SetupRead
  <2>1. ASSUME CreateBegin(s) PROVE TypeInv'
    <3>1. [site[s] EXCEPT !.placed = TRUE] \in Row /\ "create" \in SetupStep
      BY <1>0 DEF Row, SetupStep
    <3> QED
      BY <2>1, <3>1, <2>a DEF CreateBegin
  <2>2. ASSUME CreateNoRoom(s) PROVE TypeInv'
    BY <2>2, <1>a, <1>c, <1>0 DEF CreateNoRoom, SetupReturns
  <2>3. ASSUME ConfigureBegin(s) PROVE TypeInv'
    <3>1. [site[s] EXCEPT !.status = "Configuring"] \in Row
      BY <1>0, <1>b DEF SiteStatus
    <3>2. (IF site[s].configured THEN "activate" ELSE "configure") \in SetupStep
      BY DEF SetupStep
    <3> QED
      BY <2>3, <3>1, <3>2, <2>a DEF ConfigureBegin
  <2>4. ASSUME FollowUpBegin(s) PROVE TypeInv'
    BY <2>4, <2>a, <1>0 DEF FollowUpBegin, SetupStep
  <2>5. ASSUME NothingToDo(s) PROVE TypeInv'
    BY <2>5, <1>a, <1>c, <1>0 DEF NothingToDo, SetupReturns
  <2> QED
    BY <1>2, <2>1, <2>2, <2>3, <2>4, <2>5 DEF SetupBegin
<1>3. ASSUME CreateResume(s) PROVE TypeInv'
  BY <1>3, <1>a, <1>c, <1>0 DEF CreateResume
<1>4. ASSUME CreateFound(s) PROVE TypeInv'
  BY <1>4, <1>a, <1>b, <1>c, <1>0 DEF CreateFound, SetupAdvances
<1>5. ASSUME CreateMissing(s) PROVE TypeInv'
  BY <1>5, <1>a, <1>c, <1>0 DEF CreateMissing
<1>6. ASSUME Fail(s), SetupReturns(s), UNCHANGED <<dropjob, op, pilot, secret, siteSecret, overwritten>>
      PROVE  TypeInv'
  <2>1. [site[s] EXCEPT !.status = "Failed"] \in Row
    BY <1>0, <1>b DEF SiteStatus
  <2>2. site' = [site EXCEPT ![s] = [site[s] EXCEPT !.status = "Failed"]]
    BY <1>6 DEF Fail
  <2>3. request' \in [Tenants -> RequestStatus]
    BY <1>6, <1>0 DEF Fail, RequestStatus
  <2> QED
    BY <1>6, <2>1, <2>2, <2>3, <1>a, <1>c DEF SetupReturns
<1>7. ASSUME CreateConflict(s) \/ TaskFailed(s) \/ StepFails(s) PROVE TypeInv'
  BY <1>7, <1>6 DEF CreateConflict, TaskFailed, StepFails
<1>8. ASSUME CreateSave(s) PROVE TypeInv'
  BY <1>8, <1>a, <1>c, <1>0 DEF CreateSave
<1>9. ASSUME WaitUnfinished(s) \/ RowGone(s) PROVE TypeInv'
  BY <1>9, <1>a, <1>c, <1>0 DEF WaitUnfinished, RowGone, SetupReturns
<1>10. ASSUME TaskSucceeded(s) PROVE TypeInv'
  BY <1>10, <1>a, <1>b, <1>c, <1>0 DEF TaskSucceeded, SetupAdvances
<1>11. ASSUME RerollHostname(s) PROVE TypeInv'
  <2> DEFINE n == setup[s].row.attempts + 1
             r == [site[s] EXCEPT !.attempts = n, !.task = FALSE, !.status = "Pending"]
  <2>1. n \in Attempts
    BY <1>11, <1>0, ConstantsAssumption DEF RerollHostname, Row, Attempts
  <2>2. r \in Row
    BY <1>0, <2>1 DEF Row, SiteStatus
  <2>3. site' = [site EXCEPT ![s] = r]
    BY <1>11 DEF RerollHostname
  <2> HIDE DEF r
  <2> QED
    BY <1>11, <2>2, <2>3, <1>a, <1>c, <1>0 DEF RerollHostname, SetupAdvances
<1>12. ASSUME StepWaits(s) PROVE TypeInv'
  BY <1>12, <1>a, <1>c, <1>0 DEF StepWaits, SetupReturns
<1>13. ASSUME ConfigureSave(s) PROVE TypeInv'
  BY <1>13, <1>a, <1>b, <1>c, <1>0 DEF ConfigureSave
<1>14. ASSUME Activate(s) PROVE TypeInv'
  <2>1. [Committed(s) EXCEPT !.status = "Active"] \in Row
    BY <1>0, <1>b DEF SiteStatus
  <2> QED
    BY <1>14, <2>1, <1>a, <1>c, <1>0 DEF Activate, SetupAdvances
<1>15. ASSUME FollowUp(s) PROVE TypeInv'
  <2>a. ASSUME NEW label \in {"mail", "invite"}, FollowUpStep(s, label), NEW r \in Row,
               site' = [site EXCEPT ![s] = r] \/ site' = site,
               request' \in [Tenants -> RequestStatus],
               UNCHANGED <<dropjob, op, pilot, secret, siteSecret, overwritten>>
        PROVE  TypeInv'
    <3>1. [setup[s] EXCEPT !.tried = @ \cup {label}] \in Setup
      BY <1>0 DEF Setup
    <3>2. setup' = [setup EXCEPT ![s] = [setup[s] EXCEPT !.tried = @ \cup {label}]]
      BY <2>a DEF FollowUpStep
    <3> QED
      BY <2>a, <3>1, <3>2, SiteStep DEF FollowUpStep
  <2>1. ASSUME NEW label \in {"mail", "invite"}, FollowUpPasses(s, label) PROVE TypeInv'
    BY <2>1, <2>a, <1>0 DEF FollowUpPasses
  <2>2. ASSUME MailVerified(s) PROVE TypeInv'
    <3>1. site' = [site EXCEPT ![s] = [site[s] EXCEPT !.mail = TRUE]]
      BY <2>2 DEF MailVerified
    <3> QED
      BY <2>2, <3>1, <2>a, <1>0, <1>b DEF MailVerified
  <2>3. ASSUME InviteOwner(s) PROVE TypeInv'
    <3>1. site' = [site EXCEPT ![s] = [site[s] EXCEPT !.invited = TRUE]]
      BY <2>3 DEF InviteOwner
    <3>2. request' \in [Tenants -> RequestStatus]
      BY <2>3, <1>0 DEF InviteOwner, RequestStatus
    <3> QED
      BY <2>3, <3>1, <3>2, <2>a, <1>0, <1>b DEF InviteOwner
  <2>4. ASSUME FollowUpDone(s) PROVE TypeInv'
    BY <2>4, <1>a, <1>c, <1>0 DEF FollowUpDone, SetupReturns
  <2> QED
    BY <1>15, <2>1, <2>2, <2>3, <2>4 DEF FollowUp
<1>16. ASSUME SetupExit(s) PROVE TypeInv'
  BY <1>16, Empty, SiteStep, <1>0 DEF SetupExit
<1>17. ASSUME SetupDies(s) PROVE TypeInv'
  <2>1. lock' = [lock EXCEPT ![s] = None] \/ lock' = lock
    BY <1>17, <1>0 DEF SetupDies, TypeOK
  <2> QED
    BY <1>17, <2>1, <1>a, <1>c, <1>0 DEF SetupDies
<1> QED
  BY <1>1, <1>2, <1>3, <1>4, <1>5, <1>7, <1>8, <1>9, <1>10, <1>11, <1>12, <1>13, <1>14, <1>15,
     <1>16, <1>17
\* The setup job asks Pilot for the site, and gives the site its credentials.
LEMMA SetupReachesOutTypeInv ==
    ASSUME TypeInv, NEW s \in Sites, CreateRequest(s) \/ CreateRequestLost(s) \/ PushCredentials(s)
    PROVE  TypeInv'
<1> USE DEF TypeInv
<1>0. site[s] \in Row /\ Committed(s) \in Row /\ setup[s].row \in Row /\ setup[s] \in Setup
  BY CommittedType DEF TypeOK
<1>1. ASSUME CreateRequest(s) PROVE TypeInv'
  <2> DEFINE r == [setup[s].row EXCEPT !.task = TRUE, !.status = "Creating"]
             j == [setup[s] EXCEPT !.at = "save", !.row = r]
  <2>1. r \in Row
    BY <1>0 DEF Row, SiteStatus
  <2>2. setup' = [setup EXCEPT ![s] = j]
    BY <1>1, <1>0 DEF CreateRequest, Setup
  <2> HIDE DEF r
  <2>3. j \in Setup
    BY <1>0, <2>1 DEF Setup, SetupStep
  <2> HIDE DEF j
  <2>4. pilot' \in [Sites -> [Attempts -> [task: TaskStatus, exists: BOOLEAN]]]
    BY <1>1, PilotCreatesType DEF CreateRequest
  <2>5. TypeOK'
    BY <1>1, <2>2, <2>3, <2>4 DEF CreateRequest, TypeOK
  <2> QED
    BY <1>1, <2>5 DEF CreateRequest, Underway
<1>2. ASSUME CreateRequestLost(s) PROVE TypeInv'
  <2>1. setup' = [setup EXCEPT ![s] = [setup[s] EXCEPT !.at = "exit"]]
    BY <1>2 DEF CreateRequestLost, SetupReturns
  <2>2. [setup[s] EXCEPT !.at = "exit"] \in Setup
    BY JobAt DEF SetupStep
  <2>3. pilot' \in [Sites -> [Attempts -> [task: TaskStatus, exists: BOOLEAN]]]
    BY <1>2, PilotCreatesType DEF CreateRequestLost
  <2>4. TypeOK'
    BY <1>2, <1>0, <2>1, <2>2, <2>3 DEF CreateRequestLost, SetupReturns, TypeOK
  <2> QED
    BY <1>2, <2>4 DEF CreateRequestLost, Underway
<1>3. ASSUME PushCredentials(s) PROVE TypeInv'
  <2>1. setup' = [setup EXCEPT ![s] = [setup[s] EXCEPT !.at = "configured"]]
    BY <1>3 DEF PushCredentials
  <2>2. [setup[s] EXCEPT !.at = "configured"] \in Setup
    BY JobAt DEF SetupStep
  <2>3. siteSecret' \in [Sites -> 0 .. MaxSecret]
    BY <1>3, <1>0 DEF PushCredentials, TypeOK, Setup
  <2>4. TypeOK'
    BY <1>3, <2>1, <2>2, <2>3 DEF PushCredentials, TypeOK
  <2> QED
    BY <1>3, <2>4 DEF PushCredentials, Underway
<1> QED
  BY <1>1, <1>2, <1>3

\* The drop job, its request, and Pilot's own steps.
LEMMA DropTypeInv ==
    ASSUME TypeInv, NEW s \in Sites,
           \/ DropSite(s) \/ DropJobStep(s)
           \/ \E a \in Attempts : PilotFinishes(s, a)
    PROVE  TypeInv'
<1> USE DEF TypeInv
<1>0. site[s] \in Row /\ dropjob[s] \in DropJob /\ site[s].attempts \in Attempts
  BY DEF TypeOK, Row
<1>a. ASSUME site' \in [Sites -> Row], dropjob' \in [Sites -> DropJob],
             pilot' \in [Sites -> [Attempts -> [task: TaskStatus, exists: BOOLEAN]]],
             UNCHANGED <<request, lock, setup, op, secret, siteSecret, overwritten>>
      PROVE  TypeInv'
  BY <1>a DEF TypeOK, Underway
<1>b. ASSUME NEW x \in {"queued", "server", "finish"} PROVE [dropjob[s] EXCEPT !.at = x] \in DropJob
  BY <1>0 DEF DropJob
<1>c. ASSUME PilotDrops(s) PROVE pilot' \in [Sites -> [Attempts -> [task: TaskStatus, exists: BOOLEAN]]]
  <2> DEFINE a == dropjob[s].attempts
             v == [pilot[s][a] EXCEPT !.exists = FALSE]
  <2>1. a \in Attempts
    BY <1>0 DEF DropJob
  <2>2. v \in [task: TaskStatus, exists: BOOLEAN]
    <3>1. pilot[s][a] \in [task: TaskStatus, exists: BOOLEAN]
      BY <2>1 DEF TypeOK
    <3> QED
      BY <3>1
  <2>3. pilot' = [pilot EXCEPT ![s][a] = v]
    BY <1>c DEF PilotDrops
  <2> QED
    BY <2>1, <2>2, <2>3, PilotStep
<1>1. ASSUME DropSite(s) PROVE TypeInv'
  <2>1. dropjob' = [dropjob EXCEPT ![s] = [dropjob[s] EXCEPT !.at = "queued"]]
    BY <1>1 DEF DropSite
  <2> QED
    BY <1>1, <2>1, <1>a, <1>b DEF DropSite, TypeOK
<1>2. ASSUME DropBegin(s) PROVE TypeInv'
  <2>1. [at |-> "server", attempts |-> site[s].attempts] \in DropJob /\ NoDrop \in DropJob
    BY <1>0, Empty DEF DropJob
  <2>2. [site[s] EXCEPT !.status = "Dropping"] \in Row
    BY <1>0 DEF Row, SiteStatus
  <2>3. dropjob' \in [Sites -> DropJob]
    BY <1>2, <2>1 DEF DropBegin, TypeOK
  <2>4. site' = site \/ site' = [site EXCEPT ![s] = [site[s] EXCEPT !.status = "Dropping"]]
    BY <1>2 DEF DropBegin
  <2>5. site' \in [Sites -> Row]
    BY <2>2, <2>4 DEF TypeOK
  <2> QED
    BY <1>2, <2>3, <2>5, <1>a DEF DropBegin, TypeOK
<1>3. ASSUME DropFromServer(s) PROVE TypeInv'
  <2>1. dropjob' = [dropjob EXCEPT ![s] = [dropjob[s] EXCEPT !.at = "finish"]]
    BY <1>3 DEF DropFromServer
  <2> QED
    BY <1>3, <2>1, <1>a, <1>b, <1>c DEF DropFromServer, TypeOK
<1>4. ASSUME DropFails(s) PROVE TypeInv'
  BY <1>4, Empty, <1>a, <1>c DEF DropFails, TypeOK
<1>5. ASSUME DropFinish(s) PROVE TypeInv'
  <2>1. [site[s] EXCEPT !.status = "Dropped", !.mail = FALSE] \in Row
    BY <1>0 DEF Row, SiteStatus
  <2>2. site' = site \/ site' = [site EXCEPT ![s] = [site[s] EXCEPT !.status = "Dropped", !.mail = FALSE]]
    BY <1>5 DEF DropFinish
  <2>3. site' \in [Sites -> Row]
    BY <2>1, <2>2 DEF TypeOK
  <2> QED
    BY <1>5, <2>3, Empty, <1>a DEF DropFinish, TypeOK
<1>6. ASSUME NEW a \in Attempts, PilotFinishes(s, a) PROVE TypeInv'
  <2>1. PICK result \in {"success", "taken", "failed"} :
          pilot' = [pilot EXCEPT ![s][a] = [task |-> result, exists |-> @.exists \/ result = "success"]]
    BY <1>6 DEF PilotFinishes
  <2> DEFINE v == [task |-> result, exists |-> pilot[s][a].exists \/ result = "success"]
  <2>2. v \in [task: TaskStatus, exists: BOOLEAN]
    BY DEF TaskStatus
  <2>3. pilot' = [pilot EXCEPT ![s][a] = v]
    BY <2>1
  <2>4. pilot' \in [Sites -> [Attempts -> [task: TaskStatus, exists: BOOLEAN]]]
    BY <2>2, <2>3, PilotStep
  <2> QED
    BY <1>6, <2>4, <1>a DEF PilotFinishes, TypeOK
<1> QED
  BY <1>1, <1>2, <1>3, <1>4, <1>5, <1>6 DEF DropJobStep

\* The operators' requests.
LEMMA OperatorTypeInv ==
    ASSUME TypeInv, NEW o \in Operators, Operator(o)
    PROVE  TypeInv'
<1> USE DEF TypeInv
<1>0. op[o] \in OpState /\ op[o].row \in Row /\ NoOp \in OpState
  BY Empty DEF TypeOK, OpState
<1>a. ASSUME NEW v \in OpState, op' = [op EXCEPT ![o] = v]
      PROVE  op' \in [Operators -> OpState]
  BY <1>a DEF TypeOK
\* A request that ends leaves the others as they were; a secret that grows was its own.
<1>b. ASSUME op' = [op EXCEPT ![o] = NoOp],
             \/ secret' = secret
             \/ op[o].at = "rotate" /\ secret' = [secret EXCEPT ![op[o].tenant] = @ + 1]
      PROVE  Underway' /\ op' \in [Operators -> OpState] /\ secret' \in [Tenants -> 1 .. MaxSecret]
  <2>1. secret' \in [Tenants -> 1 .. MaxSecret]
    BY <1>b, ConstantsAssumption DEF Underway, TypeOK
  <2>2. \A p \in Operators : op'[p].at # "idle" => p # o /\ op'[p] = op[p]
    BY <1>b DEF NoOp, TypeOK
  <2>3. ASSUME NEW p \in Operators, op'[p].at = "rotate"
        PROVE  op'[p].tenant \in Tenants /\ secret'[op'[p].tenant] < MaxSecret
    BY <1>b, <2>2, <2>3 DEF Underway, TypeOK
  <2>4. \A p \in Operators : op'[p].at # "idle" => op'[p].site \in Sites
    BY <2>2 DEF Underway
  <2>5. \A p, q \in Operators :
          op'[p].at = "rotate" /\ op'[q].at = "rotate" /\ op'[p].tenant = op'[q].tenant => p = q
    BY <2>2 DEF Underway
  <2> QED
    BY <2>1, <2>3, <2>4, <2>5, <1>a, <1>b, <1>0 DEF Underway
<1>1. ASSUME NEW s \in Sites, RetryBegin(o, s) PROVE TypeInv'
  <2> DEFINE v == [at |-> "retry", site |-> s, row |-> site[s], request |-> RequestOf(site[s].tenant),
                   tenant |-> site[s].tenant]
  <2>1. RequestOf(site[s].tenant) \in RequestStatus /\ site[s].tenant \in Tenants \cup {None}
    BY DEF RequestOf, TypeOK, Row, RequestStatus
  <2>2. v \in OpState
    BY <2>1 DEF OpState, OpStep, TypeOK
  <2>3. op' = [op EXCEPT ![o] = v]
    BY <1>1 DEF RetryBegin
  <2>4. Underway'
    BY <1>1, <2>3 DEF RetryBegin, Underway, TypeOK
  <2> QED
    BY <1>1, <2>2, <2>3, <2>4, <1>a DEF RetryBegin, TypeOK
<1>2. ASSUME NEW t \in Tenants, RotateBegin(o, t) PROVE TypeInv'
  <2>1. PICK s \in LiveSites(t) :
          op' = [op EXCEPT ![o] = [at |-> "rotate", site |-> s, row |-> site[s],
                                   request |-> request[t], tenant |-> t]]
    BY <1>2 DEF RotateBegin
  <2> DEFINE v == [at |-> "rotate", site |-> s, row |-> site[s], request |-> request[t], tenant |-> t]
  <2>2. s \in Sites
    BY DEF LiveSites
  <2>3. v \in OpState
    BY <2>2 DEF OpState, OpStep, TypeOK
  <2>4. Underway'
    BY <1>2, <2>1, <2>2 DEF RotateBegin, Underway, TypeOK
  <2> QED
    BY <1>2, <2>1, <2>3, <2>4, <1>a DEF RotateBegin, TypeOK
<1>3. ASSUME Retry(o) PROVE TypeInv'
  <2>1. PICK s \in Sites : s = op[o].site
    BY <1>3 DEF Retry, Underway
  <2>2. [site[s] EXCEPT !.status = ResumeStatus(op[o].row), !.task = FALSE] \in Row
    <3>1. ResumeStatus(op[o].row) \in SiteStatus
      BY DEF ResumeStatus, SiteStatus
    <3>2. site[s] \in Row
      BY DEF TypeOK
    <3> QED
      BY <3>1, <3>2 DEF Row
  <2>3. \/ site' = site
        \/ site' = [site EXCEPT ![s] = [site[s] EXCEPT !.status = ResumeStatus(op[o].row), !.task = FALSE]]
    BY <1>3, <2>1 DEF Retry
  <2>4. site' \in [Sites -> Row]
    BY <2>2, <2>3 DEF TypeOK
  <2>5. request' \in [Tenants -> RequestStatus]
    BY <1>3 DEF Retry, TypeOK, RequestStatus
  <2>6. setup' \in [Sites -> Setup]
    BY <1>3, <2>1, EnqueueType DEF Retry, TypeOK
  <2>7. overwritten' \in [Sites -> BOOLEAN]
    BY <1>3, <2>1 DEF Retry, TypeOK
  <2>8. Underway' /\ op' \in [Operators -> OpState]
    BY <1>3, <1>b DEF Retry
  <2> QED
    BY <1>3, <2>4, <2>5, <2>6, <2>7, <2>8 DEF Retry, TypeOK
<1>4. ASSUME RotateReaches(o) PROVE TypeInv'
  <2>1. Underway' /\ op' \in [Operators -> OpState] /\ secret' \in [Tenants -> 1 .. MaxSecret]
    BY <1>4, <1>b DEF RotateReaches
  <2>2. siteSecret' \in [Sites -> 0 .. MaxSecret]
    BY <1>4, ConstantsAssumption DEF RotateReaches, Underway, TypeOK
  <2> QED
    BY <1>4, <2>1, <2>2 DEF RotateReaches, TypeOK
<1>5. ASSUME RotateReconfigures(o) PROVE TypeInv'
  <2>1. PICK s \in Sites : s = op[o].site
    BY <1>5 DEF RotateReconfigures, Underway
  <2>2. Underway' /\ op' \in [Operators -> OpState] /\ secret' \in [Tenants -> 1 .. MaxSecret]
    BY <1>5, <1>b DEF RotateReconfigures
  <2> DEFINE st == IF op[o].row.status = "Active" THEN "Assigned" ELSE site[s].status
             r == [site[s] EXCEPT !.configured = FALSE, !.status = st]
  <2>3. r \in Row
    <3>1. site[s] \in Row
      BY DEF TypeOK
    <3>2. st \in SiteStatus
      BY <3>1 DEF Row, SiteStatus
    <3> HIDE DEF st
    <3> QED
      BY <3>1, <3>2 DEF Row
  <2>4. site' = site \/ site' = [site EXCEPT ![s] = r]
    BY <1>5, <2>1 DEF RotateReconfigures, TypeOK
  <2> HIDE DEF r
  <2>5. site' \in [Sites -> Row]
    BY <2>3, <2>4 DEF TypeOK
  <2>6. setup' \in [Sites -> Setup] /\ overwritten' \in [Sites -> BOOLEAN]
    BY <1>5, <2>1, EnqueueType DEF RotateReconfigures, TypeOK
  <2> QED
    BY <1>5, <2>2, <2>5, <2>6 DEF RotateReconfigures, TypeOK
<1> QED
  BY <1>1, <1>2, <1>3, <1>4, <1>5 DEF Operator

LEMMA NextTypeInv ==
    ASSUME TypeInv, [Next]_vars
    PROVE  TypeInv'
<1>1. ASSUME NEW s \in Sites, SetupJob(s) PROVE TypeInv'
  BY <1>1, SetupStepsTypeInv, SetupReachesOutTypeInv DEF SetupJob
<1>2. ASSUME NEW o \in Operators, Operator(o) PROVE TypeInv'
  BY <1>2, OperatorTypeInv
<1>3. ASSUME UNCHANGED vars PROVE TypeInv'
  BY <1>3 DEF vars, TypeInv, TypeOK, Underway
<1> QED
  BY <1>1, <1>2, <1>3, RowsTypeInv, DropTypeInv DEF Next

\* Type correctness, for every number of sites, tenants, operators, host names and secrets.
THEOREM TypeCorrect == Spec => []TypeOK
<1>1. Spec => []TypeInv
  BY InitTypeInv, NextTypeInv, PTL DEF Spec
<1>2. TypeInv => TypeOK
  BY DEF TypeInv
<1> QED
  BY <1>1, <1>2, PTL
----------------------------------------------------------------------------
(* A drop is final *)

\* Between its steps a setup job that is only queued, starting or ending writes no row.
Quiet == {"none", "queued", "begin", "exit"}

\* The statuses of a row a setup job works on.
Working == {"Pending", "Creating", "Configuring", "Active"}

\* What makes DropIsFinal inductive: while a site is being dropped no setup job of it is past its
\* read of the row, as long as the drop job is at work the site is being dropped, and the row a
\* job holds and may yet commit is not one of a drop.
DropInv ==
    \A s \in Sites :
        /\ ~overwritten[s] /\ BeingDropped(s) => setup[s].at \in Quiet
        /\ ~overwritten[s] /\ dropjob[s].at \in {"server", "finish"} =>
             site[s].status \in {"Dropping", "Dropped", "Deleted"} /\ setup[s].at \in Quiet
        /\ setup[s].at \notin Quiet => setup[s].row.status \in Working

\* One step as one site sees it.
DropStep(s) ==
    /\ ~overwritten'[s] =>
         /\ BeingDropped(s) => site'[s].status \in {"Dropping", "Dropped", "Deleted"}
         /\ BeingDropped(s)' => setup'[s].at \in Quiet
         /\ dropjob'[s].at \in {"server", "finish"} =>
              site'[s].status \in {"Dropping", "Dropped", "Deleted"} /\ setup'[s].at \in Quiet
    /\ setup'[s].at \notin Quiet => setup'[s].row.status \in Working

\* A step that leaves this site alone.
LEMMA ElsewhereDropStep ==
    ASSUME DropInv, NEW s \in Sites, UNCHANGED <<site[s], setup[s], dropjob[s]>>,
           overwritten[s] => overwritten'[s]
    PROVE  DropStep(s)
BY DEF DropInv, DropStep, BeingDropped

\* A step of the site's setup job.
LEMMA SetupDropStep ==
    ASSUME TypeInv, DropInv, NEW s \in Sites, SetupJob(s)
    PROVE  DropStep(s)
<1> USE DEF TypeInv
<1>0. site[s] \in Row /\ Committed(s) \in Row /\ setup[s] \in Setup /\ setup[s].row \in Row
  BY CommittedType DEF TypeOK
<1>1. UNCHANGED <<dropjob, overwritten>>
  BY DEF SetupJob, SetupStart, SetupBegin, CreateBegin, CreateNoRoom, ConfigureBegin, FollowUpBegin,
         NothingToDo, SetupRead, CreateResume, CreateFound, CreateMissing, CreateRequest,
         CreateRequestLost, CreateConflict, CreateSave, WaitUnfinished, TaskSucceeded, RerollHostname,
         TaskFailed, RowGone, StepWaits, StepFails, PushCredentials, ConfigureSave, Activate, FollowUp,
         FollowUpPasses, MailVerified, InviteOwner, FollowUpDone, SetupExit, SetupDies
\* The steps that leave the row alone and end in a quiet state.
<1>2. ASSUME SetupStart(s) \/ SetupExit(s) \/ SetupDies(s) \/ CreateNoRoom(s) \/ NothingToDo(s)
             \/ WaitUnfinished(s) \/ RowGone(s) \/ FollowUpDone(s)
      PROVE  DropStep(s)
  <2>1. site' = site /\ setup'[s].at \in Quiet
    BY <1>2 DEF SetupStart, SetupExit, SetupDies, CreateNoRoom, NothingToDo, WaitUnfinished, RowGone,
                FollowUpDone, SetupReturns, NoSetup, Quiet, TypeOK, Setup
  <2> QED
    BY <1>1, <2>1 DEF DropInv, DropStep, BeingDropped
\* The steps that read the row: its status has a step.
<1>3. ASSUME CreateBegin(s) \/ ConfigureBegin(s) \/ FollowUpBegin(s) PROVE DropStep(s)
  <2>1. site' = site /\ site[s].status \notin {"Dropping", "Dropped", "Deleted"}
    BY <1>3 DEF CreateBegin, ConfigureBegin, FollowUpBegin, SetupRead
  <2>2. setup'[s].row.status \in Working
    <3>1. ASSUME NEW step, NEW r, SetupRead(s, step, r) PROVE setup'[s].row = r
      BY <3>1 DEF SetupRead, TypeOK
    <3>2. [site[s] EXCEPT !.placed = TRUE].status = site[s].status
      BY <1>0 DEF Row
    <3>3. [site[s] EXCEPT !.status = "Configuring"].status = "Configuring"
      BY <1>0 DEF Row
    <3> QED
      BY <1>3, <3>1, <3>2, <3>3 DEF CreateBegin, ConfigureBegin, FollowUpBegin, Working
  <2> QED
    BY <1>1, <2>1, <2>2 DEF DropInv, DropStep, BeingDropped
\* The steps of a job that works: the site is not being dropped, and no step makes it so.
<1>a. ASSUME setup[s].at \notin Quiet,
             site'[s].status \in {site[s].status, "Ready", "Assigned", "Failed"} \cup Working,
             setup'[s].at \in Quiet \/ setup'[s].row.status \in Working
      PROVE  DropStep(s)
  <2>1. ASSUME ~overwritten[s] PROVE ~BeingDropped(s) /\ dropjob[s].at \notin {"server", "finish"}
    BY <1>a, <2>1 DEF DropInv
  <2>2. ASSUME ~overwritten[s] PROVE ~BeingDropped(s)'
    BY <1>a, <2>1, <2>2 DEF BeingDropped, Working
  <2> QED
    BY <1>a, <1>1, <2>1, <2>2 DEF DropStep
<1>b. setup[s].at \notin Quiet => setup[s].row.status \in Working
  BY DEF DropInv
<1>c. setup[s].at \notin Quiet => Committed(s).status \in {site[s].status} \cup Working
  BY <1>b DEF Committed
<1>4. ASSUME CreateMissing(s) \/ PushCredentials(s)
             \/ (\E label \in {"mail", "invite"} : FollowUpPasses(s, label))
      PROVE  DropStep(s)
  <2>1. site' = site /\ setup'[s].row = setup[s].row /\ setup[s].at \notin Quiet
    BY <1>4, <1>0 DEF CreateMissing, PushCredentials, FollowUpPasses, FollowUpStep, Quiet, TypeOK, Setup
  <2> QED
    BY <1>a, <1>b, <2>1
<1>5. ASSUME CreateRequest(s) PROVE DropStep(s)
  <2>1. site' = site /\ setup'[s].row.status = "Creating" /\ setup[s].at \notin Quiet
    BY <1>5, <1>0 DEF CreateRequest, Quiet, TypeOK, Setup, Row
  <2> QED
    BY <1>a, <2>1 DEF Working
<1>6. ASSUME CreateResume(s) \/ CreateSave(s) PROVE DropStep(s)
  <2>1. site'[s] = Committed(s) /\ setup'[s].row = setup[s].row /\ setup[s].at \notin Quiet
    BY <1>6, <1>0 DEF CreateResume, CreateSave, Quiet, TypeOK, Setup
  <2> QED
    BY <1>a, <1>b, <1>c, <2>1
<1>7. ASSUME ConfigureSave(s) PROVE DropStep(s)
  <2>1. site'[s].status = Committed(s).status /\ setup'[s].row = setup[s].row /\ setup[s].at \notin Quiet
    BY <1>7, <1>0 DEF ConfigureSave, Quiet, TypeOK, Setup, Row
  <2> QED
    BY <1>a, <1>b, <1>c, <2>1
<1>8. ASSUME CreateRequestLost(s) \/ StepWaits(s) PROVE DropStep(s)
  <2>1. site'[s] = Committed(s) /\ setup'[s].at \in Quiet /\ setup[s].at \notin Quiet
    BY <1>8, <1>0 DEF CreateRequestLost, StepWaits, SetupReturns, Raising, Quiet, TypeOK, Setup
  <2> QED
    BY <1>a, <1>c, <2>1
<1>9. ASSUME CreateConflict(s) \/ TaskFailed(s) \/ StepFails(s) PROVE DropStep(s)
  <2>1. site'[s].status = "Failed" /\ setup'[s].at \in Quiet /\ setup[s].at \notin Quiet
    BY <1>9, <1>0 DEF CreateConflict, TaskFailed, StepFails, Fail, SetupReturns, Raising, Quiet, TypeOK,
                      Setup, Row
  <2> QED
    BY <1>a, <2>1
<1>10. ASSUME CreateFound(s) \/ TaskSucceeded(s) PROVE DropStep(s)
  <2>1. ASSUME NEW r \in Row PROVE MarkCreated(s, r).status \in {"Ready", "Assigned"}
    BY DEF MarkCreated, Row
  <2>2. site'[s] = MarkCreated(s, Committed(s)) \/ site'[s] = MarkCreated(s, site[s])
    BY <1>10 DEF CreateFound, TaskSucceeded, TypeOK
  <2>3. setup'[s].at \in Quiet /\ setup[s].at \notin Quiet
    BY <1>10, <1>0 DEF CreateFound, TaskSucceeded, SetupAdvances, Quiet, TypeOK, Setup
  <2> QED
    BY <1>a, <1>0, <2>1, <2>2, <2>3
<1>11. ASSUME RerollHostname(s) PROVE DropStep(s)
  <2>1. site'[s].status = "Pending" /\ setup'[s].at \in Quiet /\ setup[s].at \notin Quiet
    BY <1>11, <1>0 DEF RerollHostname, SetupAdvances, Quiet, TypeOK, Setup, Row
  <2> QED
    BY <1>a, <2>1 DEF Working
<1>12. ASSUME Activate(s) PROVE DropStep(s)
  <2>1. site'[s].status = "Active" /\ setup'[s].at \in Quiet /\ setup[s].at \notin Quiet
    BY <1>12, <1>0 DEF Activate, SetupAdvances, Quiet, TypeOK, Setup, Row
  <2> QED
    BY <1>a, <2>1 DEF Working
<1>13. ASSUME MailVerified(s) \/ InviteOwner(s) PROVE DropStep(s)
  <2>1. site'[s].status = site[s].status /\ setup'[s].row = setup[s].row /\ setup[s].at \notin Quiet
    BY <1>13, <1>0 DEF MailVerified, InviteOwner, FollowUpStep, Quiet, TypeOK, Setup, Row
  <2> QED
    BY <1>a, <1>b, <2>1
<1> QED
  BY <1>2, <1>3, <1>4, <1>5, <1>6, <1>7, <1>8, <1>9, <1>10, <1>11, <1>12, <1>13
     DEF SetupJob, SetupBegin, FollowUp
\* What RQ holds of a job that is only enqueued.
LEMMA EnqueueQuiet ==
    ASSUME NEW s \in Sites
    PROVE  Enqueue(s) = setup[s] \/ Enqueue(s).at \in Quiet
BY DEF Enqueue, NoSetup, Quiet

\* A row is inserted, claimed, polled or deleted.
LEMMA RowsDropStep ==
    ASSUME TypeInv, DropInv, NEW s \in Sites,
           \/ InsertPooled(s) \/ Trash(s) \/ PollPendingSites(s)
           \/ \E t \in Tenants : ClaimReady(t, s) \/ ClaimNew(t, s)
    PROVE  DropStep(s)
<1> USE DEF TypeInv
<1>0. site[s] \in Row /\ NoRow \in Row
  BY Empty DEF TypeOK
<1>1. UNCHANGED <<dropjob, overwritten>> /\ (setup'[s] = setup[s] \/ setup'[s].at \in Quiet)
  BY EnqueueQuiet DEF InsertPooled, Trash, PollPendingSites, ClaimReady, ClaimNew, TypeOK
<1>a. ASSUME site[s].status \notin {"Dropping", "Dropped", "Deleted"},
             site'[s].status \notin {"Dropping", "Dropped"}
      PROVE  DropStep(s)
  BY <1>a, <1>1 DEF DropInv, DropStep, BeingDropped
<1>2. ASSUME InsertPooled(s) PROVE DropStep(s)
  <2>1. site'[s].status = "Pending" /\ site[s].status = "Absent"
    <3>1. PICK room \in BOOLEAN : site'[s] = [NoRow EXCEPT !.status = "Pending", !.placed = room]
      BY <1>2 DEF InsertPooled, TypeOK
    <3>2. [NoRow EXCEPT !.status = "Pending", !.placed = room].status = "Pending"
      BY <1>0 DEF Row
    <3>3. site[s] = NoRow /\ NoRow.status = "Absent"
      <4>1. site[s] = NoRow
        BY <1>2 DEF InsertPooled
      <4>2. NoRow.status = "Absent"
        BY DEF NoRow
      <4> QED
        BY <4>1, <4>2
    <3> QED
      BY <3>1, <3>2, <3>3
  <2> QED
    BY <2>1, <1>a
<1>3. ASSUME Trash(s) PROVE DropStep(s)
  <2>1. site'[s].status = "Deleted" /\ setup' = setup
    BY <1>3, <1>0 DEF Trash, NoRow, TypeOK
  <2> QED
    BY <2>1, <1>1 DEF DropInv, DropStep, BeingDropped
<1>4. ASSUME PollPendingSites(s) PROVE DropStep(s)
  <2>1. site' = site
    BY <1>4 DEF PollPendingSites
  <2> QED
    BY <2>1, <1>1 DEF DropInv, DropStep, BeingDropped
<1>5. ASSUME NEW t \in Tenants, ClaimReady(t, s) PROVE DropStep(s)
  <2>1. site[s].status = "Ready" /\ site'[s].status = "Assigned"
    BY <1>5, <1>0 DEF ClaimReady, Claimable, TypeOK, Row
  <2> QED
    BY <2>1, <1>a
<1>6. ASSUME NEW t \in Tenants, ClaimNew(t, s) PROVE DropStep(s)
  <2>1. site'[s].status = "Pending" /\ site[s].status = "Absent"
    <3>1. PICK room \in BOOLEAN :
            site'[s] = [NoRow EXCEPT !.status = "Pending", !.placed = room, !.tenant = t]
      BY <1>6 DEF ClaimNew, TypeOK
    <3>2. [NoRow EXCEPT !.status = "Pending", !.placed = room, !.tenant = t].status = "Pending"
      BY <1>0 DEF Row
    <3>3. site[s] = NoRow /\ NoRow.status = "Absent"
      <4>1. site[s] = NoRow
        BY <1>6 DEF ClaimNew
      <4>2. NoRow.status = "Absent"
        BY DEF NoRow
      <4> QED
        BY <4>1, <4>2
    <3> QED
      BY <3>1, <3>2, <3>3
  <2> QED
    BY <2>1, <1>a
<1> QED
  BY <1>2, <1>3, <1>4, <1>5, <1>6

\* The drop of the site, and Pilot at work for it. The drop begins only when RQ does not call the
\* setup job started.
LEMMA DropDropStep ==
    ASSUME TypeInv, DropInv, NEW s \in Sites,
           \/ DropSite(s) \/ DropJobStep(s)
           \/ \E a \in Attempts : PilotFinishes(s, a)
    PROVE  DropStep(s)
<1> USE DEF TypeInv
<1>0. site[s] \in Row /\ dropjob[s] \in DropJob
  BY DEF TypeOK
<1>1. UNCHANGED <<setup, overwritten>>
  BY DEF DropSite, DropJobStep, DropBegin, DropFromServer, DropFails, DropFinish, PilotFinishes
<1>2. ASSUME DropBegin(s) PROVE DropStep(s)
  <2>1. CASE DropRefuses(s)
    <3>1. site' = site /\ dropjob'[s].at = "none"
      BY <1>2, <2>1 DEF DropBegin, NoDrop, TypeOK
    <3> QED
      BY <3>1, <1>1 DEF DropInv, DropStep, BeingDropped
  <2>2. CASE ~DropRefuses(s)
    <3>1. site'[s].status = "Dropping" /\ setup[s].at \in Quiet
      BY <1>2, <2>2, <1>0 DEF DropBegin, DropRefuses, IsProvisioning, Quiet, TypeOK, Row
    <3> QED
      BY <3>1, <1>1 DEF DropStep, Quiet
  <2> QED
    BY <2>1, <2>2
<1>3. ASSUME DropFinish(s) PROVE DropStep(s)
  <2>1. dropjob[s].at = "finish" /\ dropjob'[s].at = "none"
    BY <1>3 DEF DropFinish, NoDrop, TypeOK
  <2>2. site'[s].status \in {site[s].status, "Dropped"}
    BY <1>3, <1>0 DEF DropFinish, TypeOK, Row
  <2> QED
    BY <2>1, <2>2, <1>1 DEF DropInv, DropStep, BeingDropped
<1>4. ASSUME DropSite(s) \/ DropFromServer(s) \/ DropFails(s) \/ (\E a \in Attempts : PilotFinishes(s, a))
      PROVE  DropStep(s)
  <2>1. site' = site
    BY <1>4 DEF DropSite, DropFromServer, DropFails, PilotFinishes
  <2>2. dropjob'[s].at \in {"server", "finish"} => dropjob[s].at \in {"server", "finish"}
    BY <1>4, <1>0 DEF DropSite, DropFromServer, DropFails, PilotFinishes, NoDrop, TypeOK, DropJob
  <2> QED
    BY <2>1, <2>2, <1>1 DEF DropInv, DropStep, BeingDropped
<1> QED
  BY <1>2, <1>3, <1>4 DEF DropJobStep

\* An operator's request: a late write over a drop is what overwritten records.
LEMMA OperatorDropStep ==
    ASSUME TypeInv, DropInv, NEW o \in Operators, Operator(o), NEW s \in Sites
    PROVE  DropStep(s)
<1> USE DEF TypeInv
<1>0. site[s] \in Row /\ overwritten \in [Sites -> BOOLEAN]
  BY DEF TypeOK
<1>1. ASSUME NEW r \in Sites, RetryBegin(o, r) PROVE DropStep(s)
  BY <1>1, ElsewhereDropStep DEF RetryBegin
<1>2. ASSUME NEW t \in Tenants, RotateBegin(o, t) PROVE DropStep(s)
  BY <1>2, ElsewhereDropStep DEF RotateBegin
<1>3. ASSUME RotateReaches(o) PROVE DropStep(s)
  BY <1>3, ElsewhereDropStep DEF RotateReaches
<1>a. ASSUME dropjob' = dropjob, setup'[s] = setup[s] \/ setup'[s].at \in Quiet,
             overwritten[s] => overwritten'[s],
             \/ site'[s].status = site[s].status
             \/ BeingDropped(s) /\ overwritten'[s]
             \/ ~BeingDropped(s) /\ ~BeingDropped(s)' /\ site[s].status # "Deleted"
      PROVE  DropStep(s)
  BY <1>a DEF DropInv, DropStep, BeingDropped
<1>4. ASSUME Retry(o) PROVE DropStep(s)
  <2>1. CASE s # op[o].site
    BY <1>4, <2>1, ElsewhereDropStep DEF Retry, TypeOK
  <2>2. CASE s = op[o].site
    <3>1. setup'[s] = setup[s] \/ setup'[s].at \in Quiet
      BY <1>4, <2>2, EnqueueQuiet DEF Retry, TypeOK
    <3>2. overwritten[s] => overwritten'[s]
      BY <1>4, <2>2, <1>0 DEF Retry
    <3>3. \/ site'[s].status = site[s].status
          \/ BeingDropped(s) /\ overwritten'[s]
          \/ ~BeingDropped(s) /\ ~BeingDropped(s)' /\ site[s].status # "Deleted"
      <4>1. CASE ~(op[o].row.status = "Failed" /\ Exists(s))
        BY <1>4, <2>2, <4>1 DEF Retry
      <4>2. CASE op[o].row.status = "Failed" /\ Exists(s)
        <5>1. site'[s].status = ResumeStatus(op[o].row)
          BY <1>4, <2>2, <4>2, <1>0 DEF Retry, TypeOK, Row
        <5>2. ResumeStatus(op[o].row) \notin {"Dropping", "Dropped"}
          BY DEF ResumeStatus
        <5>3. BeingDropped(s) => overwritten'[s]
          BY <1>4, <2>2, <4>2, <1>0 DEF Retry
        <5> QED
          BY <4>2, <5>1, <5>2, <5>3 DEF Exists, BeingDropped
      <4> QED
        BY <4>1, <4>2
    <3> QED
      BY <1>4, <3>1, <3>2, <3>3, <1>a DEF Retry
  <2> QED
    BY <2>1, <2>2
<1>5. ASSUME RotateReconfigures(o) PROVE DropStep(s)
  <2>1. CASE s # op[o].site
    BY <1>5, <2>1, ElsewhereDropStep DEF RotateReconfigures, TypeOK
  <2>2. CASE s = op[o].site
    <3>1. setup'[s] = setup[s] \/ setup'[s].at \in Quiet
      BY <1>5, <2>2, EnqueueQuiet DEF RotateReconfigures, TypeOK
    <3>2. overwritten[s] => overwritten'[s]
      BY <1>5, <2>2, <1>0 DEF RotateReconfigures
    <3>3. \/ site'[s].status = site[s].status
          \/ BeingDropped(s) /\ overwritten'[s]
          \/ ~BeingDropped(s) /\ ~BeingDropped(s)' /\ site[s].status # "Deleted"
      <4>1. CASE ~(op[o].row.configured /\ Exists(s) /\ op[o].row.status = "Active")
        BY <1>5, <2>2, <4>1, <1>0 DEF RotateReconfigures, TypeOK, Row
      <4>2. CASE op[o].row.configured /\ Exists(s) /\ op[o].row.status = "Active"
        <5>1. site'[s].status = "Assigned"
          BY <1>5, <2>2, <4>2, <1>0 DEF RotateReconfigures, TypeOK, Row
        <5>2. BeingDropped(s) => overwritten'[s]
          BY <1>5, <2>2, <4>2, <1>0 DEF RotateReconfigures
        <5> QED
          BY <4>2, <5>1, <5>2 DEF Exists, BeingDropped
      <4> QED
        BY <4>1, <4>2
    <3> QED
      BY <1>5, <3>1, <3>2, <3>3, <1>a DEF RotateReconfigures
  <2> QED
    BY <2>1, <2>2
<1> QED
  BY <1>1, <1>2, <1>3, <1>4, <1>5 DEF Operator

\* A step at one site leaves every other site as it was.
LEMMA OneSiteAtATime ==
    ASSUME TypeInv, NEW r \in Sites, NEW s \in Sites, s # r,
           \/ InsertPooled(r) \/ Trash(r) \/ DropSite(r) \/ PollPendingSites(r)
           \/ SetupJob(r) \/ DropJobStep(r)
           \/ \E t \in Tenants : ClaimReady(t, r) \/ ClaimNew(t, r)
           \/ \E a \in Attempts : PilotFinishes(r, a)
    PROVE  /\ UNCHANGED <<site[s], setup[s], dropjob[s], overwritten[s]>>
           /\ UNCHANGED <<lock[s], pilot[s], siteSecret[s]>>
<1> USE DEF TypeInv, TypeOK
<1>1. ASSUME InsertPooled(r) \/ Trash(r) \/ DropSite(r) \/ PollPendingSites(r) \/ DropJobStep(r)
             \/ (\E t \in Tenants : ClaimReady(t, r) \/ ClaimNew(t, r))
             \/ (\E a \in Attempts : PilotFinishes(r, a))
      PROVE  /\ UNCHANGED <<site[s], setup[s], dropjob[s], overwritten[s]>>
             /\ UNCHANGED <<lock[s], pilot[s], siteSecret[s]>>
  BY <1>1 DEF InsertPooled, Trash, DropSite, PollPendingSites, DropJobStep, DropBegin, DropFromServer,
              DropFails, DropFinish, PilotDrops, ClaimReady, ClaimNew, PilotFinishes
<1>2. ASSUME SetupStart(r) \/ SetupBegin(r) \/ CreateResume(r) \/ CreateFound(r) \/ CreateMissing(r)
             \/ CreateRequest(r) \/ CreateRequestLost(r) \/ CreateConflict(r) \/ CreateSave(r)
      PROVE  /\ UNCHANGED <<site[s], setup[s], dropjob[s], overwritten[s]>>
             /\ UNCHANGED <<lock[s], pilot[s], siteSecret[s]>>
  BY <1>2 DEF SetupStart, SetupBegin, CreateBegin, CreateNoRoom, ConfigureBegin, FollowUpBegin,
              NothingToDo, SetupRead, SetupReturns, SetupAdvances, CreateResume, CreateFound,
              CreateMissing, CreateRequest, PilotCreates,
              CreateRequestLost, CreateConflict, CreateSave, Fail
<1>3. ASSUME WaitUnfinished(r) \/ TaskSucceeded(r) \/ RerollHostname(r) \/ TaskFailed(r) \/ RowGone(r)
             \/ StepWaits(r) \/ StepFails(r) \/ PushCredentials(r) \/ ConfigureSave(r) \/ Activate(r)
             \/ FollowUp(r) \/ SetupExit(r) \/ SetupDies(r)
      PROVE  /\ UNCHANGED <<site[s], setup[s], dropjob[s], overwritten[s]>>
             /\ UNCHANGED <<lock[s], pilot[s], siteSecret[s]>>
  BY <1>3 DEF WaitUnfinished, TaskSucceeded, RerollHostname, TaskFailed, RowGone, StepWaits, StepFails,
              PushCredentials, ConfigureSave, Activate, FollowUp, FollowUpPasses, MailVerified,
              InviteOwner, FollowUpDone, FollowUpStep, SetupExit, SetupDies, SetupReturns,
              SetupAdvances, Fail
<1> QED
  BY <1>1, <1>2, <1>3 DEF SetupJob

LEMMA NextDropStep ==
    ASSUME TypeInv, DropInv, [Next]_vars, NEW s \in Sites
    PROVE  DropStep(s)
<1>1. ASSUME NEW r \in Sites,
             \/ InsertPooled(r) \/ Trash(r) \/ DropSite(r) \/ PollPendingSites(r)
             \/ SetupJob(r) \/ DropJobStep(r)
             \/ \E t \in Tenants : ClaimReady(t, r) \/ ClaimNew(t, r)
             \/ \E a \in Attempts : PilotFinishes(r, a)
      PROVE  DropStep(s)
  <2>1. CASE r = s
    BY <1>1, <2>1, SetupDropStep, RowsDropStep, DropDropStep
  <2>2. CASE r # s
    BY <1>1, <2>2, OneSiteAtATime, ElsewhereDropStep
  <2> QED
    BY <2>1, <2>2
<1>2. ASSUME NEW o \in Operators, Operator(o) PROVE DropStep(s)
  BY <1>2, OperatorDropStep
<1>3. ASSUME UNCHANGED vars PROVE DropStep(s)
  BY <1>3, ElsewhereDropStep DEF vars
<1> QED
  BY <1>1, <1>2, <1>3 DEF Next

LEMMA InitDropInv == Init => DropInv
BY DEF Init, DropInv, BeingDropped, NoRow, NoSetup, NoDrop, Quiet

\* A drop is final: for every number of sites, tenants and operators, no job brings a site that is
\* being dropped, or dropped, back to life, whatever workers die and whatever is enqueued again.
THEOREM DropsAreFinal == Spec => DropIsFinal
<1>1. Init => TypeInv /\ DropInv
  BY InitTypeInv, InitDropInv
<1>2. TypeInv /\ DropInv /\ [Next]_vars => (TypeInv /\ DropInv)'
  <2> SUFFICES ASSUME TypeInv, DropInv, [Next]_vars PROVE DropInv'
    BY NextTypeInv
  <2>1. \A s \in Sites : DropStep(s)
    BY NextDropStep
  <2> QED
    BY <2>1 DEF DropInv, DropStep
<1>3. TypeInv /\ DropInv /\ [Next]_vars =>
        [\A s \in Sites : BeingDropped(s) /\ ~overwritten'[s] =>
            site'[s].status \in {"Dropping", "Dropped", "Deleted"}]_vars
  BY NextDropStep DEF DropStep
<1> QED
  BY <1>1, <1>2, <1>3, PTL DEF Spec, DropIsFinal

----------------------------------------------------------------------------
(* What a row says is on its server *)

\* The steps at which a setup job holds the row.
Holding == {"create", "request", "save", "configure", "configured"}

\* A job that holds the row has the row; one that let go still has its host name.
Copies(s) ==
    /\ setup[s].at \in Holding => lock[s] = "setup"
    /\ lock[s] = "setup" =>
         /\ setup[s].at \in Holding \cup {"activate", "follow"} /\ Exists(s)
         /\ setup[s].row.tenant = site[s].tenant /\ setup[s].row.attempts = site[s].attempts
         /\ setup[s].row.created = site[s].created /\ setup[s].row.configured = site[s].configured
    /\ setup[s].at \in {"create", "request", "save"} => setup[s].row.status \in {"Pending", "Creating"}
    /\ setup[s].at \in {"configure", "configured"} => setup[s].row.status = "Configuring"
    /\ setup[s].at = "wait" =>
         /\ site[s].status # "Absent"
         /\ Exists(s) =>
              /\ setup[s].row.attempts = site[s].attempts
              /\ setup[s].row.tenant # None => site[s].tenant # None

\* A job that configures a site has a tenant's, which is created.
Configures(s) ==
    /\ setup[s].at \in {"configure", "configured", "activate", "follow"} =>
         Exists(s) /\ site[s].tenant # None /\ site[s].created
    /\ setup[s].at \in {"configure", "configured"} => setup[s].secret > 0
    /\ setup[s].at = "activate" => siteSecret[s] > 0

\* Pilot works on a host name that does not exist, and only on the row's.
Hosts(s) ==
    \A a \in Attempts :
        /\ pilot[s][a].task \in {"running", "taken"} => ~pilot[s][a].exists
        /\ pilot[s][a].task # "none" \/ pilot[s][a].exists => site[s].status # "Absent"
        /\ (pilot[s][a].task = "running" \/ pilot[s][a].exists) /\ Exists(s) => a = site[s].attempts

\* What the row says, and until it is dropped Pilot too.
Says(s) ==
    /\ site[s].status \in {"Assigned", "Configuring", "Active"} => site[s].tenant # None
    /\ site[s].status \in {"Ready", "Assigned", "Configuring", "Active"} => site[s].created
    /\ site[s].configured \/ site[s].status = "Active" => siteSecret[s] > 0
    /\ Exists(s) /\ ~overwritten[s] /\ ~BeingDropped(s) =>
         /\ site[s].created => pilot[s][site[s].attempts].exists
         /\ \A a \in Attempts : pilot[s][a].task = "success" => pilot[s][a].exists

Life(s) == Copies(s) /\ Configures(s) /\ Hosts(s) /\ Says(s)

\* What an operator's request read of a row is still so, unless the row is gone.
Recalls(o, s) ==
    op[o].at # "idle" /\ op[o].site = s =>
        /\ site[s].status # "Absent"
        /\ op[o].row.configured \/ op[o].row.status = "Active" => siteSecret[s] > 0
        /\ op[o].row.status = "Active" => op[o].row.created /\ op[o].row.tenant # None
        /\ Exists(s) =>
             /\ op[o].row.created => site[s].created
             /\ op[o].row.tenant # None => site[s].tenant # None

\* A drop is of a row.
Drops(s) == dropjob[s].at # "none" => site[s].status # "Absent"

LifeInv ==
    \A s \in Sites : Life(s) /\ Drops(s) /\ \A o \in Operators : Recalls(o, s)

\* One step as one site sees it: nothing a request has read of it is undone.
Keeps(s) ==
    /\ site[s].status # "Absent" => site'[s].status # "Absent"
    /\ site[s].status = "Deleted" => site'[s].status = "Deleted"
    /\ Exists(s) /\ Exists(s)' =>
         /\ site[s].created => site'[s].created
         /\ site[s].tenant # None => site'[s].tenant # None
    /\ siteSecret[s] > 0 => siteSecret'[s] > 0

LifeStep(s) == Life(s)' /\ Keeps(s)

\* No site is dropped, and no task ends well.
PilotStands(s) ==
    \A a \in Attempts :
        /\ pilot[s][a].exists => pilot'[s][a].exists
        /\ pilot'[s][a].task = "success" => pilot[s][a].task = "success"

\* A step that leaves this site alone.
LEMMA ElsewhereLife ==
    ASSUME LifeInv, NEW s \in Sites,
           UNCHANGED <<site[s], setup[s], lock[s], pilot[s]>>,
           siteSecret[s] > 0 => siteSecret'[s] > 0, overwritten[s] => overwritten'[s]
    PROVE  LifeStep(s)
<1>1. Copies(s) /\ Configures(s) /\ Hosts(s) /\ Says(s)
  BY DEF LifeInv, Life
<1>2. Copies(s)' /\ Configures(s)'
  BY <1>1 DEF Copies, Configures, Exists
<1>3. Hosts(s)'
  BY <1>1 DEF Hosts, Exists
<1>4. Says(s)'
  BY <1>1 DEF Says, Exists, BeingDropped
<1>5. Keeps(s)
  BY DEF Keeps, Exists
<1> QED BY <1>2, <1>3, <1>4, <1>5 DEF LifeStep, Life

\* The types of one site.
LEMMA SiteTyped ==
    ASSUME TypeInv, NEW s \in Sites
    PROVE  /\ site[s] \in Row /\ setup[s] \in Setup /\ setup[s].row \in Row /\ Committed(s) \in Row
           /\ site[s].attempts \in Attempts /\ setup[s].row.attempts \in Attempts
           /\ siteSecret[s] \in 0 .. MaxSecret
BY CommittedType DEF TypeInv, TypeOK, Row

\* A job whose row is not its own any more holds nothing and configures nothing.
LEMMA LetsGo ==
    ASSUME NEW s \in Sites, lock'[s] = None, setup'[s].at \in Quiet
    PROVE  Copies(s)' /\ Configures(s)'
BY ConstantsAssumption DEF Copies, Configures, Holding, Quiet

\* A step that leaves the row, Pilot and the site's secret alone.
LEMMA SameSite ==
    ASSUME TypeInv, LifeInv, NEW s \in Sites, UNCHANGED <<site[s], pilot[s], siteSecret[s]>>,
           overwritten[s] => overwritten'[s], Copies(s)', Configures(s)'
    PROVE  LifeStep(s)
<1>1. Hosts(s) /\ Says(s)
  BY DEF LifeInv, Life
<1>2. Hosts(s)'
  BY <1>1 DEF Hosts, Exists
<1>3. Says(s)'
  BY <1>1 DEF Says, Exists, BeingDropped
<1>4. Keeps(s)
  BY DEF Keeps, Exists
<1> QED BY <1>2, <1>3, <1>4 DEF LifeStep, Life

LEMMA SetupQuietLife ==
    ASSUME TypeInv, LifeInv, NEW s \in Sites,
           \/ SetupStart(s) \/ SetupExit(s) \/ SetupDies(s) \/ CreateNoRoom(s) \/ NothingToDo(s)
           \/ WaitUnfinished(s) \/ RowGone(s) \/ FollowUpDone(s)
    PROVE  LifeStep(s)
<1>1. setup[s] \in Setup /\ Copies(s) /\ setup \in [Sites -> Setup] /\ lock \in [Sites -> {None, "setup"}]
  BY DEF TypeInv, TypeOK, LifeInv, Life
<1>2. UNCHANGED <<site, pilot, siteSecret, overwritten>>
  BY DEF SetupStart, SetupExit, SetupDies, CreateNoRoom, NothingToDo, WaitUnfinished, RowGone, FollowUpDone
<1>3. setup'[s].at \in Quiet
  BY <1>1 DEF SetupStart, SetupExit, SetupDies, CreateNoRoom, NothingToDo, WaitUnfinished, RowGone,
              FollowUpDone, SetupReturns, NoSetup, Quiet, Setup
<1>4. lock'[s] = None
  <2>1. CASE SetupStart(s) \/ SetupExit(s)
    BY <1>1, <2>1 DEF SetupStart, SetupExit, Copies, Holding
  <2>2. CASE SetupDies(s)
    BY <1>1, <2>2 DEF SetupDies
  <2>3. CASE CreateNoRoom(s) \/ NothingToDo(s) \/ WaitUnfinished(s) \/ RowGone(s) \/ FollowUpDone(s)
    BY <1>1, <2>3 DEF CreateNoRoom, NothingToDo, WaitUnfinished, RowGone, FollowUpDone, SetupReturns
  <2> QED BY <2>1, <2>2, <2>3
<1> QED BY <1>2, <1>3, <1>4, LetsGo, SameSite

\* provision reads the row.
LEMMA SetupReadLife ==
    ASSUME TypeInv, LifeInv, NEW s \in Sites,
           CreateBegin(s) \/ ConfigureBegin(s) \/ FollowUpBegin(s)
    PROVE  LifeStep(s)
<1>1. /\ site[s] \in Row /\ setup \in [Sites -> Setup] /\ lock \in [Sites -> {None, "setup"}]
      /\ secret \in [Tenants -> 1 .. MaxSecret] /\ Says(s)
  BY DEF TypeInv, TypeOK, LifeInv, Life
<1>2. UNCHANGED <<site, pilot, siteSecret, overwritten>> /\ lock'[s] = "setup"
  BY <1>1 DEF CreateBegin, ConfigureBegin, FollowUpBegin, SetupRead
<1>3. ASSUME NEW step, NEW r, SetupRead(s, step, r)
      PROVE  /\ setup'[s].at = step /\ setup'[s].row = r
             /\ setup'[s].secret = IF r.tenant = None THEN 0 ELSE secret[r.tenant]
  BY <1>1, <1>3 DEF SetupRead
<1>4. site[s].tenant \in Tenants \cup {None} /\ (site[s].tenant # None => secret[site[s].tenant] > 0)
  BY <1>1 DEF Row
<1>5. CASE CreateBegin(s)
  <2> DEFINE r == [site[s] EXCEPT !.placed = TRUE]
  <2>1. /\ r.tenant = site[s].tenant /\ r.attempts = site[s].attempts
        /\ r.created = site[s].created /\ r.configured = site[s].configured
        /\ r.status \in {"Pending", "Creating"}
    BY <1>1, <1>5 DEF Row, CreateBegin
  <2>2. setup'[s].at = "create" /\ setup'[s].row = r
    BY <1>3, <1>5 DEF CreateBegin
  <2> HIDE DEF r
  <2>3. Exists(s)'
    BY <1>2, <1>5 DEF CreateBegin, Exists
  <2>4. Copies(s)' /\ Configures(s)'
    BY <1>2, <2>1, <2>2, <2>3 DEF Copies, Configures, Holding
  <2> QED BY <1>2, <2>4, SameSite
<1>6. CASE ConfigureBegin(s)
  <2> DEFINE r == [site[s] EXCEPT !.status = "Configuring"]
             step == IF site[s].configured THEN "activate" ELSE "configure"
  <2>1. /\ r.tenant = site[s].tenant /\ r.attempts = site[s].attempts
        /\ r.created = site[s].created /\ r.configured = site[s].configured
        /\ r.status = "Configuring"
    BY <1>1 DEF Row
  <2>2. setup'[s].at = step /\ setup'[s].row = r /\ setup'[s].secret = IF r.tenant = None THEN 0 ELSE secret[r.tenant]
    BY <1>3, <1>6 DEF ConfigureBegin
  <2>3. step \in {"activate", "configure"} /\ (step = "activate" => siteSecret[s] > 0)
    BY <1>1 DEF Says
  <2> HIDE DEF r, step
  <2>4. Exists(s) /\ site[s].tenant # None /\ site[s].created
    BY <1>1, <1>6 DEF ConfigureBegin, Exists, Says
  <2>5. setup'[s].secret > 0
    BY <1>4, <2>1, <2>2, <2>4
  <2>6. Copies(s)'
    BY <1>2, <2>1, <2>2, <2>3, <2>4 DEF Copies, Holding, Exists
  <2>7. Configures(s)'
    BY <1>2, <2>2, <2>3, <2>4, <2>5 DEF Configures, Exists
  <2> QED BY <1>2, <2>6, <2>7, SameSite
<1>7. CASE FollowUpBegin(s)
  <2>1. setup'[s].at = "follow" /\ setup'[s].row = site[s]
    BY <1>3, <1>7 DEF FollowUpBegin
  <2>2. Exists(s) /\ site[s].tenant # None /\ site[s].created
    BY <1>1, <1>7 DEF FollowUpBegin, Exists, Says
  <2>3. Copies(s)' /\ Configures(s)'
    BY <1>2, <2>1, <2>2 DEF Copies, Configures, Holding, Exists
  <2> QED BY <1>2, <2>3, SameSite
<1> QED BY <1>5, <1>6, <1>7

\* The row as a commit of the job leaves it says what it said.
LEMMA CommittedSays ==
    ASSUME TypeInv, LifeInv, NEW s \in Sites
    PROVE  /\ Committed(s) \in Row
           /\ Committed(s).tenant = site[s].tenant /\ Committed(s).attempts = site[s].attempts
           /\ Committed(s).created = site[s].created /\ Committed(s).configured = site[s].configured
BY SiteTyped DEF Committed, LifeInv, Life, Copies

\* A working job writes a row that says what it said, for another status; Pilot may be at work.
LEMMA WorkingLife ==
    ASSUME TypeInv, DropInv, LifeInv, NEW s \in Sites, setup[s].at \notin Quiet,
           UNCHANGED <<siteSecret[s], overwritten[s]>>, Exists(s), Exists(s)',
           PilotStands(s),
           site'[s].tenant = site[s].tenant, site'[s].attempts = site[s].attempts,
           site'[s].created = site[s].created, site'[s].configured = site[s].configured,
           site'[s].status \in {"Assigned", "Configuring", "Active"} => site[s].tenant # None,
           site'[s].status \in {"Ready", "Assigned", "Configuring", "Active"} => site[s].created,
           site'[s].status = "Active" => siteSecret[s] > 0,
           Copies(s)', Configures(s)', Hosts(s)'
    PROVE  LifeStep(s)
<1>1. Says(s) /\ (~overwritten[s] => ~BeingDropped(s)) /\ site[s].attempts \in Attempts
  BY SiteTyped DEF LifeInv, Life, DropInv
<1>2. ASSUME ~overwritten[s]
      PROVE  /\ site[s].created => pilot'[s][site[s].attempts].exists
             /\ \A a \in Attempts : pilot'[s][a].task = "success" => pilot'[s][a].exists
  <2>1. /\ site[s].created => pilot[s][site[s].attempts].exists
        /\ \A a \in Attempts : pilot[s][a].task = "success" => pilot[s][a].exists
    BY <1>1, <1>2 DEF Says
  <2> QED BY <1>1, <2>1 DEF PilotStands
<1>3. site[s].configured => siteSecret[s] > 0
  BY <1>1 DEF Says
<1>4. Says(s)'
  BY <1>2, <1>3 DEF Says
<1>5. Keeps(s)
  BY DEF Keeps, Exists
<1> QED BY <1>4, <1>5 DEF LifeStep, Life

\* Pilot is left alone.
LEMMA HostsStay ==
    ASSUME LifeInv, NEW s \in Sites, UNCHANGED pilot[s], Exists(s), site'[s].status # "Absent",
           site'[s].attempts = site[s].attempts
    PROVE  /\ Hosts(s)'
           /\ PilotStands(s)
BY DEF LifeInv, Life, Hosts, Exists, PilotStands

\* Pilot begins on the host name of the row the job holds.
LEMMA PilotCreatesHosts ==
    ASSUME TypeInv, LifeInv, NEW s \in Sites, PilotCreates(s), lock[s] = "setup",
           site'[s].status # "Absent", site'[s].attempts = site[s].attempts
    PROVE  /\ Hosts(s)'
           /\ PilotStands(s)
<1>1. /\ Hosts(s) /\ Exists(s) /\ setup[s].row.attempts = site[s].attempts
      /\ site[s].attempts \in Attempts
      /\ pilot \in [Sites -> [Attempts -> [task: TaskStatus, exists: BOOLEAN]]]
  BY SiteTyped DEF LifeInv, Life, Copies, TypeInv, TypeOK
<1> DEFINE n == setup[s].row.attempts
<1>2. /\ pilot'[s][n].task = "running" /\ pilot'[s][n].exists = pilot[s][n].exists
      /\ ~pilot[s][n].exists
      /\ \A a \in Attempts : a # n => pilot'[s][a] = pilot[s][a]
  BY <1>1 DEF PilotCreates, Hosts
<1>3. \A a \in Attempts : a # n => ~(pilot[s][a].task = "running" \/ pilot[s][a].exists)
  BY <1>1 DEF Hosts
<1>4. site[s].status # "Absent"
  BY <1>1 DEF Exists
<1>5. Hosts(s)'
  BY <1>1, <1>2, <1>3 DEF Hosts
<1> QED BY <1>1, <1>2, <1>5 DEF PilotStands

\* The row is committed as the job has it.
LEMMA CommitsLife ==
    ASSUME TypeInv, DropInv, LifeInv, NEW s \in Sites, setup[s].at \in Raising \cup {"save"}, Exists(s),
           site'[s] = Committed(s),
           UNCHANGED <<siteSecret[s], overwritten[s]>>, Copies(s)', Configures(s)', Hosts(s)',
           PilotStands(s)
    PROVE  LifeStep(s)
<1>1. Copies(s) /\ Configures(s) /\ Says(s) /\ setup[s].at \notin Quiet
  BY DEF LifeInv, Life, Quiet, Raising
<1>2. CASE lock[s] = "setup"
  <2>1. Committed(s) = setup[s].row
    BY <1>2 DEF Committed
  <2>2. CASE setup[s].at \in {"create", "request", "save"}
    <3>1. site'[s].status \in {"Pending", "Creating"}
      BY <1>1, <2>1, <2>2 DEF Copies
    <3> QED BY <1>1, <3>1, CommittedSays, WorkingLife DEF Exists
  <2>3. CASE setup[s].at \in {"configure", "configured"}
    <3>1. site'[s].status = "Configuring" /\ site[s].tenant # None /\ site[s].created
      BY <1>1, <2>1, <2>3 DEF Copies, Configures
    <3> QED BY <1>1, <3>1, CommittedSays, WorkingLife DEF Exists
  <2> QED BY <1>1, <1>2, <2>2, <2>3 DEF Copies, Holding, Raising
<1>3. CASE lock[s] # "setup"
  <2>1. site'[s] = site[s]
    BY <1>3 DEF Committed
  <2> QED BY <1>1, <2>1, WorkingLife DEF Says, Exists
<1> QED BY <1>2, <1>3

LEMMA CommitStepsLife ==
    ASSUME TypeInv, DropInv, LifeInv, NEW s \in Sites,
           CreateResume(s) \/ CreateSave(s) \/ CreateRequestLost(s) \/ StepWaits(s)
    PROVE  LifeStep(s)
<1>0. /\ setup \in [Sites -> Setup] /\ setup[s] \in Setup /\ lock \in [Sites -> {None, "setup"}]
      /\ site \in [Sites -> Row] /\ Copies(s)
  BY DEF TypeInv, TypeOK, LifeInv, Life
<1>1. /\ site'[s] = Committed(s) /\ lock'[s] = None /\ UNCHANGED <<siteSecret[s], overwritten[s]>>
      /\ setup'[s].row = setup[s].row
  BY <1>0 DEF CreateResume, CreateSave, CreateRequestLost, StepWaits, SetupReturns, Setup
<1>2. setup[s].at \in Raising \cup {"save"} /\ Exists(s)
  BY <1>0 DEF CreateResume, CreateSave, CreateRequestLost, StepWaits, Raising, Copies, Holding
<1>3. Exists(s)'
  <2>1. Committed(s).status \in Working \cup {site[s].status}
    BY <1>2 DEF Committed, DropInv, Quiet, Raising
  <2> QED BY <1>1, <1>2, <2>1 DEF Exists, Working
<1>4. site'[s].attempts = site[s].attempts /\ site'[s].tenant = site[s].tenant
  BY <1>1, CommittedSays
<1>5. CASE CreateResume(s) \/ CreateSave(s)
  <2>1. setup'[s].at = "wait" /\ UNCHANGED pilot[s] /\ lock[s] = "setup"
    BY <1>0, <1>5 DEF CreateResume, CreateSave, Setup, Copies, Holding
  <2>2. Copies(s)'
    BY <1>0, <1>1, <1>3, <1>4, <2>1, ConstantsAssumption DEF Copies, Holding, Exists
  <2>3. Configures(s)'
    BY <2>1 DEF Configures
  <2> QED BY <1>1, <1>2, <1>3, <1>4, <2>1, <2>2, <2>3, HostsStay, CommitsLife DEF Exists
<1>6. CASE StepWaits(s)
  <2>1. setup'[s].at \in Quiet /\ UNCHANGED pilot[s]
    BY <1>0, <1>6 DEF StepWaits, SetupReturns, Setup, Quiet
  <2>2. Copies(s)' /\ Configures(s)'
    BY <1>1, <2>1, LetsGo
  <2> QED BY <1>1, <1>2, <1>3, <1>4, <2>1, <2>2, HostsStay, CommitsLife DEF Exists
<1>7. CASE CreateRequestLost(s)
  <2>1. setup'[s].at \in Quiet /\ PilotCreates(s) /\ lock[s] = "setup"
    BY <1>0, <1>7 DEF CreateRequestLost, SetupReturns, Setup, Quiet, Copies, Holding
  <2>2. Copies(s)' /\ Configures(s)'
    BY <1>1, <2>1, LetsGo
  <2> QED BY <1>1, <1>2, <1>3, <1>4, <2>1, <2>2, PilotCreatesHosts, CommitsLife DEF Exists
<1> QED BY <1>5, <1>6, <1>7

\* fail, and the steps that raise.
LEMMA FailStepsLife ==
    ASSUME TypeInv, DropInv, LifeInv, NEW s \in Sites,
           TaskFailed(s) \/ CreateConflict(s) \/ StepFails(s)
    PROVE  LifeStep(s)
<1>0. /\ setup \in [Sites -> Setup] /\ setup[s] \in Setup /\ lock \in [Sites -> {None, "setup"}]
      /\ site \in [Sites -> Row] /\ site[s] \in Row /\ Copies(s)
  BY DEF TypeInv, TypeOK, LifeInv, Life
<1>1. /\ site'[s] = [site[s] EXCEPT !.status = "Failed"] /\ lock'[s] = None /\ setup'[s].at \in Quiet
      /\ UNCHANGED <<pilot, siteSecret, overwritten>>
  BY <1>0 DEF TaskFailed, CreateConflict, StepFails, Fail, SetupReturns, Setup, Quiet
<1>2. setup[s].at \notin Quiet /\ Exists(s)
  BY <1>0 DEF TaskFailed, CreateConflict, StepFails, Raising, Copies, Holding, Quiet
<1>3. /\ site'[s].status = "Failed"
      /\ site'[s].tenant = site[s].tenant /\ site'[s].attempts = site[s].attempts
      /\ site'[s].created = site[s].created /\ site'[s].configured = site[s].configured
  BY <1>0, <1>1 DEF Row
<1>4. Copies(s)' /\ Configures(s)'
  BY <1>1, LetsGo
<1>5. Exists(s)'
  BY <1>3 DEF Exists
<1> QED BY <1>1, <1>2, <1>3, <1>4, <1>5, HostsStay, WorkingLife

\* mark_created: the host name exists.
LEMMA MarkCreatedLife ==
    ASSUME TypeInv, DropInv, LifeInv, NEW s \in Sites, CreateFound(s) \/ TaskSucceeded(s)
    PROVE  LifeStep(s)
<1>0. /\ setup \in [Sites -> Setup] /\ setup[s] \in Setup /\ lock \in [Sites -> {None, "setup"}]
      /\ site \in [Sites -> Row] /\ site[s] \in Row /\ Copies(s) /\ Hosts(s) /\ Says(s)
  BY DEF TypeInv, TypeOK, LifeInv, Life
<1>1. /\ lock'[s] = None /\ setup'[s].at \in Quiet
      /\ UNCHANGED <<pilot, siteSecret, overwritten>>
  BY <1>0 DEF CreateFound, TaskSucceeded, SetupAdvances, Setup, Quiet
<1>2. Copies(s)' /\ Configures(s)'
  BY <1>1, LetsGo
<1>3. /\ setup[s].at \notin Quiet /\ Exists(s) /\ setup[s].row.attempts = site[s].attempts
      /\ setup[s].row.tenant # None => site[s].tenant # None
  BY <1>0 DEF CreateFound, TaskSucceeded, Copies, Holding, Quiet
<1>4. ASSUME NEW r \in Row, r.tenant = site[s].tenant, r.attempts = site[s].attempts,
             r.configured = site[s].configured, site'[s] = MarkCreated(s, r)
      PROVE  /\ site'[s].tenant = site[s].tenant /\ site'[s].attempts = site[s].attempts
             /\ site'[s].created /\ site'[s].configured = site[s].configured
             /\ site'[s].status \in {"Ready", "Assigned"}
             /\ site'[s].status = "Assigned" => site[s].tenant # None
  BY <1>3, <1>4 DEF MarkCreated, Row
<1>5. site'[s] = MarkCreated(s, Committed(s)) \/ site'[s] = MarkCreated(s, site[s])
  BY <1>0 DEF CreateFound, TaskSucceeded
<1>6. /\ site'[s].tenant = site[s].tenant /\ site'[s].attempts = site[s].attempts
      /\ site'[s].created /\ site'[s].configured = site[s].configured
      /\ site'[s].status \in {"Ready", "Assigned"}
      /\ site'[s].status = "Assigned" => site[s].tenant # None
  BY <1>0, <1>4, <1>5, CommittedSays
<1>7. ~overwritten[s] => ~BeingDropped(s)
  BY <1>3 DEF DropInv
<1>8. ASSUME ~overwritten[s]
      PROVE  /\ pilot[s][site[s].attempts].exists
             /\ \A a \in Attempts : pilot[s][a].task = "success" => pilot[s][a].exists
  <2>1. \A a \in Attempts : pilot[s][a].task = "success" => pilot[s][a].exists
    BY <1>0, <1>3, <1>7, <1>8 DEF Says
  <2>2. pilot[s][site[s].attempts].exists
    BY <1>3, <2>1, SiteTyped DEF CreateFound, TaskSucceeded, OnPilot
  <2> QED BY <2>1, <2>2
<1>9. Says(s)'
  BY <1>0, <1>1, <1>6, <1>8 DEF Says
<1>10. Hosts(s)'
  BY <1>1, <1>3, <1>6, HostsStay
<1>11. Keeps(s)
  BY <1>1, <1>3, <1>6 DEF Keeps, Exists
<1> QED BY <1>2, <1>9, <1>10, <1>11 DEF LifeStep, Life

\* Another label: nothing runs or exists under the old one.
LEMMA RerollLife ==
    ASSUME TypeInv, DropInv, LifeInv, NEW s \in Sites, RerollHostname(s)
    PROVE  LifeStep(s)
<1>0. /\ setup \in [Sites -> Setup] /\ setup[s] \in Setup /\ lock \in [Sites -> {None, "setup"}]
      /\ site \in [Sites -> Row] /\ site[s] \in Row /\ Copies(s) /\ Hosts(s) /\ Says(s)
  BY DEF TypeInv, TypeOK, LifeInv, Life
<1> DEFINE n == setup[s].row.attempts
<1>1. /\ lock'[s] = None /\ setup'[s].at \in Quiet
      /\ UNCHANGED <<pilot, siteSecret, overwritten>>
  BY <1>0 DEF RerollHostname, SetupAdvances, Setup, Quiet
<1>2. Copies(s)' /\ Configures(s)'
  BY <1>1, LetsGo
<1>3. /\ setup[s].at \notin Quiet /\ Exists(s) /\ n = site[s].attempts /\ pilot[s][n].task = "taken"
  BY <1>0 DEF RerollHostname, Copies, Quiet, OnPilot
<1>4. site'[s] = [site[s] EXCEPT !.attempts = n + 1, !.task = FALSE, !.status = "Pending"]
  BY <1>0 DEF RerollHostname
<1>5. /\ site'[s].tenant = site[s].tenant /\ site'[s].created = site[s].created
      /\ site'[s].configured = site[s].configured /\ site'[s].status = "Pending"
  BY <1>0, <1>4 DEF Row
<1>6. n \in Attempts /\ ~pilot[s][n].exists
  BY <1>0, <1>3, SiteTyped DEF Hosts
<1>7. \A a \in Attempts : ~(pilot[s][a].task = "running" \/ pilot[s][a].exists)
  BY <1>0, <1>3, <1>6 DEF Hosts
<1>8. Hosts(s)'
  BY <1>0, <1>1, <1>3, <1>5, <1>7 DEF Hosts, Exists
<1>9. ASSUME ~overwritten[s]
      PROVE  /\ ~site[s].created
             /\ \A a \in Attempts : pilot[s][a].task = "success" => pilot[s][a].exists
  BY <1>0, <1>3, <1>6, <1>9 DEF Says, DropInv
<1>10. Says(s)'
  BY <1>0, <1>1, <1>5, <1>9 DEF Says
<1>11. Keeps(s)
  BY <1>1, <1>3, <1>5 DEF Keeps, Exists
<1> QED BY <1>2, <1>8, <1>10, <1>11 DEF LifeStep, Life

\* The listing does not have the host name: create_site is called.
LEMMA CreateRequestLife ==
    ASSUME TypeInv, DropInv, LifeInv, NEW s \in Sites, CreateMissing(s) \/ CreateRequest(s)
    PROVE  LifeStep(s)
<1>0. /\ setup \in [Sites -> Setup] /\ setup[s] \in Setup /\ setup[s].row \in Row /\ Copies(s) /\ Says(s)
  BY SiteTyped DEF TypeInv, TypeOK, LifeInv, Life
<1>1. UNCHANGED <<site, lock, siteSecret, overwritten>>
  BY DEF CreateMissing, CreateRequest
<1>2. setup[s].at \notin Quiet /\ lock[s] = "setup" /\ Exists(s)
  BY <1>0 DEF CreateMissing, CreateRequest, Copies, Holding, Quiet
<1>3. /\ setup'[s].at \in {"request", "save"}
      /\ setup'[s].row.tenant = setup[s].row.tenant /\ setup'[s].row.attempts = setup[s].row.attempts
      /\ setup'[s].row.created = setup[s].row.created
      /\ setup'[s].row.configured = setup[s].row.configured
      /\ setup'[s].row.status \in {"Pending", "Creating"}
  <2>1. CASE CreateMissing(s)
    BY <1>0, <2>1 DEF CreateMissing, Setup, Copies
  <2>2. CASE CreateRequest(s)
    BY <1>0, <2>2 DEF CreateRequest, Setup, Row
  <2> QED BY <2>1, <2>2
<1>4. Copies(s)'
  BY <1>0, <1>1, <1>2, <1>3 DEF Copies, Holding, Exists
<1>5. Configures(s)'
  BY <1>3 DEF Configures
<1>6. Hosts(s)' /\ PilotStands(s)
  <2>1. CASE CreateMissing(s)
    BY <1>1, <1>2, <2>1, HostsStay DEF CreateMissing, Exists
  <2>2. CASE CreateRequest(s)
    BY <1>1, <1>2, <2>2, PilotCreatesHosts DEF CreateRequest, Exists
  <2> QED BY <2>1, <2>2
<1> QED BY <1>0, <1>1, <1>2, <1>4, <1>5, <1>6, WorkingLife DEF Exists, Says

\* configure: the site is given the tenant's secret before the row says it is configured.
LEMMA ConfigureLife ==
    ASSUME TypeInv, DropInv, LifeInv, NEW s \in Sites,
           PushCredentials(s) \/ ConfigureSave(s) \/ Activate(s)
    PROVE  LifeStep(s)
<1>0. /\ setup \in [Sites -> Setup] /\ setup[s] \in Setup /\ lock \in [Sites -> {None, "setup"}]
      /\ site \in [Sites -> Row] /\ site[s] \in Row /\ siteSecret \in [Sites -> 0 .. MaxSecret]
      /\ secret \in [Tenants -> 1 .. MaxSecret]
      /\ Copies(s) /\ Configures(s) /\ Hosts(s) /\ Says(s)
  BY DEF TypeInv, TypeOK, LifeInv, Life
<1>1. setup[s].at \notin Quiet /\ Exists(s) /\ site[s].tenant # None /\ site[s].created
  BY <1>0 DEF PushCredentials, ConfigureSave, Activate, Configures, Quiet
<1>2. ~overwritten[s] => ~BeingDropped(s)
  BY <1>1 DEF DropInv
<1>3. CASE PushCredentials(s)
  <2>1. /\ UNCHANGED <<site, lock, pilot, overwritten>>
        /\ setup'[s].at = "configured" /\ setup'[s].row = setup[s].row
        /\ setup'[s].secret = setup[s].secret
        /\ siteSecret'[s] = setup[s].secret /\ setup[s].secret > 0
    BY <1>0, <1>3 DEF PushCredentials, Setup, Configures
  <2>2. Copies(s)'
    BY <1>0, <1>3, <2>1 DEF PushCredentials, Copies, Holding, Exists
  <2>3. Configures(s)'
    BY <1>0, <1>1, <2>1 DEF Configures, Exists
  <2>4. Hosts(s)'
    BY <1>0, <2>1 DEF Hosts, Exists
  <2>5. Says(s)'
    BY <1>0, <2>1 DEF Says, Exists, BeingDropped
  <2>6. Keeps(s)
    BY <2>1 DEF Keeps, Exists
  <2> QED BY <2>2, <2>3, <2>4, <2>5, <2>6 DEF LifeStep, Life
<1>4. CASE ConfigureSave(s)
  <2>1. /\ UNCHANGED <<siteSecret, pilot, overwritten>> /\ lock'[s] = None
        /\ setup'[s].at = "activate"
        /\ site'[s] = [Committed(s) EXCEPT !.configured = TRUE]
    BY <1>0, <1>4 DEF ConfigureSave, Setup
  <2>2. /\ site'[s].tenant = site[s].tenant /\ site'[s].attempts = site[s].attempts
        /\ site'[s].created = site[s].created /\ site'[s].status = Committed(s).status
    BY <2>1, CommittedSays DEF Row
  <2>3. Committed(s).status = "Configuring"
    BY <1>0, <1>4 DEF Committed, ConfigureSave, Copies, Holding
  <2>4. siteSecret[s] > 0
    <3>1. setup[s].row.tenant = site[s].tenant
      BY <1>0, <1>4 DEF ConfigureSave, Copies, Holding
    <3>2. site[s].tenant \in Tenants
      BY <1>0, <1>1 DEF Row
    <3> QED BY <1>0, <1>4, <3>1, <3>2 DEF ConfigureSave
  <2>5. Copies(s)'
    BY <2>1, ConstantsAssumption DEF Copies, Holding
  <2>6. Exists(s)'
    BY <2>2, <2>3 DEF Exists
  <2>7. Configures(s)'
    BY <1>0, <1>1, <2>1, <2>2, <2>4, <2>6 DEF Configures
  <2>8. Hosts(s)'
    BY <1>1, <2>1, <2>2, <2>6, HostsStay DEF Exists
  <2>9. Says(s)'
    BY <1>0, <1>1, <1>2, <2>1, <2>2, <2>3, <2>4, <2>6 DEF Says
  <2>10. Keeps(s)
    BY <1>1, <2>1, <2>2, <2>3 DEF Keeps, Exists
  <2> QED BY <2>5, <2>7, <2>8, <2>9, <2>10 DEF LifeStep, Life
<1>5. CASE Activate(s)
  <2>1. /\ UNCHANGED <<siteSecret, pilot, overwritten>> /\ lock'[s] = None
        /\ setup'[s].at \in Quiet
        /\ site'[s] = [Committed(s) EXCEPT !.status = "Active"]
    BY <1>0, <1>5 DEF Activate, SetupAdvances, Setup, Quiet
  <2>2. /\ site'[s].tenant = site[s].tenant /\ site'[s].attempts = site[s].attempts
        /\ site'[s].created = site[s].created /\ site'[s].configured = site[s].configured
        /\ site'[s].status = "Active"
    BY <2>1, CommittedSays DEF Row
  <2>3. siteSecret[s] > 0
    BY <1>0, <1>5 DEF Activate, Configures
  <2>4. Copies(s)' /\ Configures(s)'
    BY <2>1, LetsGo
  <2>5. Exists(s)'
    BY <2>2 DEF Exists
  <2> QED BY <1>1, <2>1, <2>2, <2>3, <2>4, <2>5, HostsStay, WorkingLife
<1> QED BY <1>3, <1>4, <1>5

\* follow_up writes neither what the row says of the server nor whose it is.
LEMMA FollowUpLife ==
    ASSUME TypeInv, DropInv, LifeInv, NEW s \in Sites,
           \/ \E label \in {"mail", "invite"} : FollowUpPasses(s, label)
           \/ MailVerified(s) \/ InviteOwner(s)
    PROVE  LifeStep(s)
<1>0. /\ setup \in [Sites -> Setup] /\ setup[s] \in Setup /\ lock \in [Sites -> {None, "setup"}]
      /\ site \in [Sites -> Row] /\ site[s] \in Row /\ Copies(s) /\ Configures(s) /\ Says(s)
  BY DEF TypeInv, TypeOK, LifeInv, Life
<1>1. /\ UNCHANGED <<siteSecret, pilot, overwritten>> /\ lock'[s] = None /\ setup[s].at = "follow"
      /\ setup'[s].at = "follow"
  BY <1>0 DEF FollowUpPasses, MailVerified, InviteOwner, FollowUpStep, Setup
<1>2. /\ site'[s].tenant = site[s].tenant /\ site'[s].attempts = site[s].attempts
      /\ site'[s].created = site[s].created /\ site'[s].configured = site[s].configured
      /\ site'[s].status = site[s].status
  BY <1>0 DEF FollowUpPasses, MailVerified, InviteOwner, Row
<1>3. Exists(s) /\ Exists(s)' /\ setup[s].at \notin Quiet
  BY <1>0, <1>1, <1>2 DEF Configures, Exists, Quiet
<1>4. Copies(s)'
  BY <1>1, ConstantsAssumption DEF Copies, Holding
<1>5. Configures(s)'
  BY <1>0, <1>1, <1>2, <1>3 DEF Configures
<1> QED BY <1>0, <1>1, <1>2, <1>3, <1>4, <1>5, HostsStay, WorkingLife DEF Says, Exists

LEMMA SetupJobLife ==
    ASSUME TypeInv, DropInv, LifeInv, NEW s \in Sites, SetupJob(s)
    PROVE  LifeStep(s)
BY SetupQuietLife, SetupReadLife, CommitStepsLife, FailStepsLife, MarkCreatedLife, RerollLife,
   CreateRequestLife, ConfigureLife, FollowUpLife
   DEF SetupJob, SetupBegin, FollowUp

\* What an enqueue leaves of the job.
LEMMA EnqueueKeeps ==
    ASSUME TypeInv, LifeInv, NEW s \in Sites, setup'[s] = Enqueue(s), lock' = lock
    PROVE  (UNCHANGED setup[s]) \/ (lock'[s] = None /\ setup'[s].at \in Quiet)
<1>1. Copies(s) /\ lock[s] \in {None, "setup"}
  BY DEF LifeInv, Life, TypeInv, TypeOK
<1>2. CASE setup[s].at = "none"
  BY <1>1, <1>2 DEF Enqueue, NoSetup, Quiet, Copies, Holding
<1>3. CASE setup[s].at # "none"
  BY <1>3 DEF Enqueue
<1> QED BY <1>2, <1>3

\* A row is inserted: nothing is there yet.
LEMMA InsertLife ==
    ASSUME TypeInv, LifeInv, NEW s \in Sites, site[s] = NoRow, setup'[s] = Enqueue(s),
           UNCHANGED <<lock, pilot, siteSecret, overwritten>>,
           site'[s].status = "Pending", site'[s].created = FALSE, site'[s].configured = FALSE
    PROVE  LifeStep(s)
<1>0. /\ Copies(s) /\ Configures(s) /\ Hosts(s) /\ lock[s] \in {None, "setup"}
      /\ pilot \in [Sites -> [Attempts -> [task: TaskStatus, exists: BOOLEAN]]]
  BY DEF TypeInv, TypeOK, LifeInv, Life
<1>1. site[s].status = "Absent" /\ ~Exists(s)
  BY DEF NoRow, Exists
<1>2. lock[s] # "setup" /\ setup[s].at \notin Holding \cup {"wait", "activate", "follow"}
  BY <1>0, <1>1 DEF Copies, Configures, Holding
<1>3. setup'[s].at \notin Holding \cup {"wait", "activate", "follow"} /\ lock'[s] # "setup"
  BY <1>2, EnqueueKeeps, ConstantsAssumption DEF Holding, Quiet
<1>4. Copies(s)' /\ Configures(s)'
  BY <1>3 DEF Copies, Configures, Holding
<1>5. \A a \in Attempts : pilot[s][a].task = "none" /\ ~pilot[s][a].exists
  BY <1>0, <1>1 DEF Hosts
<1>6. Hosts(s)'
  BY <1>5 DEF Hosts
<1>7. Says(s)'
  BY <1>5 DEF Says
<1>8. Keeps(s)
  BY <1>1 DEF Keeps
<1> QED BY <1>4, <1>6, <1>7, <1>8 DEF LifeStep, Life

\* The pool, the claims, the poller and the deletion of a row.
LEMMA RowsLife ==
    ASSUME TypeInv, DropInv, LifeInv, NEW s \in Sites,
           \/ InsertPooled(s) \/ Trash(s) \/ PollPendingSites(s)
           \/ \E t \in Tenants : ClaimReady(t, s) \/ ClaimNew(t, s)
    PROVE  LifeStep(s)
<1>0. /\ setup \in [Sites -> Setup] /\ lock[s] \in {None, "setup"}
      /\ site \in [Sites -> Row] /\ site[s] \in Row /\ NoRow \in Row
      /\ Copies(s) /\ Configures(s) /\ Hosts(s) /\ Says(s)
  BY Empty DEF TypeInv, TypeOK, LifeInv, Life
<1>1. UNCHANGED <<lock, pilot, siteSecret, overwritten>>
  <2>1. CASE InsertPooled(s)
    BY <2>1 DEF InsertPooled
  <2>2. CASE Trash(s) \/ PollPendingSites(s)
    BY <2>2 DEF Trash, PollPendingSites
  <2>3. ASSUME NEW t \in Tenants, ClaimReady(t, s) PROVE UNCHANGED <<lock, pilot, siteSecret, overwritten>>
    BY <2>3 DEF ClaimReady
  <2>4. ASSUME NEW t \in Tenants, ClaimNew(t, s) PROVE UNCHANGED <<lock, pilot, siteSecret, overwritten>>
    BY <2>4 DEF ClaimNew
  <2> QED BY <2>1, <2>2, <2>3, <2>4
<1>2. ASSUME InsertPooled(s) PROVE LifeStep(s)
  <2>1. PICK room \in BOOLEAN :
          site' = [site EXCEPT ![s] = [NoRow EXCEPT !.status = "Pending", !.placed = room]]
    BY <1>2 DEF InsertPooled
  <2>2. site'[s] = [NoRow EXCEPT !.status = "Pending", !.placed = room]
    BY <1>0, <2>1
  <2>3. site'[s].status = "Pending" /\ site'[s].created = FALSE /\ site'[s].configured = FALSE
    BY <2>2 DEF NoRow
  <2>4. site[s] = NoRow /\ setup' = [setup EXCEPT ![s] = Enqueue(s)]
    BY <1>2 DEF InsertPooled
  <2>5. setup'[s] = Enqueue(s)
    BY <1>0, <2>4
  <2> QED BY <1>1, <2>3, <2>4, <2>5, InsertLife
<1>3. ASSUME NEW t \in Tenants, ClaimNew(t, s) PROVE LifeStep(s)
  <2>1. PICK room \in BOOLEAN :
          site' = [site EXCEPT ![s] = [NoRow EXCEPT !.status = "Pending", !.placed = room, !.tenant = t]]
    BY <1>3 DEF ClaimNew
  <2>2. site'[s] = [NoRow EXCEPT !.status = "Pending", !.placed = room, !.tenant = t]
    BY <1>0, <2>1
  <2>3. site'[s].status = "Pending" /\ site'[s].created = FALSE /\ site'[s].configured = FALSE
    BY <2>2 DEF NoRow
  <2>4. site[s] = NoRow /\ setup' = [setup EXCEPT ![s] = Enqueue(s)]
    BY <1>3 DEF ClaimNew
  <2>5. setup'[s] = Enqueue(s)
    BY <1>0, <2>4
  <2> QED BY <1>1, <2>3, <2>4, <2>5, InsertLife
<1>4. ASSUME PollPendingSites(s) PROVE LifeStep(s)
  <2>1. UNCHANGED site[s] /\ setup'[s] = Enqueue(s)
    BY <1>0, <1>4 DEF PollPendingSites
  <2>2. CASE UNCHANGED setup[s]
    BY <1>1, <2>1, <2>2, ElsewhereLife
  <2>3. CASE lock'[s] = None /\ setup'[s].at \in Quiet
    BY <1>1, <2>1, <2>3, LetsGo, SameSite
  <2> QED BY <1>1, <2>1, <2>2, <2>3, EnqueueKeeps
<1>5. ASSUME NEW t \in Tenants, ClaimReady(t, s) PROVE LifeStep(s)
  <2>1. /\ site'[s] = [site[s] EXCEPT !.tenant = t, !.status = "Assigned"] /\ setup'[s] = Enqueue(s)
        /\ lock[s] = None /\ site[s].status = "Ready"
    <3>1. /\ s \in Claimable /\ setup' = [setup EXCEPT ![s] = Enqueue(s)]
          /\ site' = [site EXCEPT ![s].tenant = t, ![s].status = "Assigned"]
      BY <1>5 DEF ClaimReady
    <3> QED BY <1>0, <3>1 DEF Claimable, Free
  <2>2. /\ site'[s].tenant = t /\ site'[s].attempts = site[s].attempts
        /\ site'[s].created = site[s].created /\ site'[s].configured = site[s].configured
        /\ site'[s].status = "Assigned" /\ t # None
    BY <1>0, <2>1, ConstantsAssumption DEF Row
  <2>3. site[s].created /\ Exists(s) /\ ~BeingDropped(s)
    BY <1>0, <2>1 DEF Says, Exists, BeingDropped
  <2>4. Exists(s)'
    BY <2>2 DEF Exists
  <2>5. Copies(s)' /\ Configures(s)'
    <3>1. CASE UNCHANGED setup[s]
      <4>1. lock'[s] # "setup" /\ setup'[s].at \notin Holding
        BY <1>0, <1>1, <2>1, <3>1, ConstantsAssumption DEF Copies
      <4>2. Copies(s)'
        BY <1>0, <2>2, <2>3, <3>1, <4>1 DEF Copies, Holding
      <4>3. Configures(s)'
        BY <1>0, <1>1, <2>2, <2>3, <2>4, <3>1 DEF Configures
      <4> QED BY <4>2, <4>3
    <3>2. CASE lock'[s] = None /\ setup'[s].at \in Quiet
      BY <3>2, LetsGo
    <3> QED BY <1>1, <2>1, <3>1, <3>2, EnqueueKeeps
  <2>6. Hosts(s)'
    BY <1>1, <2>2, <2>3, HostsStay
  <2>7. Says(s)'
    BY <1>0, <1>1, <2>2, <2>3 DEF Says
  <2>8. Keeps(s)
    BY <1>1, <2>2, <2>3 DEF Keeps, Exists
  <2> QED BY <2>5, <2>6, <2>7, <2>8 DEF LifeStep, Life
<1>6. ASSUME Trash(s) PROVE LifeStep(s)
  <2>1. /\ site'[s] = [NoRow EXCEPT !.status = "Deleted"] /\ UNCHANGED setup
        /\ lock[s] = None /\ site[s].tenant = None /\ Exists(s)
    BY <1>0, <1>6 DEF Trash, Free
  <2>2. site'[s].status = "Deleted" /\ site'[s].created = FALSE /\ site'[s].configured = FALSE
    BY <2>1 DEF NoRow
  <2>3. ~Exists(s)' /\ site[s].status # "Absent"
    BY <2>1, <2>2 DEF Exists
  <2>4. /\ lock'[s] # "setup"
        /\ setup'[s].at \notin Holding \cup {"activate", "follow"}
    BY <1>0, <1>1, <2>1, ConstantsAssumption DEF Copies, Configures
  <2>5. Copies(s)' /\ Configures(s)'
    BY <2>2, <2>3, <2>4 DEF Copies, Configures, Holding
  <2>6. Hosts(s)'
    BY <1>0, <1>1, <2>2, <2>3 DEF Hosts
  <2>7. Says(s)'
    BY <2>2, <2>3 DEF Says
  <2>8. Keeps(s)
    BY <1>1, <2>2, <2>3 DEF Keeps
  <2> QED BY <2>5, <2>6, <2>7, <2>8 DEF LifeStep, Life
<1> QED BY <1>2, <1>3, <1>4, <1>5, <1>6

\* A row is written while no job holds it.
LEMMA WrittenFree ==
    ASSUME TypeInv, LifeInv, NEW s \in Sites, lock[s] = None, lock' = lock, Exists(s), Exists(s)',
           site'[s].tenant = site[s].tenant, site'[s].attempts = site[s].attempts,
           site'[s].created = site[s].created, UNCHANGED siteSecret[s],
           (UNCHANGED setup[s]) \/ setup'[s].at \in Quiet
    PROVE  Copies(s)' /\ Configures(s)' /\ Keeps(s)
<1>0. Copies(s) /\ Configures(s)
  BY DEF LifeInv, Life
<1>1. CASE UNCHANGED setup[s]
  <2>1. lock'[s] # "setup" /\ setup'[s].at \notin Holding
    BY <1>0, <1>1, ConstantsAssumption DEF Copies
  <2>2. Copies(s)'
    BY <1>0, <1>1, <2>1 DEF Copies, Holding, Exists
  <2>3. Configures(s)'
    BY <1>0, <1>1 DEF Configures
  <2> QED BY <2>2, <2>3 DEF Keeps, Exists
<1>2. CASE setup'[s].at \in Quiet
  BY <1>2, LetsGo DEF Keeps, Exists
<1> QED BY <1>1, <1>2

\* The drop job, and Pilot.
LEMMA DropLife ==
    ASSUME TypeInv, DropInv, LifeInv, NEW s \in Sites,
           \/ DropSite(s) \/ DropJobStep(s)
           \/ \E a \in Attempts : PilotFinishes(s, a)
    PROVE  LifeStep(s)
<1>0. /\ lock \in [Sites -> {None, "setup"}] /\ dropjob[s] \in DropJob
      /\ site \in [Sites -> Row] /\ site[s] \in Row
      /\ pilot \in [Sites -> [Attempts -> [task: TaskStatus, exists: BOOLEAN]]]
      /\ Copies(s) /\ Configures(s) /\ Hosts(s) /\ Says(s)
  BY DEF TypeInv, TypeOK, LifeInv, Life
<1>1. UNCHANGED <<lock, setup, siteSecret, overwritten>>
  BY DEF DropSite, DropJobStep, DropBegin, DropFromServer, DropFails, DropFinish, PilotFinishes
<1>2. ASSUME DropSite(s) PROVE LifeStep(s)
  BY <1>1, <1>2, ElsewhereLife DEF DropSite
<1>3. ASSUME DropBegin(s) \/ DropFinish(s) PROVE LifeStep(s)
  <2>1. UNCHANGED pilot /\ lock[s] = None
    BY <1>3 DEF DropBegin, DropFinish, Free
  <2>2. CASE UNCHANGED site[s]
    BY <1>1, <2>1, <2>2, ElsewhereLife
  <2>3. CASE ~UNCHANGED site[s]
    <3>1. Exists(s)
      <4>1. CASE DropBegin(s)
        <5>1. site[s].status # "Deleted" /\ site[s].status # "Absent"
          BY <1>0, <2>3, <4>1 DEF DropBegin, DropRefuses, LifeInv, Drops
        <5> QED BY <5>1 DEF Exists
      <4>2. CASE DropFinish(s)
        BY <2>3, <4>2 DEF DropFinish
      <4> QED BY <1>3, <4>1, <4>2
    <3>2. /\ site'[s].status \in {"Dropping", "Dropped"}
          /\ site'[s].tenant = site[s].tenant /\ site'[s].attempts = site[s].attempts
          /\ site'[s].created = site[s].created /\ site'[s].configured = site[s].configured
      BY <1>0, <1>3, <2>3 DEF DropBegin, DropFinish, Row
    <3>3. Exists(s)' /\ BeingDropped(s)'
      BY <3>2 DEF Exists, BeingDropped
    <3>4. Copies(s)' /\ Configures(s)' /\ Keeps(s)
      BY <1>1, <2>1, <3>1, <3>2, <3>3, WrittenFree
    <3>5. Hosts(s)'
      BY <2>1, <3>1, <3>2, HostsStay
    <3>6. Says(s)'
      BY <1>0, <1>1, <3>2, <3>3 DEF Says
    <3> QED BY <3>4, <3>5, <3>6 DEF LifeStep, Life
  <2> QED BY <2>2, <2>3
<1>a. ASSUME UNCHANGED site, Hosts(s)',
             Exists(s) /\ ~overwritten[s] /\ ~BeingDropped(s) =>
               /\ site[s].created => pilot'[s][site[s].attempts].exists
               /\ \A a \in Attempts : pilot'[s][a].task = "success" => pilot'[s][a].exists
      PROVE  LifeStep(s)
  <2>1. Copies(s)' /\ Configures(s)'
    BY <1>0, <1>1, <1>a DEF Copies, Configures, Exists
  <2>2. Says(s)'
    BY <1>0, <1>1, <1>a DEF Says, Exists, BeingDropped
  <2>3. Keeps(s)
    BY <1>1, <1>a DEF Keeps, Exists
  <2> QED BY <1>a, <2>1, <2>2, <2>3 DEF LifeStep, Life
<1>4. ASSUME DropFromServer(s) \/ DropFails(s) PROVE LifeStep(s)
  <2>1. UNCHANGED site /\ dropjob[s].at \in {"server", "finish"} /\ (PilotDrops(s) \/ UNCHANGED pilot)
    BY <1>4 DEF DropFromServer, DropFails
  <2>2. ~overwritten[s] => site[s].status \in {"Dropping", "Dropped", "Deleted"}
    BY <2>1 DEF DropInv
  <2>3. CASE UNCHANGED pilot
    BY <1>1, <2>1, <2>3, ElsewhereLife
  <2>4. CASE PilotDrops(s)
    <3>1. dropjob[s].attempts \in Attempts
      BY <1>0 DEF DropJob
    <3>2. \A a \in Attempts : /\ pilot'[s][a].task = pilot[s][a].task
                              /\ pilot'[s][a].exists => pilot[s][a].exists
      BY <1>0, <2>4, <3>1 DEF PilotDrops
    <3>3. Hosts(s)'
      BY <1>0, <2>1, <3>2 DEF Hosts, Exists
    <3> QED BY <1>a, <2>1, <2>2, <3>3 DEF Exists, BeingDropped
  <2> QED BY <2>1, <2>3, <2>4
<1>5. ASSUME NEW n \in Attempts, PilotFinishes(s, n) PROVE LifeStep(s)
  <2>1. UNCHANGED site /\ pilot[s][n].task = "running"
    BY <1>5 DEF PilotFinishes
  <2>2. PICK result \in {"success", "taken", "failed"} :
          pilot' = [pilot EXCEPT ![s][n] = [task |-> result, exists |-> @.exists \/ result = "success"]]
    BY <1>5 DEF PilotFinishes
  <2>3. ~pilot[s][n].exists /\ site[s].status # "Absent" /\ (Exists(s) => n = site[s].attempts)
    BY <1>0, <2>1 DEF Hosts
  <2>4. /\ pilot'[s][n].task = result
        /\ pilot'[s][n].exists <=> result = "success"
        /\ \A a \in Attempts : a # n => pilot'[s][a] = pilot[s][a]
    BY <1>0, <2>2, <2>3
  <2>5. Hosts(s)'
    BY <1>0, <2>1, <2>3, <2>4 DEF Hosts, Exists
  <2>6. ASSUME Exists(s), ~overwritten[s], ~BeingDropped(s)
        PROVE  /\ site[s].created => pilot'[s][site[s].attempts].exists
               /\ \A a \in Attempts : pilot'[s][a].task = "success" => pilot'[s][a].exists
    <3>1. ~site[s].created
      BY <1>0, <2>3, <2>6 DEF Says
    <3>2. \A a \in Attempts : pilot[s][a].task = "success" => pilot[s][a].exists
      BY <1>0, <2>6 DEF Says
    <3> QED BY <2>4, <3>1, <3>2
  <2> QED BY <1>a, <2>1, <2>5, <2>6
<1> QED BY <1>2, <1>3, <1>4, <1>5 DEF DropJobStep

\* An operator's request: what it read of the row still holds, so what it writes is true.
LEMMA OperatorLife ==
    ASSUME TypeInv, DropInv, LifeInv, NEW o \in Operators, Operator(o), NEW s \in Sites
    PROVE  LifeStep(s)
<1>0. /\ site \in [Sites -> Row] /\ site[s] \in Row /\ setup \in [Sites -> Setup]
      /\ overwritten \in [Sites -> BOOLEAN] /\ siteSecret \in [Sites -> 0 .. MaxSecret]
      /\ secret \in [Tenants -> 1 .. MaxSecret] /\ op[o].row \in Row
      /\ Hosts(s) /\ Says(s) /\ Recalls(o, s)
  BY DEF TypeInv, TypeOK, OpState, LifeInv, Life
<1>1. ASSUME NEW r \in Sites, RetryBegin(o, r) PROVE LifeStep(s)
  BY <1>1, ElsewhereLife DEF RetryBegin
<1>2. ASSUME NEW t \in Tenants, RotateBegin(o, t) PROVE LifeStep(s)
  BY <1>2, ElsewhereLife DEF RotateBegin
<1>3. ASSUME RotateReaches(o) PROVE LifeStep(s)
  <2>1. UNCHANGED <<site, setup, lock, pilot, overwritten>>
    BY <1>3 DEF RotateReaches
  <2>2. op[o].tenant \in Tenants /\ op[o].site \in Sites
    BY <1>3 DEF RotateReaches, TypeInv, Underway
  <2>3. secret[op[o].tenant] + 1 > 0
    BY <1>0, <2>2
  <2>4. siteSecret'[s] \in {siteSecret[s], secret[op[o].tenant] + 1}
    BY <1>0, <1>3, <2>2 DEF RotateReaches
  <2> QED BY <2>1, <2>3, <2>4, ElsewhereLife
\* The row is written: nobody holds it, and it says what the request read.
<1>a. ASSUME UNCHANGED <<lock, pilot, siteSecret>>, lock[s] = None, setup'[s] = Enqueue(s),
             Exists(s), Exists(s)', overwritten[s] => overwritten'[s],
             BeingDropped(s) => overwritten'[s],
             site'[s].tenant = site[s].tenant, site'[s].attempts = site[s].attempts,
             site'[s].created = site[s].created, site'[s].configured => site[s].configured,
             site'[s].status \in {"Assigned", "Configuring", "Active"} => site[s].tenant # None,
             site'[s].status \in {"Ready", "Assigned", "Configuring", "Active"} => site[s].created,
             site'[s].status = "Active" => siteSecret[s] > 0
      PROVE  LifeStep(s)
  <2>1. (UNCHANGED setup[s]) \/ setup'[s].at \in Quiet
    BY <1>a, EnqueueKeeps
  <2>2. Copies(s)' /\ Configures(s)' /\ Keeps(s)
    BY <1>a, <2>1, WrittenFree
  <2>3. Hosts(s)'
    BY <1>a, HostsStay DEF Exists
  <2>4. Says(s)'
    BY <1>0, <1>a DEF Says
  <2> QED BY <2>2, <2>3, <2>4 DEF LifeStep, Life
<1>b. ASSUME UNCHANGED <<site[s], lock, pilot, siteSecret>>, setup'[s] = Enqueue(s) \/ UNCHANGED setup[s],
             overwritten[s] => overwritten'[s]
      PROVE  LifeStep(s)
  <2>1. CASE UNCHANGED setup[s]
    BY <1>b, <2>1, ElsewhereLife
  <2>2. CASE lock'[s] = None /\ setup'[s].at \in Quiet
    BY <1>b, <2>2, LetsGo, SameSite
  <2> QED BY <1>b, <2>1, <2>2, EnqueueKeeps
<1>4. ASSUME Retry(o) PROVE LifeStep(s)
  <2>1. UNCHANGED <<lock, pilot, siteSecret>> /\ op[o].at = "retry" /\ op[o].site \in Sites
    BY <1>4 DEF Retry, TypeInv, Underway
  <2>2. overwritten[s] => overwritten'[s]
    BY <1>0, <1>4, <2>1 DEF Retry
  <2>3. setup'[s] = Enqueue(s) \/ UNCHANGED setup[s]
    BY <1>0, <1>4, <2>1 DEF Retry
  <2>4. CASE s = op[o].site /\ op[o].row.status = "Failed" /\ Exists(s)
    <3>1. site'[s] = [site[s] EXCEPT !.status = ResumeStatus(op[o].row), !.task = FALSE]
      BY <1>0, <1>4, <2>4 DEF Retry
    <3>2. /\ site'[s].tenant = site[s].tenant /\ site'[s].attempts = site[s].attempts
          /\ site'[s].created = site[s].created /\ site'[s].configured = site[s].configured
          /\ site'[s].status = ResumeStatus(op[o].row)
      BY <1>0, <3>1 DEF Row
    <3>3. lock[s] = None /\ setup'[s] = Enqueue(s) /\ (BeingDropped(s) => overwritten'[s])
      BY <1>0, <1>4, <2>4 DEF Retry, Free
    <3>4. /\ ResumeStatus(op[o].row) \in {"Pending", "Ready", "Assigned", "Active"}
          /\ ResumeStatus(op[o].row) # "Pending" => op[o].row.created
          /\ ResumeStatus(op[o].row) \in {"Assigned", "Active"} => op[o].row.tenant # None
          /\ ResumeStatus(op[o].row) = "Active" => op[o].row.configured
      BY <1>0 DEF ResumeStatus, Row
    <3>5. /\ op[o].row.created => site[s].created
          /\ op[o].row.tenant # None => site[s].tenant # None
          /\ op[o].row.configured => siteSecret[s] > 0
      BY <1>0, <2>1, <2>4 DEF Recalls
    <3>6. Exists(s)'
      BY <3>2, <3>4 DEF Exists
    <3> QED BY <1>a, <2>1, <2>2, <2>4, <3>2, <3>3, <3>4, <3>5, <3>6
  <2>5. CASE ~(s = op[o].site /\ op[o].row.status = "Failed" /\ Exists(s))
    <3>1. UNCHANGED site[s]
      BY <1>0, <1>4, <2>1, <2>5 DEF Retry
    <3> QED BY <1>b, <2>1, <2>2, <2>3, <3>1
  <2> QED BY <2>4, <2>5
<1>5. ASSUME RotateReconfigures(o) PROVE LifeStep(s)
  <2>1. UNCHANGED <<lock, pilot, siteSecret>> /\ op[o].at = "rotate" /\ op[o].site \in Sites
    BY <1>5 DEF RotateReconfigures, TypeInv, Underway
  <2>2. overwritten[s] => overwritten'[s]
    BY <1>0, <1>5, <2>1 DEF RotateReconfigures
  <2>3. setup'[s] = Enqueue(s) \/ UNCHANGED setup[s]
    BY <1>0, <1>5, <2>1 DEF RotateReconfigures
  <2>4. CASE s = op[o].site /\ op[o].row.configured /\ Exists(s)
    <3> DEFINE st == IF op[o].row.status = "Active" THEN "Assigned" ELSE site[s].status
    <3>1. site'[s] = [site[s] EXCEPT !.configured = FALSE, !.status = st]
      BY <1>0, <1>5, <2>4 DEF RotateReconfigures
    <3>2. /\ site'[s].tenant = site[s].tenant /\ site'[s].attempts = site[s].attempts
          /\ site'[s].created = site[s].created /\ site'[s].configured = FALSE
          /\ site'[s].status = st
      BY <1>0, <3>1 DEF Row
    <3>3. lock[s] = None /\ setup'[s] = Enqueue(s)
      BY <1>0, <1>5, <2>4 DEF RotateReconfigures, Free
    <3>4. CASE op[o].row.status = "Active"
      <4>1. /\ site'[s].status = "Assigned" /\ site[s].created /\ site[s].tenant # None
        BY <1>0, <2>1, <2>4, <3>2, <3>4 DEF Recalls
      <4>2. BeingDropped(s) => overwritten'[s]
        BY <1>0, <1>5, <2>4, <3>4 DEF RotateReconfigures
      <4>3. Exists(s)'
        BY <4>1 DEF Exists
      <4> QED BY <1>a, <2>1, <2>2, <2>4, <3>2, <3>3, <4>1, <4>2, <4>3
    <3>5. CASE op[o].row.status # "Active"
      <4>1. site'[s].status = site[s].status
        BY <3>2, <3>5
      <4>2. Exists(s)'
        BY <2>4, <4>1 DEF Exists
      <4>3. (UNCHANGED setup[s]) \/ setup'[s].at \in Quiet
        BY <2>1, <3>3, EnqueueKeeps
      <4>4. Copies(s)' /\ Configures(s)' /\ Keeps(s)
        BY <2>1, <2>4, <3>2, <3>3, <4>2, <4>3, WrittenFree
      <4>5. Hosts(s)'
        BY <2>1, <2>4, <3>2, <4>2, HostsStay DEF Exists
      <4>6. Says(s)'
        BY <1>0, <2>1, <2>2, <3>2, <4>1 DEF Says, Exists, BeingDropped
      <4> QED BY <4>4, <4>5, <4>6 DEF LifeStep, Life
    <3> QED BY <3>4, <3>5
  <2>5. CASE ~(s = op[o].site /\ op[o].row.configured /\ Exists(s))
    <3>1. UNCHANGED site[s]
      BY <1>0, <1>5, <2>1, <2>5 DEF RotateReconfigures
    <3> QED BY <1>b, <2>1, <2>2, <2>3, <3>1
  <2> QED BY <2>4, <2>5
<1> QED BY <1>1, <1>2, <1>3, <1>4, <1>5 DEF Operator

LEMMA NextLifeStep ==
    ASSUME TypeInv, DropInv, LifeInv, [Next]_vars, NEW s \in Sites
    PROVE  LifeStep(s)
<1>1. ASSUME NEW r \in Sites,
             \/ InsertPooled(r) \/ Trash(r) \/ DropSite(r) \/ PollPendingSites(r)
             \/ SetupJob(r) \/ DropJobStep(r)
             \/ \E t \in Tenants : ClaimReady(t, r) \/ ClaimNew(t, r)
             \/ \E a \in Attempts : PilotFinishes(r, a)
      PROVE  LifeStep(s)
  <2>1. CASE r = s
    BY <1>1, <2>1, SetupJobLife, RowsLife, DropLife
  <2>2. CASE r # s
    BY <1>1, <2>2, OneSiteAtATime, ElsewhereLife
  <2> QED
    BY <2>1, <2>2
<1>2. ASSUME NEW o \in Operators, Operator(o) PROVE LifeStep(s)
  BY <1>2, OperatorLife
<1>3. ASSUME UNCHANGED vars PROVE LifeStep(s)
  BY <1>3, ElsewhereLife DEF vars
<1> QED
  BY <1>1, <1>2, <1>3 DEF Next

\* What a step does to a request: none, its end, or the read it begins with.
Reads(o) ==
    /\ UNCHANGED <<site, siteSecret>>
    /\ op'[o].site \in Sites
    /\ op'[o].row = site[op'[o].site] /\ Exists(op'[o].site)

LEMMA NextReads ==
    ASSUME TypeInv, [Next]_vars, NEW o \in Operators
    PROVE  op'[o] = op[o] \/ op'[o].at = "idle" \/ Reads(o)
<1>0. op \in [Operators -> OpState]
  BY DEF TypeInv, TypeOK
<1>1. ASSUME NEW r \in Sites,
             \/ InsertPooled(r) \/ Trash(r) \/ DropSite(r) \/ PollPendingSites(r)
             \/ SetupJob(r) \/ DropJobStep(r)
             \/ \E t \in Tenants : ClaimReady(t, r) \/ ClaimNew(t, r)
             \/ \E a \in Attempts : PilotFinishes(r, a)
      PROVE  op' = op
  <2>1. CASE InsertPooled(r) \/ Trash(r) \/ DropSite(r) \/ PollPendingSites(r) \/ DropJobStep(r)
             \/ (\E a \in Attempts : PilotFinishes(r, a))
    BY <2>1 DEF InsertPooled, Trash, DropSite, PollPendingSites, DropJobStep, DropBegin, DropFromServer,
                DropFails, DropFinish, PilotFinishes
  <2>2. ASSUME NEW t \in Tenants, ClaimReady(t, r) \/ ClaimNew(t, r) PROVE op' = op
    BY <2>2 DEF ClaimReady, ClaimNew
  <2>3. CASE SetupJob(r)
    BY <2>3 DEF SetupJob, SetupStart, SetupBegin, CreateBegin, CreateNoRoom, ConfigureBegin, FollowUpBegin,
           NothingToDo, SetupRead, CreateResume, CreateFound, CreateMissing, CreateRequest,
           CreateRequestLost, CreateConflict, CreateSave, WaitUnfinished, TaskSucceeded, RerollHostname,
           TaskFailed, RowGone, StepWaits, StepFails, PushCredentials, ConfigureSave, Activate, FollowUp,
           FollowUpPasses, MailVerified, InviteOwner, FollowUpDone, SetupExit, SetupDies
  <2> QED BY <1>1, <2>1, <2>2, <2>3
<1>2. ASSUME NEW p \in Operators, Operator(p)
      PROVE  op'[o] = op[o] \/ op'[o].at = "idle" \/ Reads(o)
  <2>1. ASSUME NEW s \in Sites, RetryBegin(p, s) PROVE op'[o] = op[o] \/ Reads(o)
    <3>1. CASE o = p
      BY <1>0, <2>1, <3>1 DEF RetryBegin, Reads
    <3>2. CASE o # p
      BY <1>0, <2>1, <3>2 DEF RetryBegin
    <3> QED BY <3>1, <3>2
  <2>2. ASSUME NEW t \in Tenants, RotateBegin(p, t) PROVE op'[o] = op[o] \/ Reads(o)
    <3>1. PICK s \in LiveSites(t) :
            op' = [op EXCEPT ![p] = [at |-> "rotate", site |-> s, row |-> site[s],
                                     request |-> request[t], tenant |-> t]]
      BY <2>2 DEF RotateBegin
    <3>2. s \in Sites /\ Exists(s)
      BY DEF LiveSites
    <3>3. UNCHANGED <<site, siteSecret>>
      BY <2>2 DEF RotateBegin
    <3>4. CASE o = p
      BY <1>0, <3>1, <3>2, <3>3, <3>4 DEF Reads
    <3>5. CASE o # p
      BY <1>0, <3>1, <3>5
    <3> QED BY <3>4, <3>5
  <2>3. ASSUME Retry(p) \/ RotateReaches(p) \/ RotateReconfigures(p)
        PROVE  op'[o] = op[o] \/ op'[o].at = "idle"
    <3>1. op' = [op EXCEPT ![p] = NoOp]
      BY <2>3 DEF Retry, RotateReaches, RotateReconfigures
    <3> QED BY <1>0, <3>1 DEF NoOp
  <2> QED BY <1>2, <2>1, <2>2, <2>3 DEF Operator
<1>3. ASSUME UNCHANGED vars PROVE op' = op
  BY <1>3 DEF vars
<1> QED BY <1>1, <1>2, <1>3 DEF Next

LEMMA NextRecalls ==
    ASSUME TypeInv, DropInv, LifeInv, [Next]_vars, NEW o \in Operators, NEW s \in Sites
    PROVE  Recalls(o, s)'
<1>0. Recalls(o, s) /\ Says(s)
  BY DEF LifeInv, Life
<1>1. Keeps(s)
  BY NextLifeStep DEF LifeStep
<1>2. CASE op'[o] = op[o]
  BY <1>0, <1>1, <1>2 DEF Recalls, Keeps, Exists
<1>3. CASE op'[o].at = "idle"
  BY <1>3 DEF Recalls
<1>4. CASE Reads(o)
  <2>1. CASE op'[o].site = s
    BY <1>0, <1>4, <2>1 DEF Reads, Says, Recalls, Exists
  <2>2. CASE op'[o].site # s
    BY <2>2 DEF Recalls
  <2> QED BY <2>1, <2>2
<1> QED BY <1>2, <1>3, <1>4, NextReads

LEMMA NextDrops ==
    ASSUME TypeInv, DropInv, LifeInv, [Next]_vars, NEW s \in Sites
    PROVE  Drops(s)'
<1>0. Drops(s) /\ dropjob \in [Sites -> DropJob]
  BY DEF LifeInv, TypeInv, TypeOK
<1>1. site[s].status # "Absent" => site'[s].status # "Absent"
  BY NextLifeStep DEF LifeStep, Keeps
<1>2. dropjob'[s].at # "none" => dropjob[s].at # "none" \/ site[s].status # "Absent"
  <2>1. ASSUME NEW r \in Sites, DropSite(r) \/ DropJobStep(r)
        PROVE  dropjob'[s].at # "none" => dropjob[s].at # "none" \/ site[s].status # "Absent"
    BY <1>0, <2>1 DEF DropSite, DropJobStep, DropBegin, DropFromServer, DropFails, DropFinish, NoDrop,
                      Exists, DropJob
  <2>2. ASSUME NEW r \in Sites, InsertPooled(r) \/ Trash(r) \/ PollPendingSites(r)
        PROVE  dropjob' = dropjob
    BY <2>2 DEF InsertPooled, Trash, PollPendingSites
  <2>3. ASSUME NEW r \in Sites, NEW t \in Tenants, ClaimReady(t, r) \/ ClaimNew(t, r)
        PROVE  dropjob' = dropjob
    BY <2>3 DEF ClaimReady, ClaimNew
  <2>4. ASSUME NEW r \in Sites, NEW a \in Attempts, PilotFinishes(r, a) PROVE dropjob' = dropjob
    BY <2>4 DEF PilotFinishes
  <2>5. ASSUME NEW r \in Sites, SetupJob(r) PROVE dropjob' = dropjob
    BY <2>5 DEF SetupJob, SetupStart, SetupBegin, CreateBegin, CreateNoRoom, ConfigureBegin, FollowUpBegin,
           NothingToDo, SetupRead, CreateResume, CreateFound, CreateMissing, CreateRequest,
           CreateRequestLost, CreateConflict, CreateSave, WaitUnfinished, TaskSucceeded, RerollHostname,
           TaskFailed, RowGone, StepWaits, StepFails, PushCredentials, ConfigureSave, Activate, FollowUp,
           FollowUpPasses, MailVerified, InviteOwner, FollowUpDone, SetupExit, SetupDies
  <2>6. ASSUME NEW o \in Operators, Operator(o) PROVE dropjob' = dropjob
    BY <2>6 DEF Operator, RetryBegin, RotateBegin, Retry, RotateReaches, RotateReconfigures
  <2>7. ASSUME UNCHANGED vars PROVE dropjob' = dropjob
    BY <2>7 DEF vars
  <2> QED BY <2>1, <2>2, <2>3, <2>4, <2>5, <2>6, <2>7 DEF Next
<1> QED BY <1>0, <1>1, <1>2 DEF Drops

LEMMA InitLifeInv == Init => LifeInv
<1> SUFFICES ASSUME Init PROVE LifeInv
  OBVIOUS
<1>1. ASSUME NEW s \in Sites
      PROVE  /\ site[s].status = "Absent" /\ site[s].configured = FALSE /\ ~Exists(s)
             /\ setup[s].at = "none" /\ lock[s] = None /\ dropjob[s].at = "none"
             /\ \A a \in Attempts : pilot[s][a].task = "none" /\ ~pilot[s][a].exists
  BY DEF Init, NoRow, NoSetup, NoDrop, Exists
<1>2. ASSUME NEW s \in Sites PROVE Copies(s) /\ Configures(s)
  BY <1>1, ConstantsAssumption DEF Copies, Configures, Holding
<1>3. ASSUME NEW s \in Sites PROVE Hosts(s) /\ Says(s) /\ Drops(s)
  BY <1>1 DEF Hosts, Says, Drops
<1>4. ASSUME NEW o \in Operators, NEW s \in Sites PROVE Recalls(o, s)
  BY DEF Init, NoOp, Recalls
<1> QED BY <1>2, <1>3, <1>4 DEF LifeInv, Life

\* What the row says is true, for every number of sites, tenants, operators, host names and
\* secrets: Pilot creates and holds nothing but the row's host name, and a site the pool offers or
\* a tenant works on exists and was given its credentials.
THEOREM RowsTellTheTruth == Spec => [](NothingCreatedTwice /\ ServedSitesExist)
<1>1. Init => TypeInv /\ DropInv /\ LifeInv
  BY InitTypeInv, InitDropInv, InitLifeInv
<1>2. TypeInv /\ DropInv /\ LifeInv /\ [Next]_vars => (TypeInv /\ DropInv /\ LifeInv)'
  <2> SUFFICES ASSUME TypeInv, DropInv, LifeInv, [Next]_vars PROVE DropInv' /\ LifeInv'
    BY NextTypeInv
  <2>1. \A s \in Sites : DropStep(s)
    BY NextDropStep
  <2>2. DropInv'
    BY <2>1 DEF DropInv, DropStep
  <2>3. \A s \in Sites : Life(s)' /\ Drops(s)'
    BY NextLifeStep, NextDrops DEF LifeStep
  <2>4. \A s \in Sites : \A o \in Operators : Recalls(o, s)'
    BY NextRecalls
  <2> QED BY <2>2, <2>3, <2>4 DEF LifeInv
<1>3. LifeInv => NothingCreatedTwice
  BY DEF LifeInv, Life, Hosts, NothingCreatedTwice
<1>4. LifeInv => ServedSitesExist
  BY DEF LifeInv, Life, Says, ServedSitesExist, Exists, BeingDropped
<1> QED
  BY <1>1, <1>2, <1>3, <1>4, PTL DEF Spec

----------------------------------------------------------------------------
(* A signup whose site stopped is told *)

\* A step of a site that is not fail leaves a Failed row Failed, and its tenant's.
OnlyFails(s) ==
    site'[s].status = "Failed" => site[s].status = "Failed" /\ site'[s].tenant = site[s].tenant

\* No signup starts over, but of a tenant who has no site.
Restarts == \A t \in Tenants : request'[t] = "Processing" => request[t] = "Processing" \/ LiveSites(t) = {}

LEMMA FailTells ==
    ASSUME TypeInv, NEW s \in Sites, Fail(s)
    PROVE  Restarts /\ ~Stranded(s)'
<1>0. site \in [Sites -> Row] /\ site[s] \in Row
  BY DEF TypeInv, TypeOK
<1>1. site'[s].tenant = site[s].tenant
  BY <1>0 DEF Fail, Row
<1>2. \A t \in Tenants : request'[t] = IF t = site[s].tenant /\ request[t] = "Processing" THEN "Failed"
                                       ELSE request[t]
  BY DEF Fail
<1>3. Restarts
  BY <1>2 DEF Restarts
<1>4. site[s].tenant \in Tenants \cup {None}
  BY <1>0 DEF Row
<1> QED BY <1>1, <1>2, <1>3, <1>4 DEF Stranded

LEMMA SetupTells ==
    ASSUME TypeInv, DropInv, NEW s \in Sites, SetupJob(s)
    PROVE  Restarts /\ (OnlyFails(s) \/ ~Stranded(s)')
<1>0. /\ site \in [Sites -> Row] /\ site[s] \in Row /\ Committed(s) \in Row
      /\ setup[s].at \notin Quiet => setup[s].row.status \in Working
  BY CommittedType DEF TypeInv, TypeOK, DropInv
<1>a. ASSUME UNCHANGED request PROVE Restarts
  BY <1>a DEF Restarts
<1>b. ASSUME setup[s].at \notin Quiet PROVE Committed(s) = site[s] \/ Committed(s).status \in Working
  BY <1>0, <1>b DEF Committed
<1>1. CASE TaskFailed(s) \/ CreateConflict(s) \/ StepFails(s)
  BY <1>1, FailTells DEF TaskFailed, CreateConflict, StepFails
<1>2. CASE SetupStart(s) \/ SetupExit(s) \/ SetupDies(s) \/ SetupBegin(s) \/ WaitUnfinished(s) \/ RowGone(s)
           \/ FollowUpDone(s) \/ CreateMissing(s) \/ CreateRequest(s) \/ PushCredentials(s)
           \/ (\E label \in {"mail", "invite"} : FollowUpPasses(s, label))
  <2>1. UNCHANGED <<site, request>>
    BY <1>2 DEF SetupStart, SetupExit, SetupDies, SetupBegin, CreateBegin, CreateNoRoom, ConfigureBegin,
                FollowUpBegin, NothingToDo, SetupRead, WaitUnfinished, RowGone, FollowUpDone,
                CreateMissing, CreateRequest, PushCredentials, FollowUpPasses
  <2> QED BY <1>a, <2>1 DEF OnlyFails
<1>3. CASE CreateResume(s) \/ CreateSave(s) \/ CreateRequestLost(s) \/ StepWaits(s)
  <2>1. UNCHANGED request /\ site'[s] = Committed(s) /\ setup[s].at \notin Quiet
    BY <1>0, <1>3 DEF CreateResume, CreateSave, CreateRequestLost, StepWaits, Quiet, Raising
  <2> QED BY <1>a, <1>b, <2>1 DEF OnlyFails, Working
<1>4. CASE ConfigureSave(s)
  <2>1. /\ UNCHANGED request /\ setup[s].at \notin Quiet
        /\ site'[s].status = Committed(s).status /\ site'[s].tenant = Committed(s).tenant
    BY <1>0, <1>4 DEF ConfigureSave, Quiet, Row
  <2> QED BY <1>a, <1>b, <2>1 DEF OnlyFails, Working
<1>5. CASE CreateFound(s) \/ TaskSucceeded(s)
  <2>1. ASSUME NEW r \in Row PROVE MarkCreated(s, r).status # "Failed"
    BY DEF MarkCreated, Row
  <2>2. UNCHANGED request /\ (site'[s] = MarkCreated(s, Committed(s)) \/ site'[s] = MarkCreated(s, site[s]))
    BY <1>0, <1>5 DEF CreateFound, TaskSucceeded
  <2> QED BY <1>0, <1>a, <2>1, <2>2 DEF OnlyFails
<1>6. CASE RerollHostname(s) \/ Activate(s)
  <2>1. UNCHANGED request /\ site'[s].status # "Failed"
    BY <1>0, <1>6 DEF RerollHostname, Activate, Row
  <2> QED BY <1>a, <2>1 DEF OnlyFails
<1>7. CASE MailVerified(s) \/ InviteOwner(s)
  <2>1. site'[s].status = site[s].status /\ site'[s].tenant = site[s].tenant
    BY <1>0, <1>7 DEF MailVerified, InviteOwner, Row
  <2>2. Restarts
    BY <1>a, <1>7 DEF MailVerified, InviteOwner, Restarts
  <2> QED BY <2>1, <2>2 DEF OnlyFails
<1> QED BY <1>1, <1>2, <1>3, <1>4, <1>5, <1>6, <1>7 DEF SetupJob, FollowUp

LEMMA RowsTell ==
    ASSUME TypeInv, NEW s \in Sites,
           \/ InsertPooled(s) \/ Trash(s) \/ DropSite(s) \/ PollPendingSites(s) \/ DropJobStep(s)
           \/ \E t \in Tenants : ClaimReady(t, s) \/ ClaimNew(t, s)
           \/ \E a \in Attempts : PilotFinishes(s, a)
    PROVE  Restarts /\ OnlyFails(s)
<1>0. site \in [Sites -> Row] /\ site[s] \in Row /\ request \in [Tenants -> RequestStatus]
  BY DEF TypeInv, TypeOK
<1>1. ASSUME NEW t \in Tenants, Claiming(t) PROVE Restarts
  BY <1>0, <1>1 DEF Claiming, Restarts
<1>2. ASSUME UNCHANGED request PROVE Restarts
  BY <1>2 DEF Restarts
<1>3. CASE InsertPooled(s)
  <2>1. PICK room \in BOOLEAN :
          site' = [site EXCEPT ![s] = [NoRow EXCEPT !.status = "Pending", !.placed = room]]
    BY <1>3 DEF InsertPooled
  <2>2. [NoRow EXCEPT !.status = "Pending", !.placed = room].status = "Pending"
    BY Empty DEF Row
  <2>3. UNCHANGED request
    BY <1>3 DEF InsertPooled
  <2> QED BY <1>0, <1>2, <2>1, <2>2, <2>3 DEF OnlyFails
<1>4. ASSUME NEW t \in Tenants, ClaimNew(t, s) PROVE Restarts /\ OnlyFails(s)
  <2>1. PICK room \in BOOLEAN :
          site' = [site EXCEPT ![s] = [NoRow EXCEPT !.status = "Pending", !.placed = room, !.tenant = t]]
    BY <1>4 DEF ClaimNew
  <2>2. [NoRow EXCEPT !.status = "Pending", !.placed = room, !.tenant = t].status = "Pending"
    BY Empty DEF Row
  <2>3. Claiming(t)
    BY <1>4 DEF ClaimNew
  <2> QED BY <1>0, <1>1, <2>1, <2>2, <2>3 DEF OnlyFails
<1>5. ASSUME NEW t \in Tenants, ClaimReady(t, s) PROVE Restarts /\ OnlyFails(s)
  <2>1. Claiming(t) /\ site' = [site EXCEPT ![s].tenant = t, ![s].status = "Assigned"]
    BY <1>5 DEF ClaimReady
  <2>2. site'[s].status = "Assigned"
    BY <1>0, <2>1 DEF Row
  <2> QED BY <1>1, <2>1, <2>2 DEF OnlyFails
<1>6. CASE Trash(s)
  <2>1. UNCHANGED request /\ site'[s].status = "Deleted"
    BY <1>0, <1>6 DEF Trash, NoRow
  <2> QED BY <1>2, <2>1 DEF OnlyFails
<1>7. CASE DropBegin(s) \/ DropFinish(s)
  <2>1. UNCHANGED request /\ (UNCHANGED site[s] \/ site'[s].status \in {"Dropping", "Dropped"})
    BY <1>0, <1>7 DEF DropBegin, DropFinish, Row
  <2> QED BY <1>2, <2>1 DEF OnlyFails
<1>8. CASE DropSite(s) \/ PollPendingSites(s) \/ DropFromServer(s) \/ DropFails(s)
           \/ (\E a \in Attempts : PilotFinishes(s, a))
  <2>1. UNCHANGED <<site, request>>
    BY <1>8 DEF DropSite, PollPendingSites, DropFromServer, DropFails, PilotFinishes
  <2> QED BY <1>2, <2>1 DEF OnlyFails
<1> QED BY <1>3, <1>4, <1>5, <1>6, <1>7, <1>8 DEF DropJobStep

\* A row that stays Failed, of a signup that is not restarted.
LEMMA StaysTold ==
    ASSUME TypeInv, TypeInv', NEW s \in Sites, Restarts, OnlyFails(s), Stranded(s)'
    PROVE  Stranded(s)
<1>1. /\ site'[s].status = "Failed" /\ site[s].status = "Failed"
      /\ site'[s].tenant = site[s].tenant /\ site[s].tenant # None
      /\ request'[site[s].tenant] = "Processing"
  BY DEF OnlyFails, Stranded
<1>2. site[s].tenant \in Tenants
  BY <1>1 DEF TypeInv, TypeOK, Row
<1>3. s \in LiveSites(site[s].tenant)
  BY <1>1 DEF LiveSites, Exists
<1> QED BY <1>1, <1>2, <1>3 DEF Restarts, Stranded

LEMMA OperatorTells ==
    ASSUME TypeInv, NEW o \in Operators, Operator(o), NEW s \in Sites, Stranded(s)'
    PROVE  Stranded(s) \/ RetriesElsewhere(o, s)
<1>0. /\ site \in [Sites -> Row] /\ site[s] \in Row /\ op \in [Operators -> OpState]
      /\ site'[s].status = "Failed" /\ site'[s].tenant # None
      /\ request'[site'[s].tenant] = "Processing"
  BY DEF TypeInv, TypeOK, Stranded
<1>a. ASSUME UNCHANGED <<site[s], request>> PROVE Stranded(s)
  BY <1>0, <1>a DEF Stranded
<1>1. CASE (\E r \in Sites : RetryBegin(o, r)) \/ (\E t \in Tenants : RotateBegin(o, t)) \/ RotateReaches(o)
  BY <1>a, <1>1 DEF RetryBegin, RotateBegin, RotateReaches
<1>2. CASE RotateReconfigures(o)
  <2>1. UNCHANGED request
    BY <1>2 DEF RotateReconfigures
  <2>2. /\ site'[s].tenant = site[s].tenant
        /\ site'[s].status = site[s].status \/ site'[s].status = "Assigned"
    <3>1. CASE UNCHANGED site
      BY <3>1
    <3>2. CASE ~UNCHANGED site
      BY <1>0, <1>2, <3>2 DEF RotateReconfigures, Row
    <3> QED BY <3>1, <3>2
  <2> QED BY <1>0, <2>1, <2>2 DEF Stranded
<1>3. CASE Retry(o)
  <2> DEFINE r == op[o].site
             failed == op[o].row.status = "Failed" /\ Exists(r)
  <2>1. /\ op[o].at = "retry" /\ op' = [op EXCEPT ![o] = NoOp]
        /\ site' = IF failed THEN [site EXCEPT ![r].status = ResumeStatus(op[o].row), ![r].task = FALSE]
                   ELSE site
        /\ request' = [t \in Tenants |->
                         IF t = op[o].tenant /\ op[o].request = "Failed" THEN "Processing" ELSE request[t]]
    BY <1>3 DEF Retry
  <2>2. ResumeStatus(op[o].row) # "Failed"
    BY DEF ResumeStatus
  <2>3. UNCHANGED site[s] /\ ~(s = r /\ failed)
    BY <1>0, <2>1, <2>2 DEF Row
  <2>4. site[s].tenant \in Tenants /\ site[s].status = "Failed" /\ Exists(s)
    BY <1>0, <2>3 DEF Row, Exists
  <2>5. op'[o] = NoOp
    BY <1>0, <2>1
  <2>6. CASE request[site[s].tenant] = "Processing"
    BY <1>0, <2>3, <2>6 DEF Stranded
  <2>7. CASE request[site[s].tenant] # "Processing"
    <3>1. op[o].tenant = site[s].tenant /\ op[o].request = "Failed"
      BY <1>0, <2>1, <2>3, <2>4, <2>7
    <3> QED BY <2>1, <2>3, <2>4, <2>5, <3>1 DEF RetriesElsewhere
  <2> QED BY <2>6, <2>7
<1> QED BY <1>1, <1>2, <1>3 DEF Operator

\* No signup is left waiting on a site that stopped, for every number of sites, tenants and
\* operators: but for the Retry of another site, or of this one read before it failed, whoever
\* fails, claims, drops or retries a site leaves its signup Failed with it.
THEOREM FailedSitesAreTold == Spec => NoSignupWaitsOnFailedSite
<1>1. Init => TypeInv /\ DropInv
  BY InitTypeInv, InitDropInv
<1>2. TypeInv /\ DropInv /\ [Next]_vars => (TypeInv /\ DropInv)'
  <2> SUFFICES ASSUME TypeInv, DropInv, [Next]_vars PROVE DropInv'
    BY NextTypeInv
  <2>1. \A s \in Sites : DropStep(s)
    BY NextDropStep
  <2> QED
    BY <2>1 DEF DropInv, DropStep
<1>3. TypeInv /\ DropInv /\ [Next]_vars =>
        [\A s \in Sites : Stranded(s)' =>
            Stranded(s) \/ \E o \in Operators : RetriesElsewhere(o, s)]_vars
  <2> SUFFICES ASSUME TypeInv, DropInv, Next, NEW s \in Sites, Stranded(s)'
               PROVE  Stranded(s) \/ \E o \in Operators : RetriesElsewhere(o, s)
    OBVIOUS
  <2>0. TypeInv'
    BY NextTypeInv
  <2>1. ASSUME NEW r \in Sites,
               \/ InsertPooled(r) \/ Trash(r) \/ DropSite(r) \/ PollPendingSites(r)
               \/ SetupJob(r) \/ DropJobStep(r)
               \/ \E t \in Tenants : ClaimReady(t, r) \/ ClaimNew(t, r)
               \/ \E a \in Attempts : PilotFinishes(r, a)
        PROVE  Stranded(s)
    <3>1. Restarts /\ (OnlyFails(r) \/ ~Stranded(r)')
      BY <2>1, SetupTells, RowsTell
    <3>2. CASE r = s
      BY <2>0, <3>1, <3>2, StaysTold
    <3>3. CASE r # s
      <4>1. OnlyFails(s)
        BY <2>1, <3>3, OneSiteAtATime DEF OnlyFails
      <4> QED BY <2>0, <3>1, <4>1, StaysTold
    <3> QED BY <3>2, <3>3
  <2>2. ASSUME NEW o \in Operators, Operator(o) PROVE Stranded(s) \/ RetriesElsewhere(o, s)
    BY <2>2, OperatorTells
  <2> QED BY <2>1, <2>2 DEF Next
<1> QED
  BY <1>1, <1>2, <1>3, PTL DEF Spec, NoSignupWaitsOnFailedSite

----------------------------------------------------------------------------
(* Placement *)

Statuses == {"none", "building", "ready", "out"}

Placing == [at: {"idle", "claim", "lock", "save", "done"},
            view: [site: [Placed -> Place!Site], server: [Place!Servers -> Statuses]],
            last: Place!Servers \cup {0}, pick: Place!Servers \cup {0}, made: SUBSET Placed]

PlaceTyped ==
    /\ slot \in [Placed -> Place!Site]
    /\ \A s \in Placed : slot[s].status = "none" => slot[s].vm = 0
    /\ server \in [Place!Servers -> Statuses]
    /\ held \in [Place!Servers -> Place!Placers \cup {None}]
    /\ placer \in [Place!Placers -> Placing]
    /\ \A p \in Place!Placers : placer[p].at \in {"idle", "claim", "done"} => placer[p].last = 0 /\ placer[p].made = {}

\* The sites of a server, and those that the pool is to save there.
On(v) == {s \in Placed : slot[s].vm = v /\ slot[s].status # "Dropped"}
Mine(v) == {s \in placer[Pool].made : placer[Pool].view.site[s].vm = v}

\* A process has locked the servers it came by.
Behind(p) ==
    placer[p].at = "lock" =>
        /\ placer[p].last # 0 => held[placer[p].last] = p
        /\ \A v \in Place!Servers : v <= placer[p].last /\ server[v] # "none" => held[v] = p

\* A setup job has locked the server it picked, which keeps the slot.
Picked(s) ==
    /\ placer[s].at \in {"lock", "save"} => slot[s].status = "Pending"
    /\ placer[s].at = "save" =>
         /\ placer[s].pick \in Place!Servers /\ held[placer[s].pick] = s
         /\ placer[s].pick \in late \/ Cardinality(On(placer[s].pick)) < MaxSites

\* The pool has locked the servers it puts sites on; what it sees there is all there is.
Fills ==
    /\ \A s \in placer[Pool].made :
         LET new == placer[Pool].view.site[s]
         IN  slot[s].status = "none" /\ new.status = "Pending" /\ new.vm \in Place!Servers /\ held[new.vm] = Pool
    /\ \A s \in Placed \ placer[Pool].made :
         placer[Pool].at \in {"lock", "save"} /\ slot[s].status = "none" => placer[Pool].view.site[s].vm = 0
    /\ \A v \in Place!Servers \ late :
         Mine(v) # {} => Cardinality(On(v)) + Cardinality(Mine(v)) <= Place!site_count(placer[Pool].view, v)

HasRoom == \A v \in Place!Servers \ late : Cardinality(On(v)) + Cardinality(Mine(v)) <= MaxSites

PlaceInv ==
    /\ PlaceTyped
    /\ \A p \in Place!Placers : Behind(p)
    /\ \A s \in Placed : Picked(s)
    /\ Fills /\ HasRoom

\* There is a site for every claim that may need one: the bound on sites does not cut a claim off.
Callers == {c \in Claims : placer[c].at \in {"claim", "lock"}}
Reserved == Cardinality(Callers) <= Cardinality(Place!Unused)

\* A non-empty set of naturals has a least element.
LEMMA Least ==
    ASSUME NEW T, T \subseteq Nat, T # {}
    PROVE  \E x \in T : \A y \in T : x <= y
<1> DEFINE R == OpToRel(<, Nat)
<1>1. \A x, y \in Nat : <<y, x>> \in R <=> y < x
  BY DEF OpToRel
<1>2. IsWellFoundedOn(R, Nat)
  BY NatLessThanWellFounded, Zenon
<1> HIDE DEF R
<1>3. PICK x \in T : \A y \in T : ~(<<y, x>> \in R)
  BY <1>2, WFMin
<1>4. \A y \in T : ~(y < x)
  BY <1>1, <1>3, Zenon
<1> QED BY <1>4

LEMMA CountOf == \A view, v :
    Place!site_count(view, v) = Cardinality({s \in Placed : view.site[s].vm = v /\ view.site[s].status # "Dropped"})
<1>1. \A S : Place!Cardinality(S) = Cardinality(S)
  BY DEF Place!Cardinality, Cardinality
<1> QED BY <1>1 DEF Place!site_count

LEMMA Counts ==
    ASSUME NEW S, S \subseteq Placed
    PROVE  /\ IsFiniteSet(S) /\ Cardinality(S) \in Nat
           /\ \A T : T \subseteq S => Cardinality(T) <= Cardinality(S)
           /\ \A T, y : T \subseteq S \cup {y} => Cardinality(T) <= Cardinality(S) + 1
           /\ \A y : y \notin S => Cardinality(S \cup {y}) = Cardinality(S) + 1
<1>1. IsFiniteSet(S)
  BY FS_Subset, PlacementConstants
<1>2. Cardinality(S) \in Nat
  BY <1>1, FS_CardinalityType
<1>3. ASSUME NEW T, T \subseteq S PROVE Cardinality(T) <= Cardinality(S)
  BY <1>1, <1>3, FS_Subset
<1>4. ASSUME NEW y PROVE /\ IsFiniteSet(S \cup {y})
                        /\ Cardinality(S \cup {y}) = IF y \in S THEN Cardinality(S) ELSE Cardinality(S) + 1
  BY <1>1, FS_AddElement
<1>5. ASSUME NEW T, NEW y, T \subseteq S \cup {y} PROVE Cardinality(T) <= Cardinality(S) + 1
  <2>1. Cardinality(T) <= Cardinality(S \cup {y}) /\ IsFiniteSet(T)
    BY <1>4, <1>5, FS_Subset
  <2>2. Cardinality(T) \in Nat
    BY <2>1, FS_CardinalityType
  <2>3. Cardinality(S \cup {y}) \in {Cardinality(S), Cardinality(S) + 1}
    BY <1>4
  <2> QED BY <1>2, <2>1, <2>2, <2>3
<1> QED
  BY <1>1, <1>2, <1>3, <1>4, <1>5

\* pick_virtual_machine picks one of the servers it is given, one that it sees with room.
LEMMA BestFits ==
    ASSUME NEW view, NEW H, H \subseteq Place!Servers, Place!Best(view, H) # 0
    PROVE  Place!Best(view, H) \in H /\ Place!site_count(view, Place!Best(view, H)) < MaxSites
<1> DEFINE room(v) == Place!free_slots(view, v)
           fits == {v \in H : view.server[v] = "ready" /\ room(v) > 0}
           most == {v \in fits : \A w \in fits : room(w) <= room(v)}
<1>1. ASSUME NEW v PROVE Place!site_count(view, v) \in Nat /\ room(v) = MaxSites - Place!site_count(view, v)
  <2>1. {s \in Placed : view.site[s].vm = v /\ view.site[s].status # "Dropped"} \subseteq Placed
    OBVIOUS
  <2> QED BY <2>1, Counts, CountOf DEF Place!free_slots
<1>2. Place!Best(view, H) = IF fits = {} THEN 0 ELSE Place!Min(most)
  BY DEF Place!Best
<1> HIDE DEF room
<1>3. \A v \in fits : room(v) \in 0 .. MaxSites /\ room(v) > 0
  BY <1>1, PlacementConstants
<1>4. fits # {} /\ fits \subseteq H
  BY <1>2
<1>5. most # {} /\ most \subseteq fits
  <2> DEFINE rest == {Place!site_count(view, v) : v \in fits}
  <2>1. rest \subseteq Nat /\ rest # {}
    BY <1>1, <1>4
  <2>2. PICK n \in rest : \A m \in rest : n <= m
    BY <2>1, Least
  <2>3. PICK v \in fits : n = Place!site_count(view, v)
    BY <2>2
  <2>4. ASSUME NEW w \in fits PROVE room(w) <= room(v)
    <3>1. Place!site_count(view, v) <= Place!site_count(view, w)
      BY <2>2, <2>3
    <3> QED BY <1>1, <3>1, PlacementConstants
  <2>5. v \in most
    BY <2>3, <2>4
  <2> QED BY <2>5
<1> HIDE DEF most
<1>6. Place!Min(most) \in most
  <2>1. most \subseteq Nat
    BY <1>4, <1>5, PlacementConstants DEF Place!Servers
  <2>2. \E x \in most : \A y \in most : x <= y
    BY <1>5, <2>1, Least
  <2> QED BY <2>2 DEF Place!Min
<1>7. Place!Best(view, H) \in fits
  BY <1>2, <1>4, <1>5, <1>6
<1> QED
  BY <1>1, <1>3, <1>7, PlacementConstants

\* The places of a process are its own.
LEMMA Apart ==
    /\ Pool \in Place!Placers /\ Pool # None /\ None \notin Place!Placers
    /\ \A c \in Claims : c \in Place!Placers /\ c # Pool /\ c \notin Placed
    /\ \A s \in Placed : s \in Place!Placers /\ s # Pool
    /\ \A v \in Place!Servers : v \in Nat /\ v > 0
  BY PlacementConstants DEF Place!Placers, Place!Servers

LEMMA PlaceInit == Place!Init => PlaceInv
<1> SUFFICES ASSUME Place!Init PROVE PlaceInv
  OBVIOUS
<1>0. Place!NoSite \in Place!Site /\ Place!NoSite.vm = 0 /\ Place!NoSite.status = "none"
  BY DEF Place!NoSite, Place!Site
<1>1. slot \in [Placed -> Place!Site] /\ \A s \in Placed : slot[s] = Place!NoSite
  BY <1>0 DEF Place!Init
<1>2. server \in [Place!Servers -> Statuses]
  BY DEF Place!Init, Statuses
<1>3. Place!NoView \in [site: [Placed -> Place!Site], server: [Place!Servers -> Statuses]]
  BY <1>0 DEF Place!NoView, Statuses
<1>4. Place!Idle \in Placing /\ Place!Idle.at = "idle" /\ Place!Idle.last = 0 /\ Place!Idle.made = {}
  BY <1>3 DEF Place!Idle, Placing
<1>5. placer \in [Place!Placers -> Placing] /\ \A p \in Place!Placers : placer[p] = Place!Idle
  BY <1>4 DEF Place!Init
<1>6. PlaceTyped
  BY <1>0, <1>1, <1>2, <1>4, <1>5 DEF PlaceTyped, Place!Init
<1>7. (\A p \in Place!Placers : Behind(p)) /\ \A s \in Placed : Picked(s)
  BY <1>4, <1>5, Apart DEF Behind, Picked
<1>8. \A v \in Place!Servers : On(v) = {} /\ Mine(v) = {}
  BY <1>0, <1>1, <1>4, <1>5, Apart DEF On, Mine
<1>9. Cardinality({}) = 0
  BY FS_EmptySet
<1>10. Fills
  BY <1>4, <1>5, <1>8, Apart DEF Fills
<1>11. HasRoom
  BY <1>8, <1>9, PlacementConstants DEF HasRoom
<1> QED
  BY <1>6, <1>7, <1>10, <1>11 DEF PlaceInv

\* One process goes on; the sites and the servers stay as they are.
LEMMA PlacerStep ==
    ASSUME PlaceInv, NEW p \in Place!Placers, NEW a \in Placing, placer' = [placer EXCEPT ![p] = a],
           UNCHANGED <<slot, server>>, held' \in [Place!Servers -> Place!Placers \cup {None}],
           \A v \in Place!Servers : held[v] \in {None, p} \/ held'[v] = held[v],
           late \subseteq late',
           a.at \in {"idle", "claim", "done"} => a.last = 0 /\ a.made = {},
           Behind(p)', p \in Placed => Picked(p)', p = Pool => Fills' /\ HasRoom'
    PROVE  PlaceInv'
<1>1. placer \in [Place!Placers -> Placing] /\ PlaceTyped
  BY DEF PlaceInv, PlaceTyped
<1>2. placer'[p] = a /\ \A q \in Place!Placers \ {p} : placer'[q] = placer[q]
  BY <1>1
<1>3. PlaceTyped'
  BY <1>1, <1>2 DEF PlaceTyped
<1>4. \A v \in Place!Servers, q \in Place!Placers \ {p} : held[v] = q => held'[v] = q
  BY Apart
<1>5. ASSUME NEW q \in Place!Placers \ {p} PROVE Behind(q)'
  <2>1. Behind(q) /\ placer[q] \in Placing /\ placer'[q] = placer[q]
    BY <1>1, <1>2 DEF PlaceInv
  <2>2. placer[q].last \in Place!Servers \cup {0}
    BY <2>1 DEF Placing
  <2> QED BY <1>4, <2>1, <2>2 DEF Behind
<1>6. \A v : On(v)' = On(v)
  BY DEF On
<1>7. ASSUME NEW s \in Placed, s # p PROVE Picked(s)'
  <2>1. Picked(s) /\ placer'[s] = placer[s] /\ s \in Place!Placers
    BY <1>2, <1>7, Apart DEF PlaceInv
  <2> QED BY <1>4, <1>6, <1>7, <2>1 DEF Picked
<1>8. CASE p # Pool
  <2>1. placer'[Pool] = placer[Pool]
    BY <1>2, <1>8, Apart
  <2>2. \A v : Mine(v)' = Mine(v)
    BY <2>1 DEF Mine
  <2>3. \A v : Place!site_count(placer[Pool].view, v)' = Place!site_count(placer[Pool].view, v)
    BY <2>1, CountOf
  <2>4. HasRoom'
    BY <1>6, <2>2 DEF PlaceInv, HasRoom
  <2>5. Fills'
    <3>1. \A v \in Place!Servers : held[v] = Pool => held'[v] = Pool
      BY <1>4, <1>8, Apart
    <3> QED BY <1>6, <2>1, <2>2, <2>3, <3>1 DEF PlaceInv, Fills
  <2> QED BY <1>3, <1>5, <1>7, <2>4, <2>5 DEF PlaceInv
<1> QED
  BY <1>3, <1>5, <1>7, <1>8 DEF PlaceInv

\* A process ends and what it wrote to the sites is there: on the servers that it had locked there is
\* room for them, on others there are no more sites than before.
LEMMA SitesStep ==
    ASSUME PlaceInv, NEW p \in Place!Placers, NEW a \in Placing, placer' = [placer EXCEPT ![p] = a],
           a.at \in {"idle", "done"}, a.last = 0, a.made = {},
           held' \in [Place!Servers -> Place!Placers \cup {None}],
           \A v \in Place!Servers : held[v] = p \/ held'[v] = held[v],
           late \subseteq late',
           server' \in [Place!Servers -> Statuses],
           server' = server \/ \A v \in Place!Servers : held[v] \in {None, p},
           slot' \in [Placed -> Place!Site],
           \A s \in Placed : slot'[s].status = "none" => slot'[s].vm = 0,
           \A s \in Placed : slot'[s].status = "none" => slot[s].status = "none",
           \A s \in Placed \ {p} : placer[s].at \in {"lock", "save"} => slot'[s] = slot[s],
           p # Pool => \A s \in placer[Pool].made : slot'[s] = slot[s],
           \A v \in Place!Servers : held[v] # p => On(v)' \subseteq On(v),
           \A v \in Place!Servers \ late' : held[v] = p => Cardinality(On(v)') <= MaxSites
    PROVE  PlaceInv'
<1>1. placer \in [Place!Placers -> Placing] /\ PlaceTyped
  BY DEF PlaceInv, PlaceTyped
<1>2. placer'[p] = a /\ \A q \in Place!Placers \ {p} : placer'[q] = placer[q]
  BY <1>1
<1>3. PlaceTyped'
  BY <1>1, <1>2 DEF PlaceTyped
<1>4. \A v \in Place!Servers, q \in Place!Placers \ {p} : held[v] = q => held'[v] = q
  OBVIOUS
<1>5. ASSUME NEW q \in Place!Placers \ {p} PROVE Behind(q)'
  <2>1. Behind(q) /\ placer[q] \in Placing /\ placer'[q] = placer[q]
    BY <1>1, <1>2 DEF PlaceInv
  <2>2. placer[q].last \in Place!Servers \cup {0}
    BY <2>1 DEF Placing
  <2>3. CASE server' = server
    BY <1>4, <2>1, <2>2, <2>3 DEF Behind
  <2>4. CASE \A v \in Place!Servers : held[v] \in {None, p}
    <3>1. placer[q].at = "lock" => placer[q].last = 0
      BY <2>1, <2>2, <2>4, Apart DEF Behind
    <3>2. \A v \in Place!Servers : ~(v <= 0)
      BY Apart
    <3> QED BY <2>1, <3>1, <3>2 DEF Behind
  <2> QED BY <2>3, <2>4
<1>6. Behind(p)'
  BY <1>2 DEF Behind
<1>7. \A v : On(v) \subseteq Placed /\ On(v)' \subseteq Placed
  BY DEF On
<1>8. \A v : Cardinality(On(v)) \in Nat /\ Cardinality(On(v)') \in Nat
             /\ (On(v)' \subseteq On(v) => Cardinality(On(v)') <= Cardinality(On(v)))
  BY <1>7, Counts
<1>9. ASSUME NEW s \in Placed PROVE Picked(s)'
  <2>1. CASE s = p
    BY <1>2, <2>1 DEF Picked
  <2>2. CASE s # p
    <3>1. Picked(s) /\ placer'[s] = placer[s] /\ s \in Place!Placers
      BY <1>2, <2>2, Apart DEF PlaceInv
    <3>2. placer[s].at \in {"lock", "save"} => slot'[s].status = "Pending"
      BY <2>2, <3>1 DEF Picked
    <3>3. CASE placer[s].at = "save"
      <4>1. PICK v \in Place!Servers : v = placer[s].pick /\ held[v] = s /\ (v \in late \/ Cardinality(On(v)) < MaxSites)
        BY <3>1, <3>3 DEF Picked
      <4>2. On(v)' \subseteq On(v) /\ held'[v] = s
        BY <2>2, <4>1
      <4>3. Cardinality(On(v)') <= Cardinality(On(v)) /\ Cardinality(On(v)) \in Nat /\ Cardinality(On(v)') \in Nat
        BY <1>8, <4>2
      <4>4. v \in late' \/ Cardinality(On(v)') < MaxSites
        BY <4>1, <4>3, PlacementConstants
      <4> QED BY <3>1, <3>2, <4>1, <4>2, <4>4 DEF Picked
    <3> QED BY <3>1, <3>2, <3>3 DEF Picked
  <2> QED BY <2>1, <2>2
<1>10. \A v \in Place!Servers : Mine(v) \subseteq Placed /\ Cardinality(Mine(v)) \in Nat /\ (Mine(v) # {} => held[v] = Pool)
  <2>1. placer[Pool] \in Placing
    BY <1>1, Apart
  <2>2. ASSUME NEW v \in Place!Servers PROVE Mine(v) \subseteq Placed /\ (Mine(v) # {} => held[v] = Pool)
    BY <2>1 DEF Mine, Placing, PlaceInv, Fills
  <2> QED BY <2>2, Counts
<1>11. CASE p = Pool
  <2>1. \A v \in Place!Servers : Mine(v)' = {} /\ placer'[Pool] = a
    BY <1>2, <1>11 DEF Mine
  <2>2. Fills'
    BY <1>2, <1>11, <2>1 DEF Fills
  <2>3. ASSUME NEW v \in Place!Servers, v \notin late' PROVE Cardinality(On(v)') <= MaxSites
    <3>1. CASE held[v] = p
      BY <2>3, <3>1
    <3>2. CASE held[v] # p
      <4>1. Cardinality(On(v)) + Cardinality(Mine(v)) <= MaxSites
        BY <2>3 DEF PlaceInv, HasRoom
      <4>2. Cardinality(On(v)') <= Cardinality(On(v))
        BY <1>8, <3>2
      <4> QED BY <1>8, <1>10, <4>1, <4>2, PlacementConstants
    <3> QED BY <3>1, <3>2
  <2>4. HasRoom'
    <3>1. Cardinality({}) = 0
      BY FS_EmptySet
    <3>2. \A v \in Place!Servers : v \notin late' => Cardinality(On(v)') + Cardinality({}) <= MaxSites
      BY <1>8, <2>3, <3>1, PlacementConstants
    <3> QED BY <2>1, <3>2 DEF HasRoom
  <2> QED BY <1>3, <1>5, <1>6, <1>9, <2>2, <2>4 DEF PlaceInv
<1>12. CASE p # Pool
  <2>1. placer'[Pool] = placer[Pool]
    BY <1>2, <1>12, Apart
  <2>2. \A v : Mine(v)' = Mine(v)
    BY <2>1 DEF Mine
  <2>3. \A v : Place!site_count(placer[Pool].view, v)' = Place!site_count(placer[Pool].view, v)
    BY <2>1, CountOf
  <2>4. \A v \in Place!Servers : Mine(v) # {} => Cardinality(On(v)') <= Cardinality(On(v))
    BY <1>8, <1>10, <1>12
  <2>5. Fills'
    <3>1. \A s \in placer[Pool].made :
            LET new == placer[Pool].view.site[s]
            IN  slot'[s].status = "none" /\ new.status = "Pending" /\ new.vm \in Place!Servers /\ held'[new.vm] = Pool
      BY <1>4, <1>12, Apart DEF PlaceInv, Fills
    <3>2. \A s \in Placed \ placer[Pool].made :
            placer[Pool].at \in {"lock", "save"} /\ slot'[s].status = "none" => placer[Pool].view.site[s].vm = 0
      BY DEF PlaceInv, Fills
    <3>3. ASSUME NEW v \in Place!Servers, v \notin late', Mine(v) # {}
          PROVE  Cardinality(On(v)') + Cardinality(Mine(v)) <= Place!site_count(placer[Pool].view, v)
      <4>1. Cardinality(On(v)) + Cardinality(Mine(v)) <= Place!site_count(placer[Pool].view, v)
        BY <3>3 DEF PlaceInv, Fills
      <4>2. Place!site_count(placer[Pool].view, v) \in Nat
        BY CountOf, Counts
      <4> QED BY <1>8, <1>10, <2>4, <3>3, <4>1, <4>2
    <3> QED BY <2>1, <2>2, <2>3, <3>1, <3>2, <3>3 DEF Fills
  <2>6. ASSUME NEW v \in Place!Servers, v \notin late' PROVE Cardinality(On(v)') + Cardinality(Mine(v)) <= MaxSites
    <3>1. CASE held[v] = p
      <4>1. Mine(v) = {}
        BY <1>10, <1>12, <3>1
      <4> QED BY <1>8, <2>6, <3>1, <4>1, FS_EmptySet, PlacementConstants
    <3>2. CASE held[v] # p
      <4>1. Cardinality(On(v)) + Cardinality(Mine(v)) <= MaxSites
        BY <2>6 DEF PlaceInv, HasRoom
      <4>2. Cardinality(On(v)') <= Cardinality(On(v))
        BY <1>8, <3>2
      <4> QED BY <1>8, <1>10, <4>1, <4>2, PlacementConstants
    <3> QED BY <3>1, <3>2
  <2>7. HasRoom'
    BY <2>2, <2>6 DEF HasRoom
  <2> QED BY <1>3, <1>5, <1>6, <1>9, <2>5, <2>7 DEF PlaceInv
<1> QED
  BY <1>11, <1>12

\* Servers come, start or fail: no process that holds a lock is misled by it.
LEMMA ServersStep ==
    ASSUME PlaceInv, UNCHANGED <<slot, held, placer, late>>, server' \in [Place!Servers -> Statuses],
           \/ \A v \in Place!Servers : server'[v] # "none" => server[v] # "none"
           \/ \A v \in Place!Servers : held[v] = None
    PROVE  PlaceInv'
<1>1. PlaceTyped'
  BY DEF PlaceInv, PlaceTyped
<1>2. ASSUME NEW p \in Place!Placers PROVE Behind(p)'
  <2>1. Behind(p) /\ placer[p] \in Placing
    BY DEF PlaceInv, PlaceTyped
  <2>2. placer[p].last \in Place!Servers \cup {0}
    BY <2>1 DEF Placing
  <2>3. CASE \A v \in Place!Servers : server'[v] # "none" => server[v] # "none"
    BY <2>1, <2>3 DEF Behind
  <2>4. CASE \A v \in Place!Servers : held[v] = None
    <3>1. placer[p].at = "lock" => placer[p].last = 0
      BY <2>1, <2>2, <2>4, Apart DEF Behind
    <3>2. \A v \in Place!Servers : ~(v <= 0)
      BY Apart
    <3> QED BY <2>1, <3>1, <3>2 DEF Behind
  <2> QED BY <2>3, <2>4
<1>3. \A v : On(v)' = On(v) /\ Mine(v)' = Mine(v)
  BY DEF On, Mine
<1>4. \A s \in Placed : Picked(s)'
  BY <1>3 DEF PlaceInv, Picked
<1>5. \A v : Place!site_count(placer[Pool].view, v)' = Place!site_count(placer[Pool].view, v)
  BY CountOf
<1>6. Fills' /\ HasRoom'
  BY <1>3, <1>5 DEF PlaceInv, Fills, HasRoom
<1> QED BY <1>1, <1>2, <1>4, <1>6 DEF PlaceInv

LEMMA Sizes ==
    /\ IsFiniteSet(Callers) /\ Cardinality(Callers) \in Nat
    /\ IsFiniteSet(Place!Unused) /\ Cardinality(Place!Unused) \in Nat
    /\ Place!Room <=> Cardinality(Place!Unused) > Cardinality(Callers)
<1>1. \A S : Place!Cardinality(S) = Cardinality(S)
  BY DEF Place!Cardinality, Cardinality
<1>2. Place!Room <=> Cardinality(Place!Unused) > Cardinality(Callers)
  BY <1>1 DEF Place!Room, Callers
<1>3. Place!Unused \subseteq Placed
  BY DEF Place!Unused
<1>4. IsFiniteSet(Callers)
  BY FS_Subset, PlacementConstants DEF Callers
<1> QED BY <1>2, <1>3, <1>4, Counts, FS_CardinalityType

LEMMA NoMoreClaims ==
    ASSUME Reserved, Callers' \subseteq Callers, Place!Unused \subseteq Place!Unused'
    PROVE  Reserved'
<1>1. Place!Unused' \subseteq Placed
  BY DEF Place!Unused
<1>2. Cardinality(Place!Unused) <= Cardinality(Place!Unused') /\ Cardinality(Place!Unused') \in Nat
  BY <1>1, Counts
<1>3. Cardinality(Callers') <= Cardinality(Callers) /\ IsFiniteSet(Callers')
  BY Sizes, FS_Subset
<1>4. Cardinality(Callers') \in Nat
  BY <1>3, FS_CardinalityType
<1> QED BY <1>2, <1>3, <1>4, Sizes DEF Reserved

\* The views and the idle process are of their types.
LEMMA Processes ==
    ASSUME PlaceTyped
    PROVE  /\ Place!Now \in [site: [Placed -> Place!Site], server: [Place!Servers -> Statuses]]
           /\ Place!Idle \in Placing /\ Place!Idle.at = "idle" /\ Place!Idle.last = 0 /\ Place!Idle.made = {}
           /\ Place!Done \in Placing /\ Place!Done.at = "done" /\ Place!Done.last = 0 /\ Place!Done.made = {}
           /\ Place!Now.site = slot /\ Place!Now.server = server
<1>1. Place!NoSite \in Place!Site
  BY DEF Place!NoSite, Place!Site
<1>2. Place!NoView \in [site: [Placed -> Place!Site], server: [Place!Servers -> Statuses]]
  BY <1>1 DEF Place!NoView, Statuses
<1>3. Place!Idle \in Placing /\ Place!Idle.at = "idle" /\ Place!Idle.last = 0 /\ Place!Idle.made = {}
  BY <1>2 DEF Place!Idle, Placing
<1>4. Place!Done \in Placing /\ Place!Done.at = "done" /\ Place!Done.last = 0 /\ Place!Done.made = {}
  BY <1>2 DEF Place!Idle, Place!Done, Placing
<1> QED BY <1>3, <1>4 DEF Place!Now, PlaceTyped

\* The locks that a process lets go.
LEMMA LetGo ==
    ASSUME PlaceTyped, NEW p \in Place!Placers, held' = Place!Unlocked(p)
    PROVE  /\ held' \in [Place!Servers -> Place!Placers \cup {None}]
           /\ \A v \in Place!Servers : held[v] = p \/ held'[v] = held[v]
  BY DEF PlaceTyped, Place!Unlocked

\* Servers and capacity.
LEMMA ServersKeep ==
    ASSUME PlaceInv, Reserved,
           \/ Place!CapacityReads \/ Place!CapacityAdds \/ Place!CapacityFails
           \/ \E v \in Place!Servers : Place!ServerReady(v) \/ Place!ServerOut(v)
    PROVE  PlaceInv' /\ Reserved'
<1>0. server \in [Place!Servers -> Statuses]
  BY DEF PlaceInv, PlaceTyped
<1>1. UNCHANGED <<slot, held, placer, late>>
  BY DEF Place!CapacityReads, Place!CapacityAdds, Place!CapacityFails, Place!ServerReady, Place!ServerOut
<1>2. Reserved'
  BY <1>1 DEF Reserved, Callers, Place!Unused
<1>3. CASE Place!CapacityReads \/ Place!CapacityFails
  <2>1. server' = server
    BY <1>3 DEF Place!CapacityReads, Place!CapacityFails
  <2> QED BY <1>0, <1>1, <1>2, <2>1, ServersStep
<1>4. CASE Place!CapacityAdds
  <2>1. (\A v \in Place!Servers : held[v] = None) /\ \E w : server' = [server EXCEPT ![w] = "building"]
    BY <1>4 DEF Place!CapacityAdds, Place!AddServer
  <2>2. server' \in [Place!Servers -> Statuses]
    BY <1>0, <2>1 DEF Statuses
  <2> QED BY <1>1, <1>2, <2>1, <2>2, ServersStep
<1>5. ASSUME NEW v \in Place!Servers, Place!ServerReady(v) \/ Place!ServerOut(v) PROVE PlaceInv'
  <2>1. server[v] \in {"building", "ready"} /\ \E x \in {"ready", "out"} : server' = [server EXCEPT ![v] = x]
    BY <1>5 DEF Place!ServerReady, Place!ServerOut
  <2>2. server' \in [Place!Servers -> Statuses] /\ \A w \in Place!Servers : server'[w] # "none" => server[w] # "none"
    BY <1>0, <2>1 DEF Statuses
  <2> QED BY <1>1, <2>2, ServersStep
<1> QED BY <1>2, <1>3, <1>4, <1>5

\* A process begins, or dies.
LEMMA ClaimReadsKeeps ==
    ASSUME PlaceInv, Reserved, NEW c \in Claims, Place!ClaimReads(c)
    PROVE  PlaceInv' /\ Reserved'
<1> DEFINE a == [placer[c] EXCEPT !.at = "claim", !.view = Place!Now]
<1>1. PlaceTyped /\ placer \in [Place!Placers -> Placing] /\ c \in Place!Placers /\ c # Pool /\ c \notin Placed
  BY Apart DEF PlaceInv, PlaceTyped
<1>2. placer' = [placer EXCEPT ![c] = a] /\ UNCHANGED <<slot, server, held, late>> /\ placer[c].at = "idle" /\ Place!Room
  BY <1>1 DEF Place!ClaimReads
<1>3. a \in Placing /\ a.at = "claim" /\ a.last = 0 /\ a.made = {}
  BY <1>1, <1>2, Processes DEF Placing, PlaceTyped
<1> HIDE DEF a
<1>4. placer'[c] = a /\ \A q \in Place!Placers \ {c} : placer'[q] = placer[q]
  BY <1>1, <1>2
<1>5. Behind(c)'
  BY <1>3, <1>4 DEF Behind
<1>6. PlaceInv'
  BY <1>1, <1>2, <1>3, <1>5, PlacerStep DEF PlaceTyped
<1>7. Place!Unused' = Place!Unused
  BY <1>1, <1>2, <1>4, Apart DEF Place!Unused
<1>8. Callers' \subseteq Callers \cup {c} /\ IsFiniteSet(Callers \cup {c})
      /\ Cardinality(Callers \cup {c}) <= Cardinality(Callers) + 1
  <2>1. Callers' \subseteq Callers \cup {c}
    BY <1>4, Apart DEF Callers
  <2>2. IsFiniteSet(Callers \cup {c})
        /\ Cardinality(Callers \cup {c}) = IF c \in Callers THEN Cardinality(Callers) ELSE Cardinality(Callers) + 1
    BY Sizes, FS_AddElement
  <2>3. Cardinality(Callers) \in Nat
    BY Sizes
  <2> QED BY <2>1, <2>2, <2>3
<1>9. IsFiniteSet(Callers') /\ Cardinality(Callers') <= Cardinality(Callers \cup {c})
  BY <1>8, FS_Subset
<1>10. Cardinality(Callers') \in Nat /\ Cardinality(Callers \cup {c}) \in Nat
  BY <1>8, <1>9, FS_CardinalityType
<1> QED BY <1>2, <1>6, <1>7, <1>8, <1>9, <1>10, Sizes DEF Reserved

LEMMA SameClaims ==
    ASSUME PlaceTyped, Reserved, NEW p \in Place!Placers, NEW a, placer' = [placer EXCEPT ![p] = a],
           a.at \in {"claim", "lock"} => placer[p].at \in {"claim", "lock"} \/ p \notin Claims,
           \A s \in Placed : slot[s].status = "none" => slot'[s].status = "none",
           p = Pool => a.made \subseteq placer[Pool].made
    PROVE  Reserved'
<1>1. placer'[p] = a /\ \A q \in Place!Placers \ {p} : placer'[q] = placer[q]
  BY DEF PlaceTyped
<1>2. Callers' \subseteq Callers
  BY <1>1, Apart DEF Callers
<1>3. placer'[Pool].made \subseteq placer[Pool].made
  BY <1>1, Apart
<1>4. Place!Unused \subseteq Place!Unused'
  BY <1>3 DEF Place!Unused
<1> QED BY <1>2, <1>4, NoMoreClaims

LEMMA ClaimNewKeeps ==
    ASSUME PlaceInv, Reserved, NEW c \in Claims, Place!ClaimNew(c)
    PROVE  PlaceInv' /\ Reserved'
<1> DEFINE a == [placer[c] EXCEPT !.at = "lock"]
<1>1. PlaceTyped /\ placer \in [Place!Placers -> Placing] /\ c \in Place!Placers /\ c # Pool /\ c \notin Placed
  BY Apart DEF PlaceInv, PlaceTyped
<1>2. placer' = [placer EXCEPT ![c] = a] /\ UNCHANGED <<slot, server, held, late>> /\ placer[c].at = "claim"
  BY <1>1 DEF Place!ClaimNew
<1>3. a \in Placing /\ a.at = "lock" /\ a.last = 0
  BY <1>1, <1>2 DEF Placing, PlaceTyped
<1> HIDE DEF a
<1>4. placer'[c] = a
  BY <1>1, <1>2
<1>5. Behind(c)'
  BY <1>3, <1>4, Apart DEF Behind
<1>6. PlaceInv'
  BY <1>1, <1>2, <1>3, <1>5, PlacerStep DEF PlaceTyped
<1>7. Reserved'
  BY <1>1, <1>2, SameClaims
<1> QED BY <1>6, <1>7

LEMMA SetupStartsKeeps ==
    ASSUME PlaceInv, Reserved, NEW s \in Placed, Place!SetupStarts(s)
    PROVE  PlaceInv' /\ Reserved'
<1> DEFINE a == [placer[s] EXCEPT !.at = "lock"]
<1>1. PlaceTyped /\ placer \in [Place!Placers -> Placing] /\ s \in Place!Placers /\ s # Pool /\ s \notin Claims
  BY Apart DEF PlaceInv, PlaceTyped
<1>2. placer' = [placer EXCEPT ![s] = a] /\ UNCHANGED <<slot, server, held, late>> /\ placer[s].at = "idle"
  BY <1>1 DEF Place!SetupStarts
<1>3. a \in Placing /\ a.at = "lock" /\ a.last = 0
  BY <1>1, <1>2 DEF Placing, PlaceTyped
<1>a. slot[s].status = "Pending"
  BY DEF Place!SetupStarts, Place!Waiting, Place!Now
<1> HIDE DEF a
<1>4. placer'[s] = a
  BY <1>1, <1>2
<1>5. Behind(s)' /\ Picked(s)'
  BY <1>2, <1>3, <1>a, <1>4, Apart DEF Behind, Picked
<1>6. PlaceInv'
  BY <1>1, <1>2, <1>3, <1>5, PlacerStep DEF PlaceTyped
<1>7. Reserved'
  BY <1>1, <1>2, SameClaims
<1> QED BY <1>6, <1>7

\* A pool that has put no site on a server promises nothing.
LEMMA NothingMade ==
    ASSUME PlaceInv, UNCHANGED slot, late \subseteq late', placer'[Pool].made = {},
           placer'[Pool].at \in {"lock", "save"} =>
             \A s \in Placed : slot[s].status = "none" => placer'[Pool].view.site[s].vm = 0
    PROVE  Fills' /\ HasRoom'
<1>1. \A v : Mine(v)' = {} /\ On(v)' = On(v)
  BY DEF Mine, On
<1>2. Fills'
  BY <1>1 DEF Fills
<1>3. ASSUME NEW v \in Place!Servers, v \notin late' PROVE Cardinality(On(v)) + Cardinality({}) <= MaxSites
  <2>1. Cardinality(On(v)) + Cardinality(Mine(v)) <= MaxSites
    BY <1>3 DEF PlaceInv, HasRoom
  <2>2. placer[Pool].made \subseteq Placed
    BY Apart DEF PlaceInv, PlaceTyped, Placing
  <2>3. On(v) \subseteq Placed /\ Mine(v) \subseteq Placed
    BY <2>2 DEF On, Mine
  <2>4. Cardinality(On(v)) \in Nat /\ Cardinality(Mine(v)) \in Nat
    BY <2>3, Counts
  <2> QED BY <2>1, <2>4, FS_EmptySet, PlacementConstants
<1> QED BY <1>1, <1>2, <1>3 DEF HasRoom

LEMMA FillReadsKeeps ==
    ASSUME PlaceInv, Reserved, Place!FillReads
    PROVE  PlaceInv' /\ Reserved'
<1> DEFINE a == [placer[Pool] EXCEPT !.at = "lock", !.view = Place!Now]
<1>1. PlaceTyped /\ placer \in [Place!Placers -> Placing] /\ Pool \in Place!Placers /\ Pool \notin Placed /\ Pool \notin Claims
  BY Apart DEF PlaceInv, PlaceTyped
<1>2. placer' = [placer EXCEPT ![Pool] = a] /\ UNCHANGED <<slot, server, held, late>> /\ placer[Pool].at = "idle"
  BY <1>1 DEF Place!FillReads
<1>3. a \in Placing /\ a.at = "lock" /\ a.last = 0 /\ a.made = {} /\ a.view.site = slot /\ placer[Pool].made = {}
  BY <1>1, <1>2, Processes DEF Placing, PlaceTyped
<1> HIDE DEF a
<1>4. placer'[Pool] = a
  BY <1>1, <1>2
<1>5. Behind(Pool)'
  BY <1>3, <1>4, Apart DEF Behind
<1>6. Fills' /\ HasRoom'
  BY <1>1, <1>2, <1>3, <1>4, NothingMade DEF PlaceTyped
<1>7. PlaceInv'
  BY <1>1, <1>2, <1>3, <1>5, <1>6, PlacerStep DEF PlaceTyped
<1>8. Reserved'
  BY <1>1, <1>2, <1>3, SameClaims
<1> QED BY <1>7, <1>8

LEMMA PlacerDiesKeeps ==
    ASSUME PlaceInv, Reserved, NEW p \in Place!Placers, Place!PlacerDies(p)
    PROVE  PlaceInv' /\ Reserved'
<1>1. PlaceTyped /\ placer \in [Place!Placers -> Placing]
  BY DEF PlaceInv, PlaceTyped
<1>2. placer' = [placer EXCEPT ![p] = Place!Idle] /\ UNCHANGED <<slot, server, late>> /\ held' = Place!Unlocked(p)
  BY DEF Place!PlacerDies
<1>3. Place!Idle \in Placing /\ Place!Idle.at = "idle" /\ Place!Idle.last = 0 /\ Place!Idle.made = {}
  BY <1>1, Processes
<1>4. placer'[p] = Place!Idle
  BY <1>1, <1>2
<1>5. Behind(p)' /\ Picked(p)'
  BY <1>3, <1>4 DEF Behind, Picked
<1>6. p = Pool => Fills' /\ HasRoom'
  BY <1>2, <1>3, <1>4, NothingMade
<1>7. PlaceInv'
  BY <1>1, <1>2, <1>3, <1>5, <1>6, LetGo, PlacerStep
<1>8. Reserved'
  BY <1>1, <1>2, <1>3, SameClaims
<1> QED BY <1>7, <1>8

LEMMA LockNextKeeps ==
    ASSUME PlaceInv, Reserved, NEW p \in Place!Placers, Place!LockNext(p)
    PROVE  PlaceInv' /\ Reserved'
<1> DEFINE w == Place!Min(Place!Ahead(p))
           a == [placer[p] EXCEPT !.last = w]
<1>1. PlaceTyped /\ placer \in [Place!Placers -> Placing] /\ placer[p] \in Placing
  BY DEF PlaceInv, PlaceTyped
<1>2. placer' = [placer EXCEPT ![p] = a] /\ UNCHANGED <<slot, server, late>> /\ held' = [held EXCEPT ![w] = p]
      /\ placer[p].at = "lock" /\ Place!Ahead(p) # {} /\ held[w] \in {None, p}
  BY <1>1 DEF Place!LockNext
<1>3. w \in Place!Ahead(p) /\ \A v \in Place!Ahead(p) : w <= v
  <2>1. Place!Ahead(p) \subseteq Nat
    BY Apart DEF Place!Ahead
  <2>2. \E x \in Place!Ahead(p) : \A y \in Place!Ahead(p) : x <= y
    BY <1>2, <2>1, Least
  <2> QED BY <2>2 DEF Place!Min
<1> HIDE DEF w
<1>4. w \in Place!Servers /\ w \in Nat /\ w > 0 /\ server[w] # "none" /\ w > placer[p].last
  BY <1>3, Apart DEF Place!Ahead
<1>5. a \in Placing /\ a.at = "lock" /\ a.last = w /\ a.made = placer[p].made /\ a.view = placer[p].view /\ a.pick = placer[p].pick
  BY <1>1, <1>2, <1>4 DEF Placing
<1> HIDE DEF a
<1>6. placer'[p] = a
  BY <1>1, <1>2
<1>7. /\ held' \in [Place!Servers -> Place!Placers \cup {None}]
      /\ \A v \in Place!Servers : held[v] \in {None, p} \/ held'[v] = held[v]
      /\ held'[w] = p /\ \A v \in Place!Servers : held[v] = p => held'[v] = p
  BY <1>1, <1>2, <1>4 DEF PlaceTyped
<1>8. Behind(p)'
  <2>1. ASSUME NEW v \in Place!Servers, v <= w, server[v] # "none" PROVE held'[v] = p
    <3>1. CASE v <= placer[p].last
      BY <1>2, <1>7, <2>1, <3>1 DEF PlaceInv, Behind
    <3>2. CASE ~(v <= placer[p].last)
      <4>1. v \in Nat /\ placer[p].last \in Nat
        BY <1>1, Apart DEF Placing
      <4>2. v \in Place!Ahead(p)
        BY <2>1, <3>2, <4>1 DEF Place!Ahead
      <4>3. v = w
        BY <1>3, <1>4, <2>1, <4>1, <4>2
      <4> QED BY <1>7, <4>3
    <3> QED BY <3>1, <3>2
  <2> QED BY <1>2, <1>5, <1>6, <1>7, <2>1 DEF Behind
<1>9. ASSUME p \in Placed PROVE Picked(p)'
  BY <1>2, <1>5, <1>6, <1>9 DEF PlaceInv, Picked
<1>10. ASSUME p = Pool PROVE Fills' /\ HasRoom'
  <2>1. \A v : Mine(v)' = Mine(v) /\ On(v)' = On(v)
    BY <1>2, <1>5, <1>6, <1>10 DEF Mine, On
  <2>2. \A v : Place!site_count(placer[Pool].view, v)' = Place!site_count(placer[Pool].view, v)
    BY <1>5, <1>6, <1>10, CountOf
  <2> QED BY <1>2, <1>5, <1>6, <1>7, <1>10, <2>1, <2>2 DEF PlaceInv, Fills, HasRoom
<1>11. PlaceInv'
  BY <1>2, <1>5, <1>7, <1>8, <1>9, <1>10, PlacerStep
<1>12. Reserved'
  BY <1>1, <1>2, <1>5, SameClaims
<1> QED BY <1>11, <1>12

\* A server that no site comes to stays within its limit.
LEMMA FewerSites ==
    ASSUME PlaceInv, NEW v \in Place!Servers, v \notin late, On(v)' \subseteq On(v)
    PROVE  Cardinality(On(v)') <= MaxSites
<1>1. Cardinality(On(v)) + Cardinality(Mine(v)) <= MaxSites
  BY DEF PlaceInv, HasRoom
<1>2. placer[Pool].made \subseteq Placed
  BY Apart DEF PlaceInv, PlaceTyped, Placing
<1>3. On(v) \subseteq Placed /\ Mine(v) \subseteq Placed
  BY <1>2 DEF On, Mine
<1>4. Cardinality(On(v)) \in Nat /\ Cardinality(Mine(v)) \in Nat /\ Cardinality(On(v)') <= Cardinality(On(v))
  BY <1>3, Counts
<1>5. Cardinality(On(v)') \in Nat
  BY <1>3, Counts
<1> QED BY <1>1, <1>4, <1>5, PlacementConstants

\* What a process picks it has locked, and it saw room there.
LEMMA PickIsLocked ==
    ASSUME PlaceInv, NEW p \in Place!Placers, Place!Locked(p), NEW view, Place!Best(view, Place!Returned(p)) # 0
    PROVE  LET vm == Place!Best(view, Place!Returned(p))
           IN  vm \in Place!Servers /\ held[vm] = p /\ Place!site_count(view, vm) < MaxSites
<1> DEFINE vm == Place!Best(view, Place!Returned(p))
<1>1. Place!Returned(p) \subseteq Place!Servers
  BY DEF Place!Returned
<1>2. vm \in Place!Returned(p) /\ Place!site_count(view, vm) < MaxSites
  BY <1>1, BestFits
<1>3. vm \in Place!Servers /\ vm <= placer[p].last /\ server[vm] # "none"
  BY <1>2 DEF Place!Returned
<1>4. held[vm] = p
  BY <1>3 DEF PlaceInv, Behind, Place!Locked
<1> QED BY <1>2, <1>3, <1>4

LEMMA CountNow == \A v : Place!site_count(Place!Now, v) = Cardinality(On(v))
  BY CountOf DEF On, Place!Now

LEMMA SetupPicksKeeps ==
    ASSUME PlaceInv, Reserved, NEW s \in Placed, Place!SetupPicks(s)
    PROVE  PlaceInv' /\ Reserved'
<1> DEFINE vm == Place!Best(Place!Now, Place!Returned(s))
           a == [placer[s] EXCEPT !.at = "save", !.pick = vm]
<1>1. PlaceTyped /\ placer \in [Place!Placers -> Placing] /\ s \in Place!Placers /\ s # Pool /\ s \notin Claims
  BY Apart DEF PlaceInv, PlaceTyped
<1>2. UNCHANGED <<slot, server, late>> /\ Place!Locked(s) /\ placer[s].at = "lock"
  BY DEF Place!SetupPicks, Place!Locked
<1>3. CASE vm = 0
  <2>1. placer' = [placer EXCEPT ![s] = Place!Idle] /\ held' = Place!Unlocked(s)
    BY <1>3 DEF Place!SetupPicks
  <2>2. Place!Idle \in Placing /\ Place!Idle.at = "idle" /\ Place!Idle.last = 0 /\ Place!Idle.made = {}
    BY <1>1, Processes
  <2>3. placer'[s] = Place!Idle
    BY <1>1, <2>1
  <2>4. Behind(s)' /\ Picked(s)'
    BY <2>2, <2>3 DEF Behind, Picked
  <2>5. PlaceInv'
    BY <1>1, <1>2, <2>1, <2>2, <2>4, LetGo, PlacerStep
  <2>6. Reserved'
    BY <1>1, <1>2, <2>1, <2>2, SameClaims
  <2> QED BY <2>5, <2>6
<1>4. CASE vm # 0
  <2>1. placer' = [placer EXCEPT ![s] = a] /\ held' = held
    BY <1>1, <1>4 DEF Place!SetupPicks
  <2>2. vm \in Place!Servers /\ held[vm] = s /\ Place!site_count(Place!Now, vm) < MaxSites
    BY <1>1, <1>2, <1>4, PickIsLocked
  <2>3. Cardinality(On(vm)) < MaxSites
    BY <2>2, CountNow
  <2> HIDE DEF vm
  <2>4. a \in Placing /\ a.at = "save" /\ a.pick = vm
    BY <1>1, <2>2 DEF Placing
  <2> HIDE DEF a
  <2>5. placer'[s] = a
    BY <1>1, <2>1
  <2>6. \A v : On(v)' = On(v)
    BY <1>2 DEF On
  <2>7. Behind(s)' /\ Picked(s)'
    BY <1>2, <2>1, <2>2, <2>3, <2>4, <2>5, <2>6 DEF Behind, Picked, PlaceInv
  <2>8. PlaceInv'
    BY <1>1, <1>2, <2>1, <2>4, <2>7, PlacerStep DEF PlaceTyped
  <2>9. Reserved'
    BY <1>1, <1>2, <2>1, <2>4, SameClaims
  <2> QED BY <2>8, <2>9
<1> QED BY <1>3, <1>4

LEMMA ClaimReadyKeeps ==
    ASSUME PlaceInv, Reserved, NEW c \in Claims, NEW s \in Placed, Place!ClaimReady(c, s)
    PROVE  PlaceInv' /\ Reserved'
<1>1. PlaceTyped /\ placer \in [Place!Placers -> Placing] /\ c \in Place!Placers /\ c # Pool /\ c \notin Placed
      /\ slot \in [Placed -> Place!Site]
  BY Apart DEF PlaceInv, PlaceTyped
<1>2. /\ placer' = [placer EXCEPT ![c] = Place!Done] /\ UNCHANGED <<server, held, late>>
      /\ slot' = [slot EXCEPT ![s].tenant = c, ![s].status = "Assigned"]
      /\ slot[s].status = "Ready" /\ placer[s].at = "idle"
  BY DEF Place!ClaimReady, Place!Claimable
<1>3. Place!Done \in Placing /\ Place!Done.at = "done" /\ Place!Done.last = 0 /\ Place!Done.made = {}
  BY <1>1, Processes
<1>4. slot' \in [Placed -> Place!Site] /\ slot'[s].status = "Assigned" /\ slot'[s].vm = slot[s].vm
      /\ \A x \in Placed \ {s} : slot'[x] = slot[x]
  BY <1>1, <1>2 DEF Place!Site
<1>5. \A v : On(v)' \subseteq On(v)
  BY <1>2, <1>4 DEF On
<1>6. \A v \in Place!Servers \ late' : Cardinality(On(v)') <= MaxSites
  BY <1>2, <1>5, FewerSites
<1>7. \A x \in placer[Pool].made : x \in Placed /\ slot[x].status = "none"
  BY Apart DEF PlaceInv, Fills, PlaceTyped, Placing
<1>a. /\ \A x \in Placed : slot'[x].status = "none" => slot'[x].vm = 0 /\ slot[x].status = "none"
      /\ \A x \in Placed : placer[x].at \in {"lock", "save"} => slot'[x] = slot[x]
      /\ \A x \in placer[Pool].made : slot'[x] = slot[x]
  BY <1>1, <1>2, <1>4, <1>7 DEF PlaceTyped
<1>b. server' \in [Place!Servers -> Statuses] /\ held' \in [Place!Servers -> Place!Placers \cup {None}]
  BY <1>1, <1>2 DEF PlaceTyped
<1>8. PlaceInv'
  BY <1>1, <1>2, <1>3, <1>4, <1>5, <1>6, <1>a, <1>b, SitesStep
<1>9. Reserved'
  BY <1>1, <1>2, <1>3, <1>4, SameClaims
<1> QED BY <1>8, <1>9

\* A setup job ends, or its site moves on: the site is not one that the pool is to save.
LEMMA SlotStep ==
    ASSUME PlaceInv, Reserved, NEW s \in Placed, NEW a \in Placing, placer' = [placer EXCEPT ![s] = a],
           a.at = "idle", a.last = 0, a.made = {},
           held' \in [Place!Servers -> Place!Placers \cup {None}],
           \A v \in Place!Servers : held[v] = s \/ held'[v] = held[v],
           UNCHANGED <<server, late>>, slot[s].status # "none",
           slot' \in [Placed -> Place!Site], slot'[s].status # "none", \A x \in Placed \ {s} : slot'[x] = slot[x],
           \/ \A v \in Place!Servers : On(v)' \subseteq On(v)
           \/ \E w \in Place!Servers :
                /\ held[w] = s /\ \A v \in Place!Servers \ {w} : On(v)' \subseteq On(v)
                /\ On(w)' \subseteq On(w) \cup {s} /\ (w \in late \/ Cardinality(On(w)) < MaxSites)
    PROVE  PlaceInv' /\ Reserved'
<1>1. PlaceTyped /\ placer \in [Place!Placers -> Placing] /\ s \in Place!Placers /\ s # Pool /\ s \notin Claims
  BY Apart DEF PlaceInv, PlaceTyped
<1>2. \A v \in Place!Servers : held[v] # s => On(v)' \subseteq On(v)
  OBVIOUS
<1>3. ASSUME NEW v \in Place!Servers, v \notin late PROVE Cardinality(On(v)') <= MaxSites
  <2>1. CASE On(v)' \subseteq On(v)
    BY <1>3, <2>1, FewerSites
  <2>2. CASE On(v)' \subseteq On(v) \cup {s} /\ Cardinality(On(v)) < MaxSites
    <3>1. On(v) \subseteq Placed /\ On(v)' \subseteq Placed
      BY DEF On
    <3>2. Cardinality(On(v)) \in Nat /\ Cardinality(On(v)') \in Nat /\ Cardinality(On(v)') <= Cardinality(On(v)) + 1
      BY <2>2, <3>1, Counts
    <3> QED BY <2>2, <3>2, PlacementConstants
  <2> QED BY <1>3, <2>1, <2>2
<1>4. \A x \in placer[Pool].made : x \in Placed /\ slot[x].status = "none"
  BY Apart DEF PlaceInv, Fills, PlaceTyped, Placing
<1>a. /\ \A x \in Placed : slot'[x].status = "none" => slot'[x].vm = 0 /\ slot[x].status = "none"
      /\ \A x \in Placed \ {s} : placer[x].at \in {"lock", "save"} => slot'[x] = slot[x]
      /\ \A x \in placer[Pool].made : slot'[x] = slot[x]
  BY <1>1, <1>4 DEF PlaceTyped
<1>b. server' \in [Place!Servers -> Statuses]
  BY <1>1 DEF PlaceTyped
<1>5. PlaceInv'
  BY <1>1, <1>2, <1>3, <1>a, <1>b, SitesStep
<1>6. Reserved'
  BY <1>1, SameClaims
<1> QED BY <1>5, <1>6

LEMMA SetupSavesKeeps ==
    ASSUME PlaceInv, Reserved, NEW s \in Placed, Place!SetupSaves(s)
    PROVE  PlaceInv' /\ Reserved'
<1>1. PlaceTyped /\ slot \in [Placed -> Place!Site] /\ s \in Place!Placers
  BY Apart DEF PlaceInv, PlaceTyped
<1>2. PICK w \in Place!Servers : w = placer[s].pick /\ held[w] = s /\ (w \in late \/ Cardinality(On(w)) < MaxSites)
  BY DEF PlaceInv, Picked, Place!SetupSaves
<1>3. slot[s].status = "Pending"
  BY DEF PlaceInv, Picked, Place!SetupSaves
<1>4. /\ placer' = [placer EXCEPT ![s] = Place!Idle] /\ UNCHANGED <<server, late>> /\ held' = Place!Unlocked(s)
      /\ slot' = [slot EXCEPT ![s].vm = w]
  BY <1>2 DEF Place!SetupSaves
<1>5. Place!Idle \in Placing /\ Place!Idle.at = "idle" /\ Place!Idle.last = 0 /\ Place!Idle.made = {}
  BY <1>1, Processes
<1>6. slot' \in [Placed -> Place!Site] /\ slot'[s].status = "Pending" /\ slot'[s].vm = w
      /\ \A x \in Placed \ {s} : slot'[x] = slot[x]
  BY <1>1, <1>3, <1>4 DEF Place!Site
<1>7. On(w)' \subseteq On(w) \cup {s} /\ \A v \in Place!Servers \ {w} : On(v)' \subseteq On(v)
  BY <1>6 DEF On
<1> QED BY <1>1, <1>2, <1>3, <1>4, <1>5, <1>6, <1>7, LetGo, SlotStep

LEMMA SetupFailsKeeps ==
    ASSUME PlaceInv, Reserved, NEW s \in Placed, Place!SetupFails(s)
    PROVE  PlaceInv' /\ Reserved'
<1>1. PlaceTyped /\ slot \in [Placed -> Place!Site] /\ s \in Place!Placers
  BY Apart DEF PlaceInv, PlaceTyped
<1>2. slot[s].status = "Pending"
  BY DEF PlaceInv, Picked, Place!SetupFails
<1>3. /\ placer' = [placer EXCEPT ![s] = Place!Idle] /\ UNCHANGED <<server, late>> /\ held' = Place!Unlocked(s)
      /\ slot' = [slot EXCEPT ![s].status = "Failed"]
  BY DEF Place!SetupFails
<1>4. Place!Idle \in Placing /\ Place!Idle.at = "idle" /\ Place!Idle.last = 0 /\ Place!Idle.made = {}
  BY <1>1, Processes
<1>5. slot' \in [Placed -> Place!Site] /\ slot'[s].status = "Failed" /\ slot'[s].vm = slot[s].vm
      /\ \A x \in Placed \ {s} : slot'[x] = slot[x]
  BY <1>1, <1>3 DEF Place!Site
<1>6. \A v \in Place!Servers : On(v)' \subseteq On(v)
  BY <1>2, <1>5 DEF On
<1> QED BY <1>1, <1>2, <1>3, <1>4, <1>5, <1>6, LetGo, SlotStep

LEMMA SiteMovesKeeps ==
    ASSUME PlaceInv, Reserved, NEW s \in Placed, Place!SiteCreated(s) \/ Place!SiteDropped(s)
    PROVE  PlaceInv' /\ Reserved'
<1>1. PlaceTyped /\ slot \in [Placed -> Place!Site] /\ s \in Place!Placers /\ placer \in [Place!Placers -> Placing]
      /\ held \in [Place!Servers -> Place!Placers \cup {None}]
  BY Apart DEF PlaceInv, PlaceTyped
<1>2. slot[s].status \notin {"none", "Dropped"} /\ placer[s].at = "idle" /\ UNCHANGED <<placer, held, server, late>>
      /\ \E x \in {"Ready", "Assigned", "Dropped"} : slot' = [slot EXCEPT ![s].status = x]
  BY DEF Place!SiteCreated, Place!SiteDropped
<1>3. placer' = [placer EXCEPT ![s] = placer[s]] /\ placer[s] \in Placing /\ placer[s].last = 0 /\ placer[s].made = {}
  BY <1>1, <1>2 DEF PlaceTyped
<1>4. slot' \in [Placed -> Place!Site] /\ slot'[s].status # "none" /\ slot'[s].vm = slot[s].vm
      /\ \A x \in Placed \ {s} : slot'[x] = slot[x]
  BY <1>1, <1>2 DEF Place!Site
<1>5. \A v \in Place!Servers : On(v)' \subseteq On(v)
  BY <1>2, <1>4 DEF On
<1> QED BY <1>1, <1>2, <1>3, <1>4, <1>5, SlotStep

\* A site is taken for one claim less to come.
LEMMA OneLess ==
    ASSUME Reserved, NEW c \in Callers, NEW s \in Place!Unused,
           Callers' \subseteq Callers \ {c}, Place!Unused \ {s} \subseteq Place!Unused'
    PROVE  Reserved'
<1>1. IsFiniteSet(Callers \ {c}) /\ Cardinality(Callers \ {c}) = Cardinality(Callers) - 1
  BY Sizes, FS_RemoveElement
<1>2. IsFiniteSet(Place!Unused \ {s}) /\ Cardinality(Place!Unused \ {s}) = Cardinality(Place!Unused) - 1
  BY Sizes, FS_RemoveElement
<1>3. IsFiniteSet(Callers') /\ Cardinality(Callers') <= Cardinality(Callers \ {c})
  BY <1>1, FS_Subset
<1>4. Place!Unused' \subseteq Placed
  BY DEF Place!Unused
<1>5. Cardinality(Place!Unused \ {s}) <= Cardinality(Place!Unused') /\ Cardinality(Place!Unused') \in Nat
  BY <1>4, Counts
<1>6. Cardinality(Callers') \in Nat
  BY <1>3, FS_CardinalityType
<1> QED BY <1>1, <1>2, <1>3, <1>5, <1>6, Sizes DEF Reserved

LEMMA ClaimPlacesKeeps ==
    ASSUME PlaceInv, Reserved, NEW c \in Claims, Place!ClaimPlaces(c)
    PROVE  PlaceInv' /\ Reserved'
<1> DEFINE view == placer[c].view
           vm == Place!Best(view, Place!Returned(c))
           s == CHOOSE x \in Place!Unused : TRUE
<1>1. PlaceTyped /\ placer \in [Place!Placers -> Placing] /\ c \in Place!Placers /\ c # Pool /\ c \notin Placed
      /\ slot \in [Placed -> Place!Site]
  BY Apart DEF PlaceInv, PlaceTyped
<1>2. /\ placer' = [placer EXCEPT ![c] = Place!Done] /\ held' = Place!Unlocked(c) /\ Place!Locked(c)
      /\ slot' = [slot EXCEPT ![s] = Place!NewSite(vm, c)]
      /\ late' = IF Place!Overlooks(c, vm) THEN late \cup {vm} ELSE late
  BY DEF Place!ClaimPlaces
<1>3. server' = server \/ Place!AddServer(c)
  BY DEF Place!ClaimPlaces
<1>4. c \in Callers
  BY <1>2 DEF Callers, Place!Locked
<1>5. s \in Place!Unused
  <2>1. Cardinality(Callers) # 0
    BY <1>4, Sizes, FS_EmptySet
  <2>2. Cardinality(Place!Unused) # 0
    BY <2>1, Sizes DEF Reserved
  <2>3. Place!Unused # {}
    BY <2>2, FS_EmptySet
  <2> QED BY <2>3
<1>6. vm # 0 => vm \in Place!Servers /\ held[vm] = c /\ Place!site_count(view, vm) < MaxSites
  BY <1>1, <1>2, PickIsLocked
<1>7. vm # 0 /\ vm \notin late' => Cardinality(On(vm)) <= Place!site_count(view, vm)
  <2>1. Place!site_count(view, vm) \in Nat /\ Cardinality(On(vm)) \in Nat
    <3>1. {x \in Placed : view.site[x].vm = vm /\ view.site[x].status # "Dropped"} \subseteq Placed
      OBVIOUS
    <3>2. On(vm) \subseteq Placed
      BY DEF On
    <3> QED BY <3>1, <3>2, Counts, CountOf
  <2> QED BY <1>2, <2>1, CountNow DEF Place!Overlooks
<1>8. Place!site_count(view, vm) \in Nat
  BY CountOf, Counts
<1> HIDE DEF s, vm, view
<1>9. slot[s].status = "none" /\ s \in Placed /\ s \notin placer[Pool].made
  BY <1>5 DEF Place!Unused
<1>10. slot' \in [Placed -> Place!Site] /\ slot'[s].status = "Pending" /\ slot'[s].vm = vm
       /\ \A x \in Placed \ {s} : slot'[x] = slot[x]
  <2>1. Place!NewSite(vm, c) \in Place!Site /\ Place!NewSite(vm, c).status = "Pending" /\ Place!NewSite(vm, c).vm = vm
    BY <1>6 DEF Place!NewSite, Place!Site
  <2> QED BY <1>1, <1>2, <1>9, <2>1
<1>11. \A v \in Place!Servers : v # vm => On(v)' \subseteq On(v)
  BY <1>10 DEF On
<1>12. \A v \in Place!Servers : held[v] # c => On(v)' \subseteq On(v)
  BY <1>6, <1>11, Apart
<1>13. late \subseteq late'
  BY <1>2
<1>14. ASSUME NEW v \in Place!Servers, v \notin late' PROVE Cardinality(On(v)') <= MaxSites
  <2>1. CASE v # vm
    BY <1>11, <1>13, <1>14, <2>1, FewerSites
  <2>2. CASE v = vm
    <3>1. On(v) \subseteq Placed /\ On(v)' \subseteq Placed /\ On(v)' \subseteq On(v) \cup {s}
      BY <1>10 DEF On
    <3>2. Cardinality(On(v)) \in Nat /\ Cardinality(On(v)') \in Nat /\ Cardinality(On(v)') <= Cardinality(On(v)) + 1
      BY <3>1, Counts
    <3>3. v # 0
      BY Apart
    <3> QED BY <1>6, <1>7, <1>8, <1>14, <2>2, <3>2, <3>3, PlacementConstants
  <2> QED BY <2>1, <2>2
<1>15. /\ \A x \in Placed : slot'[x].status = "none" => slot'[x].vm = 0 /\ slot[x].status = "none"
       /\ \A x \in Placed : placer[x].at \in {"lock", "save"} => slot'[x] = slot[x]
       /\ \A x \in placer[Pool].made : slot'[x] = slot[x]
  <2>1. \A x \in placer[Pool].made : x \in Placed
    BY Apart DEF PlaceInv, PlaceTyped, Placing
  <2>2. \A x \in Placed : placer[x].at \in {"lock", "save"} => x # s
    BY <1>9 DEF PlaceInv, Picked
  <2> QED BY <1>1, <1>9, <1>10, <2>1, <2>2 DEF PlaceTyped
<1>16. server' \in [Place!Servers -> Statuses] /\ (server' = server \/ \A v \in Place!Servers : held[v] \in {None, c})
  BY <1>1, <1>3 DEF PlaceTyped, Place!AddServer, Statuses
<1>17. Place!Done \in Placing /\ Place!Done.at = "done" /\ Place!Done.last = 0 /\ Place!Done.made = {}
  BY <1>1, Processes
<1>18. /\ held' \in [Place!Servers -> Place!Placers \cup {None}]
       /\ \A v \in Place!Servers : held[v] = c \/ held'[v] = held[v]
  BY <1>1, <1>2, LetGo
<1>19. PlaceInv'
  BY <1>1, <1>2, <1>10, <1>12, <1>13, <1>14, <1>15, <1>16, <1>17, <1>18, SitesStep
<1>20. Reserved'
  <2>1. placer'[c] = Place!Done /\ \A q \in Place!Placers \ {c} : placer'[q] = placer[q]
    BY <1>1, <1>2
  <2>2. Callers' \subseteq Callers \ {c}
    BY <1>17, <2>1, Apart DEF Callers
  <2>3. Place!Unused \ {s} \subseteq Place!Unused'
    BY <1>1, <1>10, <2>1, Apart DEF Place!Unused
  <2> QED BY <1>4, <1>5, <2>2, <2>3, OneLess
<1> QED BY <1>19, <1>20

LEMMA FillSavesKeeps ==
    ASSUME PlaceInv, Reserved, Place!FillSaves
    PROVE  PlaceInv' /\ Reserved'
<1>1. PlaceTyped /\ placer \in [Place!Placers -> Placing] /\ Pool \in Place!Placers /\ Pool \notin Placed /\ Pool \notin Claims
      /\ slot \in [Placed -> Place!Site] /\ placer[Pool] \in Placing
  BY Apart DEF PlaceInv, PlaceTyped
<1>2. /\ placer' = [placer EXCEPT ![Pool] = Place!Idle] /\ held' = Place!Unlocked(Pool) /\ UNCHANGED <<server, late>>
      /\ slot' = [s \in Placed |-> IF s \in placer[Pool].made THEN placer[Pool].view.site[s] ELSE slot[s]]
  BY DEF Place!FillSaves
<1>3. Place!Idle \in Placing /\ Place!Idle.at = "idle" /\ Place!Idle.last = 0 /\ Place!Idle.made = {}
  BY <1>1, Processes
<1>4. placer[Pool].view.site \in [Placed -> Place!Site] /\ placer[Pool].made \subseteq Placed
  BY <1>1 DEF Placing
<1>5. slot' \in [Placed -> Place!Site] /\ \A s \in Placed \ placer[Pool].made : slot'[s] = slot[s]
  BY <1>1, <1>2, <1>4
<1>6. \A s \in placer[Pool].made : slot'[s] = placer[Pool].view.site[s] /\ slot[s].status = "none" /\ slot'[s].status = "Pending"
                                   /\ held[slot'[s].vm] = Pool
  BY <1>2, <1>4 DEF PlaceInv, Fills
<1>7. \A v \in Place!Servers : On(v)' \subseteq On(v) \cup Mine(v) /\ (held[v] # Pool => Mine(v) = {})
  BY <1>2, <1>4, <1>5, <1>6 DEF On, Mine
<1>8. ASSUME NEW v \in Place!Servers, v \notin late PROVE Cardinality(On(v)') <= MaxSites
  <2>1. On(v) \subseteq Placed /\ Mine(v) \subseteq Placed /\ On(v)' \subseteq Placed
    BY <1>4 DEF On, Mine
  <2>2. IsFiniteSet(On(v)) /\ IsFiniteSet(Mine(v)) /\ Cardinality(On(v)) \in Nat /\ Cardinality(Mine(v)) \in Nat
        /\ Cardinality(On(v)') \in Nat
    BY <2>1, Counts
  <2>3. /\ IsFiniteSet(On(v) \cup Mine(v)) /\ IsFiniteSet(On(v) \cap Mine(v))
        /\ Cardinality(On(v) \cup Mine(v)) = Cardinality(On(v)) + Cardinality(Mine(v)) - Cardinality(On(v) \cap Mine(v))
    BY <2>2, FS_Union, FS_Intersection
  <2>4. Cardinality(On(v) \cap Mine(v)) \in Nat /\ Cardinality(On(v) \cup Mine(v)) \in Nat
    BY <2>3, FS_CardinalityType
  <2>5. Cardinality(On(v)') <= Cardinality(On(v) \cup Mine(v))
    BY <1>7, <2>3, FS_Subset
  <2>6. Cardinality(On(v)) + Cardinality(Mine(v)) <= MaxSites
    BY <1>8 DEF PlaceInv, HasRoom
  <2> QED BY <2>2, <2>3, <2>4, <2>5, <2>6, PlacementConstants
<1>9. /\ \A x \in Placed : slot'[x].status = "none" => slot'[x].vm = 0 /\ slot[x].status = "none"
      /\ \A x \in Placed : placer[x].at \in {"lock", "save"} => slot'[x] = slot[x]
  <2>1. \A x \in Placed : placer[x].at \in {"lock", "save"} => x \notin placer[Pool].made
    BY <1>6 DEF PlaceInv, Picked
  <2> QED BY <1>1, <1>5, <1>6, <2>1 DEF PlaceTyped
<1>10. /\ held' \in [Place!Servers -> Place!Placers \cup {None}]
       /\ \A v \in Place!Servers : held[v] = Pool \/ held'[v] = held[v]
  BY <1>1, <1>2, LetGo
<1>11. server' \in [Place!Servers -> Statuses]
  BY <1>1, <1>2 DEF PlaceTyped
<1>12. \A v \in Place!Servers : held[v] # Pool => On(v)' \subseteq On(v)
  BY <1>7
<1>13. PlaceInv'
  BY <1>1, <1>2, <1>3, <1>5, <1>8, <1>9, <1>10, <1>11, <1>12, SitesStep
<1>14. Reserved'
  <2>1. placer'[Pool] = Place!Idle /\ \A q \in Place!Placers \ {Pool} : placer'[q] = placer[q]
    BY <1>1, <1>2
  <2>2. Callers' \subseteq Callers
    BY <1>3, <2>1, Apart DEF Callers
  <2>3. Place!Unused \subseteq Place!Unused'
    BY <1>3, <1>5, <2>1 DEF Place!Unused
  <2> QED BY <2>2, <2>3, NoMoreClaims
<1> QED BY <1>13, <1>14

LEMMA FillPlacesKeeps ==
    ASSUME PlaceInv, Reserved, Place!FillPlaces
    PROVE  PlaceInv' /\ Reserved'
<1> DEFINE old == placer[Pool]
           vm == Place!Best(old.view, Place!Returned(Pool))
           s == CHOOSE x \in Place!Unused : TRUE
           seen == [old.view EXCEPT !.site[s] = Place!NewSite(vm, None)]
           at == IF Place!Cardinality(Place!Pooled(seen)) < ReadySites THEN "lock" ELSE "save"
           ends == [old EXCEPT !.at = "save"]
           goes == [old EXCEPT !.at = at, !.view = seen, !.made = @ \cup {s}, !.last = 0]
<1>1. PlaceTyped /\ placer \in [Place!Placers -> Placing] /\ Pool \in Place!Placers /\ Pool \notin Placed /\ Pool \notin Claims
      /\ old \in Placing
  BY Apart DEF PlaceInv, PlaceTyped
<1>2. UNCHANGED <<slot, server, held>> /\ Place!Locked(Pool) /\ old.at = "lock" /\ held \in [Place!Servers -> Place!Placers \cup {None}]
  BY DEF Place!FillPlaces, Place!Locked, PlaceInv, PlaceTyped
<1>3. \A v : On(v)' = On(v)
  BY <1>2 DEF On
<1>4. CASE vm = 0 \/ ~Place!Room
  <2>1. placer' = [placer EXCEPT ![Pool] = ends] /\ late' = late
    BY <1>1, <1>4 DEF Place!FillPlaces
  <2>2. ends \in Placing /\ ends.at = "save" /\ ends.view = old.view /\ ends.made = old.made
    BY <1>1 DEF Placing
  <2> HIDE DEF ends
  <2>3. placer'[Pool] = ends
    BY <1>1, <2>1
  <2>4. \A v : Mine(v)' = Mine(v) /\ Place!site_count(placer[Pool].view, v)' = Place!site_count(placer[Pool].view, v)
    BY <2>2, <2>3, CountOf DEF Mine
  <2>5. Fills' /\ HasRoom'
    BY <1>2, <1>3, <2>1, <2>2, <2>3, <2>4 DEF PlaceInv, Fills, HasRoom
  <2>6. Behind(Pool)'
    BY <2>2, <2>3 DEF Behind
  <2>7. PlaceInv'
    BY <1>1, <1>2, <2>1, <2>2, <2>5, <2>6, PlacerStep
  <2>8. Reserved'
    BY <1>1, <1>2, <2>1, <2>2, SameClaims
  <2> QED BY <2>7, <2>8
<1>5. CASE vm # 0 /\ Place!Room
  <2>1. placer' = [placer EXCEPT ![Pool] = goes] /\ late' = IF Place!Overlooks(Pool, vm) THEN late \cup {vm} ELSE late
    BY <1>1, <1>5 DEF Place!FillPlaces
  <2>2. s \in Place!Unused
    <3>1. Cardinality(Place!Unused) # 0
      BY <1>5, Sizes
    <3>2. Place!Unused # {}
      BY <3>1, FS_EmptySet
    <3> QED BY <3>2
  <2>3. vm \in Place!Servers /\ held[vm] = Pool /\ Place!site_count(old.view, vm) < MaxSites
    BY <1>1, <1>2, <1>5, PickIsLocked
  <2>4. vm \notin late' => Cardinality(On(vm)) <= Place!site_count(old.view, vm)
    <3>1. Place!site_count(old.view, vm) \in Nat /\ Cardinality(On(vm)) \in Nat
      BY CountOf, Counts DEF On
    <3> QED BY <1>5, <2>1, <3>1, CountNow DEF Place!Overlooks
  <2>5. at \in {"lock", "save"}
    OBVIOUS
  <2> HIDE DEF s, vm, at
  <2>6. slot[s].status = "none" /\ s \in Placed /\ s \notin old.made
    BY <2>2 DEF Place!Unused
  <2>7. old.view.site \in [Placed -> Place!Site] /\ old.view.server \in [Place!Servers -> Statuses] /\ old.made \subseteq Placed
        /\ old.view = [site |-> old.view.site, server |-> old.view.server]
    BY <1>1 DEF Placing
  <2>8. Place!NewSite(vm, None) \in Place!Site /\ Place!NewSite(vm, None).status = "Pending" /\ Place!NewSite(vm, None).vm = vm
    BY <2>3 DEF Place!NewSite, Place!Site
  <2>9. /\ seen \in [site: [Placed -> Place!Site], server: [Place!Servers -> Statuses]]
        /\ seen.site[s] = Place!NewSite(vm, None) /\ \A x \in Placed \ {s} : seen.site[x] = old.view.site[x]
    BY <2>6, <2>7, <2>8
  <2> HIDE DEF seen
  <2>10. goes \in Placing /\ goes.at = at /\ goes.view = seen /\ goes.made = old.made \cup {s} /\ goes.last = 0
    BY <1>1, <2>5, <2>6, <2>7, <2>9 DEF Placing
  <2> HIDE DEF goes
  <2>11. placer'[Pool] = goes /\ \A q \in Place!Placers \ {Pool} : placer'[q] = placer[q]
    BY <1>1, <2>1
  <2>12. old.view.site[s].vm = 0 /\ vm # 0
    BY <1>2, <1>5, <2>6 DEF PlaceInv, Fills
  <2>w. PICK w \in Place!Servers : w = vm
    BY <2>3
  <2>13. \A v \in Place!Servers : v # w =>
           Mine(v)' = Mine(v) /\ Place!site_count(placer'[Pool].view, v) = Place!site_count(old.view, v)
    <3>1. ASSUME NEW v \in Place!Servers, v # w
          PROVE  /\ Mine(v)' = Mine(v)
                 /\ {x \in Placed : seen.site[x].vm = v /\ seen.site[x].status # "Dropped"}
                      = {x \in Placed : old.view.site[x].vm = v /\ old.view.site[x].status # "Dropped"}
      <4>1. v # 0
        BY Apart
      <4>2. \A x \in old.made : x \in Placed \ {s}
        BY <2>6, <2>7
      <4> QED BY <2>w, <2>8, <2>9, <2>10, <2>11, <2>12, <3>1, <4>1, <4>2 DEF Mine
    <3> QED BY <2>10, <2>11, <3>1, CountOf
  <2>14. /\ Cardinality(Mine(w)') = Cardinality(Mine(w)) + 1 /\ Cardinality(Mine(w)) \in Nat
         /\ Place!site_count(placer'[Pool].view, w) = Place!site_count(old.view, w) + 1
         /\ Place!site_count(old.view, w) \in Nat
    <3> DEFINE was == {x \in Placed : old.view.site[x].vm = w /\ old.view.site[x].status # "Dropped"}
               is == {x \in Placed : seen.site[x].vm = w /\ seen.site[x].status # "Dropped"}
    <3>1. is = was \cup {s} /\ s \notin was /\ was \subseteq Placed
      BY <2>w, <2>6, <2>8, <2>9, <2>12
    <3>2. Mine(w)' = Mine(w) \cup {s} /\ s \notin Mine(w) /\ Mine(w) \subseteq Placed
      <4>1. \A x \in old.made : x \in Placed \ {s}
        BY <2>6, <2>7
      <4> QED BY <2>w, <2>6, <2>8, <2>9, <2>10, <2>11, <4>1 DEF Mine
    <3>3. Cardinality(was \cup {s}) = Cardinality(was) + 1 /\ Cardinality(was) \in Nat
      BY <3>1, Counts
    <3>4. Cardinality(Mine(w) \cup {s}) = Cardinality(Mine(w)) + 1 /\ Cardinality(Mine(w)) \in Nat
      BY <3>2, Counts
    <3>5. Place!site_count(placer'[Pool].view, w) = Cardinality(is) /\ Place!site_count(old.view, w) = Cardinality(was)
      BY <2>10, <2>11, CountOf
    <3> QED BY <3>1, <3>2, <3>3, <3>4, <3>5
  <2>15. Cardinality(On(w)) \in Nat
    BY Counts DEF On
  <2>16. w \notin late' =>
           Cardinality(On(w)) + Cardinality(Mine(w)') <= Place!site_count(placer'[Pool].view, w)
    <3> SUFFICES ASSUME w \notin late'
                 PROVE  Cardinality(On(w)) + Cardinality(Mine(w)) <= Place!site_count(old.view, w)
      BY <2>14, <2>15
    <3>1. w \notin late
      BY <2>w, <2>1
    <3>2. CASE Mine(w) # {}
      BY <2>w, <2>3, <3>1, <3>2 DEF PlaceInv, Fills
    <3>3. CASE Mine(w) = {}
      BY <2>w, <2>4, <2>14, <2>15, <3>3, FS_EmptySet
    <3> QED BY <3>2, <3>3
  <2>17. Fills'
    <3>1. \A x \in goes.made :
            /\ slot[x].status = "none" /\ seen.site[x].status = "Pending"
            /\ seen.site[x].vm \in Place!Servers /\ held[seen.site[x].vm] = Pool
      <4>1. \A x \in old.made : x \in Placed \ {s}
        BY <2>6, <2>7
      <4> QED BY <2>w, <2>3, <2>6, <2>8, <2>9, <2>10, <4>1 DEF PlaceInv, Fills
    <3>2. \A x \in Placed \ goes.made : slot[x].status = "none" => seen.site[x].vm = 0
      BY <1>2, <2>9, <2>10 DEF PlaceInv, Fills
    <3>3. ASSUME NEW v \in Place!Servers, v \notin late', Mine(v)' # {}
          PROVE  Cardinality(On(v)') + Cardinality(Mine(v)') <= Place!site_count(placer'[Pool].view, v)
      <4>1. CASE v = w
        BY <1>3, <2>16, <3>3, <4>1
      <4>2. CASE v # w
        <5>1. v \notin late
          BY <2>w, <2>1, <3>3
        <5> QED BY <1>3, <2>13, <3>3, <4>2, <5>1 DEF PlaceInv, Fills
      <4> QED BY <4>1, <4>2
    <3>4. \A v : Place!site_count(placer[Pool].view, v)' = Place!site_count(placer'[Pool].view, v)
      BY CountOf
    <3> QED BY <1>2, <2>10, <2>11, <3>1, <3>2, <3>3, <3>4 DEF Fills
  <2>18. HasRoom'
    <3>1. ASSUME NEW v \in Place!Servers, v \notin late' PROVE Cardinality(On(v)') + Cardinality(Mine(v)') <= MaxSites
      <4>1. CASE v = w
        <5>1. Cardinality(On(w)) + Cardinality(Mine(w)') <= Place!site_count(old.view, w) + 1
          BY <2>14, <2>16, <3>1, <4>1
        <5> QED BY <2>w, <1>3, <2>3, <2>14, <2>15, <4>1, <5>1, PlacementConstants
      <4>2. CASE v # w
        <5>1. v \notin late
          BY <2>w, <2>1, <3>1
        <5> QED BY <1>3, <2>13, <4>2, <5>1 DEF PlaceInv, HasRoom
      <4> QED BY <4>1, <4>2
    <3> QED BY <3>1 DEF HasRoom
  <2>19. Behind(Pool)'
    BY <2>10, <2>11, Apart DEF Behind
  <2>20. late \subseteq late' /\ goes.at \notin {"idle", "claim", "done"}
    BY <2>1, <2>5, <2>10
  <2>21. PlaceInv'
    BY <1>1, <1>2, <2>1, <2>10, <2>17, <2>18, <2>19, <2>20, PlacerStep
  <2>22. Reserved'
    <3>1. Callers' = Callers
      BY <1>1, <2>11, Apart DEF Callers
    <3>2. Place!Unused' = Place!Unused \ {s}
      BY <1>2, <2>10, <2>11 DEF Place!Unused
    <3>3. Cardinality(Place!Unused \ {s}) = Cardinality(Place!Unused) - 1
      BY <2>2, Sizes, FS_RemoveElement
    <3> QED BY <1>5, <3>1, <3>2, <3>3, Sizes DEF Reserved
  <2> QED BY <2>21, <2>22
<1> QED BY <1>4, <1>5

LEMMA PlaceNext ==
    ASSUME PlaceInv, Reserved, Place!Next \/ UNCHANGED place
    PROVE  PlaceInv' /\ Reserved'
<1>1. CASE UNCHANGED place
  <2>1. \A v : Place!site_count(placer[Pool].view, v)' = Place!site_count(placer[Pool].view, v)
    BY <1>1, CountOf DEF place
  <2>2. Reserved'
    BY <1>1 DEF place, Reserved, Callers, Place!Unused
  <2>3. server' \in [Place!Servers -> Statuses]
    BY <1>1 DEF place, PlaceInv, PlaceTyped
  <2>4. UNCHANGED <<slot, held, placer, late>> /\ server' = server
    BY <1>1 DEF place
  <2>5. PlaceInv'
    BY <2>3, <2>4, ServersStep
  <2> QED BY <2>2, <2>5
<1>2. ASSUME NEW c \in Claims, Place!ClaimReads(c) \/ Place!ClaimStep(c) PROVE PlaceInv' /\ Reserved'
  BY <1>2, ClaimReadsKeeps, ClaimNewKeeps, ClaimPlacesKeeps, ClaimReadyKeeps DEF Place!ClaimStep
<1>3. CASE Place!FillReads \/ Place!FillStep
  BY <1>3, FillReadsKeeps, FillPlacesKeeps, FillSavesKeeps DEF Place!FillStep
<1>4. ASSUME NEW s \in Placed,
             Place!SetupStarts(s) \/ Place!SetupStep(s) \/ Place!SetupFails(s) \/ Place!SiteCreated(s) \/ Place!SiteDropped(s)
      PROVE  PlaceInv' /\ Reserved'
  BY <1>4, SetupStartsKeeps, SetupPicksKeeps, SetupSavesKeeps, SetupFailsKeeps, SiteMovesKeeps DEF Place!SetupStep
<1>5. ASSUME NEW p \in Place!Placers, Place!LockNext(p) \/ Place!PlacerDies(p) PROVE PlaceInv' /\ Reserved'
  BY <1>5, LockNextKeeps, PlacerDiesKeeps
<1>6. CASE \/ Place!CapacityReads \/ Place!CapacityAdds \/ Place!CapacityFails
           \/ \E v \in Place!Servers : Place!ServerReady(v) \/ Place!ServerOut(v)
  BY <1>6, ServersKeep
<1> QED
  BY <1>1, <1>2, <1>3, <1>4, <1>5, <1>6 DEF Place!Next

LEMMA PlaceGoal == PlaceInv => ServersNotOverfull
<1> SUFFICES ASSUME PlaceInv, NEW v \in Place!Servers, v \notin late PROVE Place!free_slots(Place!Now, v) >= 0
  BY DEF ServersNotOverfull, Place!ServersNotOverfull
<1>1. Cardinality(On(v)) + Cardinality(Mine(v)) <= MaxSites
  BY DEF PlaceInv, HasRoom
<1>2. placer[Pool].made \subseteq Placed
  BY Apart DEF PlaceInv, PlaceTyped, Placing
<1>3. On(v) \subseteq Placed /\ Mine(v) \subseteq Placed
  BY <1>2 DEF On, Mine
<1>4. Cardinality(On(v)) \in Nat /\ Cardinality(Mine(v)) \in Nat
  BY <1>3, Counts
<1> QED BY <1>1, <1>4, CountNow, PlacementConstants DEF Place!free_slots

LEMMA ReservedInit == Place!Init => Reserved
<1> SUFFICES ASSUME Place!Init PROVE Reserved
  OBVIOUS
<1>1. \A c \in Claims : placer[c].at = "idle"
  BY Apart DEF Place!Init, Place!Idle
<1>2. Callers = {}
  BY <1>1 DEF Callers
<1> QED BY <1>2, Sizes, FS_EmptySet DEF Reserved

\* For any number of sites, claims, servers and slots: while claims, the hourly pool job, setup jobs and
\* drops place sites at once, in any order of locks, commits and dying workers, no server gets more sites
\* than max_sites, except where a claim or the pool placed with a count that was out of date
\* (pick_virtual_machine).
THEOREM ServersKeepTheirLimit == MCSpec => []ServersNotOverfull
<1>1. MCInit => PlaceInv /\ Reserved
  BY PlaceInit, ReservedInit DEF MCInit
<1>2. PlaceInv /\ Reserved /\ [MCNext]_<<part, vars, signup, place>> => PlaceInv' /\ Reserved'
  <2>1. [MCNext]_<<part, vars, signup, place>> => Place!Next \/ UNCHANGED place
    BY DEF MCNext
  <2> QED BY <2>1, PlaceNext
<1> QED BY <1>1, <1>2, PlaceGoal, PTL DEF MCSpec

----------------------------------------------------------------------------
(* Signups *)

\* A job reserves and claims only for a signup without a site; a row with a site is committed and has not failed.
SignupInv ==
    /\ req \in [Requests -> Signup!Row] /\ job \in [Requests -> Signup!Job]
    /\ \A r \in Requests : req[r].site =>
         job[r].at \notin {"reserve", "claim"} /\ req[r].status \notin {"Absent", "Draft", "Failed"}

LEMMA SignupInit == Signup!Init => SignupInv
<1> SUFFICES ASSUME Signup!Init PROVE SignupInv
  OBVIOUS
<1>1. Signup!NoRow \in Signup!Row /\ ~Signup!NoRow.site
  BY DEF Signup!NoRow, Signup!Row, Signup!Status
<1>2. Signup!NoJob \in Signup!Job
  BY DEF Signup!NoJob, Signup!Job, Signup!Snapshot
<1> QED BY <1>1, <1>2 DEF SignupInv, Signup!Init

\* A step that writes one row and its job at most.
LEMMA RowStep ==
    ASSUME SignupInv, NEW r \in Requests, NEW row \in Signup!Row, req' = [req EXCEPT ![r] = row],
           NEW j \in Signup!Job, job' = [job EXCEPT ![r] = j],
           row.site => j.at \notin {"reserve", "claim"} /\ row.status \notin {"Absent", "Draft", "Failed"},
           req[r].site => row.status # "Failed" /\ row.label = req[r].label
    PROVE  SignupInv' /\ Signup!LeavesItToItsSite
  BY DEF SignupInv, Signup!LeavesItToItsSite

LEMMA SameRows ==
    ASSUME SignupInv, UNCHANGED <<req, job>>
    PROVE  SignupInv' /\ Signup!LeavesItToItsSite
  BY DEF SignupInv, Signup!LeavesItToItsSite

LEMMA EnqueueJob ==
    ASSUME SignupInv, NEW r \in Requests, NEW lost, Signup!Enqueue(r, lost)
    PROVE  \E j \in Signup!Job : job' = [job EXCEPT ![r] = j] /\ (j = job[r] \/ j.at = "queued")
<1> DEFINE new == [Signup!NoJob EXCEPT !.at = "queued"]
<1>1. new \in Signup!Job /\ new.at = "queued"
  BY DEF Signup!NoJob, Signup!Job, Signup!Snapshot
<1>2. job \in [Requests -> Signup!Job] /\ job = [job EXCEPT ![r] = job[r]]
  BY DEF SignupInv
<1>3. job' = [job EXCEPT ![r] = new] \/ job' = job
  BY DEF Signup!Enqueue
<1> QED BY <1>1, <1>2, <1>3

\* generate_label returns a label when one is free.
LEMMA LabelIsOne ==
    ASSUME NEW taken, Signup!Labels \ taken # {}
    PROVE  Signup!GenerateLabel(taken) \in Signup!Labels
<1>1. Signup!Labels \ taken \subseteq Nat
  BY DEF Signup!Labels
<1>2. \E l \in Signup!Labels \ taken : \A m \in Signup!Labels \ taken : l <= m
  BY <1>1, Least
<1> QED BY <1>2 DEF Signup!GenerateLabel

LEMMA RowsOnly ==
    ASSUME SignupInv, NEW r \in Requests, NEW row \in Signup!Row, req' = [req EXCEPT ![r] = row],
           NEW lost, UNCHANGED job \/ Signup!Enqueue(r, lost),
           row.site => req[r].site /\ row.status \notin {"Absent", "Draft", "Failed"},
           req[r].site => row.status # "Failed" /\ row.label = req[r].label
    PROVE  SignupInv' /\ Signup!LeavesItToItsSite
<1>1. job \in [Requests -> Signup!Job] /\ job = [job EXCEPT ![r] = job[r]]
  BY DEF SignupInv
<1>2. PICK j \in Signup!Job : job' = [job EXCEPT ![r] = j] /\ (j = job[r] \/ j.at = "queued")
  BY <1>1, EnqueueJob
<1>3. row.site => j.at \notin {"reserve", "claim"}
  BY <1>2 DEF SignupInv
<1> QED BY <1>2, <1>3, RowStep

LEMMA InsertLeaves ==
    ASSUME SignupInv, NEW r \in Requests, NEW given \in Signup!Labels \cup {None}, NEW lost,
           Signup!Validate(r, given) \/ Signup!InsertSignup(r) \/ Signup!InsertByOperator(r, lost) \/ Signup!InsertFails(r)
    PROVE  SignupInv' /\ Signup!LeavesItToItsSite
<1>1. req \in [Requests -> Signup!Row] /\ req[r] \in Signup!Row /\ ~req[r].site
  BY DEF SignupInv, Signup!Validate, Signup!InsertSignup, Signup!InsertByOperator, Signup!InsertFails
<1>2. UNCHANGED job \/ Signup!Enqueue(r, lost)
  BY DEF Signup!Validate, Signup!InsertSignup, Signup!InsertByOperator, Signup!InsertFails
<1>3. \E row \in Signup!Row : req' = [req EXCEPT ![r] = row] /\ ~row.site
  <2> DEFINE a == [req[r] EXCEPT !.status = "Draft", !.label = given]
             b == [req[r] EXCEPT !.status = "Pending"]
             c == [req[r] EXCEPT !.status = "Verified"]
  <2>1. a \in Signup!Row /\ ~a.site /\ b \in Signup!Row /\ ~b.site /\ c \in Signup!Row /\ ~c.site
    BY <1>1 DEF Signup!Row, Signup!Status
  <2>2. Signup!NoRow \in Signup!Row /\ ~Signup!NoRow.site
    BY DEF Signup!NoRow, Signup!Row, Signup!Status
  <2>3. \/ req' = [req EXCEPT ![r] = a] \/ req' = [req EXCEPT ![r] = b] \/ req' = [req EXCEPT ![r] = c]
        \/ req' = [req EXCEPT ![r] = Signup!NoRow]
    BY <1>1 DEF Signup!Validate, Signup!InsertSignup, Signup!InsertByOperator, Signup!InsertFails
  <2> HIDE DEF a, b, c
  <2> QED BY <2>1, <2>2, <2>3
<1> QED BY <1>1, <1>2, <1>3, RowsOnly

\* A status other than Failed is written over the row of a signup, whatever it has become.
LEMMA StatusLeaves ==
    ASSUME SignupInv, NEW r \in Requests, NEW st \in {"Verified", "Expired", "Completed"},
           req' = [req EXCEPT ![r].status = st], NEW lost, UNCHANGED job \/ Signup!Enqueue(r, lost)
    PROVE  SignupInv' /\ Signup!LeavesItToItsSite
<1> DEFINE a == [req[r] EXCEPT !.status = st]
<1>1. req \in [Requests -> Signup!Row] /\ req[r] \in Signup!Row
  BY DEF SignupInv
<1>2. a \in Signup!Row /\ a.site = req[r].site /\ a.label = req[r].label /\ a.status = st
  BY <1>1 DEF Signup!Row, Signup!Status
<1>3. req' = [req EXCEPT ![r] = a]
  BY <1>1
<1> HIDE DEF a
<1> QED BY <1>2, <1>3, RowsOnly

LEMMA JobLeaves ==
    ASSUME SignupInv, NEW r \in Requests,
           Signup!JobStart(r) \/ Signup!JobStep(r) \/ Signup!JobDies(r) \/ Signup!JobExit(r) \/ Signup!ResumeRequests(r)
    PROVE  SignupInv' /\ Signup!LeavesItToItsSite
<1>1. req \in [Requests -> Signup!Row] /\ req[r] \in Signup!Row /\ job \in [Requests -> Signup!Job] /\ job[r] \in Signup!Job
      /\ req = [req EXCEPT ![r] = req[r]]
  BY DEF SignupInv
<1>2. req[r].site => req[r].status \notin {"Absent", "Draft", "Failed"} /\ job[r].at \notin {"reserve", "claim"}
  BY DEF SignupInv
<1>3. Signup!NoJob \in Signup!Job /\ Signup!NoJob.at = "none"
  BY DEF Signup!NoJob, Signup!Job, Signup!Snapshot
<1> DEFINE over == [Signup!NoJob EXCEPT !.at = "exit"]
<1>4. over \in Signup!Job /\ over.at = "exit"
  BY DEF Signup!NoJob, Signup!Job, Signup!Snapshot
<1>5. Signup!JobReturns(r) => job' = [job EXCEPT ![r] = over]
  BY DEF Signup!JobReturns
<1> HIDE DEF over
<1>6. CASE Signup!JobStart(r)
  <2> DEFINE j == [job[r] EXCEPT !.at = "begin"]
  <2>1. j \in Signup!Job /\ j.at = "begin"
    BY <1>1 DEF Signup!Job
  <2>2. job' = [job EXCEPT ![r] = j] /\ req' = req
    BY <1>1, <1>6 DEF Signup!JobStart
  <2> HIDE DEF j
  <2> QED BY <1>1, <1>2, <2>1, <2>2, RowStep
<1>7. CASE Signup!JobBegin(r)
  <2>1. ~req[r].site /\ req' = req
    BY <1>7 DEF Signup!JobBegin, Signup!HasWork
  <2>2. PICK open, busy : job' = [job EXCEPT ![r] = [at |-> "reserve", seen |-> [open |-> open, processing |-> busy]]]
                          /\ open = Signup!Taken(r, Signup!OpenStatuses) /\ busy = Signup!Taken(r, {"Processing"})
    BY <1>7 DEF Signup!JobBegin
  <2>3. \A S : Signup!Taken(r, S) \subseteq Signup!Labels
    <3>1. \A q \in Requests : req[q].label \in Signup!Labels \cup {None}
      BY <1>1 DEF Signup!Row
    <3> QED BY <3>1 DEF Signup!Taken, Signup!SiteLabels
  <2>4. [at |-> "reserve", seen |-> [open |-> open, processing |-> busy]] \in Signup!Job
    BY <2>2, <2>3 DEF Signup!Job, Signup!Snapshot
  <2> QED BY <1>1, <2>1, <2>2, <2>4, RowStep
<1>8. CASE Signup!JobNothingToDo(r) \/ Signup!JobDies(r)
  <2>1. job' = [job EXCEPT ![r] = over] /\ req' = req
    BY <1>5, <1>8 DEF Signup!JobNothingToDo, Signup!JobDies
  <2> QED BY <1>1, <1>2, <1>4, <2>1, RowStep
<1>9. CASE Signup!ReserveOwn(r) \/ Signup!ReserveGenerated(r)
  <2>1. PICK l \in Signup!Labels : Signup!Reserve(r, l)
    BY <1>1, <1>9, LabelIsOne DEF Signup!ReserveOwn, Signup!ReserveGenerated, Signup!Row
  <2> DEFINE row == [req[r] EXCEPT !.label = l, !.status = "Processing"]
             j == [job[r] EXCEPT !.at = "claim"]
  <2>2. req' = [req EXCEPT ![r] = row] /\ job' = [job EXCEPT ![r] = j] /\ ~req[r].site
    BY <1>1, <1>2, <2>1 DEF Signup!Reserve
  <2>3. row \in Signup!Row /\ ~row.site /\ j \in Signup!Job
    BY <1>1, <2>2 DEF Signup!Row, Signup!Status, Signup!Job
  <2> HIDE DEF row, j
  <2> QED BY <2>2, <2>3, RowStep
<1>10. CASE Signup!JobClaim(r)
  <2> DEFINE row == [req[r] EXCEPT !.status = "Processing", !.site = TRUE]
  <2>1. req' = [req EXCEPT ![r] = row] /\ job' = [job EXCEPT ![r] = over] /\ ~req[r].site
    BY <1>1, <1>2, <1>5, <1>10 DEF Signup!JobClaim
  <2>2. row \in Signup!Row /\ row.status = "Processing"
    BY <1>1 DEF Signup!Row, Signup!Status
  <2> HIDE DEF row
  <2> QED BY <1>4, <2>1, <2>2, RowStep
<1>11. CASE Signup!JobFails(r)
  <2> DEFINE row == [req[r] EXCEPT !.status = "Failed"]
  <2>1. req' = [req EXCEPT ![r] = row] /\ job' = [job EXCEPT ![r] = over] /\ ~req[r].site
    BY <1>1, <1>2, <1>5, <1>11 DEF Signup!JobFails
  <2>2. row \in Signup!Row /\ row.site = req[r].site
    BY <1>1 DEF Signup!Row, Signup!Status
  <2> HIDE DEF row
  <2> QED BY <1>4, <2>1, <2>2, RowStep
<1>12. CASE Signup!JobExit(r)
  <2>1. job' = [job EXCEPT ![r] = Signup!NoJob] /\ req' = req
    BY <1>12 DEF Signup!JobExit
  <2> QED BY <1>1, <1>2, <1>3, <2>1, RowStep
<1>13. CASE Signup!ResumeRequests(r)
  <2>1. Signup!Enqueue(r, FALSE) /\ req' = req
    BY <1>13 DEF Signup!ResumeRequests
  <2> QED BY <1>1, <1>2, <2>1, RowsOnly
<1> QED
  BY <1>6, <1>7, <1>8, <1>9, <1>10, <1>11, <1>12, <1>13 DEF Signup!JobStep

LEMMA SignupNext ==
    ASSUME SignupInv, Signup!Next \/ UNCHANGED signup
    PROVE  SignupInv' /\ Signup!LeavesItToItsSite
<1>1. CASE UNCHANGED signup
  BY <1>1, SameRows DEF signup
<1>2. ASSUME NEW r \in Requests, NEW given \in Signup!Labels \cup {None}, NEW lost,
             Signup!Validate(r, given) \/ Signup!InsertSignup(r) \/ Signup!InsertByOperator(r, lost) \/ Signup!InsertFails(r)
      PROVE  SignupInv' /\ Signup!LeavesItToItsSite
  BY <1>2, InsertLeaves
<1>3. CASE \/ \E c \in Calls : Signup!VerifyWrong(c) \/ \E r \in Requests : Signup!VerifyReads(c, r)
           \/ \E r \in Requests : Signup!CodeExpires(r) \/ Signup!Overdue(r)
           \/ Signup!ExpireReads
           \/ \E o \in Retryers, r \in Requests : Signup!RetryReads(o, r)
  <2>1. UNCHANGED <<req, job>>
    BY <1>3 DEF Signup!VerifyWrong, Signup!VerifyReads, Signup!CodeExpires, Signup!Overdue, Signup!ExpireReads, Signup!RetryReads
  <2> QED BY <2>1, SameRows
<1>4. ASSUME NEW r, NEW lost, req' = [req EXCEPT ![r].status = "Verified"], Signup!Enqueue(r, lost)
      PROVE  SignupInv' /\ Signup!LeavesItToItsSite
  <2>1. CASE r \in Requests
    BY <1>4, <2>1, StatusLeaves
  <2>2. CASE r \notin Requests
    <3>1. DOMAIN req = Requests /\ DOMAIN job = Requests /\ req \in [Requests -> Signup!Row] /\ job \in [Requests -> Signup!Job]
      BY DEF SignupInv
    <3>2. req' = req
      BY <1>4, <2>2, <3>1
    <3>3. job' = job
      BY <1>4, <2>2, <3>1 DEF Signup!Enqueue
    <3> QED BY <3>2, <3>3, SameRows
  <2> QED BY <2>1, <2>2
<1>5. ASSUME NEW c \in Calls, NEW lost, Signup!VerifyRight(c, lost) PROVE SignupInv' /\ Signup!LeavesItToItsSite
  BY <1>4, <1>5 DEF Signup!VerifyRight
<1>6. ASSUME NEW o \in Retryers, NEW lost, Signup!RetryWrites(o, lost) PROVE SignupInv' /\ Signup!LeavesItToItsSite
  BY <1>4, <1>6 DEF Signup!RetryWrites
<1>7. ASSUME NEW r \in Requests, Signup!ExpireWrites(r) \/ Signup!Complete(r) PROVE SignupInv' /\ Signup!LeavesItToItsSite
  <2>1. job' = job /\ \E st \in {"Expired", "Completed"} : req' = [req EXCEPT ![r].status = st]
    BY <1>7 DEF Signup!ExpireWrites, Signup!Complete
  <2> QED BY <2>1, StatusLeaves
<1>8. ASSUME NEW r \in Requests,
             Signup!JobStart(r) \/ Signup!JobStep(r) \/ Signup!JobDies(r) \/ Signup!JobExit(r) \/ Signup!ResumeRequests(r)
      PROVE  SignupInv' /\ Signup!LeavesItToItsSite
  BY <1>8, JobLeaves
<1> QED
  BY <1>1, <1>2, <1>3, <1>5, <1>6, <1>7, <1>8 DEF Signup!Next

\* For any number of requests, labels, calls, operators and deaths: whatever confirms, resumes, retries or
\* restarts the processing of a signup, once it has its site it neither fails nor gets another label
\* (process_request, "or doc.suite_site").
THEOREM SiteIsTheEnd == MCSpec => SiteEndsProcessing
<1>1. MCInit => SignupInv
  BY SignupInit DEF MCInit
<1>2. SignupInv /\ [MCNext]_<<part, vars, signup, place>> => SignupInv' /\ Signup!LeavesItToItsSite
  <2>1. [MCNext]_<<part, vars, signup, place>> => Signup!Next \/ UNCHANGED signup
    BY DEF MCNext
  <2> QED BY <2>1, SignupNext
<1>3. SignupInv /\ [MCNext]_<<part, vars, signup, place>> => [Signup!LeavesItToItsSite]_signup
  BY <1>2
<1> QED BY <1>1, <1>2, <1>3, PTL DEF MCSpec, SiteEndsProcessing
============================================================================
