------------------------ MODULE VirtualMachinesProofs ------------------------
(***************************************************************************)
(* The types of VirtualMachines, that the daily sync ends only servers     *)
(* Central no longer has and that a ready server is set up, for any number *)
(* of servers, zones, operators and deaths.                                *)
(*                                                                         *)
(* EndedIsGone is not inductive: the sync writes what it read before, and  *)
(* a Retry writes back the status it read.  It holds because what either   *)
(* read stays true (Sees, Recall): a server that is gone does not come    *)
(* back, a row keeps its server, and a creation that Central accepted      *)
(* stays accepted, so that a registry without an accepted server means it  *)
(* is gone.  ReadyIsSetUp needs that a region keeps its zone and that no   *)
(* install task runs where the app is (Central).                           *)
(***************************************************************************)
EXTENDS VirtualMachines, TLAPS

\* NULL is no name, the refreshes are with and without the missing servers, the bound is a number.
MachineConstants ==
    None \notin Machines /\ None \notin Zones /\ Refreshes \subseteq BOOLEAN /\ MaxDeaths \in Nat

----------------------------------------------------------------------------
(* The inductive invariant *)

\* A creation has a server once it is accepted, and no task installs an app that is there.
Central ==
    \A a \in Machines :
        /\ server[a] # "none" <=> creation[a] = "accepted"
        /\ pilot[a].task = "running" => ~pilot[a].app

HasServer(v) == vm[v].resource \in Machines /\ creation[vm[v].resource] = "accepted"

IsGone(v) == HasServer(v) /\ server[vm[v].resource] = "gone"

\* What the columns of a row say of Central and of Pilot.
RowTrue(v) ==
    /\ vm[v].resource # None => HasServer(v)
    /\ vm[v].status = "Terminated" => IsGone(v)
    /\ vm[v].verified => HasServer(v) /\ pilot[vm[v].resource].zone = proxy
    /\ vm[v].app = "Installed" => HasServer(v) /\ pilot[vm[v].resource].app

\* The job is past create, and past accept.
JobTrue(v) ==
    /\ job[v].at = "accept" => vm[v].action # None
    /\ job[v].at \in {"boot", "verify", "install", "wait"} => HasServer(v)

\* What the refresh has read.
Sees ==
    \A v \in refresh.todo :
        /\ HasServer(v)
        /\ refresh.at = "write" => refresh.registry[v] # "none"
        /\ refresh.at = "write" /\ refresh.registry[v] = "gone" => IsGone(v)

\* What a Retry has read.
Recall(o) ==
    /\ op[o] = NoOp \/ op[o].machine \in Machines
    /\ \A v \in Machines : op[o].machine = v /\ op[o].status = "Terminated" => IsGone(v)

MachineInv ==
    /\ MachineConstants
    /\ TypeOK
    /\ Central
    /\ \A v \in Machines : RowTrue(v) /\ JobTrue(v)
    /\ Sees
    /\ \A o \in Operators : Recall(o)

----------------------------------------------------------------------------
(* What no step undoes *)

Grows ==
    /\ proxy # None => proxy' = proxy
    /\ \A a \in Machines :
         /\ creation[a] = "accepted" => creation'[a] = "accepted"
         /\ server[a] = "gone" => server'[a] = "gone"
         /\ pilot'[a].zone = pilot[a].zone
         /\ pilot[a].app => pilot'[a].app
    /\ \A v \in Machines :
         /\ vm[v].resource # None => vm'[v].resource = vm[v].resource
         /\ vm[v].action # None => vm'[v].action # None

LEMMA Typed == TypeOK =>
    \A v \in Machines :
        /\ vm[v] \in Row /\ vm[v].resource \in Machines \cup {None} /\ vm[v].action \in Machines \cup {None}
        /\ job[v].at \in JobStep
        /\ creation[v] \in {"none", "pending", "accepted", "failed"}
        /\ server[v] \in ServerStatus
        /\ pilot[v].zone \in Zones /\ pilot[v].app \in BOOLEAN
BY DEF TypeOK, Row

LEMMA ServerStays ==
    ASSUME MachineInv, Grows, NEW v \in Machines
    PROVE  /\ HasServer(v) => HasServer(v)' /\ vm'[v].resource = vm[v].resource
           /\ IsGone(v) => IsGone(v)'
BY Typed DEF MachineInv, MachineConstants, Grows, HasServer, IsGone

LEMMA RowStays ==
    ASSUME MachineInv, Grows, NEW v \in Machines, vm'[v] = vm[v]
    PROVE  RowTrue(v)'
<1>1. RowTrue(v) /\ (HasServer(v) => HasServer(v)') /\ (IsGone(v) => IsGone(v)')
  BY ServerStays DEF MachineInv
<1>2. ASSUME vm[v].verified, HasServer(v), pilot[vm[v].resource].zone = proxy
      PROVE  pilot'[vm[v].resource].zone = proxy'
  BY <1>2, Typed DEF MachineInv, MachineConstants, Grows, HasServer
<1>3. ASSUME HasServer(v), pilot[vm[v].resource].app
      PROVE  pilot'[vm[v].resource].app
  BY <1>3 DEF Grows, HasServer
<1> QED BY <1>1, <1>2, <1>3 DEF RowTrue

LEMMA JobStays ==
    ASSUME MachineInv, Grows, NEW v \in Machines, job'[v] = job[v]
    PROVE  JobTrue(v)'
<1>1. JobTrue(v) /\ (HasServer(v) => HasServer(v)')
  BY ServerStays DEF MachineInv
<1> QED BY <1>1, Typed DEF JobTrue, Grows, MachineInv, MachineConstants

LEMMA SeenStays ==
    ASSUME MachineInv, Grows, refresh' = refresh
    PROVE  Sees'
<1> SUFFICES ASSUME NEW v \in refresh.todo
             PROVE  /\ HasServer(v)'
                    /\ refresh.at = "write" => refresh.registry[v] # "none"
                    /\ refresh.at = "write" /\ refresh.registry[v] = "gone" => IsGone(v)'
  BY DEF Sees
<1>1. v \in Machines
  BY DEF MachineInv, TypeOK
<1>2. (HasServer(v) => HasServer(v)') /\ (IsGone(v) => IsGone(v)')
  BY <1>1, ServerStays
<1> QED BY <1>2 DEF MachineInv, Sees

LEMMA RecallStays ==
    ASSUME MachineInv, Grows, NEW o \in Operators, op'[o] = op[o] \/ op'[o] = NoOp
    PROVE  Recall(o)'
<1>1. CASE op'[o] = NoOp
  <2>1. NoOp.status # "Terminated"
    BY DEF NoOp
  <2> QED BY <1>1, <2>1 DEF Recall
<1>2. CASE op'[o] = op[o]
  <2>1. Recall(o)
    BY DEF MachineInv
  <2>2. \A v \in Machines : IsGone(v) => IsGone(v)'
    BY ServerStays
  <2> QED BY <1>2, <2>1, <2>2 DEF Recall
<1> QED BY <1>1, <1>2

\* A step on one machine: the rest follows from what it grows.
LEMMA StepOnOne ==
    ASSUME MachineInv, TypeOK', Grows, Central', refresh' = refresh, op' = op,
           NEW v \in Machines, RowTrue(v)', JobTrue(v)',
           \A w \in Machines \ {v} : vm'[w] = vm[w] /\ job'[w] = job[w]
    PROVE  MachineInv'
<1>1. \A w \in Machines : RowTrue(w)' /\ JobTrue(w)'
  BY RowStays, JobStays
<1>2. MachineConstants'
  BY DEF MachineInv, MachineConstants
<1> QED BY <1>1, <1>2, SeenStays, RecallStays DEF MachineInv

----------------------------------------------------------------------------
(* The setup job *)

Rows == [Machines -> Row]
JobState == [Machines -> [at: JobStep, seen: SUBSET Machines]]

LEMMA JobMoves ==
    ASSUME TypeOK, NEW v \in Machines, NEW step \in JobStep,
           job' = [job EXCEPT ![v] = [NoJob EXCEPT !.at = step]], lock' = lock \ {v}
    PROVE  /\ job' \in JobState /\ lock' \subseteq Machines
           /\ job'[v].at = step
           /\ \A w \in Machines \ {v} : job'[w] = job[w]
<1>1. [NoJob EXCEPT !.at = step] \in [at: JobStep, seen: SUBSET Machines] /\ [NoJob EXCEPT !.at = step].at = step
  BY DEF NoJob
<1> QED BY <1>1 DEF TypeOK, JobState

LEMMA JobReturned ==
    ASSUME TypeOK, NEW v \in Machines, JobReturns(v)
    PROVE  /\ job' \in JobState /\ lock' \subseteq Machines
           /\ job'[v].at = "exit"
           /\ \A w \in Machines \ {v} : job'[w] = job[w]
BY JobMoves DEF JobReturns, JobStep

LEMMA JobWentOn ==
    ASSUME TypeOK, NEW v \in Machines, NEW step \in JobStep, JobGoesOn(v, step)
    PROVE  /\ job' \in JobState /\ lock' \subseteq Machines
           /\ job'[v].at = step
           /\ \A w \in Machines \ {v} : job'[w] = job[w]
BY JobMoves DEF JobGoesOn

LEMMA Wrote ==
    ASSUME TypeOK, NEW v \in Machines, NEW r \in Row, Writes(v, r)
    PROVE  vm' \in Rows /\ vm'[v] = r /\ \A w \in Machines \ {v} : vm'[w] = vm[w]
BY DEF TypeOK, Writes, Rows

\* A step that writes at most one row and its job, and asks nothing of Central or Pilot.
LEMMA RowStep ==
    ASSUME MachineInv, NEW v \in Machines,
           vm' \in Rows, job' \in JobState, lock' \subseteq Machines, deaths' \in 0 .. MaxDeaths,
           UNCHANGED <<proxy, refresh, op, external>>,
           \A w \in Machines \ {v} : vm'[w] = vm[w] /\ job'[w] = job[w],
           vm[v].resource # None => vm'[v].resource = vm[v].resource,
           vm[v].action # None => vm'[v].action # None,
           RowTrue(v)', JobTrue(v)'
    PROVE  MachineInv'
<1>1. TypeOK'
  BY DEF MachineInv, TypeOK, external, Rows, JobState
<1>2. Grows
  BY DEF Grows, external
<1>3. Central'
  BY DEF MachineInv, Central, external
<1> QED BY <1>1, <1>2, <1>3, StepOnOne

\* The row says no more than it said.
LEMMA SaysNoMore ==
    ASSUME MachineInv, NEW v \in Machines, UNCHANGED <<proxy, external>>,
           vm'[v].resource = vm[v].resource,
           vm'[v].status = "Terminated" => vm[v].status = "Terminated",
           vm'[v].verified => vm[v].verified,
           vm'[v].app = "Installed" => vm[v].app = "Installed"
    PROVE  RowTrue(v)'
<1>1. RowTrue(v)
  BY DEF MachineInv
<1> QED BY <1>1 DEF RowTrue, HasServer, IsGone, external

\* A step of the job that writes no row.
LEMMA JobMovesOn ==
    ASSUME MachineInv, NEW v \in Machines, job' \in JobState, lock' \subseteq Machines,
           deaths' \in 0 .. MaxDeaths, UNCHANGED <<vm, proxy, refresh, op, external>>,
           \A w \in Machines \ {v} : job'[w] = job[w], JobTrue(v)'
    PROVE  MachineInv'
<1>1. vm' \in Rows
  BY DEF MachineInv, TypeOK, Rows
<1>2. RowTrue(v)'
  BY SaysNoMore
<1> QED BY <1>1, <1>2, RowStep

LEMMA Counted == MachineInv => deaths \in 0 .. MaxDeaths /\ (deaths < MaxDeaths => deaths + 1 \in 0 .. MaxDeaths)
BY DEF MachineInv, MachineConstants, TypeOK

LEMMA JobOnlyKeeps ==
    ASSUME MachineInv, NEW v \in Machines,
           JobStart(v) \/ JobStops(v) \/ StepWaits(v) \/ JobDies(v)
    PROVE  MachineInv'
<1>1. TypeOK /\ deaths' \in 0 .. MaxDeaths
  BY Counted DEF MachineInv, JobStart, JobStops, StepWaits, JobDies
<1>2. CASE JobStart(v)
  <2>1. "create" \in JobStep /\ JobGoesOn(v, "create")
    BY <1>2 DEF JobStart, JobStep
  <2> QED BY <1>1, <1>2, <2>1, JobWentOn, JobMovesOn DEF JobStart, JobTrue
<1>3. CASE JobStops(v) \/ StepWaits(v) \/ JobDies(v)
  <2>1. JobReturns(v) /\ UNCHANGED <<vm, proxy, refresh, op, external>>
    BY <1>3 DEF JobStops, StepWaits, JobDies
  <2> QED BY <1>1, <2>1, JobReturned, JobMovesOn DEF JobTrue
<1> QED BY <1>2, <1>3

LEMMA JobExitKeeps ==
    ASSUME MachineInv, NEW v \in Machines, JobExit(v)
    PROVE  MachineInv'
<1>1. job' \in JobState /\ job'[v].at = "none" /\ \A w \in Machines \ {v} : job'[w] = job[w]
  BY DEF MachineInv, TypeOK, JobExit, NoJob, JobState, JobStep
<1>2. lock' \subseteq Machines /\ deaths' \in 0 .. MaxDeaths
  BY DEF MachineInv, TypeOK, JobExit
<1> QED BY <1>1, <1>2, JobMovesOn DEF JobExit, JobTrue

LEMMA StepDoneKeeps ==
    ASSUME MachineInv, NEW v \in Machines, StepDone(v)
    PROVE  MachineInv'
<1>1. PICK step \in {"accept", "boot", "verify", "install", "exit"} :
        /\ JobGoesOn(v, step)
        /\ step = "accept" => vm[v].action # None
        /\ step = "boot" => vm[v].resource # None
        /\ step \in {"verify", "install"} => job[v].at \in {"boot", "verify"}
  <2>1. PICK pair \in {<<"create", "accept">>, <<"accept", "boot">>, <<"boot", "verify">>,
                       <<"verify", "install">>, <<"install", "exit">>} :
          /\ job[v].at = pair[1]
          /\ pair[1] = "create" => vm[v].action # None
          /\ pair[1] = "accept" => vm[v].resource # None
          /\ JobGoesOn(v, pair[2])
    BY DEF StepDone, At
  <2>2. pair[2] \in {"accept", "boot", "verify", "install", "exit"}
    BY <2>1
  <2>3. /\ pair[2] = "accept" => pair[1] = "create"
        /\ pair[2] = "boot" => pair[1] = "accept"
        /\ pair[2] \in {"verify", "install"} => pair[1] \in {"boot", "verify"}
    BY <2>1
  <2> QED BY <2>1, <2>2, <2>3
<1>2. step \in JobStep /\ TypeOK /\ RowTrue(v) /\ JobTrue(v) /\ deaths' \in 0 .. MaxDeaths
  BY Counted DEF JobStep, MachineInv, StepDone
<1>3. UNCHANGED <<vm, proxy, refresh, op, external>>
  BY DEF StepDone
<1>4. job' \in JobState /\ lock' \subseteq Machines /\ job'[v].at = step /\ \A w \in Machines \ {v} : job'[w] = job[w]
  BY <1>1, <1>2, JobWentOn
<1>5. JobTrue(v)'
  BY <1>1, <1>2, <1>3, <1>4 DEF JobTrue, RowTrue, HasServer, external
<1> QED BY <1>2, <1>3, <1>4, <1>5, JobMovesOn

LEMMA EnqueuedJob ==
    ASSUME TypeOK, NEW v \in Machines
    PROVE  /\ Enqueued(v) \in [at: JobStep, seen: SUBSET Machines]
           /\ Enqueued(v) = job[v] \/ Enqueued(v).at = "queued"
BY DEF TypeOK, Enqueued, NoJob, JobStep

LEMMA EnqueuesKeeps ==
    ASSUME MachineInv, NEW v \in Machines, job' = [job EXCEPT ![v] = Enqueued(v)]
    PROVE  /\ job' \in JobState
           /\ job'[v] = job[v] \/ job'[v].at = "queued"
           /\ \A w \in Machines \ {v} : job'[w] = job[w]
BY EnqueuedJob DEF MachineInv, TypeOK, JobState

\* A row is written that keeps its creation and its server and says no more than it said, and the
\* job is queued, goes on as before or ends.
LEMMA PlainWrite ==
    ASSUME MachineInv, NEW v \in Machines, NEW r \in Row, Writes(v, r),
           r.resource = vm[v].resource, r.action = vm[v].action,
           r.status = "Terminated" => vm[v].status = "Terminated",
           r.verified => vm[v].verified,
           r.app = "Installed" => vm[v].app = "Installed",
           job' \in JobState, lock' \subseteq Machines, deaths' \in 0 .. MaxDeaths,
           UNCHANGED <<proxy, refresh, op, external>>,
           \A w \in Machines \ {v} : job'[w] = job[w],
           job'[v] = job[v] \/ job'[v].at \in {"queued", "exit"}
    PROVE  MachineInv'
<1>1. vm' \in Rows /\ vm'[v] = r /\ \A w \in Machines \ {v} : vm'[w] = vm[w]
  BY Wrote DEF MachineInv
<1>2. RowTrue(v)'
  BY <1>1, SaysNoMore
<1>3. JobTrue(v)'
  <2>1. JobTrue(v)
    BY DEF MachineInv
  <2> QED BY <1>1, <2>1 DEF JobTrue, HasServer, external
<1> QED BY <1>1, <1>2, <1>3, RowStep

LEMMA RowErrors ==
    ASSUME TypeOK, NEW v \in Machines, NEW e \in BOOLEAN
    PROVE  LET r == [vm[v] EXCEPT !.error = e]
               f == [vm[v] EXCEPT !.status = "Failed", !.error = TRUE]
           IN /\ r \in Row /\ r.resource = vm[v].resource /\ r.action = vm[v].action
              /\ r.status = vm[v].status /\ r.verified = vm[v].verified /\ r.app = vm[v].app
              /\ f \in Row /\ f.resource = vm[v].resource /\ f.action = vm[v].action
              /\ f.status = "Failed" /\ f.verified = vm[v].verified /\ f.app = vm[v].app
<1>1. vm[v] \in Row
  BY Typed
<1> QED BY <1>1 DEF Row, Status

LEMMA StepErrorKeeps ==
    ASSUME MachineInv, NEW v \in Machines,
           StepStops(v) \/ AcceptTaken(v) \/ AcceptFailed(v)
    PROVE  MachineInv'
<1> DEFINE r == [vm[v] EXCEPT !.error = TRUE]
           f == [vm[v] EXCEPT !.status = "Failed", !.error = TRUE]
<1>1. JobReturns(v) /\ UNCHANGED <<proxy, refresh, op, external>> /\ deaths' \in 0 .. MaxDeaths
  BY Counted DEF StepStops, AcceptTaken, AcceptFailed
<1>2. job' \in JobState /\ lock' \subseteq Machines /\ job'[v].at = "exit" /\ \A w \in Machines \ {v} : job'[w] = job[w]
  BY <1>1, JobReturned DEF MachineInv
<1>3. Writes(v, r) \/ Writes(v, f)
  BY DEF StepStops, AcceptTaken, AcceptFailed
<1>4. /\ r \in Row /\ r.resource = vm[v].resource /\ r.action = vm[v].action
      /\ r.status = vm[v].status /\ r.verified = vm[v].verified /\ r.app = vm[v].app
      /\ f \in Row /\ f.resource = vm[v].resource /\ f.action = vm[v].action
      /\ f.status = "Failed" /\ f.verified = vm[v].verified /\ f.app = vm[v].app
  BY RowErrors DEF MachineInv
<1> HIDE DEF r, f
<1>5. CASE Writes(v, r)
  BY <1>1, <1>2, <1>4, <1>5, PlainWrite
<1>6. CASE Writes(v, f)
  BY <1>1, <1>2, <1>4, <1>6, PlainWrite
<1> QED BY <1>3, <1>5, <1>6

LEMMA InsertKeeps ==
    ASSUME MachineInv, NEW v \in Machines, Insert(v)
    PROVE  MachineInv'
<1> DEFINE r == [NoRow EXCEPT !.status = "Pending"]
<1>1. /\ r \in Row /\ r.resource = NoRow.resource /\ r.action = NoRow.action
      /\ r.status = "Pending" /\ r.verified = FALSE /\ r.app = "Pending"
  BY DEF NoRow, Row, Status
<1>2. Writes(v, r) /\ vm[v] = NoRow /\ job' = [job EXCEPT ![v] = Enqueued(v)]
  BY DEF Insert
<1>3. lock' \subseteq Machines /\ deaths' \in 0 .. MaxDeaths /\ UNCHANGED <<proxy, refresh, op, external>>
  BY DEF Insert, MachineInv, TypeOK
<1> HIDE DEF r
<1> QED BY <1>1, <1>2, <1>3, EnqueuesKeeps, PlainWrite

LEMMA CreateBeginKeeps ==
    ASSUME MachineInv, NEW v \in Machines, CreateBegin(v)
    PROVE  MachineInv'
<1> DEFINE j == [at |-> "creating", seen |-> {vm[w].action : w \in Machines \ {v}} \ {None}]
<1>1. j \in [at: JobStep, seen: SUBSET Machines] /\ j.at = "creating"
  BY Typed DEF MachineInv, JobStep
<1>2. job' = [job EXCEPT ![v] = j] /\ lock' \subseteq Machines /\ deaths' \in 0 .. MaxDeaths
  BY DEF CreateBegin, MachineInv, TypeOK
<1> HIDE DEF j
<1>3. job' \in JobState /\ job'[v].at = "creating" /\ \A w \in Machines \ {v} : job'[w] = job[w]
  BY <1>1, <1>2 DEF MachineInv, TypeOK, JobState
<1> QED BY <1>2, <1>3, JobMovesOn DEF CreateBegin, JobTrue

\* create_server starts a creation or none.
LEMMA CentralCreated ==
    ASSUME MachineInv, NEW v \in Machines, NEW a \in Machines, CentralCreates(v, a)
    PROVE  /\ creation' \in [Machines -> {"none", "pending", "accepted", "failed"}]
           /\ \A b \in Machines : creation'[b] = "accepted" <=> creation[b] = "accepted"
BY DEF MachineInv, TypeOK, CentralCreates

\* A step of create: Central may have the creation, and the row and its job are written.
LEMMA CreateStep ==
    ASSUME MachineInv, NEW v \in Machines, NEW a \in Machines, CentralCreates(v, a),
           vm' \in Rows, job' \in JobState, lock' \subseteq Machines, deaths' \in 0 .. MaxDeaths,
           UNCHANGED <<proxy, refresh, op, server, pilot>>,
           \A w \in Machines \ {v} : vm'[w] = vm[w] /\ job'[w] = job[w],
           vm'[v].resource = vm[v].resource,
           vm[v].action # None => vm'[v].action # None,
           vm'[v].status = "Terminated" => vm[v].status = "Terminated",
           (vm'[v].verified => vm[v].verified), vm'[v].app = vm[v].app,
           job'[v].at = "exit" \/ (job'[v].at = "accept" /\ vm'[v].action # None)
    PROVE  MachineInv'
<1>1. /\ creation' \in [Machines -> {"none", "pending", "accepted", "failed"}]
      /\ \A b \in Machines : creation'[b] = "accepted" <=> creation[b] = "accepted"
  BY CentralCreated
<1>2. TypeOK'
  BY <1>1 DEF MachineInv, TypeOK, Rows, JobState
<1>3. Grows
  BY <1>1 DEF Grows
<1>4. Central'
  BY <1>1 DEF MachineInv, Central
<1>5. RowTrue(v)'
  <2>1. RowTrue(v)
    BY DEF MachineInv
  <2> QED BY <1>1, <2>1 DEF RowTrue, HasServer, IsGone
<1>6. JobTrue(v)'
  BY DEF JobTrue
<1> QED BY <1>2, <1>3, <1>4, <1>5, <1>6, StepOnOne

LEMMA CreateKeeps ==
    ASSUME MachineInv, NEW v \in Machines, NEW a \in Machines,
           CreateSaves(v, a) \/ CreateCollapsed(v, a) \/ CreateLost(v, a)
    PROVE  MachineInv'
<1>1. TypeOK /\ deaths' \in 0 .. MaxDeaths /\ CentralCreates(v, a) /\ UNCHANGED <<proxy, refresh, op, server, pilot>>
  BY Counted DEF MachineInv, CreateSaves, CreateCollapsed, CreateLost
<1>2. a # None /\ vm[v] \in Row
  BY <1>1, Typed DEF MachineInv, MachineConstants
<1>3. CASE CreateSaves(v, a)
  <2> DEFINE r == [vm[v] EXCEPT !.action = a]
  <2>1. /\ r \in Row /\ r.action = a /\ r.resource = vm[v].resource /\ r.status = vm[v].status
        /\ (r.verified => vm[v].verified) /\ r.app = vm[v].app
    BY <1>2 DEF Row
  <2>2. Writes(v, r) /\ JobGoesOn(v, "accept") /\ "accept" \in JobStep
    BY <1>3 DEF CreateSaves, JobStep
  <2> HIDE DEF r
  <2>3. vm' \in Rows /\ vm'[v] = r /\ \A w \in Machines \ {v} : vm'[w] = vm[w]
    BY <1>1, <2>1, <2>2, Wrote
  <2>4. job' \in JobState /\ lock' \subseteq Machines /\ job'[v].at = "accept" /\ \A w \in Machines \ {v} : job'[w] = job[w]
    BY <1>1, <2>2, JobWentOn
  <2> QED BY <1>1, <1>2, <2>1, <2>3, <2>4, CreateStep
<1>4. CASE CreateCollapsed(v, a)
  <2> DEFINE f == [vm[v] EXCEPT !.status = "Failed", !.error = TRUE]
  <2>1. /\ f \in Row /\ f.action = vm[v].action /\ f.resource = vm[v].resource /\ f.status = "Failed"
        /\ (f.verified => vm[v].verified) /\ f.app = vm[v].app
    BY <1>2 DEF Row, Status
  <2>2. Writes(v, f) /\ JobReturns(v)
    BY <1>4 DEF CreateCollapsed
  <2> HIDE DEF f
  <2>3. vm' \in Rows /\ vm'[v] = f /\ \A w \in Machines \ {v} : vm'[w] = vm[w]
    BY <1>1, <2>1, <2>2, Wrote
  <2>4. job' \in JobState /\ lock' \subseteq Machines /\ job'[v].at = "exit" /\ \A w \in Machines \ {v} : job'[w] = job[w]
    BY <1>1, <2>2, JobReturned
  <2>5. /\ vm[v].action # None => vm'[v].action # None
        /\ vm'[v].status = "Terminated" => vm[v].status = "Terminated"
        /\ job'[v].at = "exit" \/ (job'[v].at = "accept" /\ vm'[v].action # None)
        /\ vm'[v].resource = vm[v].resource /\ (vm'[v].verified => vm[v].verified) /\ vm'[v].app = vm[v].app
    BY <2>1, <2>3, <2>4
  <2> QED BY <1>1, <2>3, <2>4, <2>5, CreateStep
<1>5. CASE CreateLost(v, a)
  <2>1. vm' = vm /\ vm' \in Rows /\ JobReturns(v)
    BY <1>1, <1>5 DEF CreateLost, TypeOK, Rows
  <2>2. job' \in JobState /\ lock' \subseteq Machines /\ job'[v].at = "exit" /\ \A w \in Machines \ {v} : job'[w] = job[w]
    BY <1>1, <2>1, JobReturned
  <2>3. /\ vm[v].action # None => vm'[v].action # None
        /\ vm'[v].status = "Terminated" => vm[v].status = "Terminated"
        /\ job'[v].at = "exit" \/ (job'[v].at = "accept" /\ vm'[v].action # None)
        /\ vm'[v].resource = vm[v].resource /\ (vm'[v].verified => vm[v].verified) /\ vm'[v].app = vm[v].app
        /\ \A w \in Machines \ {v} : vm'[w] = vm[w]
    BY <2>1, <2>2
  <2> QED BY <1>1, <2>1, <2>2, <2>3, CreateStep
<1> QED BY <1>3, <1>4, <1>5

LEMMA AcceptKeeps ==
    ASSUME MachineInv, NEW v \in Machines, Accept(v)
    PROVE  MachineInv'
<1> DEFINE a == vm[v].action
           r == [vm[v] EXCEPT !.resource = a, !.status = "Provisioning"]
<1>1. TypeOK /\ RowTrue(v) /\ JobTrue(v) /\ vm[v] \in Row /\ deaths' \in 0 .. MaxDeaths
  BY Typed, Counted DEF MachineInv, Accept
<1>2. a \in Machines /\ creation[a] = "accepted" /\ a # None
  BY <1>1, Typed DEF Accept, At, JobTrue, MachineInv, MachineConstants
<1>3. /\ r \in Row /\ r.action = a /\ r.resource = a /\ r.status = "Provisioning"
      /\ (r.verified => vm[v].verified) /\ r.app = vm[v].app
  BY <1>1, <1>2 DEF Row, Status
<1>4. Writes(v, r) /\ JobGoesOn(v, "boot") /\ "boot" \in JobStep /\ vm[v].resource = None
  BY DEF Accept, JobStep
<1>5. UNCHANGED <<proxy, refresh, op, external>>
  BY DEF Accept
<1> HIDE DEF r
<1>6. vm' \in Rows /\ vm'[v] = r /\ \A w \in Machines \ {v} : vm'[w] = vm[w]
  BY <1>1, <1>3, <1>4, Wrote
<1>7. job' \in JobState /\ lock' \subseteq Machines /\ job'[v].at = "boot" /\ \A w \in Machines \ {v} : job'[w] = job[w]
  BY <1>1, <1>4, JobWentOn
<1>8. HasServer(v)'
  BY <1>2, <1>3, <1>5, <1>6 DEF HasServer, external
<1>9. ~vm[v].verified /\ vm[v].app # "Installed"
  BY <1>1, <1>4 DEF RowTrue, HasServer, MachineInv, MachineConstants
<1>10. RowTrue(v)' /\ JobTrue(v)'
  BY <1>3, <1>6, <1>7, <1>8, <1>9 DEF RowTrue, JobTrue
<1> QED BY <1>1, <1>2, <1>3, <1>4, <1>5, <1>6, <1>7, <1>10, RowStep

LEMMA BootKeeps ==
    ASSUME MachineInv, NEW v \in Machines, Boot(v)
    PROVE  MachineInv'
<1> DEFINE st == ServerOf(vm[v])
           r == [vm[v] EXCEPT !.status = st]
<1>1. TypeOK /\ RowTrue(v) /\ JobTrue(v) /\ vm[v] \in Row /\ deaths' \in 0 .. MaxDeaths
  BY Typed, Counted DEF MachineInv, Boot
<1>2. HasServer(v)
  BY <1>1 DEF Boot, At, JobTrue
<1>3. st \in {"Provisioning", "Running", "Stopped"}
  BY <1>1, <1>2, Typed DEF Boot, ServerOf, HasServer, MachineInv, Central, ServerStatus
<1> HIDE DEF st
<1>4. /\ r \in Row /\ r.action = vm[v].action /\ r.resource = vm[v].resource /\ r.status = st
      /\ (r.verified => vm[v].verified) /\ r.app = vm[v].app
  BY <1>1, <1>3 DEF Row, Status
<1>5. Writes(v, r) /\ UNCHANGED <<proxy, refresh, op, external>>
  BY DEF Boot, st
<1>6. PICK step \in {"verify", "exit"} : JobGoesOn(v, step)
  BY DEF Boot, JobReturns, JobGoesOn
<1> HIDE DEF r
<1>7. vm' \in Rows /\ vm'[v] = r /\ \A w \in Machines \ {v} : vm'[w] = vm[w]
  BY <1>1, <1>4, <1>5, Wrote
<1>8. step \in JobStep
  BY <1>6 DEF JobStep
<1>9. job' \in JobState /\ lock' \subseteq Machines /\ job'[v].at = step /\ \A w \in Machines \ {v} : job'[w] = job[w]
  BY <1>1, <1>6, <1>8, JobWentOn
<1>10. RowTrue(v)'
  BY <1>3, <1>4, <1>5, <1>7, SaysNoMore
<1>11. JobTrue(v)'
  BY <1>2, <1>4, <1>5, <1>6, <1>7, <1>9 DEF JobTrue, HasServer, external
<1> QED BY <1>1, <1>4, <1>5, <1>7, <1>9, <1>10, <1>11, RowStep

\* verify_host: the row is verified under the zone the region then has.
LEMMA Checked ==
    ASSUME MachineInv, NEW v \in Machines, NEW r \in Row, HostChecked(v, r), HasServer(v),
           r.resource = vm[v].resource, r.action = vm[v].action, ~r.verified,
           r.status = "Terminated" => vm[v].status = "Terminated",
           r.app = "Installed" => vm[v].app = "Installed",
           UNCHANGED <<refresh, op, external>>
    PROVE  /\ proxy' \in Zones \cup {None} /\ (proxy # None => proxy' = proxy)
           /\ vm' \in Rows /\ (\A w \in Machines \ {v} : vm'[w] = vm[w])
           /\ vm'[v].resource = vm[v].resource /\ vm'[v].action = vm[v].action
           /\ RowTrue(v)' /\ HasServer(v)'
<1> DEFINE zone == pilot[vm[v].resource].zone
           bad == [r EXCEPT !.error = TRUE]
           good == [r EXCEPT !.verified = TRUE]
<1>1. TypeOK /\ RowTrue(v)
  BY DEF MachineInv
<1>2. zone \in Zones /\ PilotOf(r).zone = zone
  BY <1>1, Typed DEF HasServer, PilotOf
<1>3. proxy' \in Zones \cup {None} /\ (proxy # None => proxy' = proxy)
  BY <1>1, <1>2 DEF HostChecked, LearnProxyZone, TypeOK
<1>4. Writes(v, bad) \/ (Writes(v, good) /\ proxy' = zone)
  BY <1>2 DEF HostChecked
<1>5. /\ bad \in Row /\ bad.resource = vm[v].resource /\ bad.action = vm[v].action /\ ~bad.verified
      /\ bad.status = r.status /\ bad.app = r.app
      /\ good \in Row /\ good.resource = vm[v].resource /\ good.action = vm[v].action
      /\ good.status = r.status /\ good.app = r.app
  BY DEF Row
<1> HIDE DEF bad, good
<1>6. /\ vm' \in Rows /\ (\A w \in Machines \ {v} : vm'[w] = vm[w])
      /\ vm'[v] = bad \/ (vm'[v] = good /\ proxy' = zone)
  BY <1>1, <1>4, <1>5, Wrote
<1>7. HasServer(v)' /\ (IsGone(v) => IsGone(v)')
  BY <1>5, <1>6 DEF HasServer, IsGone, external
<1>8. /\ vm'[v].resource = vm[v].resource /\ vm'[v].action = vm[v].action
      /\ vm'[v].status = r.status /\ vm'[v].app = r.app
      /\ vm'[v].verified => proxy' = zone
  BY <1>5, <1>6
<1>9. vm'[v].status = "Terminated" => IsGone(v)'
  BY <1>1, <1>7, <1>8 DEF RowTrue
<1>10. vm'[v].app = "Installed" => pilot'[vm'[v].resource].app
  BY <1>1, <1>8 DEF RowTrue, external
<1>11. vm'[v].verified => pilot'[vm'[v].resource].zone = proxy'
  BY <1>8 DEF external
<1>12. RowTrue(v)'
  BY <1>7, <1>9, <1>10, <1>11 DEF RowTrue
<1> QED BY <1>3, <1>6, <1>7, <1>8, <1>12

\* A step of one row that may teach the region its zone.
LEMMA ZoneStep ==
    ASSUME MachineInv, NEW v \in Machines,
           vm' \in Rows, job' \in JobState, lock' \subseteq Machines, deaths' = deaths,
           proxy' \in Zones \cup {None}, proxy # None => proxy' = proxy,
           UNCHANGED <<refresh, op, external>>,
           \A w \in Machines \ {v} : vm'[w] = vm[w] /\ job'[w] = job[w],
           vm'[v].resource = vm[v].resource, vm'[v].action = vm[v].action,
           RowTrue(v)', JobTrue(v)'
    PROVE  MachineInv'
<1>1. TypeOK'
  BY DEF MachineInv, TypeOK, external, Rows, JobState
<1>2. Grows
  BY DEF Grows, external
<1>3. Central'
  BY DEF MachineInv, Central, external
<1> QED BY <1>1, <1>2, <1>3, StepOnOne

LEMMA VerifyKeeps ==
    ASSUME MachineInv, NEW v \in Machines, Verify(v)
    PROVE  MachineInv'
<1>1. TypeOK /\ vm[v] \in Row /\ HasServer(v) /\ ~vm[v].verified
  BY Typed DEF MachineInv, JobTrue, Verify, At
<1>2. HostChecked(v, vm[v]) /\ UNCHANGED <<refresh, op, external>> /\ deaths' = deaths
  BY DEF Verify
<1>3. /\ proxy' \in Zones \cup {None} /\ (proxy # None => proxy' = proxy)
      /\ vm' \in Rows /\ (\A w \in Machines \ {v} : vm'[w] = vm[w])
      /\ vm'[v].resource = vm[v].resource /\ vm'[v].action = vm[v].action
      /\ RowTrue(v)' /\ HasServer(v)'
  BY <1>1, <1>2, Checked
<1>4. PICK step \in {"install", "exit"} : JobGoesOn(v, step)
  BY DEF Verify, JobReturns, JobGoesOn
<1>5. step \in JobStep
  BY <1>4 DEF JobStep
<1>6. job' \in JobState /\ lock' \subseteq Machines /\ job'[v].at = step /\ \A w \in Machines \ {v} : job'[w] = job[w]
  BY <1>1, <1>4, <1>5, JobWentOn
<1>7. JobTrue(v)'
  BY <1>3, <1>4, <1>6 DEF JobTrue
<1> QED BY <1>2, <1>3, <1>6, <1>7, ZoneStep

LEMMA InstallFoundKeeps ==
    ASSUME MachineInv, NEW v \in Machines, InstallFound(v)
    PROVE  MachineInv'
<1> DEFINE r == [vm[v] EXCEPT !.app = "Installed"]
<1>1. TypeOK /\ RowTrue(v) /\ vm[v] \in Row /\ HasServer(v) /\ pilot[vm[v].resource].app /\ deaths' \in 0 .. MaxDeaths
  BY Typed, Counted DEF MachineInv, JobTrue, InstallFound, At, PilotOf
<1>2. /\ r \in Row /\ r.action = vm[v].action /\ r.resource = vm[v].resource /\ r.status = vm[v].status
      /\ (r.verified => vm[v].verified)
  BY <1>1 DEF Row
<1>3. Writes(v, r) /\ JobReturns(v) /\ UNCHANGED <<proxy, refresh, op, external>>
  BY DEF InstallFound
<1> HIDE DEF r
<1>4. vm' \in Rows /\ vm'[v] = r /\ \A w \in Machines \ {v} : vm'[w] = vm[w]
  BY <1>1, <1>2, <1>3, Wrote
<1>5. job' \in JobState /\ lock' \subseteq Machines /\ job'[v].at = "exit" /\ \A w \in Machines \ {v} : job'[w] = job[w]
  BY <1>1, <1>3, JobReturned
<1>6. RowTrue(v)' /\ JobTrue(v)'
  BY <1>1, <1>2, <1>3, <1>4, <1>5 DEF RowTrue, JobTrue, HasServer, IsGone, external
<1> QED BY <1>1, <1>2, <1>3, <1>4, <1>5, <1>6, RowStep

LEMMA InstallEndsKeeps ==
    ASSUME MachineInv, NEW v \in Machines, InstallEnds(v)
    PROVE  MachineInv'
<1> DEFINE r == [vm[v] EXCEPT !.app = "Installed", !.task = FALSE]
           f == [vm[v] EXCEPT !.app = "Failed", !.error = TRUE]
<1>1. TypeOK /\ RowTrue(v) /\ vm[v] \in Row /\ HasServer(v) /\ deaths' \in 0 .. MaxDeaths
  BY Typed, Counted DEF MachineInv, JobTrue, InstallEnds
<1>2. /\ r \in Row /\ r.action = vm[v].action /\ r.resource = vm[v].resource /\ r.status = vm[v].status
      /\ (r.verified => vm[v].verified)
      /\ f \in Row /\ f.action = vm[v].action /\ f.resource = vm[v].resource /\ f.status = vm[v].status
      /\ (f.verified => vm[v].verified) /\ f.app = "Failed"
  BY <1>1 DEF Row
<1>3. /\ (Writes(v, r) /\ pilot[vm[v].resource].app) \/ Writes(v, f)
      /\ JobReturns(v) /\ UNCHANGED <<proxy, refresh, op, external>>
  BY DEF InstallEnds, HasApp, PilotOf
<1> HIDE DEF r, f
<1>4. /\ vm' \in Rows /\ \A w \in Machines \ {v} : vm'[w] = vm[w]
      /\ (vm'[v] = r /\ pilot[vm[v].resource].app) \/ vm'[v] = f
  BY <1>1, <1>2, <1>3, Wrote
<1>5. job' \in JobState /\ lock' \subseteq Machines /\ job'[v].at = "exit" /\ \A w \in Machines \ {v} : job'[w] = job[w]
  BY <1>1, <1>3, JobReturned
<1>6. RowTrue(v)' /\ JobTrue(v)'
  BY <1>1, <1>2, <1>3, <1>4, <1>5 DEF RowTrue, JobTrue, HasServer, IsGone, external
<1> QED BY <1>1, <1>2, <1>3, <1>4, <1>5, <1>6, RowStep

LEMMA InstallResumesKeeps ==
    ASSUME MachineInv, NEW v \in Machines, InstallResumes(v)
    PROVE  MachineInv'
<1>1. TypeOK /\ HasServer(v) /\ "wait" \in JobStep /\ JobGoesOn(v, "wait") /\ deaths' \in 0 .. MaxDeaths
  BY Counted DEF MachineInv, JobTrue, InstallResumes, At, JobStep
<1>2. UNCHANGED <<vm, proxy, refresh, op, external>>
  BY DEF InstallResumes
<1>3. job' \in JobState /\ lock' \subseteq Machines /\ job'[v].at = "wait" /\ \A w \in Machines \ {v} : job'[w] = job[w]
  BY <1>1, JobWentOn
<1>4. JobTrue(v)'
  BY <1>1, <1>2, <1>3 DEF JobTrue, HasServer, external
<1> QED BY <1>1, <1>2, <1>3, <1>4, JobMovesOn

\* Pilot starts its task where the app is not.
LEMMA Installing ==
    ASSUME MachineInv, NEW v \in Machines, HasServer(v), PilotInstalls(v), ~pilot[vm[v].resource].app
    PROVE  /\ pilot' \in [Machines -> [zone: Zones, app: BOOLEAN, task: {"none", "running", "success", "failed"}]]
           /\ \A a \in Machines : pilot'[a].zone = pilot[a].zone /\ (pilot[a].app <=> pilot'[a].app)
           /\ \A a \in Machines : pilot'[a].task = "running" => ~pilot'[a].app
<1> DEFINE P == [zone: Zones, app: BOOLEAN, task: {"none", "running", "success", "failed"}]
<1>1. PICK b \in Machines : b = vm[v].resource
  BY DEF HasServer
<1>2. pilot \in [Machines -> P] /\ Central
  BY DEF MachineInv, TypeOK
<1>3. pilot' = [pilot EXCEPT ![b] = [pilot[b] EXCEPT !.task = "running"]]
  BY <1>1, <1>2 DEF PilotInstalls
<1>4. \A a \in Machines : pilot[a] \in P
  BY <1>2
<1>5. [pilot[b] EXCEPT !.task = "running"] \in P
  BY <1>4
<1>6. pilot' \in [Machines -> P]
  BY <1>2, <1>3, <1>5
<1>7. /\ pilot'[b].zone = pilot[b].zone /\ pilot'[b].app = pilot[b].app
      /\ \A a \in Machines \ {b} : pilot'[a] = pilot[a]
  BY <1>2, <1>3, <1>4
<1>8. ~pilot'[b].app
  BY <1>1, <1>7
<1> QED BY <1>1, <1>2, <1>6, <1>7, <1>8 DEF Central

LEMMA InstallStep ==
    ASSUME MachineInv, NEW v \in Machines, HasServer(v), PilotInstalls(v), ~pilot[vm[v].resource].app,
           vm' \in Rows, job' \in JobState, lock' \subseteq Machines, deaths' \in 0 .. MaxDeaths,
           UNCHANGED <<proxy, refresh, op, creation, server>>,
           \A w \in Machines \ {v} : vm'[w] = vm[w] /\ job'[w] = job[w],
           vm'[v].resource = vm[v].resource, vm'[v].action = vm[v].action,
           vm'[v].status = vm[v].status, vm'[v].verified => vm[v].verified,
           vm'[v].app = "Installed" => vm[v].app = "Installed",
           job'[v].at \in {"wait", "exit"}
    PROVE  MachineInv'
<1>1. /\ pilot' \in [Machines -> [zone: Zones, app: BOOLEAN, task: {"none", "running", "success", "failed"}]]
      /\ \A a \in Machines : pilot'[a].zone = pilot[a].zone /\ (pilot[a].app <=> pilot'[a].app)
      /\ \A a \in Machines : pilot'[a].task = "running" => ~pilot'[a].app
  BY Installing
<1>2. TypeOK'
  BY <1>1 DEF MachineInv, TypeOK, Rows, JobState
<1>3. Grows
  BY <1>1 DEF Grows
<1>4. Central'
  BY <1>1 DEF MachineInv, Central
<1>5. HasServer(v)'
  BY DEF HasServer
<1>6. RowTrue(v)'
  <2>1. RowTrue(v)
    BY DEF MachineInv
  <2> QED BY <1>1, <1>5, <2>1 DEF RowTrue, HasServer, IsGone
<1>7. JobTrue(v)'
  BY <1>5 DEF JobTrue
<1> QED BY <1>2, <1>3, <1>4, <1>6, <1>7, StepOnOne

LEMMA InstallsKeeps ==
    ASSUME MachineInv, NEW v \in Machines, InstallStarts(v) \/ InstallLost(v)
    PROVE  MachineInv'
<1>1. /\ TypeOK /\ vm[v] \in Row /\ HasServer(v) /\ PilotInstalls(v) /\ ~pilot[vm[v].resource].app
      /\ deaths' \in 0 .. MaxDeaths /\ UNCHANGED <<proxy, refresh, op, creation, server>>
  BY Typed, Counted DEF MachineInv, JobTrue, InstallStarts, InstallLost, At, PilotOf
<1>2. CASE InstallStarts(v)
  <2> DEFINE r == [vm[v] EXCEPT !.app = "Installing", !.task = TRUE]
  <2>1. /\ r \in Row /\ r.action = vm[v].action /\ r.resource = vm[v].resource /\ r.status = vm[v].status
        /\ (r.verified => vm[v].verified) /\ r.app = "Installing"
    BY <1>1 DEF Row
  <2>2. Writes(v, r) /\ JobGoesOn(v, "wait") /\ "wait" \in JobStep
    BY <1>2 DEF InstallStarts, JobStep
  <2> HIDE DEF r
  <2>3. vm' \in Rows /\ vm'[v] = r /\ \A w \in Machines \ {v} : vm'[w] = vm[w]
    BY <1>1, <2>1, <2>2, Wrote
  <2>4. job' \in JobState /\ lock' \subseteq Machines /\ job'[v].at = "wait" /\ \A w \in Machines \ {v} : job'[w] = job[w]
    BY <1>1, <2>2, JobWentOn
  <2> QED BY <1>1, <2>1, <2>3, <2>4, InstallStep
<1>3. CASE InstallLost(v)
  <2>1. vm' = vm /\ vm' \in Rows /\ JobReturns(v)
    BY <1>1, <1>3 DEF InstallLost, TypeOK, Rows
  <2>2. job' \in JobState /\ lock' \subseteq Machines /\ job'[v].at = "exit" /\ \A w \in Machines \ {v} : job'[w] = job[w]
    BY <1>1, <2>1, JobReturned
  <2> QED BY <1>1, <2>1, <2>2, InstallStep
<1> QED BY <1>2, <1>3

----------------------------------------------------------------------------
(* Central, Pilot and Terminate *)

\* The world changes under the rows: what they say stays true.
LEMMA WorldStep ==
    ASSUME MachineInv, UNCHANGED <<vm, lock, job, proxy, refresh, op, deaths>>,
           creation' \in [Machines -> {"none", "pending", "accepted", "failed"}],
           server' \in [Machines -> ServerStatus],
           pilot' \in [Machines -> [zone: Zones, app: BOOLEAN, task: {"none", "running", "success", "failed"}]],
           \A a \in Machines :
              /\ creation[a] = "accepted" => creation'[a] = "accepted"
              /\ server[a] = "gone" => server'[a] = "gone"
              /\ pilot'[a].zone = pilot[a].zone
              /\ pilot[a].app => pilot'[a].app,
           Central'
    PROVE  MachineInv'
<1>1. TypeOK'
  BY DEF MachineInv, TypeOK
<1>2. Grows
  BY DEF Grows
<1>3. \A v \in Machines : RowTrue(v)' /\ JobTrue(v)'
  BY <1>2, RowStays, JobStays
<1>4. MachineConstants'
  BY DEF MachineInv, MachineConstants
<1> QED BY <1>1, <1>2, <1>3, <1>4, SeenStays, RecallStays DEF MachineInv

LEMMA ServerMoves ==
    ASSUME MachineInv, UNCHANGED <<vm, lock, job, proxy, refresh, op, deaths, creation, pilot>>,
           NEW a \in Machines, NEW s \in ServerStatus \ {"none"},
           server' = [server EXCEPT ![a] = s], server[a] # "none", server[a] = "gone" => s = "gone"
    PROVE  MachineInv'
<1>1. /\ server' \in [Machines -> ServerStatus] /\ server'[a] = s
      /\ \A b \in Machines \ {a} : server'[b] = server[b]
  BY DEF MachineInv, TypeOK
<1>2. Central'
  BY <1>1 DEF MachineInv, Central
<1>3. \A b \in Machines : server[b] = "gone" => server'[b] = "gone"
  BY <1>1
<1> QED BY <1>1, <1>2, <1>3, WorldStep DEF MachineInv, TypeOK

LEMMA ServersKeep ==
    ASSUME MachineInv, NEW a \in Machines,
           Terminate(a) \/ ServerBoots(a) \/ \E status \in ServerStatus : ServerChanges(a, status)
    PROVE  MachineInv'
<1>1. CASE Terminate(a)
  <2>1. PICK b \in Machines : b = vm[a].resource /\ server[b] # "none"
    BY <1>1 DEF Terminate, MachineInv, RowTrue, HasServer, Central
  <2>2. server' = [server EXCEPT ![b] = "gone"] /\ "gone" \in ServerStatus \ {"none"}
    BY <1>1, <2>1 DEF Terminate, ServerStatus
  <2> QED BY <1>1, <2>1, <2>2, ServerMoves DEF Terminate
<1>2. CASE ServerBoots(a)
  <2>1. "Running" \in ServerStatus \ {"none"}
    BY DEF ServerStatus
  <2> QED BY <1>2, <2>1, ServerMoves DEF ServerBoots
<1>3. ASSUME NEW status \in ServerStatus, ServerChanges(a, status) PROVE MachineInv'
  <2>1. status \in ServerStatus \ {"none"}
    BY <1>3 DEF ServerChanges
  <2> QED BY <1>3, <2>1, ServerMoves DEF ServerChanges
<1> QED BY <1>1, <1>2, <1>3

LEMMA CentralDecidesKeeps ==
    ASSUME MachineInv, NEW a \in Machines, CentralDecides(a)
    PROVE  MachineInv'
<1>1. /\ creation \in [Machines -> {"none", "pending", "accepted", "failed"}]
      /\ server \in [Machines -> ServerStatus] /\ Central /\ "Provisioning" \in ServerStatus
      /\ pilot \in [Machines -> [zone: Zones, app: BOOLEAN, task: {"none", "running", "success", "failed"}]]
  BY DEF MachineInv, TypeOK, ServerStatus
<1>2. server[a] = "none"
  BY <1>1 DEF Central, CentralDecides
<1>3. CASE creation' = [creation EXCEPT ![a] = "accepted"] /\ server' = [server EXCEPT ![a] = "Provisioning"]
  <2>1. Central'
    BY <1>1, <1>3 DEF Central, CentralDecides
  <2> QED BY <1>1, <1>2, <1>3, <2>1, WorldStep DEF CentralDecides
<1>4. CASE creation' = [creation EXCEPT ![a] = "failed"] /\ server' = server
  <2>1. Central'
    BY <1>1, <1>2, <1>4 DEF Central, CentralDecides
  <2>2. \A b \in Machines : creation[b] = "accepted" => creation'[b] = "accepted"
    BY <1>1, <1>4 DEF CentralDecides
  <2>3. creation' \in [Machines -> {"none", "pending", "accepted", "failed"}]
    BY <1>1, <1>4
  <2> QED BY <1>1, <1>4, <2>1, <2>2, <2>3, WorldStep DEF CentralDecides
<1> QED BY <1>3, <1>4 DEF CentralDecides

LEMMA PilotFinishesKeeps ==
    ASSUME MachineInv, NEW a \in Machines, PilotFinishes(a)
    PROVE  MachineInv'
<1> DEFINE P == [zone: Zones, app: BOOLEAN, task: {"none", "running", "success", "failed"}]
<1>1. PICK app \in BOOLEAN, task \in {"success", "failed"} :
        pilot' = [pilot EXCEPT ![a].task = task, ![a].app = app]
  BY DEF PilotFinishes
<1>2. /\ pilot \in [Machines -> P] /\ Central /\ pilot[a].task = "running"
      /\ creation \in [Machines -> {"none", "pending", "accepted", "failed"}]
      /\ server \in [Machines -> ServerStatus]
      /\ UNCHANGED <<vm, lock, job, proxy, refresh, op, creation, server, deaths>>
  BY DEF MachineInv, TypeOK, PilotFinishes
<1>3. pilot[a] \in P /\ ~pilot[a].app
  BY <1>2 DEF Central
<1>4. /\ pilot' \in [Machines -> P] /\ pilot'[a].zone = pilot[a].zone /\ pilot'[a].task = task
      /\ \A b \in Machines \ {a} : pilot'[b] = pilot[b]
  BY <1>1, <1>2, <1>3
<1>5. Central'
  BY <1>1, <1>2, <1>4 DEF Central
<1>6. \A b \in Machines : pilot'[b].zone = pilot[b].zone /\ (pilot[b].app => pilot'[b].app)
  BY <1>3, <1>4
<1> QED BY <1>2, <1>4, <1>5, <1>6, WorldStep

----------------------------------------------------------------------------
(* refresh_fleet *)

RefreshState == [at: {"idle", "registry", "write"}, missing: BOOLEAN, seen: [Machines -> Seen],
                 todo: SUBSET Machines, registry: [Machines -> ServerStatus], drive: SUBSET Machines]

LEMMA NoRefreshTyped == NoRefresh \in RefreshState /\ NoRefresh.at = "idle" /\ NoRefresh.todo = {}
BY DEF NoRefresh, RefreshState, NothingSeen, Seen, Status, ServerStatus

LEMMA RefreshStep ==
    ASSUME MachineInv, UNCHANGED <<vm, lock, job, proxy, op, external, deaths>>,
           refresh' \in RefreshState, Sees'
    PROVE  MachineInv'
<1>1. TypeOK' /\ MachineConstants' /\ Central'
  BY DEF MachineInv, MachineConstants, Central, TypeOK, RefreshState, external
<1>2. Grows
  BY DEF Grows, external
<1>3. \A v \in Machines : RowTrue(v)' /\ JobTrue(v)'
  BY <1>2, RowStays, JobStays
<1> QED BY <1>1, <1>2, <1>3, RecallStays DEF MachineInv

LEMMA RefreshReadsKeeps ==
    ASSUME MachineInv, NEW missing \in Refreshes, RefreshReads(missing)
    PROVE  MachineInv'
<1> DEFINE rows == [v \in Machines |-> SeenOf(vm[v])]
           work == {v \in Machines : vm[v].resource # None /\ vm[v].status # "Terminated"}
           r == [NoRefresh EXCEPT !.at = "registry", !.missing = missing, !.seen = rows, !.todo = work]
<1>1. missing \in BOOLEAN /\ TypeOK
  BY DEF MachineInv, MachineConstants
<1>2. rows \in [Machines -> Seen]
  <2>1. \A v \in Machines : vm[v] \in Row
    BY <1>1, Typed
  <2>2. ASSUME NEW x \in Row PROVE SeenOf(x) \in Seen
    BY <2>2 DEF Seen, SeenOf, SetUp, Row
  <2> QED BY <2>1, <2>2
<1> HIDE DEF rows
<1>3. r \in RefreshState /\ r.at = "registry" /\ r.todo = work
  BY <1>1, <1>2, NoRefreshTyped DEF RefreshState
<1>4. refresh' = r /\ UNCHANGED <<vm, lock, job, proxy, op, external, deaths>>
  BY DEF RefreshReads, rows
<1>5. \A v \in work : HasServer(v)'
  <2>1. \A v \in work : HasServer(v)
    BY DEF MachineInv, RowTrue
  <2> QED BY <1>4, <2>1 DEF HasServer, external
<1> HIDE DEF r, work
<1>6. Sees'
  BY <1>3, <1>4, <1>5 DEF Sees
<1> QED BY <1>3, <1>4, <1>6, RefreshStep

LEMMA RefreshRegistryKeeps ==
    ASSUME MachineInv, RefreshRegistry
    PROVE  MachineInv'
<1> DEFINE listed == [v \in Machines |-> IF v \in refresh.todo THEN server[vm[v].resource] ELSE "none"]
<1>1. TypeOK /\ refresh \in RefreshState /\ refresh.todo \subseteq Machines
  BY DEF MachineInv, TypeOK, RefreshState
<1>2. \A v \in refresh.todo : HasServer(v) /\ server[vm[v].resource] \in ServerStatus \ {"none"}
  BY <1>1, Typed DEF MachineInv, Sees, HasServer, Central
<1>3. listed \in [Machines -> ServerStatus]
  BY <1>2 DEF ServerStatus
<1>4. \A v \in refresh.todo : listed[v] = server[vm[v].resource]
  BY <1>1
<1> HIDE DEF listed
<1>5. PICK drive \in SUBSET Machines :
        refresh' = [refresh EXCEPT !.at = "write", !.seen = NoRefresh.seen, !.registry = listed, !.drive = drive]
  BY DEF RefreshRegistry, listed
<1>6. NoRefresh.seen \in [Machines -> Seen]
  BY NoRefreshTyped DEF RefreshState
<1>7. refresh' \in RefreshState /\ refresh'.todo = refresh.todo /\ refresh'.registry = listed
  BY <1>1, <1>3, <1>5, <1>6 DEF RefreshState
<1>8. UNCHANGED <<vm, lock, job, proxy, op, external, deaths>>
  BY DEF RefreshRegistry
<1>9. Sees'
  BY <1>2, <1>4, <1>7, <1>8 DEF Sees, HasServer, IsGone, external
<1> QED BY <1>7, <1>8, <1>9, RefreshStep

\* apply_server and mark_terminated.
LEMMA RefreshedRow ==
    ASSUME NEW r \in Row, NEW listed \in ServerStatus
    PROVE  LET n == Refreshed(r, listed)
           IN /\ n \in Row /\ n.resource = r.resource /\ n.action = r.action /\ n.app = r.app
              /\ n.verified => r.verified
              /\ n.status = "Terminated" => listed \in {"none", "gone"} \/ r.status = "Terminated"
<1> DEFINE up == [r EXCEPT !.status = listed]
           ended == [r EXCEPT !.status = "Terminated", !.error = TRUE]
<1>1. CASE listed \notin {"none", "gone"}
  <2>1. listed \in Status /\ listed # "Terminated" /\ Refreshed(r, listed) = up
    BY <1>1 DEF Status, ServerStatus, Refreshed
  <2>2. /\ up \in Row /\ up.resource = r.resource /\ up.action = r.action /\ up.app = r.app
        /\ (up.verified => r.verified) /\ up.status = listed
    BY <2>1 DEF Row
  <2> QED BY <2>1, <2>2
<1>2. CASE listed \in {"none", "gone"} /\ refresh.missing
  <2>1. Refreshed(r, listed) = ended
    BY <1>2 DEF Refreshed
  <2>2. /\ ended \in Row /\ ended.resource = r.resource /\ ended.action = r.action /\ ended.app = r.app
        /\ (ended.verified => r.verified)
    BY DEF Row, Status
  <2> QED BY <1>2, <2>1, <2>2
<1>3. CASE listed \in {"none", "gone"} /\ ~refresh.missing
  BY <1>3 DEF Refreshed
<1> QED BY <1>1, <1>2, <1>3

LEMMA RefreshWritesKeeps ==
    ASSUME MachineInv, RefreshWrites
    PROVE  MachineInv'
<1>1. TypeOK /\ refresh \in RefreshState /\ refresh.todo \subseteq Machines /\ Sees /\ refresh.at = "write"
  BY DEF MachineInv, TypeOK, RefreshState, RefreshWrites
<1>2. \A v \in Machines : vm[v] \in Row /\ refresh.registry[v] \in ServerStatus
  BY <1>1, Typed DEF RefreshState
<1>3. /\ vm' = [v \in Machines |-> IF v \in refresh.todo THEN Refreshed(vm[v], refresh.registry[v]) ELSE vm[v]]
      /\ job' = [v \in Machines |-> IF v \in refresh.drive THEN Enqueued(v) ELSE job[v]]
      /\ refresh' = NoRefresh /\ UNCHANGED <<lock, proxy, op, external, deaths>>
  BY DEF RefreshWrites, ToApply
<1>4. ASSUME NEW v \in Machines
      PROVE  /\ vm'[v] \in Row /\ vm'[v].resource = vm[v].resource /\ vm'[v].action = vm[v].action
             /\ vm'[v].app = vm[v].app /\ (vm'[v].verified => vm[v].verified)
             /\ vm'[v].status = "Terminated" => vm[v].status = "Terminated" \/ IsGone(v)
  <2>1. CASE v \in refresh.todo
    <3>1. vm'[v] = Refreshed(vm[v], refresh.registry[v])
      BY <1>3, <2>1
    <3>2. refresh.registry[v] \in {"none", "gone"} => IsGone(v)
      BY <1>1, <2>1 DEF Sees
    <3> QED BY <1>2, <3>1, <3>2, RefreshedRow
  <2>2. CASE v \notin refresh.todo
    <3>1. vm'[v] = vm[v]
      BY <1>3, <2>2
    <3> QED BY <1>2, <3>1
  <2> QED BY <2>1, <2>2
<1>5. vm' \in Rows
  BY <1>3, <1>4 DEF Rows
<1>6. ASSUME NEW v \in Machines
      PROVE  /\ job'[v] \in [at: JobStep, seen: SUBSET Machines]
             /\ job'[v] = job[v] \/ job'[v].at = "queued"
  BY <1>1, <1>3, EnqueuedJob DEF TypeOK
<1>7. job' \in JobState
  BY <1>3, <1>6 DEF JobState
<1>8. TypeOK' /\ MachineConstants' /\ Central'
  BY <1>3, <1>5, <1>7, NoRefreshTyped
     DEF MachineInv, MachineConstants, Central, TypeOK, RefreshState, external, Rows, JobState
<1>9. Grows
  BY <1>3, <1>4 DEF Grows, external
<1>10. ASSUME NEW v \in Machines PROVE RowTrue(v)' /\ JobTrue(v)'
  <2>1. RowTrue(v) /\ JobTrue(v)
    BY DEF MachineInv
  <2>2. (HasServer(v) <=> HasServer(v)') /\ (IsGone(v) => IsGone(v)')
    BY <1>3, <1>4 DEF HasServer, IsGone, external
  <2>3. RowTrue(v)'
    BY <1>3, <1>4, <2>1, <2>2 DEF RowTrue, external
  <2>4. JobTrue(v)'
    BY <1>4, <1>6, <2>1, <2>2 DEF JobTrue
  <2> QED BY <2>3, <2>4
<1>11. Sees'
  BY <1>3, NoRefreshTyped DEF Sees
<1> QED BY <1>3, <1>8, <1>9, <1>10, <1>11, RecallStays DEF MachineInv

----------------------------------------------------------------------------
(* Operators *)

LEMMA RetryReadsKeeps ==
    ASSUME MachineInv, NEW o \in Operators, NEW v \in Machines, RetryReads(o, v)
    PROVE  MachineInv'
<1> DEFINE r == [machine |-> v, status |-> vm[v].status,
                 creation |-> vm[v].action # None /\ vm[v].resource = None /\ vm[v].status = "Failed",
                 install |-> vm[v].app = "Failed"]
<1>1. TypeOK /\ RowTrue(v) /\ vm[v].status \in Status
  BY Typed DEF MachineInv, Row
<1>2. r \in OpState /\ r.machine = v /\ r.status = vm[v].status
  BY <1>1 DEF OpState
<1>3. op' = [op EXCEPT ![o] = r] /\ UNCHANGED <<vm, lock, job, proxy, refresh, external, deaths>>
  BY DEF RetryReads
<1> HIDE DEF r
<1>4. op' \in [Operators -> OpState] /\ op'[o] = r /\ \A p \in Operators \ {o} : op'[p] = op[p]
  BY <1>1, <1>2, <1>3 DEF TypeOK
<1>5. TypeOK' /\ MachineConstants' /\ Central'
  BY <1>3, <1>4 DEF MachineInv, MachineConstants, Central, TypeOK, external
<1>6. Grows
  BY <1>3 DEF Grows, external
<1>7. \A w \in Machines : RowTrue(w)' /\ JobTrue(w)'
  BY <1>3, <1>6, RowStays, JobStays
<1>8. Recall(o)'
  <2>1. vm[v].status = "Terminated" => IsGone(v)'
    BY <1>1, <1>3 DEF RowTrue, IsGone, HasServer, external
  <2> QED BY <1>2, <1>4, <2>1 DEF Recall
<1>9. \A p \in Operators : Recall(p)'
  BY <1>4, <1>6, <1>8, RecallStays
<1> QED BY <1>3, <1>5, <1>6, <1>7, <1>9, SeenStays DEF MachineInv

\* An operator's Retry writes the row v and is done.
LEMMA RetryStep ==
    ASSUME MachineInv, NEW o \in Operators, NEW v \in Machines, op' = [op EXCEPT ![o] = NoOp],
           vm' \in Rows, job' \in JobState,
           creation' \in [Machines -> {"none", "pending", "accepted", "failed"}],
           \A a \in Machines : creation'[a] = "accepted" <=> creation[a] = "accepted",
           UNCHANGED <<lock, proxy, refresh, server, pilot, deaths>>,
           \A w \in Machines \ {v} : vm'[w] = vm[w] /\ job'[w] = job[w],
           vm'[v].resource = vm[v].resource, vm'[v].action = vm[v].action,
           vm'[v].status = "Terminated" => IsGone(v),
           vm'[v].verified => vm[v].verified,
           vm'[v].app = "Installed" => vm[v].app = "Installed",
           job'[v] = job[v] \/ job'[v].at = "queued"
    PROVE  MachineInv'
<1>1. op' \in [Operators -> OpState] /\ \A p \in Operators : op'[p] = op[p] \/ op'[p] = NoOp
  <2>1. NoOp \in OpState
    BY DEF NoOp, OpState, Status
  <2> QED BY <2>1 DEF MachineInv, TypeOK
<1>2. TypeOK' /\ MachineConstants' /\ Central'
  BY <1>1 DEF MachineInv, MachineConstants, Central, TypeOK, Rows, JobState
<1>3. Grows
  BY DEF Grows
<1>4. (HasServer(v) <=> HasServer(v)') /\ (IsGone(v) => IsGone(v)') /\ RowTrue(v) /\ JobTrue(v)
  BY DEF HasServer, IsGone, MachineInv
<1>5. RowTrue(v)'
  BY <1>4 DEF RowTrue
<1>6. JobTrue(v)'
  BY <1>4 DEF JobTrue
<1>7. \A w \in Machines : RowTrue(w)' /\ JobTrue(w)'
  BY <1>3, <1>5, <1>6, RowStays, JobStays
<1> QED BY <1>1, <1>2, <1>3, <1>7, SeenStays, RecallStays DEF MachineInv

LEMMA RetryWritesKeeps ==
    ASSUME MachineInv, NEW o \in Operators, RetryWrites(o)
    PROVE  MachineInv'
<1>1. PICK v \in Machines : v = op[o].machine
  BY DEF MachineInv, Recall, RetryWrites
<1> DEFINE st == IF op[o].status = "Failed" THEN "Pending" ELSE op[o].status
           cleared == [vm[v] EXCEPT !.error = FALSE, !.status = st]
           reset == ResetInstall(cleared)
           retried == [creation EXCEPT ![vm[v].action] = IF @ = "failed" THEN "pending" ELSE @]
<1>2. /\ TypeOK /\ vm[v] \in Row /\ op[o].status \in Status /\ RowTrue(v)
      /\ op[o].status = "Terminated" => IsGone(v)
  BY <1>1, Typed DEF MachineInv, TypeOK, OpState, Recall
<1>3. st \in Status /\ (st = "Terminated" => IsGone(v))
  BY <1>2 DEF Status
<1>4. /\ creation' = retried \/ creation' = creation
      /\ Writes(v, cleared) \/ Writes(v, reset)
      /\ job' = [job EXCEPT ![v] = Enqueued(v)] /\ op' = [op EXCEPT ![o] = NoOp]
      /\ UNCHANGED <<lock, proxy, refresh, server, pilot, deaths>>
  BY <1>1 DEF RetryWrites
<1>5. /\ creation' \in [Machines -> {"none", "pending", "accepted", "failed"}]
      /\ \A a \in Machines : creation'[a] = "accepted" <=> creation[a] = "accepted"
  BY <1>2, <1>4 DEF TypeOK
<1> HIDE DEF st
<1>6. /\ cleared \in Row /\ cleared.resource = vm[v].resource /\ cleared.action = vm[v].action
      /\ cleared.status = st /\ (cleared.verified => vm[v].verified) /\ cleared.app = vm[v].app
      /\ reset \in Row /\ reset.resource = vm[v].resource /\ reset.action = vm[v].action
      /\ reset.status = st /\ (reset.verified => vm[v].verified) /\ reset.app = "Pending"
  BY <1>2, <1>3 DEF Row, ResetInstall
<1> HIDE DEF cleared, reset
<1>7. /\ vm' \in Rows /\ (\A w \in Machines \ {v} : vm'[w] = vm[w])
      /\ vm'[v] = cleared \/ vm'[v] = reset
  BY <1>2, <1>4, <1>6, Wrote
<1>8. /\ vm'[v].resource = vm[v].resource /\ vm'[v].action = vm[v].action
      /\ vm'[v].status = "Terminated" => IsGone(v)
      /\ vm'[v].verified => vm[v].verified
      /\ vm'[v].app = "Installed" => vm[v].app = "Installed"
  BY <1>3, <1>6, <1>7
<1>9. /\ job' \in JobState /\ (job'[v] = job[v] \/ job'[v].at = "queued")
      /\ \A w \in Machines \ {v} : job'[w] = job[w]
  BY <1>4, EnqueuesKeeps
<1> QED BY <1>4, <1>5, <1>7, <1>8, <1>9, RetryStep

LEMMA RetryRejectedKeeps ==
    ASSUME MachineInv, NEW o \in Operators, RetryRejected(o)
    PROVE  MachineInv'
<1>1. PICK v \in Machines : v = op[o].machine
  BY DEF MachineInv, Recall, RetryRejected
<1> DEFINE r == [vm[v] EXCEPT !.error = TRUE]
<1>2. TypeOK /\ RowTrue(v) /\ job \in JobState
  BY DEF MachineInv, TypeOK, JobState
<1>3. /\ r \in Row /\ r.resource = vm[v].resource /\ r.action = vm[v].action
      /\ r.status = vm[v].status /\ (r.verified => vm[v].verified) /\ r.app = vm[v].app
  BY <1>2, RowErrors
<1>4. Writes(v, r) /\ op' = [op EXCEPT ![o] = NoOp] /\ UNCHANGED <<lock, job, proxy, refresh, external, deaths>>
  BY <1>1 DEF RetryRejected
<1> HIDE DEF r
<1>5. vm' \in Rows /\ vm'[v] = r /\ \A w \in Machines \ {v} : vm'[w] = vm[w]
  BY <1>2, <1>3, <1>4, Wrote
<1>6. vm'[v].status = "Terminated" => IsGone(v)
  BY <1>2, <1>3, <1>5 DEF RowTrue
<1>7. creation' = creation /\ creation \in [Machines -> {"none", "pending", "accepted", "failed"}]
  BY <1>2, <1>4 DEF TypeOK, external
<1> QED BY <1>2, <1>3, <1>4, <1>5, <1>6, <1>7, RetryStep DEF external

LEMMA VerifyHostKeeps ==
    ASSUME MachineInv, NEW v \in Machines, VerifyHost(v)
    PROVE  MachineInv'
<1> DEFINE reset == [vm[v] EXCEPT !.verified = FALSE, !.error = FALSE]
<1>1. TypeOK /\ RowTrue(v) /\ JobTrue(v) /\ vm[v] \in Row
  BY Typed DEF MachineInv
<1>2. /\ reset \in Row /\ reset.resource = vm[v].resource /\ reset.action = vm[v].action
      /\ reset.status = vm[v].status /\ ~reset.verified /\ reset.app = vm[v].app
  BY <1>1 DEF Row
<1>3. job' = job /\ lock' = lock /\ deaths' = deaths /\ UNCHANGED <<refresh, op, external>>
  BY DEF VerifyHost
<1>4. job' \in JobState /\ lock' \subseteq Machines /\ deaths' \in 0 .. MaxDeaths
  BY <1>1, <1>3 DEF TypeOK, JobState
<1>5. \/ vm[v].resource # None /\ HostChecked(v, reset)
      \/ \E late \in BOOLEAN : Writes(v, [reset EXCEPT !.error = late]) /\ proxy' = proxy
  BY DEF VerifyHost
<1> HIDE DEF reset
<1>6. CASE vm[v].resource # None /\ HostChecked(v, reset)
  <2>1. HasServer(v)
    BY <1>1, <1>6 DEF RowTrue
  <2>2. /\ proxy' \in Zones \cup {None} /\ (proxy # None => proxy' = proxy)
        /\ vm' \in Rows /\ (\A w \in Machines \ {v} : vm'[w] = vm[w])
        /\ vm'[v].resource = vm[v].resource /\ vm'[v].action = vm[v].action
        /\ RowTrue(v)' /\ HasServer(v)'
    BY <1>2, <1>3, <1>6, <2>1, Checked
  <2>3. JobTrue(v)'
    BY <1>1, <1>3, <2>2 DEF JobTrue
  <2> QED BY <1>3, <1>4, <2>2, <2>3, ZoneStep
<1>7. ASSUME NEW late \in BOOLEAN, Writes(v, [reset EXCEPT !.error = late]), proxy' = proxy
      PROVE  MachineInv'
  <2> DEFINE r == [reset EXCEPT !.error = late]
  <2>1. /\ r \in Row /\ r.resource = vm[v].resource /\ r.action = vm[v].action
        /\ r.status = vm[v].status /\ ~r.verified /\ r.app = vm[v].app
    BY <1>2 DEF Row
  <2>2. Writes(v, r)
    BY <1>7
  <2> HIDE DEF r
  <2> QED BY <1>3, <1>4, <1>7, <2>1, <2>2, PlainWrite
<1> QED BY <1>5, <1>6, <1>7

LEMMA InstallSuiteAppKeeps ==
    ASSUME MachineInv, NEW v \in Machines, InstallSuiteApp(v)
    PROVE  MachineInv'
<1> DEFINE r == ResetInstall([vm[v] EXCEPT !.error = FALSE])
<1>1. TypeOK /\ vm[v] \in Row /\ lock' \subseteq Machines /\ deaths' \in 0 .. MaxDeaths
  BY Typed DEF MachineInv, TypeOK, InstallSuiteApp
<1>2. /\ r \in Row /\ r.resource = vm[v].resource /\ r.action = vm[v].action
      /\ r.status = vm[v].status /\ (r.verified => vm[v].verified) /\ r.app = "Pending"
  BY <1>1 DEF Row, ResetInstall
<1>3. /\ Writes(v, r) \/ Writes(v, vm[v])
      /\ job' = [job EXCEPT ![v] = Enqueued(v)] /\ UNCHANGED <<proxy, refresh, op, external>>
  BY DEF InstallSuiteApp
<1>4. /\ job' \in JobState /\ (job'[v] = job[v] \/ job'[v].at = "queued")
      /\ \A w \in Machines \ {v} : job'[w] = job[w]
  BY <1>3, EnqueuesKeeps
<1> HIDE DEF r
<1> QED BY <1>1, <1>2, <1>3, <1>4, PlainWrite

----------------------------------------------------------------------------
(* The specification *)

LEMMA MachineInitHolds == MachineConstants /\ Init => MachineInv
<1> SUFFICES ASSUME MachineConstants, Init PROVE MachineInv
  OBVIOUS
<1>1. NoRow \in Row /\ NoJob \in [at: JobStep, seen: SUBSET Machines] /\ NoOp \in OpState
  BY DEF NoRow, Row, Status, NoJob, JobStep, NoOp, OpState
<1>2. /\ pilot \in [Machines -> [zone: Zones, app: BOOLEAN, task: {"none", "running", "success", "failed"}]]
      /\ \A a \in Machines : pilot[a].task = "none"
  <2> DEFINE P == [zone: Zones, app: BOOLEAN, task: {"none", "running", "success", "failed"}]
             new == {[zone |-> z, app |-> FALSE, task |-> "none"] : z \in Zones}
  <2>1. ASSUME NEW p \in new PROVE p \in P /\ p.task = "none"
    <3>1. PICK z \in Zones : p = [zone |-> z, app |-> FALSE, task |-> "none"]
      BY <2>1
    <3> QED BY <3>1
  <2>2. pilot \in [Machines -> new]
    BY DEF Init
  <2> HIDE DEF new, P
  <2>3. pilot \in [Machines -> P] /\ \A a \in Machines : pilot[a].task = "none"
    BY <2>1, <2>2
  <2> QED BY <2>3 DEF P
<1>3. TypeOK
  BY <1>1, <1>2, NoRefreshTyped DEF Init, TypeOK, RefreshState, ServerStatus, MachineConstants
<1>4. Central
  BY <1>2 DEF Init, Central
<1>5. \A v \in Machines : RowTrue(v) /\ JobTrue(v)
  BY DEF Init, RowTrue, JobTrue, NoRow, NoJob
<1>6. Sees
  BY NoRefreshTyped DEF Init, Sees
<1>7. \A o \in Operators : Recall(o)
  BY DEF Init, Recall, NoOp
<1> QED BY <1>3, <1>4, <1>5, <1>6, <1>7 DEF MachineInv

LEMMA MachineNextKeeps == MachineInv /\ [Next]_vars => MachineInv'
<1> SUFFICES ASSUME MachineInv, [Next]_vars PROVE MachineInv'
  OBVIOUS
<1>1. ASSUME NEW v \in Machines, Insert(v) \/ JobStart(v) \/ JobAdvances(v) PROVE MachineInv'
  BY <1>1, InsertKeeps, JobOnlyKeeps, StepDoneKeeps, CreateBeginKeeps, CreateKeeps, AcceptKeeps, StepErrorKeeps,
     BootKeeps, VerifyKeeps, InstallFoundKeeps, InstallsKeeps, InstallResumesKeeps, InstallEndsKeeps
     DEF JobAdvances
<1>2. ASSUME NEW v \in Machines, StepWaits(v) \/ StepStops(v) \/ InstallLost(v) \/ JobDies(v) \/ JobExit(v)
      PROVE  MachineInv'
  BY <1>2, JobOnlyKeeps, StepErrorKeeps, InstallsKeeps, JobExitKeeps
<1>3. ASSUME NEW v \in Machines, NEW a \in Machines, CreateLost(v, a) PROVE MachineInv'
  BY <1>3, CreateKeeps
<1>4. ASSUME NEW missing \in Refreshes, RefreshReads(missing) PROVE MachineInv'
  BY <1>4, RefreshReadsKeeps
<1>5. CASE RefreshRegistry \/ RefreshWrites
  BY <1>5, RefreshRegistryKeeps, RefreshWritesKeeps
<1>6. ASSUME NEW o \in Operators, RetryWrites(o) \/ RetryRejected(o) \/ \E v \in Machines : RetryReads(o, v)
      PROVE  MachineInv'
  BY <1>6, RetryReadsKeeps, RetryWritesKeeps, RetryRejectedKeeps
<1>7. ASSUME NEW v \in Machines, VerifyHost(v) \/ InstallSuiteApp(v) \/ Terminate(v) PROVE MachineInv'
  BY <1>7, VerifyHostKeeps, InstallSuiteAppKeeps, ServersKeep
<1>8. ASSUME NEW a \in Machines,
             CentralDecides(a) \/ ServerBoots(a) \/ PilotFinishes(a)
             \/ \E status \in ServerStatus : ServerChanges(a, status)
      PROVE  MachineInv'
  BY <1>8, CentralDecidesKeeps, ServersKeep, PilotFinishesKeeps
<1>9. CASE UNCHANGED vars
  <2>1. refresh' \in RefreshState /\ Sees'
    BY <1>9, SeenStays DEF MachineInv, TypeOK, RefreshState, vars, external, Grows
  <2> QED BY <1>9, <2>1, RefreshStep DEF vars, external
<1> QED BY <1>1, <1>2, <1>3, <1>4, <1>5, <1>6, <1>7, <1>8, <1>9 DEF Next

LEMMA MachineInvShows == MachineInv => TypeOK /\ EndedIsGone /\ ReadyIsSetUp
<1> SUFFICES ASSUME MachineInv PROVE EndedIsGone /\ ReadyIsSetUp
  BY DEF MachineInv
<1>1. EndedIsGone
  BY DEF MachineInv, MachineConstants, RowTrue, IsGone, HasServer, EndedIsGone, ServerOf
<1>2. ReadyIsSetUp
  BY DEF MachineInv, RowTrue, ReadyIsSetUp, IsReady, SetUp, PilotOf
<1> QED BY <1>1, <1>2

\* The daily sync ends only servers that Central no longer has, and a server takes sites only with
\* the Suite app on it and under its region's one zone, for every number of servers, zones,
\* operators, refreshes and deaths (refresh_fleet, mark_terminated, verify_host, install_suite).
THEOREM MachinesAreAsTheySay == MachineConstants /\ Spec => [](TypeOK /\ EndedIsGone /\ ReadyIsSetUp)
BY MachineInitHolds, MachineNextKeeps, MachineInvShows, PTL DEF Spec
=============================================================================
