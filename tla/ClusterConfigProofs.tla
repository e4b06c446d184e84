------------------------ MODULE ClusterConfigProofs ------------------------
(***************************************************************************)
(* The types of ClusterConfig, that no plan switches on what a running     *)
(* node lacks, and that a cluster for which nothing is queued or running   *)
(* is current, for any number of nodes, workers and users.                 *)
(*                                                                         *)
(* SwitchedOnWhereInstalled is not inductive: a plan may be rendered long  *)
(* before it is applied.  What makes it hold is that the nodes that lack a *)
(* token or a scanner only become fewer (LackingShrinks), so that a plan,  *)
(* once rendered from the rows, stays sound until it is applied, however   *)
(* late that is (PlansSound).                                              *)
(*                                                                         *)
(* QuietIsCurrent speaks of the end of the pushes.  PushInv says what is   *)
(* true on the way there: every plan that lacks a change was rendered      *)
(* before the newest one applied, or one that has it is still to come      *)
(* (Coming), or a push was lost.                                           *)
(***************************************************************************)
EXTENDS ClusterConfig, TLAPS

\* What a plan switches on, every running node has.
Sound(plan) ==
    /\ plan.hook \/ plan.push => Lacking("token") = {}
    /\ plan.milter => Lacking("scanner") = {}

\* The plan in use and those the pushes hold.
PlansSound ==
    /\ Sound(applied)
    /\ \A p \in Pushers : Sound(pusher[p].plan)

IInv == TypeOK /\ PlansSound

\* The plan rendered from the rows is one, and sound.
LEMMA RenderedPlan ==
    ASSUME TypeOK
    PROVE  ClusterPlan \in Plan /\ Sound(ClusterPlan)
<1>1. ClusterPlan \in Plan
  <2>1. HookOn \in BOOLEAN /\ PushOn \in BOOLEAN /\ MilterOn \in BOOLEAN
    BY DEF HookOn, PushOn, MilterOn, TypeOK
  <2>2. clock \in Nat /\ desk \in Nat
    BY DEF TypeOK
  <2> QED BY <2>1, <2>2 DEF ClusterPlan, Plan
<1>2. Sound(ClusterPlan)
  BY DEF Sound, ClusterPlan, HookOn, PushOn, MilterOn
<1> QED BY <1>1, <1>2

\* The pusher without work holds a plan with everything off.
LEMMA IdlePusher == Idle \in Pusher /\ Sound(Idle.plan)
BY DEF Idle, Pusher, Plan, Kinds, Sound

LEMMA InitHolds == Init => IInv
<1> SUFFICES ASSUME Init PROVE IInv
  OBVIOUS
<1>1. /\ node \in [Nodes -> [status: Running \cup {"off"}, has: SUBSET Installs]]
      /\ set \in [telemetry: BOOLEAN, turn: Nat, scan: BOOLEAN]
  <2>1. ASSUME NEW r \in [status: {"off", "Active", "Draining"}, has: {{}}]
        PROVE  r \in [status: Running \cup {"off"}, has: SUBSET Installs]
    <3>1. r = [status |-> r.status, has |-> r.has] /\ r.status \in {"off", "Active", "Draining"} /\ r.has = {}
      OBVIOUS
    <3>2. r.status \in Running \cup {"off"} /\ r.has \in SUBSET Installs
      BY <3>1 DEF Running
    <3> QED BY <3>1, <3>2
  <2>2. node \in [Nodes -> [status: Running \cup {"off"}, has: SUBSET Installs]]
    <3>1. node \in [Nodes -> [status: {"off", "Active", "Draining"}, has: {{}}]]
      BY DEF Init
    <3>2. ASSUME NEW n \in Nodes PROVE node[n] \in [status: Running \cup {"off"}, has: SUBSET Installs]
      BY <3>1, <2>1, node[n] \in [status: {"off", "Active", "Draining"}, has: {{}}], Zenon
    <3> QED BY <3>1, <3>2, Zenon
  <2>3. set \in [telemetry: BOOLEAN, turn: Nat, scan: BOOLEAN]
    <3>1. set \in [telemetry: BOOLEAN, turn: {0}, scan: {FALSE}]
      BY DEF Init
    <3>2. /\ set = [telemetry |-> set.telemetry, turn |-> set.turn, scan |-> set.scan]
          /\ set.telemetry \in BOOLEAN /\ set.turn \in {0} /\ set.scan \in {FALSE}
      BY <3>1
    <3>3. set.turn \in Nat
      BY <3>2
    <3>4. set.scan \in BOOLEAN
      BY <3>2, Zenon
    <3> QED BY <3>2, <3>3, <3>4
  <2> QED BY <2>2, <2>3
<1>2. /\ HookOn \in BOOLEAN /\ PushOn \in BOOLEAN /\ MilterOn \in BOOLEAN
  BY <1>1 DEF HookOn, PushOn, MilterOn
<1>3. applied \in Plan /\ Sound(applied)
  BY <1>2 DEF Init, ClusterPlan, Plan, Sound, HookOn, PushOn, MilterOn
<1>4. TypeOK
  BY <1>1, <1>3, IdlePusher DEF Init, TypeOK, Kinds
<1>5. \A p \in Pushers : Sound(pusher[p].plan)
  BY IdlePusher DEF Init
<1> QED BY <1>3, <1>4, <1>5 DEF IInv, PlansSound

\* A step leaves every node that has an install with it, as long as it runs.
LEMMA LackingShrinks ==
    ASSUME TypeOK, [Next]_vars, NEW what \in Installs
    PROVE  Lacking(what)' \subseteq Lacking(what)
<1>1. ASSUME UNCHANGED node PROVE Lacking(what)' \subseteq Lacking(what)
  BY <1>1 DEF Lacking
<1>2. ASSUME NEW n \in Nodes, NodeMoves(n) PROVE Lacking(what)' \subseteq Lacking(what)
  <2>1. ASSUME NEW m \in Nodes, node'[m].status \in Running, what \notin node'[m].has
        PROVE  node[m].status \in Running /\ what \notin node[m].has
    BY <1>2, <2>1 DEF NodeMoves, ComesUp, TypeOK, Running
  <2> QED BY <2>1 DEF Lacking
<1>3. ASSUME NEW n \in Nodes, NEW w \in Installs, Mark(n, w) PROVE Lacking(what)' \subseteq Lacking(what)
  <2>1. ASSUME NEW m \in Nodes, node'[m].status \in Running, what \notin node'[m].has
        PROVE  node[m].status \in Running /\ what \notin node[m].has
    BY <1>3, <2>1 DEF Mark, TypeOK
  <2> QED BY <2>1 DEF Lacking
<1>4. ASSUME NEW p \in Workers, Take(p) PROVE UNCHANGED node
  BY <1>4 DEF Take
<1>5. ASSUME NEW p \in Pushers, PusherSteps(p) \/ GiveUp(p) \/ ApplyFails(p) \/ Die(p) PROVE UNCHANGED node
  BY <1>5 DEF PusherSteps, Acquire, Apply, Finish, GiveUp, ApplyFails, Die
<1>6. ASSUME Change \/ ToggleScan \/ ToggleTelemetry \/ Expire \/ MarkExpires PROVE UNCHANGED node
  BY <1>6 DEF Change, ToggleScan, ToggleTelemetry, Expire, MarkExpires
<1>7. ASSUME NEW u \in Users, SyncConfig(u) PROVE UNCHANGED node
  BY <1>7 DEF SyncConfig
<1>8. CASE UNCHANGED vars
  BY <1>1, <1>8 DEF vars
<1> QED BY <1>1, <1>2, <1>3, <1>4, <1>5, <1>6, <1>7, <1>8 DEF Next

\* A plan that was sound stays so.
LEMMA SoundStays ==
    ASSUME TypeOK, [Next]_vars, NEW plan, Sound(plan)
    PROVE  /\ plan.hook \/ plan.push => Lacking("token")' = {}
           /\ plan.milter => Lacking("scanner")' = {}
<1>1. "token" \in Installs /\ "scanner" \in Installs
  BY DEF Installs
<1>2. Lacking("token")' \subseteq Lacking("token")
  BY <1>1, LackingShrinks
<1>3. Lacking("scanner")' \subseteq Lacking("scanner")
  BY <1>1, LackingShrinks
<1> QED BY <1>2, <1>3 DEF Sound

\* A step of the pushes and the queue that gives one process a well-typed, sound plan.
LEMMA PusherStep ==
    ASSUME IInv, [Next]_vars, NEW p \in Pushers, NEW r \in Pusher, Sound(r.plan), Sets(p, r)
    PROVE  /\ pusher' \in [Pushers -> Pusher]
           /\ \A q \in Pushers : Sound(pusher[q].plan)'
<1>1. pusher \in [Pushers -> Pusher]
  BY DEF IInv, TypeOK
<1>2. pusher' \in [Pushers -> Pusher]
  BY <1>1 DEF Sets
<1>3. ASSUME NEW q \in Pushers PROVE Sound(pusher'[q].plan)
  BY <1>1 DEF Sets, IInv, PlansSound
<1>4. ASSUME NEW q \in Pushers PROVE Sound(pusher[q].plan)'
  BY <1>3, SoundStays DEF IInv, Sound
<1> QED BY <1>2, <1>4

\* A step that leaves the pushes alone.
LEMMA PushersStay ==
    ASSUME IInv, [Next]_vars, UNCHANGED pusher
    PROVE  /\ pusher' \in [Pushers -> Pusher]
           /\ \A q \in Pushers : Sound(pusher[q].plan)'
<1>1. ASSUME NEW q \in Pushers PROVE Sound(pusher[q].plan)'
  BY SoundStays DEF IInv, PlansSound, Sound
<1> QED BY <1>1 DEF IInv, TypeOK

\* A step that leaves the plan in use alone.
LEMMA AppliedStays ==
    ASSUME IInv, [Next]_vars, UNCHANGED applied
    PROVE  (applied \in Plan)' /\ Sound(applied)'
BY SoundStays DEF IInv, TypeOK, PlansSound, Sound

\* The parts of the invariant a step is left with.
LEMMA Parts ==
    ASSUME (node \in [Nodes -> [status: Running \cup {"off"}, has: SUBSET Installs]])',
           (set \in [telemetry: BOOLEAN, turn: Nat, scan: BOOLEAN])',
           (clock \in Nat /\ desk \in Nat /\ newest \in Nat /\ turn \in Nat)',
           (mark \in BOOLEAN /\ lost \in BOOLEAN)',
           (queue \in [Kinds -> Nat])',
           (lock \in Pushers \cup {Free})',
           (applied \in Plan)', Sound(applied)',
           pusher' \in [Pushers -> Pusher], \A q \in Pushers : Sound(pusher[q].plan)'
    PROVE  IInv'
BY DEF IInv, TypeOK, PlansSound

LEMMA ClockTyped ==
    ASSUME TypeOK, Ticks
    PROVE  clock' \in Nat
BY DEF TypeOK, Ticks

\* QueuePush, and the queue of a kind that gets one more.
LEMMA QueuePushTyped ==
    ASSUME TypeOK, QueuePush
    PROVE  mark' \in BOOLEAN /\ queue' \in [Kinds -> Nat]
<1>1. queue \in [Kinds -> Nat] /\ mark \in BOOLEAN
  BY DEF TypeOK
<1>2. CASE mark
  BY <1>1, <1>2 DEF QueuePush
<1>3. CASE ~mark
  <2>1. mark' = TRUE /\ queue' = [queue EXCEPT !["resync"] = @ + 1]
    BY <1>3 DEF QueuePush
  <2>2. queue' \in [Kinds -> Nat]
    BY <1>1, <2>1 DEF Kinds
  <2> QED BY <2>1, <2>2, Zenon
<1> QED BY <1>2, <1>3

LEMMA QueuesTyped ==
    ASSUME TypeOK, QueuesOrDies
    PROVE  mark' \in BOOLEAN /\ queue' \in [Kinds -> Nat] /\ lost' \in BOOLEAN
<1>1. CASE QueuePush /\ UNCHANGED <<lost, faults>>
  BY <1>1, QueuePushTyped DEF TypeOK
<1>2. CASE lost' = TRUE /\ UNCHANGED <<mark, queue>>
  BY <1>2 DEF TypeOK
<1> QED BY <1>1, <1>2 DEF QueuesOrDies

\* The desk's saves.
LEMMA DeskStep ==
    ASSUME IInv, [Next]_vars, Change \/ ToggleScan \/ ToggleTelemetry
    PROVE  IInv'
<1>1. TypeOK
  BY DEF IInv
<1>2. CASE Change
  <2>1. clock' \in Nat /\ desk' \in Nat
    BY <1>1, <1>2, ClockTyped DEF Change, TypeOK
  <2>2. mark' \in BOOLEAN /\ queue' \in [Kinds -> Nat] /\ lost' \in BOOLEAN
    BY <1>1, <1>2, QueuesTyped DEF Change
  <2>3. UNCHANGED <<node, set, applied, lock, pusher, turn, newest>>
    BY <1>2 DEF Change
  <2> QED BY <1>1, <2>1, <2>2, <2>3, PushersStay, AppliedStays, Parts DEF TypeOK
<1>3. CASE ToggleScan
  <2>a. PICK b \in BOOLEAN : set' = [set EXCEPT !.scan = b]
    <3>1. set' = [set EXCEPT !.scan = ~set.scan]
      BY <1>3, Zenon DEF ToggleScan
    <3>2. (~set.scan) \in BOOLEAN
      OBVIOUS
    <3> QED BY <3>1, <3>2, Zenon
  <2>b. clock' \in Nat
    BY <1>1, <1>3, ClockTyped DEF ToggleScan
  <2>1. clock' \in Nat /\ set' \in [telemetry: BOOLEAN, turn: Nat, scan: BOOLEAN]
    BY <1>1, <2>a, <2>b DEF TypeOK
  <2>2. mark' \in BOOLEAN /\ queue' \in [Kinds -> Nat] /\ lost' \in BOOLEAN
    BY <1>1, <1>3, QueuesTyped DEF ToggleScan
  <2>3. UNCHANGED <<node, desk, applied, lock, pusher, turn, newest>>
    BY <1>3 DEF ToggleScan
  <2> QED BY <1>1, <2>1, <2>2, <2>3, PushersStay, AppliedStays, Parts DEF TypeOK
<1>4. CASE ToggleTelemetry
  <2>a. PICK b \in BOOLEAN : set' = [set EXCEPT !.telemetry = b, !.turn = @ + 1]
    <3>1. set' = [set EXCEPT !.telemetry = ~set.telemetry, !.turn = @ + 1]
      BY <1>4, Zenon DEF ToggleTelemetry
    <3>2. (~set.telemetry) \in BOOLEAN
      OBVIOUS
    <3> QED BY <3>1, <3>2, Zenon
  <2>b. clock' \in Nat
    BY <1>1, <1>4, ClockTyped DEF ToggleTelemetry
  <2>c. set' = [telemetry |-> b, turn |-> set.turn + 1, scan |-> set.scan] /\ set.turn \in Nat /\ set.scan \in BOOLEAN
    BY <1>1, <2>a DEF TypeOK
  <2>1. clock' \in Nat /\ set' \in [telemetry: BOOLEAN, turn: Nat, scan: BOOLEAN]
    BY <2>b, <2>c
  <2>2. queue' \in [Kinds -> Nat]
    BY <1>1, <1>4 DEF ToggleTelemetry, TypeOK, Kinds
  <2>3. UNCHANGED <<node, desk, applied, mark, lock, pusher, turn, newest, lost>>
    BY <1>4 DEF ToggleTelemetry
  <2> QED BY <1>1, <2>1, <2>2, <2>3, PushersStay, AppliedStays, Parts DEF TypeOK
<1> QED BY <1>2, <1>3, <1>4

\* A worker takes a job.
LEMMA TakeStep ==
    ASSUME IInv, [Next]_vars, NEW p \in Workers, Take(p)
    PROVE  IInv'
<1>1. TypeOK /\ p \in Pushers
  BY DEF IInv, Pushers
<1>2. UNCHANGED <<node, set, clock, desk, applied, lock, newest, lost, faults>>
  BY DEF Take
<1>3. [Idle EXCEPT !.at = "waiting"] \in Pusher /\ Sound([Idle EXCEPT !.at = "waiting"].plan)
  BY DEF Idle, Pusher, Plan, Kinds, Sound
<1>4. ClusterPlan \in Plan /\ Sound(ClusterPlan)
  BY <1>1, RenderedPlan
<1>a. queue \in [Kinds -> Nat] /\ mark \in BOOLEAN /\ turn \in Nat /\ set.turn \in Nat
  BY <1>1 DEF TypeOK
<1>b. SUFFICES /\ mark' \in BOOLEAN /\ queue' \in [Kinds -> Nat] /\ turn' \in Nat
               /\ \/ UNCHANGED pusher
                  \/ \E r \in Pusher : Sound(r.plan) /\ Sets(p, r)
  <2>1. pusher' \in [Pushers -> Pusher] /\ \A q \in Pushers : Sound(pusher[q].plan)'
    BY <1>b, <1>1, PusherStep, PushersStay
  <2> QED BY <1>1, <1>2, <1>b, <2>1, AppliedStays, Parts DEF TypeOK
<1>5. CASE TakeResync(p)
  <2>1. queue' \in [Kinds -> Nat]
    BY <1>5, <1>a DEF TakeResync, Kinds
  <2>2. mark' \in BOOLEAN
    BY <1>5, Zenon DEF TakeResync
  <2> QED BY <1>5, <1>3, <1>a, <2>1, <2>2 DEF TakeResync
<1>6. CASE TakeStart(p)
  <2>1. queue' \in [Kinds -> Nat]
    BY <1>6, <1>a DEF TakeStart, Kinds
  <2> DEFINE r == [Idle EXCEPT !.at = "waiting", !.kind = "start", !.plan = ClusterPlan]
  <2>2. r \in Pusher /\ r.plan = ClusterPlan
    BY <1>4, IdlePusher DEF Pusher, Kinds
  <2>3. Sound(r.plan)
    BY <2>2, <1>4
  <2> QED BY <1>6, <1>a, <2>1, <2>2, <2>3 DEF TakeStart
<1>7. CASE TakeRollOut(p)
  <2> DEFINE took == [queue EXCEPT !["rollout"] = @ - 1]
  <2>a. took \in [Kinds -> Nat]
    BY <1>7, <1>a DEF TakeRollOut, Kinds
  <2>1. CASE queue' = took /\ UNCHANGED <<mark, pusher, turn>>
    BY <2>1, <2>a, <1>a
  <2>2. CASE mark' = TRUE /\ queue' = [took EXCEPT !["resync"] = IF mark THEN @ ELSE @ + 1] /\ turn' = set.turn /\ UNCHANGED pusher
    <3>1. queue' \in [Kinds -> Nat]
      BY <2>2, <2>a DEF Kinds
    <3>2. mark' \in BOOLEAN
      BY <2>2, Zenon
    <3> QED BY <2>2, <3>1, <3>2, <1>a
  <2>3. CASE /\ queue' = took
             /\ Sets(p, [at |-> "waiting", kind |-> "rollout", plan |-> ClusterPlan, turn |-> set.turn])
             /\ UNCHANGED <<mark, turn>>
    <3> DEFINE r == [at |-> "waiting", kind |-> "rollout", plan |-> ClusterPlan, turn |-> set.turn]
    <3>1. r \in Pusher /\ Sound(r.plan)
      BY <1>4, <1>a DEF Pusher, Kinds
    <3> QED BY <2>3, <2>a, <1>a, <3>1
  <2>4. CASE queue' = took /\ turn' = set.turn /\ UNCHANGED <<mark, pusher>>
    BY <2>4, <2>a, <1>a
  <2> QED BY <1>7, <2>1, <2>2, <2>3, <2>4, Zenon DEF TakeRollOut
<1> QED BY <1>5, <1>6, <1>7 DEF Take

\* Sync Config loads the cluster.
LEMMA SyncStep ==
    ASSUME IInv, [Next]_vars, NEW u \in Users, SyncConfig(u)
    PROVE  IInv'
<1>1. TypeOK /\ u \in Pushers
  BY DEF IInv, Pushers
<1> DEFINE r == [Idle EXCEPT !.at = "waiting", !.kind = "button", !.plan = ClusterPlan]
<1>2. r \in Pusher /\ r.plan = ClusterPlan
  BY <1>1, RenderedPlan, IdlePusher DEF Pusher, Kinds
<1>3. Sound(r.plan)
  BY <1>1, <1>2, RenderedPlan
<1>4. pusher' \in [Pushers -> Pusher] /\ \A q \in Pushers : Sound(pusher[q].plan)'
  BY <1>1, <1>2, <1>3, PusherStep DEF SyncConfig
<1>5. UNCHANGED <<node, set, clock, desk, applied, mark, queue, lock, turn, newest, lost>>
  BY DEF SyncConfig
<1> QED BY <1>1, <1>4, <1>5, AppliedStays, Parts DEF TypeOK

\* The next step of a push, or its failure.
LEMMA PushStep ==
    ASSUME IInv, [Next]_vars, NEW p \in Pushers, PusherSteps(p) \/ GiveUp(p) \/ ApplyFails(p) \/ Die(p)
    PROVE  IInv'
<1>1. TypeOK /\ pusher[p] \in Pusher /\ Sound(pusher[p].plan)
  BY DEF IInv, TypeOK, PlansSound
<1>2. UNCHANGED <<node, set, clock, desk, mark, queue>>
  BY DEF PusherSteps, Acquire, Apply, Finish, GiveUp, ApplyFails, Die
<1>a. ASSUME Sets(p, Idle) PROVE pusher' \in [Pushers -> Pusher] /\ \A q \in Pushers : Sound(pusher[q].plan)'
  BY <1>a, IdlePusher, PusherStep
<1>b. ASSUME turn' = IF pusher[p].kind = "rollout" THEN pusher[p].turn ELSE turn PROVE turn' \in Nat
  BY <1>b, <1>1 DEF TypeOK, Pusher
<1>c. ASSUME Released(p) PROVE lock' \in Pushers \cup {Free}
  BY <1>c, <1>1 DEF Released, TypeOK
<1>d. ASSUME lost' = (lost \/ pusher[p].kind # "button") PROVE lost' \in BOOLEAN
  BY <1>d, Zenon
<1>3. CASE Acquire(p)
  <2> DEFINE r == [pusher[p] EXCEPT !.at = "locked", !.plan = IF pusher[p].kind = "resync" THEN ClusterPlan ELSE @]
  <2>1. r \in Pusher /\ (r.plan = ClusterPlan \/ r.plan = pusher[p].plan)
    BY <1>1, RenderedPlan DEF Pusher
  <2>2. Sound(r.plan)
    BY <1>1, <2>1, RenderedPlan
  <2>3. pusher' \in [Pushers -> Pusher] /\ \A q \in Pushers : Sound(pusher[q].plan)'
    BY <1>3, <2>1, <2>2, PusherStep DEF Acquire
  <2>4. lock' = p /\ UNCHANGED <<applied, turn, newest, lost>>
    BY <1>3 DEF Acquire
  <2> QED BY <1>1, <1>2, <2>3, <2>4, AppliedStays, Parts DEF TypeOK
<1>4. CASE Apply(p)
  <2> DEFINE r == [pusher[p] EXCEPT !.at = "applied"]
  <2>1. r \in Pusher /\ r.plan = pusher[p].plan
    BY <1>1 DEF Pusher
  <2>2. pusher' \in [Pushers -> Pusher] /\ \A q \in Pushers : Sound(pusher[q].plan)'
    BY <1>1, <1>4, <2>1, PusherStep DEF Apply
  <2>3. applied' = pusher[p].plan /\ applied' \in Plan
    BY <1>1, <1>4 DEF Apply, Pusher
  <2>4. Sound(applied)'
    BY <1>1, <2>3, SoundStays DEF Sound
  <2>5. newest' \in Nat
    BY <1>1, <1>4 DEF Apply, Pusher, Plan, TypeOK
  <2>6. lost' \in BOOLEAN
    BY <1>4, Zenon DEF Apply
  <2>7. UNCHANGED <<lock, turn>>
    BY <1>4 DEF Apply
  <2> QED BY <1>1, <1>2, <2>2, <2>3, <2>4, <2>5, <2>6, <2>7, Parts DEF TypeOK
<1>5. CASE Finish(p)
  <2>1. UNCHANGED <<applied, newest, lost>> /\ Sets(p, Idle) /\ Released(p)
    BY <1>5 DEF Finish
  <2>2. turn' \in Nat
    BY <1>5, <1>b DEF Finish
  <2> QED BY <1>1, <1>2, <1>a, <1>c, <2>1, <2>2, AppliedStays, Parts DEF TypeOK
<1>6. CASE GiveUp(p)
  <2>1. UNCHANGED <<applied, newest, lock>> /\ Sets(p, Idle)
    BY <1>6 DEF GiveUp, Fails
  <2>2. turn' \in Nat /\ lost' \in BOOLEAN
    BY <1>6, <1>b, <1>d DEF GiveUp, Fails
  <2> QED BY <1>1, <1>2, <1>a, <2>1, <2>2, AppliedStays, Parts DEF TypeOK
<1>7. CASE ApplyFails(p)
  <2>1. UNCHANGED <<applied, newest>> /\ Sets(p, Idle) /\ Released(p)
    BY <1>7 DEF ApplyFails, Fails
  <2>2. turn' \in Nat /\ lost' \in BOOLEAN
    BY <1>7, <1>b, <1>d DEF ApplyFails, Fails
  <2> QED BY <1>1, <1>2, <1>a, <1>c, <2>1, <2>2, AppliedStays, Parts DEF TypeOK
<1>8. CASE Die(p)
  <2>1. UNCHANGED <<applied, newest, lock, turn>> /\ Sets(p, Idle)
    BY <1>8 DEF Die
  <2>2. lost' \in BOOLEAN
    BY <1>8, <1>d DEF Die
  <2> QED BY <1>1, <1>2, <1>a, <2>1, <2>2, AppliedStays, Parts DEF TypeOK
<1> QED BY <1>3, <1>4, <1>5, <1>6, <1>7, <1>8 DEF PusherSteps

\* The lock and the mark run out.
LEMMA ExpiryStep ==
    ASSUME IInv, [Next]_vars, Expire \/ MarkExpires
    PROVE  IInv'
<1>1. TypeOK
  BY DEF IInv
<1>2. UNCHANGED <<node, set, clock, desk, applied, queue, pusher, turn, newest, lost>>
  BY DEF Expire, MarkExpires
<1>3. lock' \in Pushers \cup {Free}
  BY <1>1 DEF Expire, MarkExpires, TypeOK
<1>4. mark' \in BOOLEAN
  BY <1>1, Zenon DEF Expire, MarkExpires, TypeOK
<1> QED BY <1>1, <1>2, <1>3, <1>4, PushersStay, AppliedStays, Parts DEF TypeOK

\* A node moves or gets an install.
LEMMA NodeStep ==
    ASSUME IInv, [Next]_vars, NEW n \in Nodes, NodeMoves(n) \/ (\E what \in Installs : Mark(n, what))
    PROVE  IInv'
<1>1. TypeOK
  BY DEF IInv
<1>2. clock' \in Nat
  BY <1>1, ClockTyped DEF NodeMoves, Mark
<1>3. UNCHANGED <<set, desk, applied, lock, pusher, turn, newest, lost>>
  BY DEF NodeMoves, Mark
<1>4. (node \in [Nodes -> [status: Running \cup {"off"}, has: SUBSET Installs]])'
  <2>1. CASE NodeMoves(n)
    BY <1>1, <2>1 DEF NodeMoves, ComesUp, TypeOK, Running, Installs
  <2>2. ASSUME NEW what \in Installs, Mark(n, what)
        PROVE  node' \in [Nodes -> [status: Running \cup {"off"}, has: SUBSET Installs]]
    BY <1>1, <2>2 DEF Mark, TypeOK
  <2> QED BY <2>1, <2>2
<1>5. mark' \in BOOLEAN /\ queue' \in [Kinds -> Nat]
  <2>1. CASE NodeMoves(n)
    BY <1>1, <2>1 DEF NodeMoves, TypeOK
  <2>2. ASSUME NEW what \in Installs, Mark(n, what) PROVE mark' \in BOOLEAN /\ queue' \in [Kinds -> Nat]
    <3>1. CASE UNCHANGED <<mark, queue>>
      BY <1>1, <3>1 DEF TypeOK
    <3>2. CASE queue' = [queue EXCEPT !["start"] = @ + 1] /\ UNCHANGED mark
      BY <1>1, <3>2 DEF TypeOK, Kinds
    <3>3. CASE QueuePush
      BY <1>1, <3>3, QueuePushTyped
    <3> QED BY <2>2, <3>1, <3>2, <3>3, Zenon DEF Mark
  <2> QED BY <2>1, <2>2
<1> QED BY <1>1, <1>2, <1>3, <1>4, <1>5, PushersStay, AppliedStays, Parts DEF TypeOK

LEMMA StepHolds == IInv /\ [Next]_vars => IInv'
<1> SUFFICES ASSUME IInv, [Next]_vars PROVE IInv'
  OBVIOUS
<1>1. CASE UNCHANGED vars
  <2>1. UNCHANGED <<node, set, clock, desk, applied, mark, queue, lock, pusher, turn, newest, lost>>
    BY <1>1 DEF vars
  <2> QED BY <2>1, PushersStay, AppliedStays, Parts DEF IInv, TypeOK
<1>2. CASE Next
  BY <1>2, DeskStep, TakeStep, SyncStep, PushStep, ExpiryStep, NodeStep DEF Next
<1> QED BY <1>1, <1>2

\* The rows, the plans, the lock and the pushes keep their types (StalwartCluster, push.py), for
\* any number of nodes, workers and users.
THEOREM TypeCorrect == Spec => []TypeOK
<1>1. IInv => TypeOK
  BY DEF IInv
<1> QED BY InitHolds, StepHolds, <1>1, PTL DEF Spec

\* No plan the cluster runs with has a token sender on while a running node has no token, or the
\* milter while one has no scanner, however many pushes overlap, however late each is applied and
\* whatever fails (server_token.py, plan.py).
THEOREM SendersHaveTokens == Spec => []SwitchedOnWhereInstalled
<1>1. IInv => SwitchedOnWhereInstalled
  BY DEF IInv, PlansSound, Sound, SwitchedOnWhereInstalled
<1> QED BY InitHolds, StepHolds, <1>1, PTL DEF Spec

----------------------------------------------------------------------------
(* A quiet cluster is current *)

Subjects == {"desk", "push", "milter"}

\* What QuietIsCurrent asks of a plan in use, the plan does not have.
Wrong(k, q) ==
    \/ k = "desk" /\ q.desk # desk
    \/ k = "push" /\ q.push /\ ~set.telemetry
    \/ k = "milter" /\ q.milter /\ ~set.scan

\* The push has a plan it may yet apply.
Holds(p) == pusher[p].at = "locked" \/ (pusher[p].at = "waiting" /\ pusher[p].kind # "resync")

\* Every wrong plan about was rendered before a.
Newer(k, a) ==
    /\ Wrong(k, applied) => applied.at < a
    /\ \A p \in Pushers : Holds(p) /\ Wrong(k, pusher[p].plan) => pusher[p].plan.at < a

\* A plan that is right is on its way.
Coming(k) ==
    \/ queue["resync"] > 0
    \/ \E p \in Pushers : pusher[p].at = "waiting" /\ pusher[p].kind = "resync"
    \/ \E p \in Pushers :
         pusher[p].at = "locked" /\ pusher[p].kind # "button" /\ Newer(k, pusher[p].plan.at)
    \/ k = "push" /\ queue["rollout"] > 0 /\ turn # set.turn

\* A plan is of a moment so far, and one of this moment is right.
Truthful(q) == q.at <= clock /\ (q.at = clock => \A k \in Subjects : ~Wrong(k, q))

Dated ==
    /\ Truthful(applied) /\ applied.at <= newest /\ newest <= clock
    /\ \A p \in Pushers : Holds(p) => Truthful(pusher[p].plan)

\* No roll-out is of a later turn; one that runs while telemetry is off is of an earlier one.
Turns ==
    /\ turn <= set.turn
    /\ \A p \in Pushers :
         /\ pusher[p].turn <= set.turn
         /\ pusher[p].at # "idle" /\ pusher[p].kind = "rollout" /\ ~set.telemetry =>
              pusher[p].turn < set.turn

\* The mark is of a push that waits.
Marked == mark => queue["resync"] > 0

\* What makes QuietIsCurrent inductive: as long as a wrong plan may end up in use, a right one is on
\* its way, or a push was lost.
PushInv ==
    /\ Dated /\ Turns /\ Marked
    /\ \A k \in Subjects : lost \/ Newer(k, newest) \/ Coming(k)

Safe(k) == lost \/ Newer(k, newest) \/ Coming(k)

\* Wrong and Newer after the step, of a plan and a moment of before.
WrongThen(k, q) ==
    \/ k = "desk" /\ q.desk # desk'
    \/ k = "push" /\ q.push /\ ~set'.telemetry
    \/ k = "milter" /\ q.milter /\ ~set'.scan

NewerThen(k, a) ==
    /\ WrongThen(k, applied') => applied'.at < a
    /\ \A p \in Pushers : Holds(p)' /\ WrongThen(k, pusher'[p].plan) => pusher'[p].plan.at < a

LEMMA Then ==
    ASSUME NEW k
    PROVE  /\ Newer(k, newest)' <=> NewerThen(k, newest')
           /\ \A p \in Pushers : Newer(k, pusher[p].plan.at)' <=> NewerThen(k, pusher'[p].plan.at)
BY DEF Newer, NewerThen, Wrong, WrongThen

\* The types the comparisons need.
LEMMA Numbers ==
    ASSUME TypeOK
    PROVE  /\ clock \in Nat /\ desk \in Nat /\ newest \in Nat /\ turn \in Nat /\ set.turn \in Nat
           /\ applied \in Plan /\ applied.at \in Nat
           /\ queue["resync"] \in Nat /\ queue["rollout"] \in Nat
           /\ \A p \in Pushers :
                pusher[p] \in Pusher /\ pusher[p].plan \in Plan /\ pusher[p].plan.at \in Nat /\ pusher[p].turn \in Nat
<1>1. /\ clock \in Nat /\ desk \in Nat /\ newest \in Nat /\ turn \in Nat /\ set.turn \in Nat /\ applied \in Plan
      /\ queue["resync"] \in Nat /\ queue["rollout"] \in Nat
      /\ \A p \in Pushers : pusher[p] \in Pusher
  BY DEF TypeOK, Kinds
<1>2. \A q \in Plan : q.at \in Nat
  BY DEF Plan
<1>3. \A p \in Pushers : pusher[p].plan \in Plan /\ pusher[p].turn \in Nat
  BY <1>1 DEF Pusher
<1> QED BY <1>1, <1>2, <1>3

\* The plan rendered now is right, and newer than every wrong one.
LEMMA RightNow ==
    ASSUME IInv, Dated, NEW k \in Subjects
    PROVE  ~Wrong(k, ClusterPlan) /\ Newer(k, clock) /\ ClusterPlan.at = clock
<1>1. ~Wrong(k, ClusterPlan) /\ ClusterPlan.at = clock
  BY DEF Wrong, ClusterPlan, PushOn, MilterOn
<1>2. TypeOK
  BY DEF IInv
<1>3. ASSUME NEW q, q.at \in Nat, Truthful(q), Wrong(k, q) PROVE q.at < clock
  BY <1>2, <1>3, Numbers DEF Truthful
<1>4. Newer(k, clock)
  BY <1>2, <1>3, Numbers DEF Newer, Dated
<1> QED BY <1>1, <1>4

\* A commit that a plan depends on: every plan is of an earlier moment now.
LEMMA TickDated ==
    ASSUME IInv, Dated, Ticks, UNCHANGED <<applied, pusher, newest>>
    PROVE  Dated'
<1>1. TypeOK /\ clock' = clock + 1
  BY DEF IInv, Ticks
<1>2. ASSUME NEW q, q.at \in Nat, Truthful(q) PROVE q.at <= clock' /\ q.at # clock'
  BY <1>1, <1>2, Numbers DEF Truthful
<1>3. applied'.at <= clock' /\ applied'.at # clock' /\ applied'.at <= newest' /\ newest' <= clock'
  BY <1>1, <1>2, Numbers DEF Dated
<1>4. ASSUME NEW p \in Pushers, Holds(p)' PROVE pusher'[p].plan.at <= clock' /\ pusher'[p].plan.at # clock'
  BY <1>1, <1>2, <1>4, Numbers DEF Dated, Holds
<1> QED BY <1>3, <1>4 DEF Dated, Truthful

\* A commit on another subject.
LEMMA TickSafe ==
    ASSUME IInv, NEW k \in Subjects, Safe(k), UNCHANGED <<applied, pusher, newest, lost, turn>>,
           k = "desk" => desk' = desk, k = "milter" => set'.scan = set.scan,
           k = "push" => set'.telemetry = set.telemetry /\ set'.turn = set.turn,
           queue'["resync"] \in Nat, queue'["rollout"] \in Nat,
           queue'["resync"] >= queue["resync"], queue'["rollout"] >= queue["rollout"]
    PROVE  Safe(k)'
<1>1. TypeOK
  BY DEF IInv
<1>2. ASSUME NEW q, WrongThen(k, q) PROVE Wrong(k, q)
  BY <1>2 DEF WrongThen, Wrong
<1>3. ASSUME NEW a, Newer(k, a) PROVE NewerThen(k, a)
  BY <1>2, <1>3 DEF Newer, NewerThen, Holds
<1>4. CASE lost
  BY <1>4 DEF Safe
<1>5. CASE Newer(k, newest)
  BY <1>3, <1>5, Then DEF Safe
<1>6. CASE Coming(k)
  <2>1. CASE queue["resync"] > 0
    BY <1>1, <2>1, Numbers DEF Safe, Coming
  <2>2. CASE \E p \in Pushers : pusher[p].at = "waiting" /\ pusher[p].kind = "resync"
    BY <2>2 DEF Safe, Coming
  <2>3. ASSUME NEW p \in Pushers, pusher[p].at = "locked", pusher[p].kind # "button",
               Newer(k, pusher[p].plan.at)
        PROVE  Safe(k)'
    <3>1. NewerThen(k, pusher'[p].plan.at)
      BY <1>3, <2>3
    <3> QED BY <2>3, <3>1, Then DEF Safe, Coming
  <2>4. CASE k = "push" /\ queue["rollout"] > 0 /\ turn # set.turn
    BY <1>1, <2>4, Numbers DEF Safe, Coming
  <2> QED BY <1>6, <2>1, <2>2, <2>3, <2>4 DEF Coming
<1> QED BY <1>4, <1>5, <1>6 DEF Safe

\* QueuePush leaves a push waiting.
LEMMA QueuePushWaits ==
    ASSUME TypeOK, Marked, QueuePush
    PROVE  /\ queue'["resync"] > 0 /\ queue'["resync"] >= queue["resync"]
           /\ queue'["resync"] \in Nat /\ queue'["rollout"] = queue["rollout"]
<1>1. queue \in [Kinds -> Nat] /\ "resync" \in Kinds /\ "rollout" \in Kinds
  BY DEF TypeOK, Kinds
<1>2. CASE mark
  BY <1>1, <1>2 DEF QueuePush, Marked
<1>3. CASE ~mark
  <2>1. queue' = [queue EXCEPT !["resync"] = @ + 1]
    BY <1>3 DEF QueuePush
  <2> QED BY <1>1, <2>1
<1> QED BY <1>2, <1>3

LEMMA QueuesOrDiesWaits ==
    ASSUME TypeOK, Marked, QueuesOrDies
    PROVE  /\ queue'["resync"] >= queue["resync"] /\ queue'["resync"] \in Nat /\ queue'["rollout"] = queue["rollout"]
           /\ lost' \/ (queue'["resync"] > 0 /\ UNCHANGED lost)
           /\ Marked'
<1>1. CASE QueuePush /\ UNCHANGED <<lost, faults>>
  BY <1>1, QueuePushWaits DEF Marked
<1>2. CASE lost' = TRUE /\ UNCHANGED <<mark, queue>>
  BY <1>2, Numbers DEF Marked
<1> QED BY <1>1, <1>2 DEF QueuesOrDies

LEMMA DeskPushInv ==
    ASSUME IInv, IInv', PushInv, Change \/ ToggleScan \/ ToggleTelemetry
    PROVE  PushInv'
<1>0. TypeOK /\ TypeOK' /\ Dated /\ Turns /\ Marked /\ set \in [telemetry: BOOLEAN, turn: Nat, scan: BOOLEAN]
  BY DEF IInv, PushInv, TypeOK
<1>1. Ticks /\ UNCHANGED <<applied, pusher, newest, turn>>
  BY DEF Change, ToggleScan, ToggleTelemetry
<1>2. Dated'
  BY <1>0, <1>1, TickDated
<1>3. CASE Change
  <2>1. QueuesOrDies /\ UNCHANGED set
    BY <1>3 DEF Change
  <2>2. Turns'
    BY <1>0, <1>1, <2>1 DEF Turns
  <2>3. ASSUME NEW k \in Subjects PROVE Safe(k)'
    <3>1. CASE lost'
      BY <3>1 DEF Safe
    <3>2. CASE queue'["resync"] > 0
      BY <3>2 DEF Safe, Coming
    <3> QED BY <1>0, <2>1, <3>1, <3>2, QueuesOrDiesWaits
  <2> QED BY <1>0, <1>2, <2>1, <2>2, <2>3, QueuesOrDiesWaits DEF PushInv, Safe
<1>4. CASE ToggleScan
  <2>1. QueuesOrDies /\ set' = [set EXCEPT !.scan = ~set.scan]
    BY <1>4, Zenon DEF ToggleScan
  <2>2. set'.turn = set.turn /\ set'.telemetry = set.telemetry
    BY <1>0, <2>1
  <2>3. Turns'
    BY <1>0, <1>1, <2>2 DEF Turns
  <2>4. ASSUME NEW k \in Subjects PROVE Safe(k)'
    <3>1. CASE lost'
      BY <3>1 DEF Safe
    <3>2. CASE queue'["resync"] > 0
      BY <3>2 DEF Safe, Coming
    <3> QED BY <1>0, <2>1, <3>1, <3>2, QueuesOrDiesWaits
  <2> QED BY <1>0, <1>2, <2>1, <2>3, <2>4, QueuesOrDiesWaits DEF PushInv, Safe
<1>5. CASE ToggleTelemetry
  <2>1. /\ set' = [set EXCEPT !.telemetry = ~set.telemetry, !.turn = @ + 1]
        /\ queue' = [queue EXCEPT !["rollout"] = @ + 1] /\ UNCHANGED <<mark, lost, desk>>
    BY <1>5, Zenon DEF ToggleTelemetry
  <2>2. set'.turn = set.turn + 1 /\ (set'.telemetry <=> ~set.telemetry) /\ set'.scan = set.scan
    BY <1>0, <2>1
  <2>3. /\ queue'["rollout"] = queue["rollout"] + 1 /\ queue'["resync"] = queue["resync"]
        /\ queue'["resync"] \in Nat /\ queue'["rollout"] \in Nat /\ queue["rollout"] \in Nat
    BY <1>0, <2>1 DEF TypeOK, Kinds
  <2>4. set.turn \in Nat /\ turn \in Nat /\ \A p \in Pushers : pusher[p].turn \in Nat
    BY <1>0, Numbers
  <2>5. Turns'
    <3>1. turn' <= set'.turn /\ turn' # set'.turn
      BY <1>0, <1>1, <2>2, <2>4 DEF Turns
    <3>2. ASSUME NEW p \in Pushers PROVE pusher'[p].turn <= set'.turn /\ pusher'[p].turn < set'.turn
      BY <1>0, <1>1, <2>2, <2>4 DEF Turns
    <3> QED BY <3>1, <3>2 DEF Turns
  <2>6. Marked'
    BY <1>0, <2>1, <2>3 DEF Marked
  <2>7. ASSUME NEW k \in Subjects PROVE Safe(k)'
    <3>1. CASE k = "push" /\ set'.telemetry
      BY <3>1 DEF Safe, Newer, Wrong
    <3>2. CASE k = "push" /\ ~set'.telemetry
      <4>1. queue'["rollout"] > 0 /\ turn' # set'.turn
        BY <1>0, <1>1, <2>2, <2>3, <2>4 DEF Turns
      <4> QED BY <3>2, <4>1 DEF Safe, Coming
    <3>3. CASE k # "push"
      <4>1. Safe(k)
        BY DEF PushInv, Safe
      <4>2. queue'["resync"] >= queue["resync"] /\ queue'["rollout"] >= queue["rollout"]
        BY <2>3, <1>0, Numbers
      <4> QED BY <1>1, <2>1, <2>2, <2>3, <3>3, <4>1, <4>2, TickSafe
    <3> QED BY <3>1, <3>2, <3>3
  <2> QED BY <1>2, <2>5, <2>6, <2>7 DEF PushInv, Safe
<1> QED BY <1>3, <1>4, <1>5

LEMMA NodePushInv ==
    ASSUME IInv, IInv', PushInv, NEW n \in Nodes, NodeMoves(n) \/ (\E what \in Installs : Mark(n, what))
    PROVE  PushInv'
<1>0. TypeOK /\ TypeOK' /\ Dated /\ Turns /\ Marked
  BY DEF IInv, PushInv
<1>1. Ticks /\ UNCHANGED <<set, desk, applied, pusher, newest, turn, lost>>
  BY DEF NodeMoves, Mark
<1>2. Dated'
  BY <1>0, <1>1, TickDated
<1>3. Turns'
  BY <1>0, <1>1 DEF Turns
<1>4. /\ Marked'
      /\ queue'["resync"] >= queue["resync"] /\ queue'["rollout"] >= queue["rollout"]
      /\ queue'["resync"] \in Nat /\ queue'["rollout"] \in Nat
  <2>0. queue \in [Kinds -> Nat] /\ "resync" \in Kinds /\ "rollout" \in Kinds
    BY <1>0 DEF TypeOK, Kinds
  <2>1. CASE UNCHANGED <<mark, queue>>
    BY <1>0, <2>0, <2>1 DEF Marked
  <2>2. CASE queue' = [queue EXCEPT !["start"] = @ + 1] /\ UNCHANGED mark
    BY <1>0, <2>0, <2>2 DEF Marked
  <2>3. CASE QueuePush
    BY <1>0, <2>0, <2>3, QueuePushWaits DEF Marked
  <2>4. CASE NodeMoves(n)
    BY <2>1, <2>4 DEF NodeMoves
  <2>5. ASSUME NEW what \in Installs, Mark(n, what)
        PROVE  (UNCHANGED <<mark, queue>>) \/ (queue' = [queue EXCEPT !["start"] = @ + 1] /\ UNCHANGED mark) \/ QueuePush
    BY <2>5, Zenon DEF Mark
  <2> QED BY <2>1, <2>2, <2>3, <2>4, <2>5
<1>5. ASSUME NEW k \in Subjects PROVE Safe(k)'
  <2>1. Safe(k)
    BY DEF PushInv, Safe
  <2> QED BY <1>1, <1>4, <2>1, TickSafe
<1> QED BY <1>2, <1>3, <1>4, <1>5 DEF PushInv, Safe

\* A step between commits: the plan in use and the plans held are of before, or rendered now.
OldOrNow ==
    /\ UNCHANGED <<set, clock, desk>>
    /\ applied' = applied \/ \E q \in Pushers : Holds(q) /\ applied' = pusher[q].plan
    /\ \A q \in Pushers : Holds(q)' =>
         (Holds(q) /\ pusher'[q].plan = pusher[q].plan) \/ pusher'[q].plan = ClusterPlan

LEMMA NewerKept ==
    ASSUME IInv, Dated, OldOrNow, NEW k \in Subjects, NEW a, Newer(k, a)
    PROVE  NewerThen(k, a)
<1>1. ASSUME NEW q PROVE WrongThen(k, q) <=> Wrong(k, q)
  BY DEF WrongThen, Wrong, OldOrNow
<1>2. ~WrongThen(k, ClusterPlan)
  BY <1>1, RightNow
<1>3. WrongThen(k, applied') => applied'.at < a
  BY <1>1 DEF OldOrNow, Newer
<1>4. ASSUME NEW p \in Pushers, Holds(p)', WrongThen(k, pusher'[p].plan) PROVE pusher'[p].plan.at < a
  BY <1>1, <1>2, <1>4 DEF OldOrNow, Newer
<1> QED BY <1>3, <1>4 DEF NewerThen

LEMMA TruthKept ==
    ASSUME IInv, Dated, OldOrNow
    PROVE  Truthful(applied)' /\ \A p \in Pushers : Holds(p)' => Truthful(pusher[p].plan)'
<1>0. clock \in Nat /\ UNCHANGED <<set, clock, desk>>
  BY Numbers DEF IInv, OldOrNow
<1>1. Truthful(ClusterPlan)
  <2>1. \A k \in Subjects : ~Wrong(k, ClusterPlan)
    BY RightNow
  <2>2. ClusterPlan.at = clock
    BY DEF ClusterPlan
  <2> QED BY <1>0, <2>1, <2>2 DEF Truthful
<1>2. Truthful(applied')
  BY DEF OldOrNow, Dated
<1>3. Truthful(applied)'
  BY <1>0, <1>2 DEF Truthful, Wrong
<1>4. ASSUME NEW p \in Pushers, Holds(p)' PROVE Truthful(pusher[p].plan)'
  <2>1. Truthful(pusher'[p].plan)
    BY <1>1, <1>4 DEF OldOrNow, Dated
  <2> QED BY <1>0, <2>1 DEF Truthful, Wrong
<1> QED BY <1>3, <1>4

\* What was on its way and is not p's still is.
LEMMA OthersCome ==
    ASSUME IInv, Dated, OldOrNow, NEW k \in Subjects, Coming(k), NEW p \in Pushers,
           \A q \in Pushers : q # p => pusher'[q] = pusher[q],
           pusher[p].at = "waiting" /\ pusher[p].kind = "resync" => Safe(k)',
           pusher[p].at = "locked" /\ pusher[p].kind # "button" /\ Newer(k, pusher[p].plan.at) => Safe(k)',
           queue["resync"] > 0 => Safe(k)',
           k = "push" /\ queue["rollout"] > 0 /\ turn # set.turn => Safe(k)'
    PROVE  Safe(k)'
<1>1. ASSUME NEW q \in Pushers, pusher[q].at = "waiting" /\ pusher[q].kind = "resync" PROVE Safe(k)'
  BY <1>1 DEF Safe, Coming
<1>2. ASSUME NEW q \in Pushers, q # p, pusher[q].at = "locked", pusher[q].kind # "button", Newer(k, pusher[q].plan.at)
      PROVE  Safe(k)'
  <2>1. pusher'[q] = pusher[q]
    BY <1>2
  <2>2. NewerThen(k, pusher'[q].plan.at)
    BY <1>2, <2>1, NewerKept
  <2>3. Newer(k, pusher[q].plan.at)'
    BY <2>2, Then
  <2> QED BY <1>2, <2>1, <2>3 DEF Safe, Coming
<1> QED BY <1>1, <1>2 DEF Coming

\* Nothing was applied and nothing lost.
LEMMA NewerStays ==
    ASSUME IInv, Dated, OldOrNow, UNCHANGED newest, NEW k \in Subjects, Newer(k, newest)
    PROVE  Safe(k)'
BY NewerKept, Then DEF Safe

LEMMA WaitersCome ==
    ASSUME NEW k, queue'["resync"] > 0
    PROVE  Safe(k)'
BY DEF Safe, Coming

\* While telemetry is on no plan has too much of it.
LEMMA TelemetryOn ==
    ASSUME set'.telemetry
    PROVE  Safe("push")'
BY DEF Safe, Newer, Wrong

LEMMA SyncPushInv ==
    ASSUME IInv, IInv', PushInv, NEW u \in Users, SyncConfig(u)
    PROVE  PushInv'
<1>0. /\ TypeOK /\ Dated /\ Turns /\ Marked /\ u \in Pushers /\ pusher \in [Pushers -> Pusher]
      /\ set.turn \in Nat
  BY Numbers DEF IInv, PushInv, Pushers, TypeOK
<1> DEFINE r == [Idle EXCEPT !.at = "waiting", !.kind = "button", !.plan = ClusterPlan]
<1>1. /\ UNCHANGED <<set, clock, desk, applied, mark, queue, turn, newest, lost>>
      /\ pusher[u].at = "idle" /\ pusher'[u] = r /\ \A q \in Pushers : q # u => pusher'[q] = pusher[q]
  BY <1>0 DEF SyncConfig, Sets
<1>2. r.at = "waiting" /\ r.kind = "button" /\ r.plan = ClusterPlan /\ r.turn = 0
  BY DEF Idle
<1> HIDE DEF r
<1>3. OldOrNow
  <2>1. ASSUME NEW q \in Pushers, Holds(q)'
        PROVE  (Holds(q) /\ pusher'[q].plan = pusher[q].plan) \/ pusher'[q].plan = ClusterPlan
    BY <1>1, <1>2, <2>1 DEF Holds
  <2> QED BY <1>1, <2>1 DEF OldOrNow
<1>4. Dated'
  BY <1>0, <1>1, <1>3, TruthKept DEF Dated
<1>5. Turns' /\ Marked'
  <2>1. ASSUME NEW q \in Pushers
        PROVE  /\ pusher'[q].turn <= set.turn
               /\ pusher'[q].at # "idle" /\ pusher'[q].kind = "rollout" /\ ~set.telemetry =>
                    pusher'[q].turn < set.turn
    BY <1>0, <1>1, <1>2 DEF Turns
  <2> QED BY <1>0, <1>1, <2>1 DEF Turns, Marked
<1>6. ASSUME NEW k \in Subjects PROVE Safe(k)'
  <2>1. Safe(k)
    BY DEF PushInv, Safe
  <2>2. CASE lost
    BY <1>1, <2>2 DEF Safe
  <2>3. CASE Newer(k, newest)
    BY <1>0, <1>1, <1>3, <2>3, NewerStays
  <2>4. CASE Coming(k)
    <3>1. queue["resync"] > 0 => Safe(k)'
      BY <1>1, WaitersCome
    <3>2. k = "push" /\ queue["rollout"] > 0 /\ turn # set.turn => Safe(k)'
      BY <1>1 DEF Safe, Coming
    <3> QED BY <1>0, <1>1, <1>3, <2>4, <3>1, <3>2, OthersCome
  <2> QED BY <2>1, <2>2, <2>3, <2>4 DEF Safe
<1> QED BY <1>4, <1>5, <1>6 DEF PushInv, Safe

\* The lock and the mark run out.
LEMMA ExpiryPushInv ==
    ASSUME IInv, PushInv, Expire \/ MarkExpires
    PROVE  PushInv'
<1>1. /\ UNCHANGED <<set, clock, desk, applied, queue, pusher, turn, newest, lost>>
      /\ mark' = mark \/ mark' = FALSE
  BY DEF Expire, MarkExpires
<1>2. Dated' /\ Turns'
  BY <1>1 DEF PushInv, Dated, Turns, Truthful, Wrong, Holds
<1>3. Marked'
  BY <1>1 DEF PushInv, Marked
<1>4. ASSUME NEW k \in Subjects PROVE Newer(k, newest)' <=> Newer(k, newest)
  BY <1>1 DEF Newer, Wrong, Holds
<1>5. ASSUME NEW k \in Subjects PROVE Coming(k)' <=> Coming(k)
  BY <1>1 DEF Coming, Newer, Wrong, Holds
<1> QED BY <1>1, <1>2, <1>3, <1>4, <1>5 DEF PushInv

\* A worker takes a job: its process was idle.
LEMMA TakePushInv ==
    ASSUME IInv, IInv', PushInv, NEW w \in Workers, Take(w)
    PROVE  PushInv'
<1>0. /\ TypeOK /\ Dated /\ Turns /\ Marked /\ w \in Pushers /\ pusher \in [Pushers -> Pusher]
      /\ set.turn \in Nat /\ turn \in Nat /\ queue \in [Kinds -> Nat] /\ "resync" \in Kinds /\ "rollout" \in Kinds
  BY Numbers DEF IInv, PushInv, Pushers, TypeOK, Kinds
<1>1. UNCHANGED <<set, clock, desk, applied, newest, lost>> /\ pusher[w].at = "idle"
  BY DEF Take
\* What the three kinds have in common.
<1>a. ASSUME \A q \in Pushers : q # w => pusher'[q] = pusher[q],
             pusher'[w] = pusher[w] \/ pusher'[w].plan = ClusterPlan
               \/ (pusher'[w].at = "waiting" /\ pusher'[w].kind = "resync"),
             pusher'[w].turn <= set.turn,
             pusher'[w].at # "idle" /\ pusher'[w].kind = "rollout" => set.telemetry,
             turn' <= set.turn, Marked',
             \A k \in Subjects : queue["resync"] > 0 => Safe(k)',
             queue["rollout"] > 0 /\ turn # set.turn => Safe("push")'
      PROVE  PushInv'
  <2>1. OldOrNow
    <3>1. ASSUME NEW q \in Pushers, Holds(q)'
          PROVE  (Holds(q) /\ pusher'[q].plan = pusher[q].plan) \/ pusher'[q].plan = ClusterPlan
      BY <1>1, <1>a, <3>1 DEF Holds
    <3> QED BY <1>1, <3>1 DEF OldOrNow
  <2>2. Dated'
    BY <1>0, <1>1, <2>1, TruthKept DEF Dated
  <2>3. Turns'
    <3>1. ASSUME NEW q \in Pushers
          PROVE  /\ pusher'[q].turn <= set.turn
                 /\ pusher'[q].at # "idle" /\ pusher'[q].kind = "rollout" /\ ~set.telemetry =>
                      pusher'[q].turn < set.turn
      BY <1>0, <1>a DEF Turns
    <3> QED BY <1>1, <1>a, <3>1 DEF Turns
  <2>4. ASSUME NEW k \in Subjects PROVE Safe(k)'
    <3>1. Safe(k)
      BY DEF PushInv, Safe
    <3>2. CASE lost
      BY <1>1, <3>2 DEF Safe
    <3>3. CASE Newer(k, newest)
      BY <1>0, <1>1, <2>1, <3>3, NewerStays
    <3>4. CASE Coming(k)
      BY <1>0, <1>1, <1>a, <2>1, <3>4, OthersCome
    <3> QED BY <3>1, <3>2, <3>3, <3>4 DEF Safe
  <2> QED BY <1>a, <2>2, <2>3, <2>4 DEF PushInv, Safe
<1>b. ASSUME NEW r, Sets(w, r) PROVE pusher'[w] = r /\ \A q \in Pushers : q # w => pusher'[q] = pusher[q]
  BY <1>0, <1>b DEF Sets
<1>c. ASSUME UNCHANGED turn, queue'["rollout"] = queue["rollout"], queue["rollout"] > 0, turn # set.turn
      PROVE  Safe("push")'
  BY <1>1, <1>c DEF Safe, Coming
<1>d. turn <= set.turn /\ pusher[w].turn <= set.turn
  BY <1>0 DEF Turns
<1>2. CASE TakeResync(w)
  <2> DEFINE r == [Idle EXCEPT !.at = "waiting"]
  <2>1. r.at = "waiting" /\ r.kind = "resync" /\ r.turn = 0
    BY DEF Idle
  <2>2. mark' = FALSE /\ UNCHANGED turn /\ Sets(w, r) /\ queue' = [queue EXCEPT !["resync"] = @ - 1]
    BY <1>2 DEF TakeResync
  <2> HIDE DEF r
  <2>3. pusher'[w] = r /\ \A q \in Pushers : q # w => pusher'[q] = pusher[q]
    BY <1>b, <2>2
  <2>4. ASSUME NEW k \in Subjects PROVE Safe(k)'
    BY <1>0, <2>1, <2>3 DEF Safe, Coming
  <2>5. Marked'
    BY <2>2 DEF Marked
  <2>6. "push" \in Subjects
    BY DEF Subjects
  <2> QED BY <1>0, <1>a, <1>d, <2>1, <2>2, <2>3, <2>4, <2>5, <2>6
<1>3. CASE TakeStart(w)
  <2> DEFINE r == [Idle EXCEPT !.at = "waiting", !.kind = "start", !.plan = ClusterPlan]
  <2>1. r.at = "waiting" /\ r.kind = "start" /\ r.turn = 0 /\ r.plan = ClusterPlan
    BY DEF Idle
  <2>2. UNCHANGED <<mark, turn>> /\ Sets(w, r) /\ queue' = [queue EXCEPT !["start"] = @ - 1]
    BY <1>3 DEF TakeStart
  <2> HIDE DEF r
  <2>3. pusher'[w] = r /\ \A q \in Pushers : q # w => pusher'[q] = pusher[q]
    BY <1>b, <2>2
  <2>4. queue'["resync"] = queue["resync"] /\ queue'["rollout"] = queue["rollout"]
    BY <1>0, <2>2
  <2>5. Marked'
    BY <1>0, <2>2, <2>4 DEF Marked
  <2>6. ASSUME NEW k \in Subjects, queue["resync"] > 0 PROVE Safe(k)'
    BY <2>4, <2>6, WaitersCome
  <2> QED BY <1>0, <1>a, <1>c, <1>d, <2>1, <2>2, <2>3, <2>4, <2>5, <2>6
<1>4. CASE TakeRollOut(w)
  <2> DEFINE took == [queue EXCEPT !["rollout"] = @ - 1]
  <2>1. took["resync"] = queue["resync"] /\ took \in [Kinds -> Nat]
    BY <1>0, <1>4 DEF TakeRollOut
  <2>2. ASSUME NEW k \in Subjects, queue["resync"] > 0, queue'["resync"] >= queue["resync"],
               queue'["resync"] \in Nat
        PROVE  Safe(k)'
    <3>1. queue'["resync"] > 0
      BY <1>0, <2>2
    <3> QED BY <3>1, WaitersCome
  <2>3. CASE turn = set.turn /\ queue' = took /\ UNCHANGED <<mark, pusher, turn>>
    <3>1. queue'["resync"] = queue["resync"]
      BY <2>1, <2>3
    <3>2. Marked'
      BY <1>0, <2>3, <3>1 DEF Marked
    <3>3. ASSUME NEW k \in Subjects, queue["resync"] > 0 PROVE Safe(k)'
      BY <1>0, <2>2, <3>1, <3>3
    <3> QED BY <1>1, <1>a, <1>d, <2>3, <3>2, <3>3
  <2>4. CASE /\ turn # set.turn /\ ~set.telemetry /\ mark' = TRUE
             /\ queue' = [took EXCEPT !["resync"] = IF mark THEN @ ELSE @ + 1]
             /\ turn' = set.turn /\ UNCHANGED pusher
    <3>1. queue'["resync"] > 0
      <4>1. CASE mark
        BY <1>0, <2>1, <2>4, <4>1 DEF Marked
      <4>2. CASE ~mark
        BY <1>0, <2>1, <2>4, <4>2
      <4> QED BY <4>1, <4>2
    <3>2. Marked'
      BY <3>1 DEF Marked
    <3>3. \A k \in Subjects : Safe(k)'
      BY <3>1, WaitersCome
    <3>4. Safe("push")' /\ turn' <= set.turn
      BY <1>0, <2>4, <3>3 DEF Subjects
    <3> QED BY <1>1, <1>a, <1>d, <2>4, <3>2, <3>3, <3>4
  <2>5. CASE /\ PushOn /\ queue' = took /\ UNCHANGED <<mark, turn>>
             /\ Sets(w, [at |-> "waiting", kind |-> "rollout", plan |-> ClusterPlan, turn |-> set.turn])
    <3>1. set.telemetry /\ queue'["resync"] = queue["resync"]
      BY <2>1, <2>5 DEF PushOn
    <3>2. Marked'
      BY <1>0, <2>5, <3>1 DEF Marked
    <3>3. ASSUME NEW k \in Subjects, queue["resync"] > 0 PROVE Safe(k)'
      BY <1>0, <2>2, <3>1, <3>3
    <3>4. Safe("push")'
      BY <1>1, <3>1, TelemetryOn
    <3> DEFINE r == [at |-> "waiting", kind |-> "rollout", plan |-> ClusterPlan, turn |-> set.turn]
    <3>5. r.plan = ClusterPlan /\ r.turn = set.turn
      OBVIOUS
    <3> HIDE DEF r
    <3>6. pusher'[w] = r /\ \A q \in Pushers : q # w => pusher'[q] = pusher[q]
      BY <1>b, <2>5 DEF r
    <3> QED BY <1>0, <1>a, <1>d, <2>5, <3>1, <3>2, <3>3, <3>4, <3>5, <3>6
  <2>6. CASE set.telemetry /\ queue' = took /\ turn' = set.turn /\ UNCHANGED <<mark, pusher>>
    <3>1. queue'["resync"] = queue["resync"]
      BY <2>1, <2>6
    <3>2. Marked'
      BY <1>0, <2>6, <3>1 DEF Marked
    <3>3. ASSUME NEW k \in Subjects, queue["resync"] > 0 PROVE Safe(k)'
      BY <1>0, <2>2, <3>1, <3>3
    <3>4. Safe("push")' /\ turn' <= set.turn
      BY <1>0, <1>1, <2>6, TelemetryOn
    <3> QED BY <1>1, <1>a, <1>d, <2>6, <3>2, <3>3, <3>4
  <2> QED BY <1>4, <2>3, <2>4, <2>5, <2>6, Zenon DEF TakeRollOut
<1> QED BY <1>2, <1>3, <1>4 DEF Take

\* A later moment will do.
LEMMA NewerLater ==
    ASSUME TypeOK', NEW k, NEW a \in Nat, NEW b \in Nat, NewerThen(k, a), a <= b
    PROVE  NewerThen(k, b)
<1>1. applied'.at \in Nat /\ \A p \in Pushers : pusher'[p].plan.at \in Nat
  <2>1. applied' \in Plan /\ pusher' \in [Pushers -> Pusher]
    BY DEF TypeOK
  <2>2. \A q \in Plan : q.at \in Nat
    BY DEF Plan
  <2>3. \A r \in Pusher : r.plan \in Plan
    BY DEF Pusher
  <2> QED BY <2>1, <2>2, <2>3
<1> QED BY <1>1 DEF NewerThen

\* A push goes on, ends or dies.
LEMMA PushPushInv ==
    ASSUME IInv, IInv', PushInv, NEW p \in Pushers,
           PusherSteps(p) \/ GiveUp(p) \/ ApplyFails(p) \/ Die(p)
    PROVE  PushInv'
<1>0. /\ TypeOK /\ TypeOK' /\ Dated /\ Turns /\ Marked /\ pusher \in [Pushers -> Pusher]
      /\ set.turn \in Nat /\ turn \in Nat /\ clock \in Nat /\ newest \in Nat
      /\ pusher[p].plan.at \in Nat /\ pusher[p].turn \in Nat /\ lost \in BOOLEAN
      /\ applied.at \in Nat
  BY Numbers DEF IInv, PushInv, TypeOK
<1>1. UNCHANGED <<set, clock, desk, mark, queue>>
  BY DEF PusherSteps, Acquire, Apply, Finish, GiveUp, ApplyFails, Die
<1>b. ASSUME NEW r, Sets(p, r) PROVE pusher'[p] = r /\ \A q \in Pushers : q # p => pusher'[q] = pusher[q]
  BY <1>0, <1>b DEF Sets
<1>d. turn <= set.turn /\ pusher[p].turn <= set.turn
  BY <1>0 DEF Turns
\* What the steps have in common.
<1>a. ASSUME \A q \in Pushers : q # p => pusher'[q] = pusher[q],
             OldOrNow, applied'.at <= newest', newest' <= clock,
             pusher'[p].turn <= set.turn,
             pusher'[p].at # "idle" /\ pusher'[p].kind = "rollout" /\ ~set.telemetry =>
               pusher'[p].turn < set.turn,
             turn' <= set.turn,
             \A k \in Subjects : Safe(k)'
      PROVE  PushInv'
  <2>1. Dated'
    BY <1>0, <1>1, <1>a, TruthKept DEF Dated
  <2>2. Turns'
    <3>1. ASSUME NEW q \in Pushers
          PROVE  /\ pusher'[q].turn <= set.turn
                 /\ pusher'[q].at # "idle" /\ pusher'[q].kind = "rollout" /\ ~set.telemetry =>
                      pusher'[q].turn < set.turn
      BY <1>0, <1>a DEF Turns
    <3> QED BY <1>1, <1>a, <3>1 DEF Turns
  <2>3. Marked'
    BY <1>0, <1>1 DEF Marked
  <2> QED BY <1>a, <2>1, <2>2, <2>3 DEF PushInv, Safe
\* A process that is idle again, and so has no plan.
<1>c. ASSUME Sets(p, Idle), UNCHANGED <<applied, newest>>, turn' <= set.turn,
             \A k \in Subjects : Safe(k)'
      PROVE  PushInv'
  <2>1. pusher'[p] = Idle /\ \A q \in Pushers : q # p => pusher'[q] = pusher[q]
    BY <1>b, <1>c
  <2>2. Idle.at = "idle" /\ Idle.turn = 0
    BY DEF Idle
  <2>3. OldOrNow
    BY <1>1, <1>c, <2>1, <2>2 DEF OldOrNow, Holds
  <2> QED BY <1>0, <1>a, <1>c, <2>1, <2>2, <2>3 DEF Dated
<1>e. ASSUME Sets(p, Idle), UNCHANGED <<applied, newest>> PROVE OldOrNow
  <2>1. pusher'[p] = Idle /\ \A q \in Pushers : q # p => pusher'[q] = pusher[q]
    BY <1>b, <1>e
  <2>2. Idle.at = "idle"
    BY DEF Idle
  <2> QED BY <1>1, <1>e, <2>1, <2>2 DEF OldOrNow, Holds
<1>2. CASE Acquire(p)
  <2> DEFINE r == [pusher[p] EXCEPT !.at = "locked", !.plan = IF pusher[p].kind = "resync" THEN ClusterPlan ELSE @]
  <2>1. /\ pusher[p].at = "waiting" /\ Sets(p, r) /\ UNCHANGED <<applied, turn, newest, lost>>
    BY <1>2 DEF Acquire
  <2>2. /\ r.at = "locked" /\ r.kind = pusher[p].kind /\ r.turn = pusher[p].turn
        /\ r.plan = IF pusher[p].kind = "resync" THEN ClusterPlan ELSE pusher[p].plan
    BY <1>0 DEF Pusher
  <2> HIDE DEF r
  <2>3. pusher'[p] = r /\ \A q \in Pushers : q # p => pusher'[q] = pusher[q]
    BY <1>b, <2>1
  <2>4. OldOrNow
    BY <1>1, <2>1, <2>2, <2>3 DEF OldOrNow, Holds
  <2>5. ASSUME NEW k \in Subjects PROVE Safe(k)'
    <3>0. Safe(k)
      BY DEF PushInv, Safe
    <3>1. CASE lost
      BY <2>1, <3>1 DEF Safe
    <3>2. CASE Newer(k, newest)
      BY <1>0, <2>1, <2>4, <3>2, NewerStays
    <3>3. CASE Coming(k)
      <4>1. ASSUME pusher[p].kind = "resync" PROVE Safe(k)'
        <5>1. pusher'[p].plan.at = clock
          BY <1>0, <2>2, <2>3, <4>1, RightNow
        <5>2. Newer(k, clock)
          BY <1>0, RightNow
        <5>3. NewerThen(k, pusher'[p].plan.at)
          BY <1>0, <2>4, <5>1, <5>2, NewerKept
        <5>4. Newer(k, pusher[p].plan.at)'
          BY <5>3, Then
        <5> QED BY <2>2, <2>3, <4>1, <5>4 DEF Safe, Coming
      <4>2. queue["resync"] > 0 => Safe(k)'
        BY <1>1, WaitersCome
      <4>3. k = "push" /\ queue["rollout"] > 0 /\ turn # set.turn => Safe(k)'
        BY <1>1, <2>1 DEF Safe, Coming
      <4> QED BY <1>0, <2>1, <2>3, <2>4, <3>3, <4>1, <4>2, <4>3, OthersCome
    <3> QED BY <3>0, <3>1, <3>2, <3>3 DEF Safe
  <2>6. pusher'[p].kind = "rollout" /\ ~set.telemetry => pusher'[p].turn < set.turn
    BY <1>0, <2>1, <2>2, <2>3 DEF Turns
  <2> QED BY <1>0, <1>a, <1>d, <2>1, <2>2, <2>3, <2>4, <2>5, <2>6 DEF Dated
<1>3. CASE Apply(p)
  <2> DEFINE r == [pusher[p] EXCEPT !.at = "applied"]
  <2>1. /\ pusher[p].at = "locked" /\ Sets(p, r) /\ UNCHANGED turn /\ applied' = pusher[p].plan
        /\ newest' = (IF pusher[p].plan.at > newest THEN pusher[p].plan.at ELSE newest)
        /\ lost' = (lost /\ pusher[p].plan.at < clock)
    BY <1>3 DEF Apply
  <2>2. r.at = "applied" /\ r.kind = pusher[p].kind /\ r.turn = pusher[p].turn
    BY <1>0 DEF Pusher
  <2> HIDE DEF r
  <2>3. pusher'[p] = r /\ \A q \in Pushers : q # p => pusher'[q] = pusher[q]
    BY <1>b, <2>1
  <2>4. OldOrNow
    BY <1>1, <2>1, <2>2, <2>3 DEF OldOrNow, Holds
  <2>5. /\ pusher[p].plan.at <= clock /\ newest <= clock
        /\ newest' \in Nat /\ newest <= newest' /\ pusher[p].plan.at <= newest' /\ newest' <= clock
    BY <1>0, <2>1 DEF Dated, Holds, Truthful
  <2>6. ASSUME NEW k \in Subjects, NEW a \in Nat, a <= newest', Newer(k, a) PROVE Safe(k)'
    <3>1. NewerThen(k, newest')
      BY <1>0, <2>4, <2>5, <2>6, NewerKept, NewerLater
    <3> QED BY <3>1, Then DEF Safe
  <2>7. ASSUME NEW k \in Subjects PROVE Safe(k)'
    <3>0. Safe(k)
      BY DEF PushInv, Safe
    <3>1. CASE lost
      <4>1. CASE pusher[p].plan.at < clock
        BY <2>1, <3>1, <4>1 DEF Safe
      <4>2. CASE ~(pusher[p].plan.at < clock)
        <5>1. clock <= newest' /\ Newer(k, clock)
          BY <1>0, <2>5, <4>2, RightNow
        <5> QED BY <1>0, <2>6, <5>1
      <4> QED BY <4>1, <4>2
    <3>2. CASE Newer(k, newest)
      BY <1>0, <2>5, <2>6, <3>2
    <3>3. CASE Coming(k)
      <4>1. Newer(k, pusher[p].plan.at) => Safe(k)'
        BY <1>0, <2>5, <2>6
      <4>2. queue["resync"] > 0 => Safe(k)'
        BY <1>1, WaitersCome
      <4>3. k = "push" /\ queue["rollout"] > 0 /\ turn # set.turn => Safe(k)'
        BY <1>1, <2>1 DEF Safe, Coming
      <4> QED BY <1>0, <2>1, <2>3, <2>4, <3>3, <4>1, <4>2, <4>3, OthersCome
    <3> QED BY <3>0, <3>1, <3>2, <3>3 DEF Safe
  <2>8. pusher'[p].kind = "rollout" /\ ~set.telemetry => pusher'[p].turn < set.turn
    BY <1>0, <2>1, <2>2, <2>3 DEF Turns
  <2> QED BY <1>0, <1>a, <1>d, <2>1, <2>2, <2>3, <2>4, <2>5, <2>7, <2>8
<1>4. CASE Finish(p)
  <2>1. /\ pusher[p].at = "applied" /\ Sets(p, Idle) /\ UNCHANGED <<applied, newest, lost>>
        /\ turn' = IF pusher[p].kind = "rollout" THEN pusher[p].turn ELSE turn
    BY <1>4 DEF Finish
  <2>2. OldOrNow
    BY <1>e, <2>1
  <2>3. \A q \in Pushers : q # p => pusher'[q] = pusher[q]
    BY <1>b, <2>1
  <2>4. ASSUME NEW k \in Subjects PROVE Safe(k)'
    <3>0. Safe(k)
      BY DEF PushInv, Safe
    <3>1. CASE lost
      BY <2>1, <3>1 DEF Safe
    <3>2. CASE Newer(k, newest)
      BY <1>0, <2>1, <2>2, <3>2, NewerStays
    <3>3. CASE Coming(k)
      <4>1. queue["resync"] > 0 => Safe(k)'
        BY <1>1, WaitersCome
      <4>2. ASSUME k = "push", queue["rollout"] > 0, turn # set.turn PROVE Safe(k)'
        <5>1. CASE set.telemetry
          BY <1>1, <4>2, <5>1, TelemetryOn
        <5>2. CASE ~set.telemetry
          <6>1. turn' # set'.turn
            BY <1>0, <1>1, <2>1, <4>2, <5>2 DEF Turns
          <6> QED BY <1>1, <4>2, <6>1 DEF Safe, Coming
        <5> QED BY <5>1, <5>2
      <4> QED BY <1>0, <2>1, <2>2, <2>3, <3>3, <4>1, <4>2, OthersCome
    <3> QED BY <3>0, <3>1, <3>2, <3>3 DEF Safe
  <2> QED BY <1>c, <1>d, <2>1, <2>4
<1>5. CASE GiveUp(p) \/ ApplyFails(p) \/ Die(p)
  <2>1. /\ Sets(p, Idle) /\ UNCHANGED <<applied, newest>>
        /\ lost' = (lost \/ pusher[p].kind # "button")
        /\ turn' = turn \/ (pusher[p].kind = "rollout" /\ turn' = pusher[p].turn)
    BY <1>5 DEF GiveUp, ApplyFails, Die, Fails
  <2>2. OldOrNow
    BY <1>e, <2>1
  <2>3. \A q \in Pushers : q # p => pusher'[q] = pusher[q]
    BY <1>b, <2>1
  <2>4. ASSUME NEW k \in Subjects PROVE Safe(k)'
    <3>0. Safe(k)
      BY DEF PushInv, Safe
    <3>1. CASE lost \/ pusher[p].kind # "button"
      BY <2>1, <3>1 DEF Safe
    <3>2. CASE Newer(k, newest)
      BY <1>0, <2>1, <2>2, <3>2, NewerStays
    <3>3. CASE Coming(k) /\ pusher[p].kind = "button"
      <4>1. queue["resync"] > 0 => Safe(k)'
        BY <1>1, WaitersCome
      <4>2. k = "push" /\ queue["rollout"] > 0 /\ turn # set.turn => Safe(k)'
        BY <1>1, <2>1, <3>3 DEF Safe, Coming
      <4> QED BY <1>0, <2>1, <2>2, <2>3, <3>3, <4>1, <4>2, OthersCome
    <3> QED BY <3>0, <3>1, <3>2, <3>3 DEF Safe
  <2> QED BY <1>c, <1>d, <2>1, <2>4
<1> QED BY <1>2, <1>3, <1>4, <1>5 DEF PusherSteps

LEMMA InitPushInv ==
    ASSUME Init
    PROVE  PushInv
<1>1. /\ clock = 0 /\ desk = 0 /\ newest = 0 /\ turn = 0 /\ applied = ClusterPlan /\ mark = FALSE
      /\ set.turn = 0 /\ \A p \in Pushers : pusher[p].at = "idle" /\ pusher[p].turn = 0
  BY DEF Init, Idle
<1>2. applied.at = 0 /\ \A k \in Subjects : ~Wrong(k, applied)
  BY <1>1 DEF ClusterPlan, Wrong, PushOn, MilterOn
<1>3. Dated
  BY <1>1, <1>2 DEF Dated, Truthful, Holds
<1>4. Turns /\ Marked
  BY <1>1 DEF Turns, Marked
<1>5. ASSUME NEW k \in Subjects PROVE Newer(k, newest)
  BY <1>1, <1>2 DEF Newer, Holds
<1> QED BY <1>3, <1>4, <1>5 DEF PushInv

LEMMA StepPushInv == IInv /\ IInv' /\ PushInv /\ [Next]_vars => PushInv'
<1> SUFFICES ASSUME IInv, IInv', PushInv, [Next]_vars PROVE PushInv'
  OBVIOUS
<1>1. CASE UNCHANGED vars
  <2>1. Dated' /\ Turns' /\ Marked'
    BY <1>1 DEF vars, PushInv, Dated, Turns, Marked, Truthful, Wrong, Holds
  <2>2. ASSUME NEW k \in Subjects PROVE Safe(k)' <=> Safe(k)
    BY <1>1 DEF vars, Safe, Coming, Newer, Wrong, Holds
  <2> QED BY <2>1, <2>2 DEF PushInv, Safe
<1>2. CASE Next
  <2>1. CASE Change \/ ToggleScan \/ ToggleTelemetry
    BY <2>1, DeskPushInv
  <2>2. CASE Expire \/ MarkExpires
    BY <2>2, ExpiryPushInv
  <2>3. CASE \E w \in Workers : Take(w)
    BY <2>3, TakePushInv
  <2>4. CASE \E u \in Users : SyncConfig(u)
    BY <2>4, SyncPushInv
  <2>5. CASE \E p \in Pushers : PusherSteps(p) \/ GiveUp(p) \/ ApplyFails(p) \/ Die(p)
    BY <2>5, PushPushInv
  <2>6. CASE \E n \in Nodes : NodeMoves(n) \/ (\E what \in Installs : Mark(n, what))
    BY <2>6, NodePushInv
  <2> QED BY <1>2, <2>1, <2>2, <2>3, <2>4, <2>5, <2>6 DEF Next
<1> QED BY <1>1, <1>2

\* queue_cluster_push and roll_out_telemetry: once nothing is queued and nothing runs, the cluster
\* has every desk change and no telemetry sender or milter that was switched off, however the
\* pushes, the mark, the lock, the nodes and the failures took turns, unless a push was lost or a
\* plan overtaken.
THEOREM QuietClusterIsCurrent == Spec => []QuietIsCurrent
<1>1. IInv /\ PushInv => QuietIsCurrent
  <2> SUFFICES ASSUME IInv, PushInv, Quiet, ~lost, ~Overtaken
               PROVE  applied.desk = desk /\ (applied.push => set.telemetry) /\ (applied.milter => set.scan)
    BY DEF QuietIsCurrent
  <2>1. applied.at \in Nat /\ newest \in Nat
    BY Numbers DEF IInv
  <2>2. ASSUME NEW k \in Subjects PROVE ~Coming(k)
    BY DEF Coming, Quiet, Kinds
  <2>3. ASSUME NEW k \in Subjects PROVE ~Wrong(k, applied)
    BY <2>1, <2>2 DEF PushInv, Newer, Overtaken
  <2>4. ~Wrong("desk", applied) /\ ~Wrong("push", applied) /\ ~Wrong("milter", applied)
    BY <2>3 DEF Subjects
  <2> QED BY <2>4 DEF Wrong
<1>2. Init => IInv /\ PushInv
  BY InitHolds, InitPushInv
<1>3. IInv /\ PushInv /\ [Next]_vars => IInv' /\ PushInv'
  BY StepHolds, StepPushInv
<1> QED BY <1>1, <1>2, <1>3, PTL DEF Spec
=============================================================================
