--------------------------- MODULE TrafficProofs ---------------------------
(***************************************************************************)
(* The two ways traffic goes through a cluster: the mail that leaves it    *)
(* (EgressPools) and the telemetry that comes from it (Telemetry), for any *)
(* number of pools, gateways, jobs, checks, hosts, pushes and failures.    *)
(*                                                                         *)
(* RoundRobinServes needs that a pool lists only gateways it has addresses *)
(* on and that an absent gateway has none (ListedHosts): set_status renews *)
(* only the records of the pools the gateway hosts. RelayPortsOpen speaks  *)
(* of active gateways and of listeners they have; PortsDue asks the same   *)
(* of every gateway a pool has an address on, whatever its status, since   *)
(* the ports are settled when the pool changes and not when the gateway    *)
(* begins to serve. A job stands for a port only as long as it has not     *)
(* passed the gateway and the port it saw is still the pool's (Opens).     *)
(* MailLeavesAsAssigned needs that an expression in step with the rows is  *)
(* local delivery, the pools' rules and then rules of others (Routed), and *)
(* that SPF lists every address (SpfCovers).                               *)
(*                                                                         *)
(* LoggedOnce needs that what the loader deletes is in the warehouse or    *)
(* has expired since (LoaderKnows), and that a push has one row in a table *)
(* (RowsOnce). ChangesNeverOvercount is about a sum; each change has to    *)
(* fit between what was counted at its point and at every point held       *)
(* before it (Fits), which restarts keep true because a counter goes on or *)
(* begins again from zero (Since).                                         *)
(***************************************************************************)
EXTENDS WellFoundedInduction, FiniteSetTheorems, EgressPools, Telemetry, TLAPS

----------------------------------------------------------------------------
(* Numbers *)

\* Every set of numbers has a least one, and so every bounded one a greatest.
LEMMA Least ==
    ASSUME NEW T, T \subseteq Nat, T # {}
    PROVE  \E x \in T : \A y \in T : x <= y
<1> DEFINE R == OpToRel(<, Nat)
<1>1. \A x, y \in Nat : <<y, x>> \in R <=> y < x
  BY DEF OpToRel
<1>2. IsWellFoundedOn(R, Nat)
  BY NatLessThanWellFounded, Zenon
<1> HIDE DEF R
<1>3. PICK x \in T : \A y \in T : ~(<<y, x>> \in R)
  BY <1>2, WFMin
<1>4. \A y \in T : ~(y < x)
  BY <1>1, <1>3, Zenon
<1> QED BY <1>4

LEMMA Greatest ==
    ASSUME NEW n \in Nat, NEW S, S \subseteq 0 .. n, S # {}
    PROVE  \E x \in S : \A y \in S : y <= x
<1> DEFINE T == {n - y : y \in S}
<1>1. T \subseteq Nat
  OBVIOUS
<1>0. T # {}
  <2>1. PICK y \in S : TRUE
    OBVIOUS
  <2>2. n - y \in T
    OBVIOUS
  <2> QED BY <2>2
<1>2. PICK x \in T : \A y \in T : x <= y
  BY <1>0, <1>1, Least
<1>3. PICK z \in S : x = n - z
  BY <1>2
<1>4. ASSUME NEW y \in S PROVE y <= z
  <2>1. n - y \in T
    OBVIOUS
  <2>2. n - z <= n - y
    BY <1>2, <1>3, <2>1
  <2>3. y \in 0 .. n /\ z \in 0 .. n
    OBVIOUS
  <2> QED BY <2>2, <2>3
<1> QED BY <1>4

\* next_relay_port hands out a number.
LEMMA NextPortTyped ==
    ASSUME pool \in [Pools -> Pool]
    PROVE  NextPort \in Nat \ {0}
<1> DEFINE S == {n \in 0 .. MaxPort : n = 0 \/ \E p \in Pools : pool[p].port = n}
           P(n) == (n = 0 \/ \E p \in Pools : pool[p].port = n) /\ \A p \in Pools : pool[p].port <= n
<1>1. MaxPort \in Nat /\ S \subseteq 0 .. MaxPort /\ S # {}
  BY EgressConstants
<1>2. PICK m \in S : \A y \in S : y <= m
  BY <1>1, Greatest
<1>3. ASSUME NEW p \in Pools PROVE pool[p].port \in S
  BY <1>3 DEF Pool
<1>4. m \in 0 .. MaxPort /\ P(m)
  BY <1>2, <1>3
<1>5. (CHOOSE n \in 0 .. MaxPort : P(n)) \in 0 .. MaxPort
  BY <1>4
<1>6. NextPort = 1 + (CHOOSE n \in 0 .. MaxPort : P(n))
  BY DEF NextPort
<1> QED BY <1>1, <1>5, <1>6

----------------------------------------------------------------------------
(* Types *)

\* A job of pool changes; one that began saw its pool with a port.
Job == [pool: Pools, fresh: SUBSET Gateways, todo: SUBSET Gateways, up: SUBSET Gateways,
        seen: [Pools -> Pool] \cup {<<>>}]

Started == {j \in Job : j.seen # <<>> => j.seen[j.pool].port # 0}

\* TypeOK, but for the strategy, with the jobs.
Typed ==
    /\ pool \in [Pools -> Pool]
    /\ gw \in [Gateways -> Gateway]
    /\ jobs \subseteq Started
    /\ listed \in [Pools -> SUBSET Gateways]
    /\ check \in [Gateways -> {"none", "Provisioned", "Active"}]

LEMMA HostedTyped ==
    ASSUME NEW ps \in [Pools -> Pool], NEW g
    PROVE  Hosted(ps, g) \in [Pools -> 0 .. MaxPort]
BY EgressConstants DEF Hosted, Pool

LEMMA WithPlanTyped ==
    ASSUME NEW r \in Gateway, NEW g, NEW ps \in [Pools -> Pool]
    PROVE  /\ WithPlan(r, g, ps) \in Gateway
           /\ WithPlan(r, g, ps).status = r.status /\ WithPlan(r, g, ps).open = r.open
           /\ WithPlan(r, g, ps).opening = r.opening
<1> DEFINE plan == Hosted(ps, g)
           serves == [p \in Pools |-> IF plan[p] # 0 THEN plan[p] ELSE r.serves[p]]
<1>1. plan \in [Pools -> 0 .. MaxPort] /\ r.serves \in [Pools -> 0 .. MaxPort]
  BY HostedTyped DEF Gateway
<1> HIDE DEF plan
<1>2. serves \in [Pools -> 0 .. MaxPort]
  BY <1>1
<1>3. WithPlan(r, g, ps) = [r EXCEPT !.serves = serves]
  BY DEF WithPlan, plan
<1> HIDE DEF serves
<1> QED BY <1>2, <1>3 DEF Gateway

LEMMA EndedTyped ==
    ASSUME NEW r \in Gateway
    PROVE  /\ Ended(r) \in Gateway /\ Ended(r).status = r.status /\ Ended(r).open = r.open
           /\ Ended(r).opening = r.opening /\ Ended(r).serves = r.serves
BY DEF Ended, Gateway

LEMMA RanTyped ==
    ASSUME NEW r \in Gateway, r.built # <<>>
    PROVE  /\ Ran(r) \in Gateway /\ Ran(r).status = r.status
           /\ Ran(r).open = r.open \cup PortsOf(r.built) /\ Ran(r).opening = r.opening
<1>1. r.built \in [Pools -> 0 .. MaxPort] /\ r.serves \in [Pools -> 0 .. MaxPort] /\ r.open \subseteq 1 .. MaxPort
  BY DEF Gateway
<1> DEFINE e == Ended(r)
           open == e.open \cup PortsOf(r.built)
           serves == IF r.job = "upgrade" THEN e.serves
                     ELSE [p \in Pools |-> IF r.built[p] # 0 THEN r.built[p] ELSE e.serves[p]]
<1>2. e \in Gateway /\ e.status = r.status /\ e.open = r.open /\ e.opening = r.opening /\ e.serves = r.serves
  BY EndedTyped
<1>3. Ran(r) = [e EXCEPT !.open = open, !.serves = serves]
  BY DEF Ran
<1> HIDE DEF e
<1>4. open \subseteq 1 .. MaxPort
  BY <1>1, <1>2, EgressConstants DEF PortsOf
<1>5. serves \in [Pools -> 0 .. MaxPort]
  BY <1>1, <1>2
<1> HIDE DEF open, serves
<1>6. [e EXCEPT !.open = open, !.serves = serves] \in Gateway
  BY <1>2, <1>4, <1>5 DEF Gateway
<1>7. Ran(r).status = e.status /\ Ran(r).opening = e.opening /\ Ran(r).open = open
  BY <1>2, <1>3 DEF Gateway
<1> QED BY <1>2, <1>3, <1>6, <1>7 DEF open

LEMMA NewGatewayTyped ==
    /\ NewGateway \in Gateway /\ [NewGateway EXCEPT !.status = "Absent"] \in Gateway
    /\ NewGateway.status = "Pending" /\ [NewGateway EXCEPT !.status = "Absent"].status = "Absent"
<1>1. [p \in Pools |-> 0] \in [Pools -> 0 .. MaxPort]
  BY EgressConstants
<1> QED BY <1>1 DEF NewGateway, Gateway, GatewayStatus

\* A gateway with another status, or none of its ports changed.
LEMMA StatusTyped ==
    ASSUME NEW r \in Gateway, NEW status \in GatewayStatus
    PROVE  /\ [r EXCEPT !.status = status] \in Gateway /\ [r EXCEPT !.status = status].status = status
           /\ [r EXCEPT !.status = status].open = r.open /\ [r EXCEPT !.status = status].opening = r.opening
BY DEF Gateway

LEMMA PoolsHost ==
    ASSUME pool \in [Pools -> Pool]
    PROVE  \A p \in Pools : pool[p].on \subseteq Gateways
BY DEF Pool

----------------------------------------------------------------------------
(* The round robin *)

\* Only gateways of the pool are listed, an absent gateway hosts none, and no pool is without port.
ListedHosts ==
    /\ \A p \in Pools : pool[p].port = 0 => pool[p].on = {}
    /\ \A p \in Pools : listed[p] \subseteq pool[p].on
    /\ \A g \in Gateways : gw[g].status = "Absent" => \A p \in Pools : g \notin pool[p].on

----------------------------------------------------------------------------
(* Relay ports *)

\* The job will have the pool's port opened on the gateway.
Opens(j, p, g) ==
    /\ j.pool = p /\ g \in j.fresh
    /\ j.seen = <<>> \/ (g \in j.todo /\ j.seen[p].port = pool[p].port)

\* The pool's port is open on the gateway, or about to be, or was missed.
Met(g, p) ==
    \/ pool[p].port \in gw[g].open \cup gw[g].opening
    \/ <<g, pool[p].port>> \in missed
    \/ \E j \in jobs : Opens(j, p, g)

\* So it is for every pool a gateway hosts, whether it serves yet or not.
PortsDue == \A g \in Gateways, p \in Pools : g \in pool[p].on => Met(g, p)

IInv == Typed /\ ListedHosts /\ RoundRobinServes /\ PortsDue

----------------------------------------------------------------------------
(* Steps that leave the pools alone *)

LEMMA RobinKept ==
    ASSUME IInv, UNCHANGED <<pool, listed>>, strays \subseteq strays',
           \A h \in Gateways : Serving(h) => gw'[h].status = "Active",
           \A h \in Gateways : gw'[h].status = "Absent" /\ gw[h].status # "Absent" =>
             \A p \in Pools : h \notin pool[p].on
    PROVE  ListedHosts' /\ RoundRobinServes'
<1>1. listed \in [Pools -> SUBSET Gateways]
  BY DEF IInv, Typed
<1>2. ListedHosts'
  BY DEF IInv, ListedHosts
<1>3. ASSUME NEW p \in Pools, NEW g \in listed'[p] PROVE gw'[g].status = "Active" \/ g \in strays'
  BY <1>1, <1>3 DEF IInv, RoundRobinServes, Serving
<1> QED BY <1>2, <1>3 DEF RoundRobinServes, Serving

LEMMA DueKept ==
    ASSUME IInv, UNCHANGED pool,
           \A g \in Gateways, p \in Pools : g \in pool[p].on =>
             (pool[p].port \in gw[g].open \cup gw[g].opening \/ <<g, pool[p].port>> \in missed => Met(g, p)'),
           \A g \in Gateways, p \in Pools, j \in jobs : g \in pool[p].on /\ Opens(j, p, g) => Met(g, p)'
    PROVE  PortsDue'
<1> SUFFICES ASSUME NEW g \in Gateways, NEW p \in Pools, g \in pool'[p].on PROVE Met(g, p)'
  BY DEF PortsDue
<1>1. g \in pool[p].on
  OBVIOUS
<1>2. Met(g, p)
  BY <1>1 DEF IInv, PortsDue
<1> QED BY <1>1, <1>2 DEF Met

\* What a job opens, it still opens when neither it nor the pools changed.
LEMMA OpensKept ==
    ASSUME UNCHANGED pool, NEW j, NEW g, NEW p, Opens(j, p, g), j \in jobs'
    PROVE  Met(g, p)'
<1>1. Opens(j, p, g)'
  BY DEF Opens
<1> QED BY <1>1 DEF Met

\* Nothing closes on a gateway.
LEMMA DueGrows ==
    ASSUME IInv, UNCHANGED <<pool, jobs>>, missed \subseteq missed',
           \A h \in Gateways : gw[h].open \cup gw[h].opening \subseteq gw'[h].open \cup gw'[h].opening
    PROVE  PortsDue'
<1>1. ASSUME NEW g \in Gateways, NEW p \in Pools,
             pool[p].port \in gw[g].open \cup gw[g].opening \/ <<g, pool[p].port>> \in missed
      PROVE  Met(g, p)'
  BY <1>1 DEF Met
<1>2. ASSUME NEW g \in Gateways, NEW p \in Pools, NEW j \in jobs, Opens(j, p, g) PROVE Met(g, p)'
  BY <1>2, OpensKept
<1> QED BY <1>1, <1>2, DueKept

\* set_status: the round robin follows, whatever the caller had read.
LEMMA SetStatusRobin ==
    ASSUME IInv, UNCHANGED pool, NEW g \in Gateways, NEW seen, NEW after \in [Gateways -> Gateway],
           SetStatus(g, seen, after), \A h \in Gateways : h # g => after[h] = gw[h], after[g].status # "Absent"
    PROVE  /\ gw' = after /\ listed' \in [Pools -> SUBSET Gateways]
           /\ ListedHosts' /\ RoundRobinServes'
<1> DEFINE hosting == {p \in Pools : g \in pool[p].on}
           changes == (seen = "Active") # (after[g].status = "Active")
<1>0. /\ listed \in [Pools -> SUBSET Gateways] /\ pool \in [Pools -> Pool] /\ gw' = after
      /\ \A p \in Pools : pool[p].on \subseteq Gateways /\ listed[p] \subseteq pool[p].on
      /\ \A p \in Pools : pool'[p].port = 0 => pool'[p].on = {}
  BY PoolsHost DEF IInv, Typed, SetStatus, ListedHosts
<1>1. ASSUME NEW h \in Gateways, gw'[h].status = "Absent", NEW p \in Pools PROVE h \notin pool[p].on
  BY <1>0, <1>1 DEF IInv, ListedHosts
<1>2. CASE changes /\ listed' = Listing(pool, after, hosting) /\ UNCHANGED strays
  <2> HIDE DEF hosting
  <2>0. /\ Listing(pool, after, hosting) \in [Pools -> SUBSET Gateways]
        /\ \A q \in Pools : Listing(pool, after, hosting)[q] =
             IF q \in hosting THEN {k \in pool[q].on : after[k].status = "Active"} ELSE listed[q]
    BY <1>0 DEF Listing
  <2>1. listed' \in [Pools -> SUBSET Gateways]
    BY <1>2, <2>0
  <2>2. ASSUME NEW p \in Pools, NEW h \in listed'[p]
        PROVE  h \in pool[p].on /\ (gw'[h].status = "Active" \/ h \in strays')
    <3>1. CASE p \in hosting
      <4>1. listed'[p] = {k \in pool[p].on : after[k].status = "Active"}
        BY <1>2, <2>0, <3>1
      <4> QED BY <1>0, <2>2, <4>1
    <3>2. CASE p \notin hosting
      <4>1. listed'[p] = listed[p]
        BY <1>2, <2>0, <3>2
      <4>2. h \in pool[p].on /\ h \in Gateways /\ h # g
        BY <1>0, <2>2, <3>2, <4>1 DEF hosting
      <4> QED BY <1>0, <1>2, <2>2, <4>1, <4>2 DEF IInv, RoundRobinServes, Serving
    <3> QED BY <3>1, <3>2
  <2> QED BY <1>0, <1>1, <2>1, <2>2 DEF ListedHosts, RoundRobinServes, Serving
<1>3. CASE strays' = strays \cup {g} /\ UNCHANGED listed
  <2>1. ASSUME NEW p \in Pools, NEW h \in listed'[p]
        PROVE  h \in pool[p].on /\ (gw'[h].status = "Active" \/ h \in strays')
    <3>1. h \in Gateways /\ h \in pool[p].on /\ (gw[h].status = "Active" \/ h \in strays)
      BY <1>0, <1>3, <2>1 DEF IInv, RoundRobinServes, Serving
    <3> QED BY <1>0, <1>3, <3>1
  <2> QED BY <1>0, <1>1, <1>3, <2>1 DEF ListedHosts, RoundRobinServes, Serving
<1>4. CASE ~changes /\ seen = gw[g].status /\ UNCHANGED <<listed, strays>>
  <2>1. ASSUME NEW p \in Pools, NEW h \in listed'[p]
        PROVE  h \in pool[p].on /\ (gw'[h].status = "Active" \/ h \in strays')
    <3>1. h \in Gateways /\ h \in pool[p].on /\ (gw[h].status = "Active" \/ h \in strays)
      BY <1>0, <1>4, <2>1 DEF IInv, RoundRobinServes, Serving
    <3> QED BY <1>0, <1>4, <3>1
  <2> QED BY <1>0, <1>1, <1>4, <2>1 DEF ListedHosts, RoundRobinServes, Serving
<1> QED BY <1>2, <1>3, <1>4 DEF SetStatus

----------------------------------------------------------------------------
(* The steps *)

LEMMA Parts ==
    ASSUME IInv
    PROVE  /\ pool \in [Pools -> Pool] /\ gw \in [Gateways -> Gateway] /\ jobs \subseteq Started
           /\ listed \in [Pools -> SUBSET Gateways]
           /\ check \in [Gateways -> {"none", "Provisioned", "Active"}]
           /\ \A p \in Pools : pool[p].on \subseteq Gateways
           /\ \A p \in Pools : pool[p].port \in 0 .. MaxPort
           /\ \A p \in Pools : pool[p].port = 0 => pool[p].on = {}
           /\ \A p \in Pools : listed[p] \subseteq pool[p].on
           /\ \A g \in Gateways : gw[g].status = "Absent" => \A p \in Pools : g \notin pool[p].on
           /\ \A p \in Pools : \A g \in listed[p] : gw[g].status = "Active" \/ g \in strays
           /\ \A g \in Gateways, p \in Pools : g \in pool[p].on => Met(g, p)
BY DEF IInv, Typed, ListedHosts, RoundRobinServes, Serving, PortsDue, Pool

LEMMA SavePoolStep ==
    ASSUME IInv, NEW p \in Pools, NEW new \in Pool, NEW fresh \in SUBSET Gateways, SavePool(p, new, fresh),
           new.port # 0, \A g \in new.on : gw[g].status # "Absent",
           \A g \in new.on \ fresh : g \in pool[p].on /\ new.port = pool[p].port
    PROVE  IInv'
<1>0. /\ pool' = [pool EXCEPT ![p] = new] /\ listed' = Listing(pool', gw, {p})
      /\ jobs' = jobs \cup {[pool |-> p, fresh |-> fresh, todo |-> {}, seen |-> <<>>, up |-> {}]}
      /\ UNCHANGED <<gw, check, missed, strays>>
  BY DEF SavePool
<1>1. /\ pool' \in [Pools -> Pool] /\ pool'[p] = new /\ new.on \subseteq Gateways
      /\ \A q \in Pools : q # p => pool'[q] = pool[q]
  BY <1>0, Parts DEF Pool
<1>2. /\ listed' \in [Pools -> SUBSET Gateways] /\ listed'[p] = {g \in new.on : gw[g].status = "Active"}
      /\ \A q \in Pools : q # p => listed'[q] = listed[q]
  BY <1>0, <1>1, Parts DEF Listing
<1> DEFINE job == [pool |-> p, fresh |-> fresh, todo |-> {}, seen |-> <<>>, up |-> {}]
<1>3. job \in Started /\ job \in jobs' /\ jobs \subseteq jobs'
  BY <1>0 DEF Started, Job
<1>4. job.pool = p /\ job.fresh = fresh /\ job.seen = <<>>
  OBVIOUS
<1> HIDE DEF job
<1>5. Typed'
  BY <1>0, <1>1, <1>2, <1>3, Parts DEF Typed, job
<1>6. ListedHosts'
  <2>1. ASSUME NEW q \in Pools PROVE listed'[q] \subseteq pool'[q].on
    BY <1>1, <1>2, Parts
  <2>2. ASSUME NEW g \in Gateways, gw'[g].status = "Absent", NEW q \in Pools PROVE g \notin pool'[q].on
    BY <1>0, <1>1, <2>2, Parts
  <2>3. ASSUME NEW q \in Pools, pool'[q].port = 0 PROVE pool'[q].on = {}
    BY <1>1, <2>3, Parts
  <2> QED BY <2>1, <2>2, <2>3 DEF ListedHosts
<1>7. RoundRobinServes'
  <2>1. ASSUME NEW q \in Pools, NEW g \in listed'[q] PROVE gw'[g].status = "Active" \/ g \in strays'
    BY <1>0, <1>2, <2>1, Parts
  <2> QED BY <2>1 DEF RoundRobinServes, Serving
<1>8. ASSUME NEW g \in Gateways, NEW q \in Pools, g \in pool'[q].on PROVE Met(g, q)'
  <2>1. CASE q = p /\ g \in fresh
    <3>1. Opens(job, q, g)'
      BY <1>4, <2>1 DEF Opens
    <3> QED BY <1>3, <3>1 DEF Met
  <2>2. CASE ~(q = p /\ g \in fresh)
    <3>1. g \in pool[q].on /\ pool'[q].port = pool[q].port
      BY <1>1, <1>8, <2>2
    <3>2. ASSUME NEW j \in jobs, Opens(j, q, g) PROVE Met(g, q)'
      <4>1. Opens(j, q, g)'
        BY <3>1, <3>2 DEF Opens
      <4> QED BY <1>3, <4>1 DEF Met
    <3>3. Met(g, q)
      BY <3>1, Parts
    <3>4. CASE pool[q].port \in gw[g].open \cup gw[g].opening \/ <<g, pool[q].port>> \in missed
      BY <1>0, <3>1, <3>4 DEF Met
    <3> QED BY <3>2, <3>3, <3>4 DEF Met
  <2> QED BY <2>1, <2>2
<1> QED BY <1>5, <1>6, <1>7, <1>8 DEF IInv, PortsDue

LEMMA PoolStep ==
    ASSUME IInv,
           \/ \E on \in SUBSET Gateways : InsertPool(on)
           \/ \E p \in Pools, on \in SUBSET Gateways, port \in 1 .. MaxPort : EditPool(p, on, port)
    PROVE  IInv'
<1>1. ASSUME NEW on \in SUBSET Gateways, InsertPool(on) PROVE IInv'
  <2>1. NextPool \in Pools /\ NextPort <= MaxPort /\ \A g \in on : gw[g].status # "Absent"
    BY <1>1 DEF InsertPool
  <2>2. [on |-> on, port |-> NextPort] \in Pool
    BY <2>1, Parts, NextPortTyped, EgressConstants DEF Pool
  <2>3. SavePool(NextPool, [on |-> on, port |-> NextPort], on)
    BY <1>1 DEF InsertPool
  <2> DEFINE new == [on |-> on, port |-> NextPort]
  <2>4. new.on = on /\ new.port # 0
    BY Parts, NextPortTyped
  <2> HIDE DEF new
  <2> QED BY <2>1, <2>2, <2>3, <2>4, SavePoolStep DEF new
<1>2. ASSUME NEW p \in Pools, NEW on \in SUBSET Gateways, NEW port \in 1 .. MaxPort, EditPool(p, on, port)
      PROVE  IInv'
  <2> DEFINE new == [on |-> on, port |-> port]
             fresh == NewPortOn(p, on, port)
  <2>1. SavePool(p, new, fresh) /\ \A g \in on : gw[g].status # "Absent"
    BY <1>2 DEF EditPool
  <2>2. new \in Pool /\ new.on = on /\ new.port = port /\ port # 0
    BY EgressConstants DEF Pool
  <2>3. fresh \in SUBSET Gateways /\ \A g \in on \ fresh : g \in pool[p].on /\ port = pool[p].port
    BY DEF NewPortOn
  <2> HIDE DEF new, fresh
  <2> QED BY <2>1, <2>2, <2>3, SavePoolStep
<1> QED BY <1>1, <1>2

LEMMA DeletePoolStep ==
    ASSUME IInv, NEW p \in Pools, DeletePool(p)
    PROVE  IInv'
<1>0. /\ pool' = [pool EXCEPT ![p] = NoPool] /\ listed' = [listed EXCEPT ![p] = {}]
      /\ UNCHANGED <<gw, jobs, check, missed, strays>>
  BY DEF DeletePool
<1>1. NoPool \in Pool /\ NoPool.on = {}
  BY EgressConstants DEF NoPool, Pool
<1>2. /\ pool' \in [Pools -> Pool] /\ pool'[p].on = {} /\ listed'[p] = {} /\ listed' \in [Pools -> SUBSET Gateways]
      /\ \A q \in Pools : q # p => pool'[q] = pool[q] /\ listed'[q] = listed[q]
  BY <1>0, <1>1, Parts
<1>3. Typed'
  BY <1>0, <1>2, Parts DEF Typed
<1>4. ListedHosts'
  BY <1>0, <1>2, Parts DEF ListedHosts
<1>5. ASSUME NEW q \in Pools, NEW g \in listed'[q] PROVE gw'[g].status = "Active" \/ g \in strays'
  BY <1>0, <1>2, <1>5, Parts
<1>6. ASSUME NEW g \in Gateways, NEW q \in Pools, g \in pool'[q].on PROVE Met(g, q)'
  <2>1. q # p /\ pool'[q] = pool[q] /\ Met(g, q)
    BY <1>2, <1>6, Parts
  <2> QED BY <1>0, <2>1 DEF Met, Opens
<1> QED BY <1>3, <1>4, <1>5, <1>6 DEF IInv, RoundRobinServes, Serving, PortsDue

\* Steps on the rows, the strategy and the records of SPF.
LEMMA FrameStep ==
    ASSUME IInv, UNCHANGED <<pool, gw, jobs, listed, check, missed, strays>>
    PROVE  IInv'
<1>1. Typed'
  BY Parts DEF Typed
<1>2. ListedHosts' /\ RoundRobinServes'
  BY RobinKept DEF Serving
<1>3. PortsDue'
  BY DueGrows
<1> QED BY <1>1, <1>2, <1>3 DEF IInv

\* The jobs of pool changes.
LEMMA JobStep ==
    ASSUME IInv, NEW j \in jobs,
           LoseJob(j) \/ StartJob(j) \/ EndJob(j) \/ (\E g \in Gateways : JobPushesGateway(j, g))
    PROVE  IInv'
<1>0. /\ UNCHANGED <<pool, listed, check, strays>> /\ j \in Started /\ j.pool \in Pools
      /\ pool \in [Pools -> Pool] /\ gw \in [Gateways -> Gateway]
  BY Parts DEF LoseJob, StartJob, EndJob, JobPushesGateway, Started, Job
<1>a. ASSUME UNCHANGED gw, jobs' \subseteq Started, PortsDue' PROVE IInv'
  <2>1. Typed'
    BY <1>0, <1>a, Parts DEF Typed
  <2>2. ListedHosts' /\ RoundRobinServes'
    BY <1>0, <1>a, RobinKept DEF Serving
  <2> QED BY <1>a, <2>1, <2>2 DEF IInv
\* What is not this job's stays met.
<1>b. ASSUME jobs \ {j} \subseteq jobs', missed \subseteq missed',
             \A h \in Gateways : gw[h].open \cup gw[h].opening \subseteq gw'[h].open \cup gw'[h].opening,
             \A g \in Gateways, p \in Pools : g \in pool[p].on /\ Opens(j, p, g) => Met(g, p)'
      PROVE  PortsDue'
  <2>1. ASSUME NEW g \in Gateways, NEW p \in Pools,
               pool[p].port \in gw[g].open \cup gw[g].opening \/ <<g, pool[p].port>> \in missed
        PROVE  Met(g, p)'
    BY <1>0, <1>b, <2>1 DEF Met
  <2>2. ASSUME NEW g \in Gateways, NEW p \in Pools, NEW k \in jobs, g \in pool[p].on, Opens(k, p, g)
        PROVE  Met(g, p)'
    <3>1. CASE k = j
      BY <1>b, <2>2, <3>1
    <3>2. CASE k # j
      BY <1>0, <1>b, <2>2, <3>2, OpensKept
    <3> QED BY <3>1, <3>2
  <2> QED BY <1>0, <2>1, <2>2, DueKept
<1>1. CASE LoseJob(j)
  <2>1. /\ UNCHANGED gw /\ jobs' = jobs \ {j}
        /\ missed' = missed \cup {<<g, pool[j.pool].port>> : g \in j.fresh}
    BY <1>1 DEF LoseJob
  <2>2. ASSUME NEW g \in Gateways, NEW p \in Pools, Opens(j, p, g) PROVE Met(g, p)'
    <3>1. <<g, pool'[p].port>> \in missed'
      BY <1>0, <2>1, <2>2 DEF Opens
    <3> QED BY <3>1 DEF Met
  <2>3. PortsDue'
    BY <1>b, <2>1, <2>2
  <2> QED BY <1>a, <2>1, <2>3, Parts
<1>2. CASE StartJob(j)
  <2>1. UNCHANGED <<gw, missed>> /\ j.seen = <<>>
    BY <1>2 DEF StartJob
  <2>2. CASE ~Exists(j.pool) /\ jobs' = jobs \ {j}
    <3>1. ASSUME NEW g \in Gateways, NEW p \in Pools, g \in pool[p].on, Opens(j, p, g) PROVE FALSE
      <4>1. pool[p].port = 0
        BY <2>2, <3>1 DEF Opens, Exists
      <4> QED BY <3>1, <4>1, Parts
    <3>2. PortsDue'
      BY <1>b, <2>1, <2>2, <3>1
    <3> QED BY <1>a, <2>1, <2>2, <3>2, Parts
  <2>3. CASE Exists(j.pool) /\ jobs' = (jobs \ {j}) \cup
               {[j EXCEPT !.seen = pool, !.todo = pool[j.pool].on, !.up = {g \in Gateways : Serving(g)}]}
    <3>0. PICK k : k = [j EXCEPT !.seen = pool, !.todo = pool[j.pool].on, !.up = {g \in Gateways : Serving(g)}]
      OBVIOUS
    <3>1. k \in Started /\ k.pool = j.pool /\ k.fresh = j.fresh /\ k.todo = pool[j.pool].on /\ k.seen = pool
      <4>1. pool[j.pool].on \subseteq Gateways
        BY <1>0, Parts
      <4>2. k \in Job /\ k.pool = j.pool /\ k.fresh = j.fresh /\ k.todo = pool[j.pool].on /\ k.seen = pool
        BY <1>0, <3>0, <4>1 DEF Started, Job
      <4> QED BY <2>3, <4>2 DEF Started, Exists
    <3>2. jobs' = (jobs \ {j}) \cup {k}
      BY <2>3, <3>0
    <3>3. ASSUME NEW g \in Gateways, NEW p \in Pools, g \in pool[p].on, Opens(j, p, g) PROVE Met(g, p)'
      <4>1. Opens(k, p, g)'
        BY <1>0, <3>1, <3>3 DEF Opens
      <4> QED BY <3>2, <4>1 DEF Met
    <3>4. PortsDue'
      BY <1>b, <2>1, <3>2, <3>3
    <3> QED BY <1>a, <2>1, <3>1, <3>2, <3>4, Parts
  <2> QED BY <1>2, <2>2, <2>3 DEF StartJob
<1>3. CASE EndJob(j)
  <2>1. UNCHANGED <<gw, missed>> /\ jobs' = jobs \ {j} /\ j.seen # <<>> /\ j.todo = {}
    BY <1>3 DEF EndJob
  <2>2. ASSUME NEW g \in Gateways, NEW p \in Pools, Opens(j, p, g) PROVE FALSE
    BY <2>1, <2>2 DEF Opens
  <2>3. PortsDue'
    BY <1>b, <2>1, <2>2
  <2> QED BY <1>a, <2>1, <2>3, Parts
<1>4. ASSUME NEW g \in Gateways, JobPushesGateway(j, g) PROVE IInv'
  <2> DEFINE port == j.seen[j.pool].port
  <2>0. j.seen # <<>> /\ g \in j.todo /\ j.seen \in [Pools -> Pool] /\ port \in 0 .. MaxPort
    BY <1>0, <1>4 DEF JobPushesGateway, Started, Job, Pool
  <2>1. PICK k : k = [j EXCEPT !.todo = @ \ {g}, !.fresh = @ \ {g}]
    OBVIOUS
  <2>2. /\ k \in Started /\ k.pool = j.pool /\ k.fresh = j.fresh \ {g} /\ k.todo = j.todo \ {g}
        /\ k.seen = j.seen
    BY <1>0, <2>1 DEF Started, Job
  <2>3. /\ jobs' \subseteq Started /\ jobs \ {j} \subseteq jobs'
        /\ j.todo # {g} => k \in jobs'
    BY <1>4, <2>1, <2>2, Parts DEF JobPushesGateway
  \* The other gateways of the job.
  <2>4. ASSUME NEW h \in Gateways, NEW p \in Pools, h # g, Opens(j, p, h) PROVE Met(h, p)'
    <3>1. h \in j.todo /\ j.seen[p].port = pool[p].port /\ j.pool = p /\ h \in j.fresh
      BY <2>0, <2>4 DEF Opens
    <3>2. k \in jobs' /\ Opens(k, p, h)'
      BY <1>0, <2>2, <2>3, <2>4, <3>1 DEF Opens
    <3> QED BY <3>2 DEF Met
  <2>5. ASSUME NEW p \in Pools, Opens(j, p, g) PROVE g \in j.fresh /\ pool[p].port = port
    BY <2>0, <2>5 DEF Opens
  <2>6. CASE g \in j.up
    <3> DEFINE r == WithPlan(gw[g], g, j.seen)
               opening == IF g \in j.fresh THEN r.opening \cup {port} ELSE r.opening
    <3>1. r \in Gateway /\ r.status = gw[g].status /\ r.open = gw[g].open /\ r.opening = gw[g].opening
      BY <1>0, <2>0, WithPlanTyped
    <3>2. gw' = [gw EXCEPT ![g] = [r EXCEPT !.opening = opening]] /\ UNCHANGED missed
      BY <1>4, <2>6 DEF JobPushesGateway
    <3> HIDE DEF r
    <3>3. port \in 1 .. MaxPort
      BY <1>0, <2>0, EgressConstants DEF Started
    <3>4. opening \subseteq 1 .. MaxPort
      BY <3>1, <3>3 DEF Gateway
    <3> HIDE DEF opening
    <3>5. [r EXCEPT !.opening = opening] \in Gateway
      BY <3>1, <3>4 DEF Gateway
    <3>6. /\ gw' \in [Gateways -> Gateway] /\ \A h \in Gateways : h # g => gw'[h] = gw[h]
          /\ gw'[g].status = gw[g].status /\ gw'[g].open = gw[g].open /\ gw'[g].opening = opening
      BY <1>0, <3>1, <3>2, <3>5 DEF Gateway
    <3>7. gw[g].opening \subseteq opening /\ (g \in j.fresh => port \in opening)
      BY <3>1 DEF opening
    <3>8. Typed'
      BY <1>0, <2>3, <3>6, Parts DEF Typed
    <3>9. ListedHosts' /\ RoundRobinServes'
      BY <1>0, <3>6, RobinKept DEF Serving
    <3>10. ASSUME NEW h \in Gateways, NEW p \in Pools, Opens(j, p, h) PROVE Met(h, p)'
      <4>1. CASE h = g
        <5>1. pool'[p].port \in gw'[h].opening
          BY <1>0, <2>5, <3>6, <3>7, <3>10, <4>1
        <5> QED BY <5>1 DEF Met
      <4> QED BY <2>4, <3>10, <4>1
    <3>11. ASSUME NEW h \in Gateways PROVE gw[h].open \cup gw[h].opening \subseteq gw'[h].open \cup gw'[h].opening
      BY <3>6, <3>7
    <3>12. PortsDue'
      BY <1>b, <2>3, <3>2, <3>10, <3>11
    <3> QED BY <3>8, <3>9, <3>12 DEF IInv
  <2>7. CASE g \notin j.up
    <3>1. UNCHANGED gw /\ missed' = IF g \in j.fresh THEN missed \cup {<<g, port>>} ELSE missed
      BY <1>4, <2>7 DEF JobPushesGateway
    <3>2. ASSUME NEW h \in Gateways, NEW p \in Pools, Opens(j, p, h) PROVE Met(h, p)'
      <4>1. CASE h = g
        <5>1. <<h, pool'[p].port>> \in missed'
          BY <1>0, <2>5, <3>1, <3>2, <4>1
        <5> QED BY <5>1 DEF Met
      <4> QED BY <2>4, <3>2, <4>1
    <3>3. PortsDue'
      BY <1>b, <2>3, <3>1, <3>2
    <3> QED BY <1>a, <2>3, <3>1, <3>3
  <2> QED BY <2>6, <2>7
<1> QED BY <1>1, <1>2, <1>3, <1>4

\* A gateway's step that takes no port from it.
LEMMA GatewayStep ==
    ASSUME IInv, UNCHANGED <<pool, jobs>>, NEW g \in Gateways, NEW r \in Gateway, gw' = [gw EXCEPT ![g] = r],
           check' \in [Gateways -> {"none", "Provisioned", "Active"}], listed' \in [Pools -> SUBSET Gateways],
           ListedHosts', RoundRobinServes',
           gw[g].open \cup gw[g].opening \subseteq r.open \cup r.opening,
           \A h \in Gateways, p \in Pools : <<h, pool[p].port>> \in missed =>
             <<h, pool[p].port>> \in missed' \/ (h = g /\ pool[p].port \in {0} \cup r.open)
    PROVE  IInv'
<1>1. gw' \in [Gateways -> Gateway] /\ gw'[g] = r /\ \A h \in Gateways : h # g => gw'[h] = gw[h]
  BY Parts
<1>2. Typed'
  BY <1>1, Parts DEF Typed
<1>3. ASSUME NEW h \in Gateways, NEW p \in Pools, h \in pool[p].on, pool[p].port \in gw[h].open \cup gw[h].opening
      PROVE  Met(h, p)'
  BY <1>1, <1>3 DEF Met
<1>4. ASSUME NEW h \in Gateways, NEW p \in Pools, h \in pool[p].on, <<h, pool[p].port>> \in missed
      PROVE  Met(h, p)'
  <2>1. pool[p].port # 0
    BY <1>4, Parts
  <2> QED BY <1>1, <1>4, <2>1 DEF Met
<1>5. ASSUME NEW h \in Gateways, NEW p \in Pools, NEW j \in jobs, Opens(j, p, h) PROVE Met(h, p)'
  BY <1>5, OpensKept
<1>6. PortsDue'
  BY <1>3, <1>4, <1>5, DueKept
<1> QED BY <1>2, <1>6 DEF IInv

\* One that only sets the row's status, with set_status.
LEMMA SetStatusStep ==
    ASSUME IInv, UNCHANGED <<pool, jobs, check>>, NEW g \in Gateways, NEW seen, NEW r \in Gateway,
           SetStatus(g, seen, [gw EXCEPT ![g] = r]), r.status # "Absent",
           gw[g].open \cup gw[g].opening \subseteq r.open \cup r.opening,
           \A h \in Gateways, p \in Pools : <<h, pool[p].port>> \in missed =>
             <<h, pool[p].port>> \in missed' \/ (h = g /\ pool[p].port \in {0} \cup r.open)
    PROVE  IInv'
<1> DEFINE after == [gw EXCEPT ![g] = r]
<1>1. after \in [Gateways -> Gateway] /\ after[g] = r /\ \A h \in Gateways : h # g => after[h] = gw[h]
  BY Parts
<1>2. SetStatus(g, seen, after)
  OBVIOUS
<1> HIDE DEF after
<1>3. gw' = after /\ listed' \in [Pools -> SUBSET Gateways] /\ ListedHosts' /\ RoundRobinServes'
  BY <1>1, <1>2, SetStatusRobin
<1>4. gw' = [gw EXCEPT ![g] = r]
  BY <1>3 DEF after
<1>5. check' \in [Gateways -> {"none", "Provisioned", "Active"}]
  BY Parts
<1> HIDE DEF SetStatus
<1> QED BY <1>3, <1>4, <1>5, GatewayStep

\* The row is new or goes, and no pool has an address on it.
LEMMA InsertTrashStep ==
    ASSUME IInv, NEW g \in Gateways, InsertGateway(g) \/ TrashGateway(g)
    PROVE  IInv'
<1>0. gw[g].status = "Absent" \/ \A p \in Pools : g \notin pool[p].on
  BY DEF InsertGateway, TrashGateway
<1>1. \A p \in Pools : g \notin pool[p].on
  BY <1>0, Parts
<1>2. /\ UNCHANGED <<pool, jobs, listed, missed, strays>>
      /\ \E r \in Gateway : gw' = [gw EXCEPT ![g] = r]
      /\ check' = check \/ check' = [check EXCEPT ![g] = "none"]
  BY NewGatewayTyped DEF InsertGateway, TrashGateway
<1>3. gw' \in [Gateways -> Gateway] /\ \A h \in Gateways : h # g => gw'[h] = gw[h]
  BY <1>2, Parts
<1>4. Typed'
  <2>1. check' \in [Gateways -> {"none", "Provisioned", "Active"}]
    BY <1>2, Parts
  <2> QED BY <1>2, <1>3, <2>1, Parts DEF Typed
<1>5. ListedHosts'
  BY <1>1, <1>2, <1>3, Parts DEF ListedHosts
<1>6. ASSUME NEW p \in Pools, NEW h \in listed'[p] PROVE gw'[h].status = "Active" \/ h \in strays'
  <2>1. h \in Gateways /\ h # g
    BY <1>1, <1>2, <1>6, Parts
  <2> QED BY <1>2, <1>3, <1>6, <2>1, Parts
<1>7. ASSUME NEW h \in Gateways, NEW p \in Pools, h \in pool[p].on,
             pool[p].port \in gw[h].open \cup gw[h].opening \/ <<h, pool[p].port>> \in missed
      PROVE  Met(h, p)'
  BY <1>1, <1>2, <1>3, <1>7 DEF Met
<1>8. ASSUME NEW h \in Gateways, NEW p \in Pools, NEW j \in jobs, Opens(j, p, h) PROVE Met(h, p)'
  BY <1>2, <1>8, OpensKept
<1>9. PortsDue'
  BY <1>2, <1>7, <1>8, DueKept
<1> QED BY <1>4, <1>5, <1>6, <1>9 DEF IInv, RoundRobinServes, Serving

LEMMA OpenPortStep ==
    ASSUME IInv, NEW g \in Gateways, NEW port \in 1 .. MaxPort, OpenPort(g, port)
    PROVE  IInv'
<1>0. UNCHANGED <<pool, jobs, listed, check, strays>> /\ port \in gw[g].opening /\ gw \in [Gateways -> Gateway]
  BY Parts DEF OpenPort
<1>1. CASE gw' = [gw EXCEPT ![g].opening = @ \ {port}, ![g].open = @ \cup {port}] /\ UNCHANGED missed
  <2> DEFINE r == [gw[g] EXCEPT !.opening = @ \ {port}, !.open = @ \cup {port}]
  <2>1. gw' = [gw EXCEPT ![g] = r]
    BY <1>0, <1>1
  <2>2. r \in Gateway /\ r.status = gw[g].status /\ gw[g].open \cup gw[g].opening \subseteq r.open \cup r.opening
    BY <1>0 DEF Gateway
  <2> HIDE DEF r
  <2>3. gw'[g] = r /\ \A h \in Gateways : h # g => gw'[h] = gw[h]
    BY <1>0, <2>1
  <2>4. ListedHosts' /\ RoundRobinServes'
    BY <1>0, <2>2, <2>3, RobinKept DEF Serving
  <2> QED BY <1>0, <1>1, <2>1, <2>2, <2>4, GatewayStep, Parts
<1>2. CASE gw' = [gw EXCEPT ![g].opening = @ \ {port}] /\ missed' = missed \cup {<<g, port>>}
  <2>1. /\ gw' \in [Gateways -> Gateway] /\ \A h \in Gateways : h # g => gw'[h] = gw[h]
        /\ gw'[g].status = gw[g].status /\ gw'[g].open = gw[g].open /\ gw'[g].opening = gw[g].opening \ {port}
    BY <1>0, <1>2 DEF Gateway
  <2>2. Typed'
    BY <1>0, <2>1, Parts DEF Typed
  <2>3. ListedHosts' /\ RoundRobinServes'
    BY <1>0, <2>1, RobinKept DEF Serving
  <2>4. ASSUME NEW h \in Gateways, NEW p \in Pools,
               pool[p].port \in gw[h].open \cup gw[h].opening \/ <<h, pool[p].port>> \in missed
        PROVE  Met(h, p)'
    <3>1. CASE h = g /\ pool[p].port = port
      BY <1>0, <1>2, <3>1 DEF Met
    <3>2. CASE ~(h = g /\ pool[p].port = port)
      BY <1>0, <1>2, <2>1, <2>4, <3>2 DEF Met
    <3> QED BY <3>1, <3>2
  <2>5. ASSUME NEW h \in Gateways, NEW p \in Pools, NEW j \in jobs, Opens(j, p, h) PROVE Met(h, p)'
    BY <1>0, <2>5, OpensKept
  <2>6. PortsDue'
    BY <1>0, <2>4, <2>5, DueKept
  <2> QED BY <2>2, <2>3, <2>6 DEF IInv
<1> QED BY <1>1, <1>2 DEF OpenPort

\* The buttons of a gateway, and its Server Job.
LEMMA ServerJobStep ==
    ASSUME IInv, NEW g \in Gateways,
           \/ \E kind \in {"provision", "upgrade"} : StartServerJob(g, kind)
           \/ BuildVariables(g) \/ ServerJobFails(g)
    PROVE  IInv'
<1>0. gw \in [Gateways -> Gateway] /\ gw[g] \in Gateway
  BY Parts
<1>1. ASSUME NEW kind \in {"provision", "upgrade"}, StartServerJob(g, kind) PROVE IInv'
  <2> DEFINE r == [gw[g] EXCEPT !.job = kind, !.status = IF kind = "provision" THEN "Provisioning" ELSE @]
             after == [gw EXCEPT ![g].job = kind, ![g].status = IF kind = "provision" THEN "Provisioning" ELSE @]
  <2>1. /\ gw[g].status # "Absent" /\ SetStatus(g, gw[g].status, after)
        /\ UNCHANGED <<pool, jobs, check, missed>>
    BY <1>1, Zenon DEF StartServerJob
  <2>2. after = [gw EXCEPT ![g] = r]
    BY <1>0
  <2>3. r \in Gateway /\ r.status # "Absent" /\ r.open = gw[g].open /\ r.opening = gw[g].opening
    BY <1>0, <2>1 DEF Gateway, GatewayStatus
  <2> HIDE DEF r, after
  <2>4. SetStatus(g, gw[g].status, [gw EXCEPT ![g] = r])
    BY <2>1, <2>2
  <2> QED BY <2>1, <2>3, <2>4, SetStatusStep
<1>2. CASE BuildVariables(g)
  <2> DEFINE r == [gw[g] EXCEPT !.built = Hosted(pool, g)]
  <2>1. gw' = [gw EXCEPT ![g] = r] /\ UNCHANGED <<pool, jobs, listed, check, missed, strays>>
    BY <1>0, <1>2 DEF BuildVariables
  <2>2. r \in Gateway /\ r.status = gw[g].status /\ r.open = gw[g].open /\ r.opening = gw[g].opening
    <3>1. Hosted(pool, g) \in [Pools -> 0 .. MaxPort]
      BY Parts, HostedTyped
    <3> QED BY <1>0, <3>1 DEF Gateway
  <2> HIDE DEF r
  <2>3. gw'[g] = r /\ \A h \in Gateways : h # g => gw'[h] = gw[h]
    BY <1>0, <2>1
  <2>4. ListedHosts' /\ RoundRobinServes'
    BY <2>1, <2>2, <2>3, RobinKept DEF Serving
  <2> QED BY <2>1, <2>2, <2>4, GatewayStep, Parts
<1>3. CASE ServerJobFails(g)
  <2>1. /\ gw[g].built # <<>> /\ UNCHANGED <<pool, jobs, check, missed>>
        /\ \E server \in {Ended(gw[g]), Ran(gw[g])} :
             SetStatus(g, gw[g].status, [gw EXCEPT ![g] = [server EXCEPT !.status = "Failed"]])
    BY <1>3 DEF ServerJobFails
  <2>2. PICK server \in {Ended(gw[g]), Ran(gw[g])} :
             SetStatus(g, gw[g].status, [gw EXCEPT ![g] = [server EXCEPT !.status = "Failed"]])
    BY <2>1
  <2>3. server \in Gateway /\ gw[g].open \subseteq server.open /\ server.opening = gw[g].opening
    BY <1>0, <2>1, EndedTyped, RanTyped
  <2> DEFINE r == [server EXCEPT !.status = "Failed"]
  <2>4. r \in Gateway /\ r.status = "Failed" /\ r.open = server.open /\ r.opening = server.opening
    BY <2>3 DEF Gateway, GatewayStatus
  <2>5. SetStatus(g, gw[g].status, [gw EXCEPT ![g] = r])
    BY <2>2
  <2> HIDE DEF r
  <2>6. gw[g].open \cup gw[g].opening \subseteq r.open \cup r.opening /\ r.status # "Absent"
    BY <2>3, <2>4
  <2> QED BY <2>1, <2>4, <2>5, <2>6, SetStatusStep
<1> QED BY <1>1, <1>2, <1>3

\* after_provision and after_upgrade: the ports the job opened are no longer missed.
LEMMA ServerJobPassesStep ==
    ASSUME IInv, NEW g \in Gateways, NEW to \in {"Provisioned", "Active"}, ServerJobPasses(g, to)
    PROVE  IInv'
<1> DEFINE ran == Ran(gw[g])
           r == [ran EXCEPT !.status = "Provisioned"]
           provisioned == [gw EXCEPT ![g] = r]
           ports == PortsOf(gw[g].built)
<1>0. /\ gw \in [Gateways -> Gateway] /\ gw[g].built # <<>> /\ UNCHANGED <<pool, jobs, check>>
      /\ missed' = missed \ ({g} \X ports)
  BY Parts DEF ServerJobPasses
<1>1. /\ ran \in Gateway /\ ran.open = gw[g].open \cup ports /\ ran.opening = gw[g].opening
  BY <1>0, RanTyped
<1> HIDE DEF ran
<1>2. r \in Gateway /\ r.status = "Provisioned" /\ r.open = gw[g].open \cup ports /\ r.opening = gw[g].opening
  BY <1>1 DEF Gateway, GatewayStatus
<1>3. \/ SetStatus(g, IF gw[g].job = "upgrade" THEN gw[g].status ELSE "Provisioned", provisioned)
      \/ /\ gw' = [provisioned EXCEPT ![g].status = "Active"] /\ UNCHANGED strays
         /\ listed' = IF gw[g].job = "upgrade" /\ Serving(g)
                       THEN Listing(pool, provisioned, {p \in Pools : g \in pool[p].on}) ELSE listed
  BY DEF ServerJobPasses, ran
<1> HIDE DEF r
<1>4. ASSUME NEW h \in Gateways, NEW p \in Pools, <<h, pool[p].port>> \in missed
      PROVE  <<h, pool[p].port>> \in missed' \/ (h = g /\ pool[p].port \in ports)
  BY <1>0, <1>4
<1>5. CASE SetStatus(g, IF gw[g].job = "upgrade" THEN gw[g].status ELSE "Provisioned", provisioned)
  <2>1. PICK seen : SetStatus(g, seen, provisioned)
    BY <1>5
  <2>2. SetStatus(g, seen, [gw EXCEPT ![g] = r])
    BY <2>1
  <2>3. gw[g].open \cup gw[g].opening \subseteq r.open \cup r.opening /\ r.status # "Absent" /\ ports \subseteq r.open
    BY <1>2
  <2> HIDE DEF provisioned, ports
  <2> QED BY <1>0, <1>2, <1>4, <2>2, <2>3, SetStatusStep
<1>6. CASE /\ gw' = [provisioned EXCEPT ![g].status = "Active"] /\ UNCHANGED strays
           /\ listed' = IF gw[g].job = "upgrade" /\ Serving(g)
                         THEN Listing(pool, provisioned, {p \in Pools : g \in pool[p].on}) ELSE listed
  <2> DEFINE a == [r EXCEPT !.status = "Active"]
  <2>1. a \in Gateway /\ a.status = "Active" /\ a.open = r.open /\ a.opening = r.opening
    BY <1>2 DEF Gateway, GatewayStatus
  <2>2. gw' = [gw EXCEPT ![g] = a]
    BY <1>0, <1>2, <1>6
  <2> HIDE DEF a
  <2>3. gw'[g] = a /\ \A h \in Gateways : h # g => gw'[h] = gw[h] /\ provisioned[h] = gw[h]
    BY <1>0, <2>2
  <2>4. provisioned[g].status = "Provisioned"
    BY <1>0, <1>2
  <2> HIDE DEF provisioned
  <2>5. CASE UNCHANGED listed
    <3>1. ListedHosts' /\ RoundRobinServes'
      BY <1>0, <1>6, <2>1, <2>3, <2>5, RobinKept DEF Serving
    <3>2. gw[g].open \cup gw[g].opening \subseteq a.open \cup a.opening /\ ports \subseteq a.open
      BY <1>2, <2>1
    <3> HIDE DEF ports
    <3> QED BY <1>0, <1>4, <2>1, <2>2, <2>5, <3>1, <3>2, GatewayStep, Parts
  <2>6. CASE listed' = Listing(pool, provisioned, {p \in Pools : g \in pool[p].on})
    <3>1. /\ listed' \in [Pools -> SUBSET Gateways]
          /\ \A p \in Pools : listed'[p] = IF g \in pool[p].on
               THEN {h \in pool[p].on : provisioned[h].status = "Active"} ELSE listed[p]
      BY <2>6, Parts DEF Listing
    <3>2. ASSUME NEW p \in Pools, NEW h \in listed'[p]
          PROVE  h \in pool[p].on /\ (gw'[h].status = "Active" \/ h \in strays')
      <4>0. pool[p].on \subseteq Gateways /\ listed[p] \subseteq pool[p].on
        BY Parts
      <4>1. CASE g \in pool[p].on
        <5>1. h \in pool[p].on /\ provisioned[h].status = "Active"
          BY <3>1, <3>2, <4>1
        <5>2. h \in Gateways /\ h # g
          BY <2>4, <4>0, <5>1
        <5> QED BY <2>3, <5>1, <5>2
      <4>2. CASE g \notin pool[p].on
        <5>1. h \in listed[p] /\ h \in pool[p].on /\ h # g /\ h \in Gateways
          BY <3>1, <3>2, <4>0, <4>2
        <5> QED BY <1>6, <2>3, <5>1, Parts
      <4> QED BY <4>1, <4>2
    <3>3. ListedHosts'
      <4>1. ASSUME NEW h \in Gateways, gw'[h].status = "Absent", NEW p \in Pools PROVE h \notin pool[p].on
        BY <2>1, <2>3, <4>1, Parts
      <4> QED BY <1>0, <3>2, <4>1, Parts DEF ListedHosts
    <3>4. RoundRobinServes'
      BY <3>2 DEF RoundRobinServes, Serving
    <3>5. gw[g].open \cup gw[g].opening \subseteq a.open \cup a.opening /\ ports \subseteq a.open
      BY <1>2, <2>1
    <3> HIDE DEF ports
    <3> QED BY <1>0, <1>4, <2>1, <2>2, <3>1, <3>3, <3>4, <3>5, GatewayStep, Parts
  <2> QED BY <1>6, <2>5, <2>6
<1> QED BY <1>3, <1>5, <1>6

\* The checks of a gateway.
LEMMA CheckStep ==
    ASSUME IInv, NEW g \in Gateways, CheckReads(g) \/ CheckPasses(g) \/ CheckFails(g)
    PROVE  IInv'
<1>0. gw \in [Gateways -> Gateway] /\ UNCHANGED <<pool, jobs, missed>>
  BY Parts DEF CheckReads, CheckPasses, CheckFails
<1>1. check' \in [Gateways -> {"none", "Provisioned", "Active"}]
  BY Parts DEF CheckReads, CheckPasses, CheckFails
<1>2. CASE UNCHANGED <<gw, listed, strays>>
  <2>1. Typed'
    BY <1>0, <1>1, <1>2, Parts DEF Typed
  <2>2. ListedHosts' /\ RoundRobinServes'
    BY <1>0, <1>2, RobinKept DEF Serving
  <2>3. PortsDue'
    BY <1>0, <1>2, DueGrows
  <2> QED BY <2>1, <2>2, <2>3 DEF IInv
<1>3. CASE gw' = [gw EXCEPT ![g].status = "Active"] /\ UNCHANGED <<listed, strays>>
  <2> DEFINE r == [gw[g] EXCEPT !.status = "Active"]
  <2>1. r \in Gateway /\ r.status = "Active" /\ r.open = gw[g].open /\ r.opening = gw[g].opening
    BY <1>0 DEF Gateway, GatewayStatus
  <2>2. gw' = [gw EXCEPT ![g] = r]
    BY <1>0, <1>3
  <2> HIDE DEF r
  <2>3. gw'[g] = r /\ \A h \in Gateways : h # g => gw'[h] = gw[h]
    BY <1>0, <2>2
  <2>4. ListedHosts' /\ RoundRobinServes'
    BY <1>0, <1>3, <2>1, <2>3, RobinKept DEF Serving
  <2> QED BY <1>0, <1>1, <1>3, <2>1, <2>2, <2>4, GatewayStep, Parts
<1>4. CASE SetStatus(g, "Provisioned", [gw EXCEPT ![g].status = "Failed"])
  <2> DEFINE r == [gw[g] EXCEPT !.status = "Failed"]
             after == [gw EXCEPT ![g] = r]
  <2>1. r \in Gateway /\ r.status = "Failed" /\ r.open = gw[g].open /\ r.opening = gw[g].opening
    BY <1>0 DEF Gateway, GatewayStatus
  <2>2. [gw EXCEPT ![g].status = "Failed"] = after
    BY <1>0
  <2>3. SetStatus(g, "Provisioned", after)
    BY <1>4, <2>2
  <2> HIDE DEF r
  <2>4. after \in [Gateways -> Gateway] /\ after[g] = r /\ \A h \in Gateways : h # g => after[h] = gw[h]
    BY <1>0, <2>1
  <2> HIDE DEF after
  <2>5. gw' = after /\ listed' \in [Pools -> SUBSET Gateways] /\ ListedHosts' /\ RoundRobinServes'
    BY <1>0, <2>1, <2>3, <2>4, SetStatusRobin
  <2>6. gw' = [gw EXCEPT ![g] = r]
    BY <2>5 DEF after
  <2> QED BY <1>0, <1>1, <2>1, <2>5, <2>6, GatewayStep
<1> QED BY <1>2, <1>3, <1>4 DEF CheckReads, CheckPasses, CheckFails

LEMMA ButtonStep ==
    ASSUME IInv, NEW g \in Gateways, ToggleGateway(g) \/ MoveGateway(g) \/ SyncGateway(g)
    PROVE  IInv'
<1>0. gw \in [Gateways -> Gateway] /\ gw[g] \in Gateway /\ UNCHANGED <<pool, jobs, missed, check>>
  BY Parts DEF ToggleGateway, MoveGateway, SyncGateway
<1>1. CASE ToggleGateway(g)
  <2> DEFINE disables == gw[g].enabled /\ gw[g].status \in {"Provisioned", "Active"}
             r == [gw[g] EXCEPT !.enabled = ~@, !.status = IF disables THEN "Disabled" ELSE @]
             after == [gw EXCEPT ![g].enabled = ~@, ![g].status = IF disables THEN "Disabled" ELSE @]
  <2>1. gw[g].status # "Absent" /\ SetStatus(g, gw[g].status, after)
    BY <1>1, Zenon DEF ToggleGateway
  <2> HIDE DEF disables
  <2>2. after = [gw EXCEPT ![g] = r]
    BY <1>0
  <2>3. r \in Gateway /\ r.status # "Absent" /\ r.open = gw[g].open /\ r.opening = gw[g].opening
    BY <1>0, <2>1 DEF Gateway, GatewayStatus
  <2> HIDE DEF r, after
  <2>4. SetStatus(g, gw[g].status, [gw EXCEPT ![g] = r])
    BY <2>1, <2>2
  <2> QED BY <1>0, <2>3, <2>4, SetStatusStep
<1>2. CASE MoveGateway(g)
  <2>1. UNCHANGED <<gw, strays>> /\ listed' = Listing(pool, gw, {p \in Pools : g \in pool[p].on})
    BY <1>2 DEF MoveGateway
  <2>2. /\ listed' \in [Pools -> SUBSET Gateways]
        /\ \A p \in Pools : listed'[p] = IF g \in pool[p].on
             THEN {h \in pool[p].on : gw[h].status = "Active"} ELSE listed[p]
    BY <2>1, Parts DEF Listing
  <2>3. ASSUME NEW p \in Pools, NEW h \in listed'[p]
        PROVE  h \in pool[p].on /\ (gw'[h].status = "Active" \/ h \in strays')
    <3>1. CASE g \in pool[p].on
      BY <2>1, <2>2, <2>3, <3>1
    <3>2. CASE g \notin pool[p].on
      <4>1. h \in listed[p]
        BY <2>2, <2>3, <3>2
      <4> QED BY <2>1, <4>1, Parts
    <3> QED BY <3>1, <3>2
  <2>4. ListedHosts'
    BY <1>0, <2>1, <2>3, Parts DEF ListedHosts
  <2>5. RoundRobinServes'
    BY <2>3 DEF RoundRobinServes, Serving
  <2>6. Typed'
    BY <1>0, <2>1, <2>2, Parts DEF Typed
  <2>7. PortsDue'
    BY <1>0, <2>1, DueGrows
  <2> QED BY <2>4, <2>5, <2>6, <2>7 DEF IInv
<1>3. CASE SyncGateway(g)
  <2>1. gw' = [gw EXCEPT ![g] = WithPlan(gw[g], g, pool)] /\ UNCHANGED <<listed, strays>>
    BY <1>3 DEF SyncGateway
  <2> DEFINE r == WithPlan(gw[g], g, pool)
  <2>2. r \in Gateway /\ r.status = gw[g].status /\ r.open = gw[g].open /\ r.opening = gw[g].opening
    BY <1>0, Parts, WithPlanTyped
  <2>3. gw' = [gw EXCEPT ![g] = r]
    BY <2>1
  <2> HIDE DEF r
  <2>4. gw'[g] = r /\ \A h \in Gateways : h # g => gw'[h] = gw[h]
    BY <1>0, <2>3
  <2>5. ListedHosts' /\ RoundRobinServes'
    BY <1>0, <2>1, <2>2, <2>4, RobinKept DEF Serving
  <2> QED BY <1>0, <2>1, <2>2, <2>3, <2>5, GatewayStep, Parts
<1> QED BY <1>1, <1>2, <1>3

LEMMA InitHolds == Init => IInv
<1> SUFFICES ASSUME Init PROVE IInv
  OBVIOUS
<1>1. NoPool \in Pool /\ NoPool.on = {}
  BY EgressConstants DEF NoPool, Pool
<1>2. /\ pool \in [Pools -> Pool] /\ \A p \in Pools : pool[p].on = {}
      /\ listed \in [Pools -> SUBSET Gateways] /\ \A p \in Pools : listed[p] = {}
      /\ jobs = {} /\ check \in [Gateways -> {"none", "Provisioned", "Active"}]
  BY <1>1 DEF Init
<1>3. gw \in [Gateways -> Gateway]
  BY NewGatewayTyped DEF Init
<1> QED BY <1>2, <1>3 DEF IInv, Typed, ListedHosts, RoundRobinServes, PortsDue

LEMMA StepHolds == IInv /\ [Next]_vars => IInv'
<1> SUFFICES ASSUME IInv, [Next]_vars PROVE IInv'
  OBVIOUS
<1>1. CASE UNCHANGED vars
  BY <1>1, FrameStep DEF vars
<1>2. CASE (\E new \in Assignments : Assign(new)) \/ EditForeign \/ ClusterPush
  BY <1>2, FrameStep DEF Assign, EditForeign, ClusterPush
<1>3. CASE \E p \in Pools : DeletePool(p)
  BY <1>3, DeletePoolStep
<1>4. CASE \E j \in jobs : LoseJob(j) \/ StartJob(j) \/ EndJob(j) \/ (\E g \in Gateways : JobPushesGateway(j, g))
  BY <1>4, JobStep
<1>5. ASSUME NEW g \in Gateways,
             \/ InsertGateway(g) \/ TrashGateway(g) \/ ToggleGateway(g) \/ MoveGateway(g) \/ SyncGateway(g)
             \/ \E kind \in {"provision", "upgrade"} : StartServerJob(g, kind)
             \/ BuildVariables(g) \/ ServerJobFails(g)
             \/ \E to \in {"Provisioned", "Active"} : ServerJobPasses(g, to)
             \/ CheckReads(g) \/ CheckPasses(g) \/ CheckFails(g)
             \/ \E port \in 1 .. MaxPort : OpenPort(g, port)
      PROVE  IInv'
  BY <1>5, InsertTrashStep, ButtonStep, ServerJobStep, ServerJobPassesStep, CheckStep, OpenPortStep
<1> QED BY <1>1, <1>2, <1>3, <1>4, <1>5, PoolStep DEF Next

----------------------------------------------------------------------------

\* pool_records, resync_pool_records and set_status: a gateway that is not serving is in no pool's
\* round robin, unless the provider refused or the status was written from an older copy, for any
\* number of pools, gateways, jobs and checks.
THEOREM RoundRobinsServe == Spec => []RoundRobinServes
<1>1. IInv => RoundRobinServes
  BY DEF IInv
<1> QED BY InitHolds, StepHolds, <1>1, PTL DEF Spec

\* apply_pool_changes and open_relay_port: the relay listener of every pool that an active gateway
\* hosts is reachable, or about to be, or its job failed or passed the gateway over, however pool
\* changes, their jobs, provisioning and upgrades overlap.
THEOREM RelaysAreReachable == Spec => []RelayPortsOpen
<1>1. IInv => RelayPortsOpen
  <2> SUFFICES ASSUME IInv, NEW g \in Gateways, NEW p \in Pools, g \in pool[p].on
               PROVE  \/ pool[p].port \in gw[g].open \cup gw[g].opening
                      \/ <<g, pool[p].port>> \in missed
                      \/ \E j \in jobs : j.pool = p /\ g \in j.fresh
    BY DEF RelayPortsOpen
  <2>1. Met(g, p)
    BY Parts
  <2> QED BY <2>1 DEF Met, Opens
<1> QED BY InitHolds, StepHolds, <1>1, PTL DEF Spec

----------------------------------------------------------------------------
(* Selections and texts *)

\* What holds of 0 and of every number with its predecessor's holds of all.
LEMMA Steps ==
    ASSUME NEW n \in Nat, NEW T \in SUBSET (0 .. n), 0 \in T, \A i \in 1 .. n : i - 1 \in T => i \in T
    PROVE  0 .. n = T
<1> SUFFICES ASSUME 0 .. n # T PROVE FALSE
  OBVIOUS
<1> DEFINE U == (0 .. n) \ T
<1>0. T \subseteq 0 .. n
  OBVIOUS
<1>1. U \subseteq Nat /\ U # {}
  <2>1. U # {}
    BY <1>0, Zenon
  <2> QED BY <2>1
<1>2. PICK x \in U : \A y \in U : x <= y
  BY <1>1, Least
<1>3. x \in 1 .. n /\ x - 1 \in 0 .. n /\ x - 1 \notin U
  BY <1>2
<1> QED BY <1>2, <1>3

\* Select takes the elements in the set, and no others.
LEMMA Selected ==
    ASSUME NEW R, NEW s \in Seq(R), NEW kept
    PROVE  /\ Select(s, kept) \in Seq(R)
           /\ Range(Select(s, kept)) = {s[i] : i \in 1 .. Len(s)} \cap kept
<1> DEFINE n == Len(s)
           Step(t, i) == IF s[i] \in kept THEN Append(t, s[i]) ELSE t
           Is(f, m) == f = [i \in 0 .. m |-> IF i = 0 THEN <<>> ELSE Step(f[i - 1], i)]
           T == {m \in 0 .. n : \E f : Is(f, m)}
           upTo == CHOOSE f : Is(f, n)
<1>0. n \in Nat
  OBVIOUS
<1>1. 0 .. n = T
  <2>1. 0 \in T
    <3>1. Is([i \in 0 .. 0 |-> <<>>], 0)
      OBVIOUS
    <3> HIDE DEF Is
    <3> QED BY <3>1, <1>0
  <2>2. ASSUME NEW m \in 1 .. n, m - 1 \in T PROVE m \in T
    <3>1. PICK f : Is(f, m - 1)
      BY <2>2
    <3> DEFINE g == [i \in 0 .. m |-> IF i = m THEN Step(f[m - 1], m) ELSE f[i]]
    <3>2. ASSUME NEW i \in 0 .. m PROVE g[i] = IF i = 0 THEN <<>> ELSE Step(g[i - 1], i)
      <4>1. CASE i = m
        BY <4>1
      <4>2. CASE i # m
        <5>1. i \in 0 .. m - 1 /\ (i # 0 => i - 1 \in 0 .. m /\ i - 1 # m)
          BY <4>2
        <5>2. g[i] = f[i] /\ (i # 0 => g[i - 1] = f[i - 1])
          BY <4>2, <5>1
        <5>3. f[i] = IF i = 0 THEN <<>> ELSE Step(f[i - 1], i)
          BY <3>1, <5>1
        <5> QED BY <5>2, <5>3
      <4> QED BY <4>1, <4>2
    <3> HIDE DEF Step
    <3>3. [i \in 0 .. m |-> g[i]] = [i \in 0 .. m |-> IF i = 0 THEN <<>> ELSE Step(g[i - 1], i)]
      BY <3>2
    <3>4. g = [i \in 0 .. m |-> g[i]]
      OBVIOUS
    <3> HIDE DEF g
    <3>5. Is(g, m)
      BY <3>3, <3>4
    <3> HIDE DEF Is
    <3> QED BY <3>5
  <2> HIDE DEF Is
  <2> QED BY <1>0, <2>1, <2>2, Steps
<1>2. Is(upTo, n)
  <2>1. n \in T
    <3> HIDE DEF T
    <3> QED BY <1>0, <1>1
  <2> HIDE DEF Is
  <2> QED BY <2>1
<1>3. Select(s, kept) = upTo[n]
  BY DEF Select
<1> HIDE DEF upTo
<1>4. upTo[0] = <<>> /\ \A i \in 1 .. n : upTo[i] = Step(upTo[i - 1], i)
  <2> HIDE DEF Step
  <2>1. \A i \in 0 .. n : upTo[i] = IF i = 0 THEN <<>> ELSE Step(upTo[i - 1], i)
    BY <1>2
  <2> QED BY <1>0, <2>1
<1> DEFINE Good(t, i) == t \in Seq(R) /\ Range(t) = {s[j] : j \in 1 .. i} \cap kept
           G == {i \in 0 .. n : Good(upTo[i], i)}
<1>5. 0 .. n = G
  <2>1. 0 \in G
    <3>1. <<>> \in Seq(R) /\ Range(<<>>) = {s[j] : j \in 1 .. 0} \cap kept
      BY DEF Range
    <3>2. upTo[0] = <<>>
      BY <1>4
    <3>3. Good(upTo[0], 0)
      BY <3>1, <3>2
    <3> HIDE DEF Good
    <3> QED BY <1>0, <3>3
  <2>2. ASSUME NEW i \in 1 .. n, i - 1 \in G PROVE i \in G
    <3> DEFINE t == upTo[i - 1]
    <3>1. t \in Seq(R) /\ Range(t) = {s[j] : j \in 1 .. i - 1} \cap kept
      BY <2>2
    <3> HIDE DEF t
    <3>2. {s[j] : j \in 1 .. i} = {s[j] : j \in 1 .. i - 1} \cup {s[i]}
      OBVIOUS
    <3>3. s[i] \in R
      OBVIOUS
    <3>4. Append(t, s[i]) \in Seq(R) /\ Range(Append(t, s[i])) = Range(t) \cup {s[i]}
      <4>1. Len(Append(t, s[i])) = Len(t) + 1 /\ \A j \in 1 .. Len(t) + 1 : Append(t, s[i])[j] = IF j <= Len(t) THEN t[j] ELSE s[i]
        BY <3>1, <3>3
      <4>2. DOMAIN Append(t, s[i]) = 1 .. Len(t) + 1 /\ DOMAIN t = 1 .. Len(t) /\ Len(t) \in Nat
        BY <3>1, <3>3
      <4>3. Append(t, s[i]) \in Seq(R)
        BY <3>1, <3>3
      <4>4. ASSUME NEW x \in Range(Append(t, s[i])) PROVE x \in Range(t) \cup {s[i]}
        BY <4>1, <4>2 DEF Range
      <4>5. ASSUME NEW x \in Range(t) PROVE x \in Range(Append(t, s[i]))
        <5>1. PICK j \in 1 .. Len(t) : x = t[j]
          BY <4>2 DEF Range
        <5>2. j \in DOMAIN Append(t, s[i]) /\ Append(t, s[i])[j] = x
          BY <4>1, <4>2, <5>1
        <5> QED BY <5>2 DEF Range
      <4>6. s[i] \in Range(Append(t, s[i]))
        <5>1. Len(t) + 1 \in DOMAIN Append(t, s[i]) /\ Append(t, s[i])[Len(t) + 1] = s[i]
          BY <4>1, <4>2
        <5> QED BY <5>1 DEF Range
      <4> QED BY <4>3, <4>4, <4>5, <4>6
    <3>5. upTo[i] = IF s[i] \in kept THEN Append(t, s[i]) ELSE t
      BY <1>4 DEF t
    <3>6. CASE s[i] \in kept
      <4>1. Range(upTo[i]) = {s[j] : j \in 1 .. i} \cap kept
        BY <3>1, <3>2, <3>4, <3>5, <3>6
      <4>2. upTo[i] \in Seq(R)
        BY <3>4, <3>5, <3>6
      <4> QED BY <4>1, <4>2
    <3>7. CASE s[i] \notin kept
      <4>1. Range(upTo[i]) = {s[j] : j \in 1 .. i} \cap kept
        BY <3>1, <3>2, <3>5, <3>7
      <4> QED BY <3>1, <3>5, <3>7, <4>1
    <3> QED BY <3>6, <3>7
  <2> HIDE DEF Good
  <2> QED BY <1>0, <2>1, <2>2, Steps
<1>6. Good(upTo[n], n)
  <2>1. n \in G
    <3> HIDE DEF G
    <3> QED BY <1>0, <1>5
  <2> QED BY <2>1
<1> QED BY <1>3, <1>6

----------------------------------------------------------------------------
\* Suite Cloud's lists of a set have its elements.
LEMMA Listed ==
    ASSUME NEW S, IsFiniteSet(S)
    PROVE  SetToSeq(S) \in Seq(S) /\ Range(SetToSeq(S)) = S
<1> DEFINE n == Cardinality(S)
           f == SetToSeq(S)
<1>1. n \in Nat /\ IsFiniteSet(1 .. n) /\ Cardinality(1 .. n) = n
  BY FS_CardinalityType, FS_Interval
<1>2. PICK b : b \in Bijection(1 .. n, S)
  BY FS_CardinalityType DEF ExistsBijection
<1>3. b \in [1 .. n -> S] /\ IsInjective(b)
  BY <1>2 DEF Bijection, Injection, IsInjective
<1>4. f \in [1 .. n -> S] /\ IsInjective(f)
  BY <1>3 DEF SetToSeq
<1> HIDE DEF f, n
<1>5. f \in Injection(1 .. n, S)
  BY <1>4 DEF Injection, IsInjective
<1>6. f \in Surjection(1 .. n, S)
  BY <1>1, <1>5, FS_Injection DEF n
<1>7. \A x \in S : \E i \in 1 .. n : f[i] = x
  BY <1>6 DEF Surjection
<1>8. f \in Seq(S)
  BY <1>1, <1>4
<1>9. Range(f) = S
  BY <1>4, <1>7 DEF Range
<1> QED BY <1>8, <1>9 DEF f

LEMMA Piece ==
    ASSUME NEW X, NEW s \in Seq(X), NEW a \in Nat, NEW m \in Nat, NEW k \in Nat, a < k, k <= m, m <= Len(s)
    PROVE  k - a \in DOMAIN SubSeq(s, a + 1, m) /\ SubSeq(s, a + 1, m)[k - a] = s[k]
<1>1. Len(SubSeq(s, a + 1, m)) = m - a /\ SubSeq(s, a + 1, m) \in Seq(X)
  OBVIOUS
<1>2. \A i \in 1 .. m - a : SubSeq(s, a + 1, m)[i] = s[a + i]
  OBVIOUS
<1>3. k - a \in 1 .. m - a /\ a + (k - a) = k
  OBVIOUS
<1> QED BY <1>1, <1>2, <1>3

\* An SPF text has every address of its list.
LEMMA SpfHasAll ==
    ASSUME NEW X, NEW ips \in Seq(X), NEW k \in 1 .. Len(ips)
    PROVE  \E i \in DOMAIN SpfTexts(ips) : ips[k] \in Range(SpfTexts(ips)[i])
<1> DEFINE n == Len(ips)
           t == (n + SpfLimit - 1) \div SpfLimit
           q == (k - 1) \div SpfLimit
           a == q * SpfLimit
           m == IF q + 1 = t THEN n ELSE (q + 1) * SpfLimit
<1>1. n \in Nat /\ SpfLimit \in Nat /\ SpfLimit > 0 /\ k \in 1 .. n
  BY EgressConstants
<1>2. q \in Nat /\ a \in Nat /\ a <= k - 1 /\ k - 1 < a + SpfLimit
  BY <1>1
<1>3. t \in Nat /\ t * SpfLimit <= n + SpfLimit - 1 /\ n + SpfLimit - 1 < t * SpfLimit + SpfLimit
  BY <1>1
<1>4. (q + 1) * SpfLimit = a + SpfLimit
  BY <1>1, <1>2
<1> HIDE DEF q, t
<1>5. q + 1 <= t
  <2> SUFFICES ASSUME t <= q PROVE FALSE
    BY <1>2, <1>3
  <2>1. t * SpfLimit <= q * SpfLimit
    BY <1>1, <1>2, <1>3
  <2> QED BY <1>1, <1>2, <1>3, <2>1
<1>7. q + 1 # t => m <= n
  <2> SUFFICES ASSUME q + 2 <= t PROVE (q + 1) * SpfLimit <= n
    BY <1>2, <1>3, <1>5
  <2>1. (q + 2) * SpfLimit <= t * SpfLimit
    BY <1>1, <1>2, <1>3
  <2>2. (q + 2) * SpfLimit = (q + 1) * SpfLimit + SpfLimit
    BY <1>1, <1>2
  <2> QED BY <1>1, <1>2, <1>3, <1>4, <2>1, <2>2
<1>8. q + 1 \in 1 .. t /\ m \in Nat /\ k <= m /\ m <= n
  BY <1>1, <1>2, <1>3, <1>4, <1>5, <1>7
<1> DEFINE text == SubSeq(ips, a + 1, m)
<1>9. DOMAIN SpfTexts(ips) = 1 .. t /\ SpfTexts(ips)[q + 1] = text
  <2>1. SpfTexts(ips) = [i \in 1 .. t |-> SubSeq(ips, (i - 1) * SpfLimit + 1, IF i = t THEN n ELSE i * SpfLimit)]
    BY DEF SpfTexts, t
  <2>2. (q + 1) - 1 = q
    BY <1>2
  <2> QED BY <1>8, <2>1, <2>2
<1> HIDE DEF a, m
<1>10. a < k /\ k \in Nat
  BY <1>1, <1>2
<1>11. k - a \in DOMAIN text /\ text[k - a] = ips[k]
  BY <1>2, <1>8, <1>10, Piece
<1> HIDE DEF text
<1> QED BY <1>8, <1>9, <1>11 DEF Range

----------------------------------------------------------------------------
(* Routes *)

Targets == {"mx", "egress", "foreign"} \X (0 .. MaxPools)

Expression == [rules: Seq(Rule), else: Targets]

RoutesTyped ==
    /\ pool \in [Pools -> Pool]
    /\ rows \in [default: 0 .. MaxPools, tenant: 0 .. MaxPools, domain: [Domains -> 0 .. MaxPools],
                 relaying: SUBSET Domains, enabled: SUBSET Domains]
    /\ strategy \in Expression

\* The include target lists every address of every pool.
SpfCovers ==
    \A p \in Pools : \A g \in pool[p].on : \E i \in DOMAIN spf : <<p, g>> \in Range(spf[i])

\* An expression of the rows as they are: local delivery, the pools' rules, and rules of others.
Routed(e) ==
    /\ \E kept \in Seq(ForeignRules) : e.rules = LocalRules \o PoolRules \o kept
    /\ e.else \in Targets
    /\ IF DefaultPool # 0 THEN e.else = <<"egress", DefaultPool>> ELSE e.else[1] # "egress"

RoutesInv == RoutesTyped /\ SpfCovers /\ (synced => Routed(strategy))

\* The pools with a rule, and their rules.
Ruled == {q \in Pools \ {DefaultPool} : DomainsOf(q) # {}}
RuleOf(p) == [when |-> "sender", domains |-> DomainsOf(p), then |-> <<"egress", p>>]

LEMMA PoolRulesAre ==
    ASSUME RoutesTyped
    PROVE  /\ PoolRules \in Seq(Rule) /\ Range(PoolRules) = {RuleOf(p) : p \in Ruled}
           /\ Ruled \subseteq Populated
<1> DEFINE S == {RuleOf(p) : p \in Ruled}
           f == [p \in Ruled |-> RuleOf(p)]
<1>1. MaxPools \in Nat /\ IsFiniteSet(Pools)
  BY EgressConstants, FS_Interval DEF Pools
<1>2. IsFiniteSet(Ruled)
  BY <1>1, FS_Subset DEF Ruled
<1>3. f \in Surjection(Ruled, S)
  BY DEF Surjection
<1> HIDE DEF f
<1>4. IsFiniteSet(S)
  BY <1>2, <1>3, FS_Surjection
<1>5. ASSUME NEW p \in Ruled PROVE RuleOf(p) \in Rule /\ p \in Populated
  <2>1. p \in Pools /\ DomainsOf(p) # {} /\ p \in 0 .. MaxPools
    BY <1>1 DEF Ruled, Pools
  <2>2. DomainsOf(p) \subseteq Domains
    BY DEF DomainsOf, RoutesTyped
  <2>3. p \in Populated
    BY <2>1 DEF DomainsOf
  <2> QED BY <2>1, <2>2, <2>3 DEF RuleOf, Rule
<1>6. S \subseteq Rule /\ Ruled \subseteq Populated
  BY <1>5
<1>7. PoolRules = SetToSeq(S)
  BY DEF PoolRules, RuleOf, Ruled
<1> HIDE DEF S
<1>8. SetToSeq(S) \in Seq(S) /\ Range(SetToSeq(S)) = S
  BY <1>4, Listed
<1> QED BY <1>6, <1>7, <1>8 DEF S

LEMMA LocalRulesAre ==
    ASSUME RoutesTyped
    PROVE  /\ LocalRules \in Seq(Rule)
           /\ \A i \in DOMAIN LocalRules : LocalRules[i].then = <<"local", 0>>
           /\ \A mail \in Mails : Stays(mail) <=> \E i \in DOMAIN LocalRules : Matches(LocalRules[i], mail)
<1> DEFINE relaying == rows.relaying \cap rows.enabled
           none == [when |-> "domain", domains |-> {}, then |-> <<"local", 0>>]
           address == [when |-> "address", domains |-> {}, then |-> <<"local", 0>>]
           domain == [when |-> "domain", domains |-> relaying, then |-> <<"local", 0>>]
<1>1. relaying \subseteq Domains /\ 0 \in 0 .. MaxPools
  BY EgressConstants DEF RoutesTyped
<1>2. none \in Rule /\ address \in Rule /\ domain \in Rule
  BY <1>1 DEF Rule
<1>3. ASSUME NEW mail \in Mails PROVE mail.held => mail.to \in Domains
  BY DEF Mails
<1>4. ASSUME NEW mail \in Mails PROVE mail.to \in Domains <=> mail.to # None
  BY EgressConstants DEF Mails
<1>5. CASE relaying = {}
  <2>1. LocalRules = <<none>>
    BY <1>5 DEF LocalRules
  <2>2. ASSUME NEW mail \in Mails PROVE Stays(mail) <=> Matches(none, mail)
    BY <1>3, <1>4, <1>5 DEF Stays, Matches
  <2> HIDE DEF none
  <2>3. none.then = <<"local", 0>>
    BY DEF none
  <2>4. <<none>> \in Seq(Rule) /\ DOMAIN <<none>> = {1} /\ <<none>>[1] = none
    BY <1>2
  <2> QED BY <2>1, <2>2, <2>3, <2>4
<1>6. CASE relaying # {}
  <2>1. LocalRules = <<address, domain>>
    BY <1>6 DEF LocalRules
  <2>2. ASSUME NEW mail \in Mails PROVE Stays(mail) <=> Matches(address, mail) \/ Matches(domain, mail)
    BY <1>3, <1>4 DEF Stays, Matches
  <2> HIDE DEF address, domain
  <2>3. address.then = <<"local", 0>> /\ domain.then = <<"local", 0>>
    BY DEF address, domain
  <2>4. /\ <<address, domain>> \in Seq(Rule) /\ DOMAIN <<address, domain>> = {1, 2}
        /\ <<address, domain>>[1] = address /\ <<address, domain>>[2] = domain
    BY <1>2
  <2> QED BY <2>1, <2>2, <2>3, <2>4
<1> QED BY <1>5, <1>6

LEMMA DefaultTyped ==
    ASSUME RoutesTyped
    PROVE  DefaultPool \in 0 .. MaxPools /\ (DefaultPool # 0 => DefaultPool \in Populated)
BY EgressConstants DEF RoutesTyped, DefaultPool

\* Whatever expression a push starts from, it leaves one of the rows.
LEMMA ExpressionRouted ==
    ASSUME RoutesTyped, NEW current \in Expression
    PROVE  RouteExpression(current) \in Expression /\ Routed(RouteExpression(current))
<1> DEFINE kept == Foreign(current.rules)
           ours == LocalRules \o PoolRules
           else == IF DefaultPool # 0 THEN <<"egress", DefaultPool>>
                   ELSE IF current.else[1] = "egress" THEN <<"mx", 0>> ELSE current.else
           e == RouteExpression(current)
<1>1. current.rules \in Seq(Rule) /\ current.else \in Targets
  BY DEF Expression
<1>2. kept \in Seq(Rule) /\ Range(kept) \subseteq ForeignRules
  BY <1>1, Selected DEF Foreign
<1> HIDE DEF kept
<1>3. kept \in Seq(ForeignRules)
  BY <1>2 DEF Range
<1>4. ours \in Seq(Rule)
  BY PoolRulesAre, LocalRulesAre
<1>5. else \in Targets /\ (IF DefaultPool # 0 THEN else = <<"egress", DefaultPool>> ELSE else[1] # "egress")
  <2>1. DefaultPool \in 0 .. MaxPools /\ 0 \in 0 .. MaxPools
    BY DefaultTyped, EgressConstants
  <2> QED BY <1>1, <2>1 DEF Targets
<1>6. e = [rules |-> ours \o kept, else |-> else]
  BY DEF RouteExpression, kept
<1> HIDE DEF ours, else, e
<1>7. ours \o kept \in Seq(Rule)
  BY <1>2, <1>4
<1>8. e \in Expression /\ e.rules = ours \o kept /\ e.else = else
  BY <1>5, <1>6, <1>7 DEF Expression
<1> QED BY <1>3, <1>5, <1>8 DEF Routed, ours, e

LEMMA PushedRoutes ==
    ASSUME RoutesInv, NEW current \in Expression, Pushed(current), UNCHANGED <<pool, rows, spf>>
    PROVE  RoutesInv'
<1>1. strategy' = RouteExpression(current)
  BY DEF Pushed
<1>2. strategy' \in Expression /\ Routed(strategy')
  BY <1>1, ExpressionRouted DEF RoutesInv
<1>3. LocalRules' = LocalRules /\ PoolRules' = PoolRules /\ DefaultPool' = DefaultPool
  BY DEF LocalRules, PoolRules, DefaultPool, DomainsOf, Populated, PoolForDomain
<1>4. Routed(strategy)'
  BY <1>2, <1>3 DEF Routed
<1> QED BY <1>2, <1>4 DEF RoutesInv, RoutesTyped, SpfCovers

LEMMA NoExpressionTyped == NoExpression \in Expression
BY EgressConstants DEF NoExpression, Expression, Targets

\* sync_spf_record.
LEMMA SyncSpfCovers ==
    ASSUME SyncSpf, pool' \in [Pools -> Pool]
    PROVE  SpfCovers'
<1> DEFINE S == UNION {{<<p, g>> : g \in pool'[p].on} : p \in Pools}
           nodes == [i \in 1 .. NodeIps |-> <<0, i>>]
           ips == nodes \o SetToSeq(S)
<1>1. MaxPools \in Nat /\ NodeIps \in Nat /\ IsFiniteSet(Gateways) /\ IsFiniteSet(Pools)
  BY EgressConstants, FS_Interval DEF Pools
<1>2. \A p \in Pools : pool'[p].on \subseteq Gateways
  BY DEF Pool
<1>3. S \subseteq Pools \X Gateways
  BY <1>2
<1>4. IsFiniteSet(S)
  BY <1>1, <1>3, FS_Product, FS_Subset
<1>5. spf' = SpfTexts(ips)
  BY DEF SyncSpf, SendingIps
<1> SUFFICES ASSUME NEW p \in Pools, NEW g \in pool'[p].on
             PROVE  \E i \in DOMAIN spf' : <<p, g>> \in Range(spf'[i])
  BY DEF SpfCovers
<1>6. <<p, g>> \in S
  OBVIOUS
<1> HIDE DEF S
<1>7. SetToSeq(S) \in Seq(S) /\ Range(SetToSeq(S)) = S
  BY <1>4, Listed
<1>8. PICK j \in 1 .. Len(SetToSeq(S)) : SetToSeq(S)[j] = <<p, g>>
  <2>1. <<p, g>> \in Range(SetToSeq(S))
    BY <1>6, <1>7
  <2>2. DOMAIN SetToSeq(S) = 1 .. Len(SetToSeq(S))
    BY <1>7
  <2> QED BY <2>1, <2>2, Zenon DEF Range
<1> DEFINE X == S \cup (Nat \X Nat)
<1>9. nodes \in Seq(X) /\ Len(nodes) = NodeIps /\ SetToSeq(S) \in Seq(X)
  BY <1>1, <1>7
<1> HIDE DEF nodes, X
<1>10. ips \in Seq(X) /\ NodeIps + j \in 1 .. Len(ips) /\ ips[NodeIps + j] = <<p, g>>
  BY <1>1, <1>8, <1>9
<1> HIDE DEF ips
<1> QED BY <1>5, <1>10, SpfHasAll

----------------------------------------------------------------------------
\* Where the mail of a routed expression leaves.
LEMMA RoutedLeaves ==
    ASSUME RoutesTyped, Routed(strategy), NEW mail \in Mails
    PROVE  LET target == Leaves(mail) IN
           /\ Stays(mail) => target = <<"local", 0>>
           /\ ~Stays(mail) =>
                 \/ \E p \in Ruled : mail.from \in DomainsOf(p) /\ target = <<"egress", p>>
                 \/ /\ \A p \in Ruled : mail.from \notin DomainsOf(p)
                    /\ \/ target = strategy.else
                       \/ target[1] = "foreign" /\ Foreign(strategy.rules) # <<>>
<1> DEFINE local == LocalRules
           pools == PoolRules
           rules == strategy.rules
           hits == {i \in DOMAIN rules : Matches(rules[i], mail)}
           target == Leaves(mail)
<1>1. PICK kept \in Seq(ForeignRules) : rules = local \o pools \o kept
  BY DEF Routed
<1>2. /\ local \in Seq(Rule) /\ pools \in Seq(Rule) /\ kept \in Seq(Rule) /\ rules \in Seq(Rule)
      /\ Range(pools) = {RuleOf(p) : p \in Ruled}
  BY PoolRulesAre, LocalRulesAre, <1>1 DEF RoutesTyped, Expression, ForeignRules
<1>3. /\ \A i \in DOMAIN local : local[i].then = <<"local", 0>>
      /\ Stays(mail) <=> \E i \in DOMAIN local : Matches(local[i], mail)
  BY LocalRulesAre
<1>4. Leaves(mail) = IF hits = {} THEN strategy.else
                     ELSE rules[CHOOSE i \in hits : \A j \in hits : i <= j].then
  BY DEF Leaves
<1> HIDE DEF local, pools, rules, target
<1>5. /\ DOMAIN rules = 1 .. Len(local) + Len(pools) + Len(kept)
      /\ Len(local) \in Nat /\ Len(pools) \in Nat /\ Len(kept) \in Nat
      /\ DOMAIN local = 1 .. Len(local) /\ DOMAIN pools = 1 .. Len(pools) /\ DOMAIN kept = 1 .. Len(kept)
  BY <1>1, <1>2
<1>6. /\ \A i \in 1 .. Len(local) : rules[i] = local[i]
      /\ \A i \in 1 .. Len(pools) : rules[Len(local) + i] = pools[i]
      /\ \A i \in 1 .. Len(kept) : rules[Len(local) + Len(pools) + i] = kept[i]
  BY <1>1, <1>2, <1>5
<1>7. hits # {} => \E i \in hits : /\ \A j \in hits : i <= j
                                   /\ Leaves(mail) = rules[i].then
  <2> SUFFICES ASSUME hits # {} PROVE \E i \in hits : (\A j \in hits : i <= j) /\ Leaves(mail) = rules[i].then
    OBVIOUS
  <2>1. hits \subseteq Nat
    BY <1>5
  <2> HIDE DEF hits
  <2>2. \E i \in hits : \A j \in hits : i <= j
    BY <2>1, Least
  <2> QED BY <1>4, <2>2
<1>8. CASE Stays(mail)
  <2>1. PICK i \in 1 .. Len(local) : Matches(local[i], mail)
    BY <1>3, <1>5, <1>8
  <2>2. i \in hits
    BY <1>5, <1>6, <2>1
  <2>3. PICK k \in hits : (\A j \in hits : k <= j) /\ Leaves(mail) = rules[k].then
    BY <1>7, <2>2
  <2>4. k \in 1 .. Len(local)
    BY <1>5, <2>2, <2>3
  <2>5. Leaves(mail) = <<"local", 0>>
    BY <1>3, <1>5, <1>6, <2>3, <2>4
  <2> QED BY <1>8, <2>5
<1>9. CASE ~Stays(mail)
  <2>1. \A k \in hits : k \notin 1 .. Len(local)
    BY <1>3, <1>5, <1>6, <1>9
  <2>2. ASSUME NEW p \in Ruled, mail.from \in DomainsOf(p)
        PROVE  \E k \in 1 .. Len(pools) : pools[k] = RuleOf(p) /\ Len(local) + k \in hits
    <3>1. RuleOf(p) \in Range(pools)
      BY <1>2
    <3>2. PICK k \in 1 .. Len(pools) : pools[k] = RuleOf(p)
      BY <1>5, <3>1 DEF Range
    <3>3. Matches(RuleOf(p), mail)
      BY <2>2 DEF Matches, RuleOf
    <3> QED BY <1>5, <1>6, <3>2, <3>3
  <2>3. ASSUME NEW k \in 1 .. Len(pools), Len(local) + k \in hits
        PROVE  \E p \in Ruled : mail.from \in DomainsOf(p) /\ rules[Len(local) + k].then = <<"egress", p>>
    <3>1. pools[k] \in Range(pools)
      BY <1>5 DEF Range
    <3>2. PICK p \in Ruled : pools[k] = RuleOf(p)
      BY <1>2, <3>1
    <3>3. Matches(RuleOf(p), mail)
      BY <1>6, <2>3, <3>2
    <3> QED BY <1>6, <3>2, <3>3 DEF Matches, RuleOf
  <2>4. ASSUME NEW k \in 1 .. Len(kept)
        PROVE  /\ rules[Len(local) + Len(pools) + k].then[1] = "foreign"
               /\ Foreign(strategy.rules) # <<>>
    <3> DEFINE m == Len(local) + Len(pools) + k
    <3>1. m \in DOMAIN rules /\ rules[m] \in ForeignRules
      BY <1>5, <1>6
    <3>2. rules[m].then[1] = "foreign"
      BY <3>1 DEF ForeignRules, Rule
    <3>3. Range(Foreign(rules)) = {rules[i] : i \in 1 .. Len(rules)} \cap ForeignRules
      BY <1>2, Selected DEF Foreign
    <3>4. Range(Foreign(rules)) # {}
      BY <1>2, <3>1, <3>3
    <3>5. Foreign(rules) # <<>>
      BY <3>4 DEF Range
    <3> QED BY <3>2, <3>5 DEF rules
  <2>5. CASE hits = {}
    BY <1>4, <1>9, <2>2, <2>5
  <2>6. CASE hits # {}
    <3>1. PICK k \in hits : (\A j \in hits : k <= j) /\ Leaves(mail) = rules[k].then
      BY <1>7, <2>6
    <3>2. k \in DOMAIN rules
      OBVIOUS
    <3>3. CASE k <= Len(local) + Len(pools)
      <4>1. k - Len(local) \in 1 .. Len(pools) /\ Len(local) + (k - Len(local)) = k
        BY <1>5, <2>1, <3>2, <3>3
      <4> QED BY <1>9, <2>3, <3>1, <4>1
    <3>4. CASE k > Len(local) + Len(pools)
      <4>1. /\ k - (Len(local) + Len(pools)) \in 1 .. Len(kept)
            /\ Len(local) + Len(pools) + (k - (Len(local) + Len(pools))) = k
        BY <1>5, <3>2, <3>4
      <4>2. \A p \in Ruled : mail.from \notin DomainsOf(p)
        BY <1>5, <2>2, <3>1, <3>2, <3>4
      <4> QED BY <1>9, <2>4, <3>1, <4>1, <4>2
    <3> QED BY <1>5, <3>2, <3>3, <3>4
  <2> QED BY <2>5, <2>6
<1> QED BY <1>8, <1>9

LEMMA RoutesShow == RoutesInv => MailLeavesAsAssigned
<1> SUFFICES ASSUME RoutesInv, synced, NEW mail \in Mails
             PROVE  LET target == Leaves(mail)
                        wanted == IF mail.from \in rows.enabled THEN PoolForDomain(mail.from) ELSE rows.default
                    IN /\ Stays(mail) <=> target[1] = "local"
                       /\ target[1] = "egress" => /\ target[2] \in Populated
                                                  /\ \A g \in pool[target[2]].on :
                                                       \E i \in DOMAIN spf : <<target[2], g>> \in Range(spf[i])
                       /\ ~Stays(mail) /\ wanted \in Populated /\ Foreign(strategy.rules) = <<>>
                            => target = <<"egress", wanted>>
  BY DEF MailLeavesAsAssigned
<1> DEFINE target == Leaves(mail)
           wanted == IF mail.from \in rows.enabled THEN PoolForDomain(mail.from) ELSE rows.default
<1>1. RoutesTyped /\ SpfCovers /\ Routed(strategy)
  BY DEF RoutesInv
<1>2. /\ Stays(mail) => target = <<"local", 0>>
      /\ ~Stays(mail) =>
           \/ \E p \in Ruled : mail.from \in DomainsOf(p) /\ target = <<"egress", p>>
           \/ /\ \A p \in Ruled : mail.from \notin DomainsOf(p)
              /\ \/ target = strategy.else
                 \/ target[1] = "foreign" /\ Foreign(strategy.rules) # <<>>
  BY <1>1, RoutedLeaves
<1> HIDE DEF target
<1>3. /\ strategy.else[1] \in {"mx", "egress", "foreign"}
      /\ strategy.else[1] = "egress" => DefaultPool \in Populated /\ strategy.else = <<"egress", DefaultPool>>
  BY <1>1, DefaultTyped DEF Routed, Targets
<1>4. Ruled \subseteq Populated /\ Populated \subseteq Pools
  BY <1>1, PoolRulesAre DEF Populated
<1>5. Stays(mail) <=> target[1] = "local"
  BY <1>2, <1>3
<1>6. target[1] = "egress" => target[2] \in Populated
  BY <1>2, <1>3, <1>4
<1>7. target[1] = "egress" => \A g \in pool[target[2]].on :
        \E i \in DOMAIN spf : <<target[2], g>> \in Range(spf[i])
  BY <1>1, <1>4, <1>6 DEF SpfCovers
<1>8. ASSUME ~Stays(mail), wanted \in Populated, Foreign(strategy.rules) = <<>>
      PROVE  target = <<"egress", wanted>>
  <2>1. ASSUME NEW p \in Ruled, mail.from \in DomainsOf(p) PROVE wanted = p
    BY <2>1 DEF DomainsOf
  <2>2. ASSUME \A p \in Ruled : mail.from \notin DomainsOf(p) PROVE wanted = DefaultPool /\ DefaultPool # 0
    <3>0. wanted \in Pools /\ wanted # 0
      <4> HIDE DEF wanted
      <4> QED BY <1>4, <1>8, EgressConstants DEF Pools
    <3>1. CASE mail.from \in rows.enabled
      <4>1. mail.from \in DomainsOf(wanted)
        BY <1>8, <3>1 DEF DomainsOf
      <4>2. wanted = DefaultPool
        BY <2>2, <3>0, <4>1 DEF Ruled
      <4> QED BY <3>0, <4>2
    <3>2. CASE mail.from \notin rows.enabled
      BY <1>8, <3>0, <3>2 DEF DefaultPool
    <3> QED BY <3>1, <3>2
  <2>3. DefaultPool # 0 => strategy.else = <<"egress", DefaultPool>>
    BY <1>1 DEF Routed
  <2>4. ~Stays(mail) /\ Foreign(strategy.rules) = <<>>
    BY <1>8
  <2> HIDE DEF wanted
  <2>5. CASE \E p \in Ruled : mail.from \in DomainsOf(p) /\ target = <<"egress", p>>
    BY <2>1, <2>5
  <2>6. CASE \A p \in Ruled : mail.from \notin DomainsOf(p)
    <3>1. target = strategy.else
      BY <1>2, <2>4, <2>6
    <3> QED BY <2>2, <2>3, <2>6, <3>1
  <2> QED BY <1>2, <2>4, <2>5, <2>6
<1> QED BY <1>5, <1>6, <1>7, <1>8 DEF target

----------------------------------------------------------------------------
\* Steps that change none of what the routes are about.
LEMMA RoutesElsewhere ==
    ASSUME RoutesInv, UNCHANGED <<pool, rows, strategy, spf, synced>>
    PROVE  RoutesInv'
<1>1. LocalRules' = LocalRules /\ PoolRules' = PoolRules /\ DefaultPool' = DefaultPool
  BY DEF LocalRules, PoolRules, DefaultPool, DomainsOf, Populated, PoolForDomain
<1>2. synced' => Routed(strategy)'
  BY <1>1 DEF RoutesInv, Routed
<1> QED BY <1>2 DEF RoutesInv, RoutesTyped, SpfCovers

LEMMA PoolRoutes ==
    ASSUME RoutesInv, NEW p \in Pools, NEW new \in Pool, pool' = [pool EXCEPT ![p] = new], SyncSpf,
           synced' = FALSE, UNCHANGED <<rows, strategy>>
    PROVE  RoutesInv'
<1>1. pool' \in [Pools -> Pool]
  BY DEF RoutesInv, RoutesTyped
<1> QED BY <1>1, SyncSpfCovers DEF RoutesInv, RoutesTyped

LEMMA AssignRoutes ==
    ASSUME RoutesInv, NEW new \in Assignments, Assign(new)
    PROVE  RoutesInv'
<1> DEFINE held == {0} \cup {p \in Pools : Exists(p)}
           T == [default: 0 .. MaxPools, tenant: 0 .. MaxPools, domain: [Domains -> 0 .. MaxPools],
                 relaying: SUBSET Domains, enabled: SUBSET Domains]
<1>1. held \subseteq 0 .. MaxPools /\ rows \in T
  BY EgressConstants DEF Pools, RoutesInv, RoutesTyped
<1>2. new \in T
  <2>1. \/ \E p \in held : new = [rows EXCEPT !.default = p] \/ new = [rows EXCEPT !.tenant = p]
        \/ \E d \in Domains, p \in held : new = [rows EXCEPT !.domain[d] = p]
        \/ \E ds \in SUBSET Domains : new = [rows EXCEPT !.relaying = ds] \/ new = [rows EXCEPT !.enabled = ds]
    BY DEF Assignments
  <2> HIDE DEF held
  <2> QED BY <1>1, <2>1
<1> QED BY <1>2 DEF Assign, RoutesInv, RoutesTyped, SpfCovers

LEMMA EditForeignRoutes == RoutesInv /\ EditForeign => RoutesInv'
<1> SUFFICES ASSUME RoutesInv, EditForeign PROVE RoutesInv'
  OBVIOUS
<1> DEFINE r == [when |-> "foreign", domains |-> {}, then |-> <<"foreign", 0>>]
<1>1. strategy \in Expression /\ 0 \in 0 .. MaxPools
  BY EgressConstants DEF RoutesInv, RoutesTyped
<1>2. r \in Rule /\ <<"foreign", 0>> \in Targets
  BY <1>1 DEF Rule, Targets
<1>3. strategy' = [strategy EXCEPT !.rules = <<r>> \o @] \/ strategy' = [strategy EXCEPT !.else = <<"foreign", 0>>]
  BY DEF EditForeign
<1> HIDE DEF r
<1>4. <<r>> \o strategy.rules \in Seq(Rule)
  BY <1>1, <1>2 DEF Expression
<1>5. strategy' \in Expression
  BY <1>1, <1>2, <1>3, <1>4 DEF Expression
<1> QED BY <1>5 DEF EditForeign, RoutesInv, RoutesTyped, SpfCovers

LEMMA PushPassesRoutes ==
    ASSUME RoutesInv, PushPasses, UNCHANGED <<pool, rows, spf>>
    PROVE  RoutesInv'
<1>1. strategy \in Expression
  BY DEF RoutesInv, RoutesTyped
<1> QED BY <1>1, PushedRoutes, NoExpressionTyped DEF PushPasses

LEMMA RoutesInit == Init => RoutesInv
<1> SUFFICES ASSUME Init PROVE RoutesInv
  OBVIOUS
<1> DEFINE r == [when |-> "domain", domains |-> {}, then |-> <<"local", 0>>]
<1>1. 0 \in 0 .. MaxPools /\ 0 \in 0 .. MaxPort
  BY EgressConstants
<1>2. r \in Rule
  BY <1>1 DEF Rule
<1>3. NoPool \in Pool
  BY <1>1 DEF NoPool, Pool
<1>4. RoutesTyped
  <2>1. strategy \in Expression
    BY <1>1, <1>2 DEF Init, Expression, Targets
  <2> QED BY <1>1, <1>3, <2>1 DEF Init, RoutesTyped
<1>5. Populated = {} /\ SpfCovers
  BY DEF Init, Populated, NoPool, SpfCovers
<1>6. DefaultPool = 0 /\ \A p : DomainsOf(p) = {}
  BY <1>5 DEF DefaultPool, DomainsOf
<1>7. LocalRules = <<r>>
  BY DEF Init, LocalRules
<1>8. PoolRules = <<>>
  <2>1. Ruled = {}
    BY <1>6 DEF Ruled
  <2>2. PoolRules \in Seq(Rule) /\ Range(PoolRules) = {}
    BY <1>4, <2>1, PoolRulesAre
  <2> HIDE DEF r
  <2> QED BY <2>2 DEF Range
<1>9. Routed(strategy)
  <2>1. strategy.rules = <<r>> /\ strategy.else = <<"mx", 0>>
    BY DEF Init
  <2> HIDE DEF r
  <2>2. <<r>> = LocalRules \o PoolRules \o <<>> /\ <<>> \in Seq(ForeignRules)
    BY <1>2, <1>7, <1>8
  <2>3. strategy.else \in Targets /\ strategy.else[1] # "egress"
    BY <1>1, <2>1 DEF Targets
  <2>4. \E kept \in Seq(ForeignRules) : strategy.rules = LocalRules \o PoolRules \o kept
    BY <2>1, <2>2
  <2> QED BY <1>6, <2>3, <2>4 DEF Routed
<1> QED BY <1>4, <1>5, <1>9 DEF RoutesInv

LEMMA RoutesNext ==
    ASSUME RoutesInv, [Next]_vars
    PROVE  RoutesInv'
<1>0. strategy \in Expression /\ pool \in [Pools -> Pool]
  BY DEF RoutesInv, RoutesTyped
<1>1. ASSUME NEW on \in SUBSET Gateways, InsertPool(on) PROVE RoutesInv'
  <2>1. NextPool \in Pools /\ [on |-> on, port |-> NextPort] \in Pool
    BY <1>0, <1>1, NextPortTyped, EgressConstants DEF InsertPool, Pool
  <2> QED BY <1>1, <2>1, PoolRoutes DEF InsertPool, SavePool
<1>2. ASSUME NEW p \in Pools, NEW on \in SUBSET Gateways, NEW port \in 1 .. MaxPort, EditPool(p, on, port)
      PROVE  RoutesInv'
  <2>1. [on |-> on, port |-> port] \in Pool
    BY EgressConstants DEF Pool
  <2> QED BY <1>2, <2>1, PoolRoutes DEF EditPool, SavePool
<1>3. ASSUME NEW p \in Pools, DeletePool(p) PROVE RoutesInv'
  <2>1. NoPool \in Pool
    BY EgressConstants DEF NoPool, Pool
  <2> QED BY <1>3, <2>1, PoolRoutes DEF DeletePool
<1>4. CASE ClusterPush
  <2>1. UNCHANGED <<pool, rows, spf>> /\ (PushPasses \/ UNCHANGED <<strategy, synced>>)
    BY <1>4 DEF ClusterPush
  <2> QED BY <2>1, PushPassesRoutes, RoutesElsewhere
<1>5. ASSUME NEW j \in jobs, LoseJob(j) \/ StartJob(j) \/ EndJob(j) \/ \E g \in Gateways : JobPushesGateway(j, g)
      PROVE  RoutesInv'
  <2>1. UNCHANGED <<pool, rows, spf>> /\ (PushPasses \/ UNCHANGED <<strategy, synced>>)
    BY <1>5 DEF LoseJob, StartJob, EndJob, JobPushesGateway
  <2> QED BY <2>1, PushPassesRoutes, RoutesElsewhere
<1>6. ASSUME NEW g \in Gateways, NEW to, ServerJobPasses(g, to) \/ CheckPasses(g)
      PROVE  RoutesInv'
  <2>1. UNCHANGED <<pool, rows, spf>> /\ (Pushed(strategy) \/ UNCHANGED <<strategy, synced>>)
    BY <1>6 DEF ServerJobPasses, CheckPasses
  <2> QED BY <1>0, <2>1, PushedRoutes, RoutesElsewhere
<1>7. ASSUME NEW g \in Gateways,
             \/ InsertGateway(g) \/ TrashGateway(g) \/ ToggleGateway(g) \/ MoveGateway(g) \/ SyncGateway(g)
             \/ \E kind \in {"provision", "upgrade"} : StartServerJob(g, kind)
             \/ BuildVariables(g) \/ ServerJobFails(g) \/ CheckReads(g) \/ CheckFails(g)
             \/ \E port \in 1 .. MaxPort : OpenPort(g, port)
      PROVE  RoutesInv'
  <2>1. UNCHANGED <<pool, rows, strategy, spf, synced>>
    BY <1>7 DEF InsertGateway, TrashGateway, ToggleGateway, MoveGateway, SyncGateway, StartServerJob,
                BuildVariables, ServerJobFails, CheckReads, CheckFails, OpenPort
  <2> QED BY <2>1, RoutesElsewhere
<1>8. CASE UNCHANGED vars
  BY <1>8, RoutesElsewhere DEF vars
<1> QED BY <1>1, <1>2, <1>3, <1>4, <1>5, <1>6, <1>7, <1>8, AssignRoutes, EditForeignRoutes DEF Next

----------------------------------------------------------------------------

\* route_expression, expression_rules and sync_spf_record: once the cluster holds the expression of
\* the current rows, mail stays or leaves through the pool the rows assign it, never through one without
\* an address, and SPF lists every address of that pool, whatever the expression was built from, for
\* any number of pools, domains, gateways and edits.
THEOREM MailIsRouted == Spec => []MailLeavesAsAssigned
<1>1. RoutesInv /\ [Next]_vars => RoutesInv'
  BY RoutesNext
<1> QED BY RoutesInit, RoutesShow, <1>1, PTL DEF Spec

----------------------------------------------------------------------------
(* Sums *)

\* Induction over the subsets of a finite set, by their size.
LEMMA Sized ==
    ASSUME NEW S, IsFiniteSet(S), NEW G \in SUBSET (SUBSET S), {} \in G,
           \A T \in SUBSET S : T # {} /\ (\A x \in T : T \ {x} \in G) => T \in G
    PROVE  SUBSET S = G
<1> SUFFICES ASSUME NEW U \in SUBSET S, U \notin G PROVE FALSE
  OBVIOUS
<1> DEFINE Bad == (SUBSET S) \ G
           N == {Cardinality(T) : T \in Bad}
<1>1. \A T \in SUBSET S : IsFiniteSet(T) /\ Cardinality(T) \in Nat
  BY FS_Subset, FS_CardinalityType
<1>2. N \subseteq Nat /\ N # {}
  <2>1. U \in Bad
    OBVIOUS
  <2> QED BY <1>1, <2>1
<1>3. PICK n \in N : \A m \in N : n <= m
  BY <1>2, Least
<1>4. PICK T \in Bad : n = Cardinality(T)
  BY <1>3
<1>5. T \in SUBSET S /\ T \notin G /\ T # {}
  OBVIOUS
<1>6. ASSUME NEW x \in T PROVE T \ {x} \in G
  <2>1. T \ {x} \in SUBSET S
    OBVIOUS
  <2>2. Cardinality(T \ {x}) = Cardinality(T) - 1
    BY <1>1, <1>5, FS_RemoveElement
  <2>3. CASE T \ {x} \notin G
    <3>1. Cardinality(T \ {x}) \in N
      BY <2>1, <2>3
    <3>2. n <= Cardinality(T \ {x}) /\ Cardinality(T) \in Nat
      BY <1>1, <1>3, <1>5, <3>1
    <3> QED BY <1>4, <2>2, <3>2
  <2> QED BY <2>3
<1> QED BY <1>5, <1>6

\* The recursive function behind a sum over a finite set exists.
LEMMA SumExists ==
    ASSUME NEW S, IsFiniteSet(S)
    PROVE  \E f : f = [T \in SUBSET S |->
                         IF T = {} THEN 0 ELSE LET x == CHOOSE y \in T : TRUE IN x.change + f[T \ {x}]]
<1> DEFINE n == Cardinality(S)
           Pick(T) == CHOOSE y \in T : TRUE
           Step(f, T) == IF T = {} THEN 0 ELSE Pick(T).change + f[T \ {Pick(T)}]
           Sub(m) == {T \in SUBSET S : Cardinality(T) <= m}
           Is(f, m) == f = [T \in Sub(m) |-> Step(f, T)]
           M == {m \in 0 .. n : \E f : Is(f, m)}
<1>0. n \in Nat /\ \A T \in SUBSET S : IsFiniteSet(T) /\ Cardinality(T) \in Nat /\ Cardinality(T) <= n
  BY FS_Subset, FS_CardinalityType
<1>1. \A T : T # {} => Pick(T) \in T
  OBVIOUS
<1>2. \A T \in SUBSET S : T # {} => /\ T \ {Pick(T)} \in SUBSET S
                                    /\ Cardinality(T \ {Pick(T)}) = Cardinality(T) - 1
  BY <1>0, <1>1, FS_RemoveElement
<1> HIDE DEF Pick
<1>3. 0 \in M
  <2> DEFINE f == [T \in Sub(0) |-> 0]
  <2>1. \A T \in Sub(0) : T = {}
    BY <1>0, FS_EmptySet
  <2>2. f = [T \in Sub(0) |-> Step(f, T)]
    BY <2>1
  <2>3. Is(f, 0)
    BY <2>2
  <2> HIDE DEF Is
  <2> QED BY <1>0, <2>3
<1>4. ASSUME NEW m \in 1 .. n, m - 1 \in M PROVE m \in M
  <2>1. PICK f : Is(f, m - 1)
    BY <1>4
  <2> DEFINE g == [T \in Sub(m) |-> Step(f, T)]
  <2>2. ASSUME NEW T \in Sub(m) PROVE g[T] = Step(g, T)
    <3>1. CASE T = {}
      BY <3>1
    <3>2. CASE T # {}
      <4> DEFINE U == T \ {Pick(T)}
      <4>1. U \in Sub(m - 1) /\ U \in Sub(m)
        BY <1>0, <1>2, <3>2
      <4>2. f[U] = Step(f, U) /\ g[U] = Step(f, U)
        <5> HIDE DEF Step, Sub, U
        <5> QED BY <2>1, <4>1
      <4>3. g[T] = Pick(T).change + f[U]
        BY <3>2
      <4> QED BY <3>2, <4>2, <4>3
    <3> QED BY <3>1, <3>2
  <2> HIDE DEF Step
  <2>3. [T \in Sub(m) |-> g[T]] = [T \in Sub(m) |-> Step(g, T)]
    BY <2>2
  <2>4. g = [T \in Sub(m) |-> g[T]]
    OBVIOUS
  <2> HIDE DEF g
  <2>5. Is(g, m)
    BY <2>3, <2>4
  <2> HIDE DEF Is
  <2> QED BY <2>5
<1>5. n \in M
  <2>1. M \in SUBSET (0 .. n)
    OBVIOUS
  <2>2. 0 .. n = M
    <3> HIDE DEF M
    <3> QED BY <1>0, <1>3, <1>4, <2>1, Steps
  <2> HIDE DEF M
  <2> QED BY <1>0, <2>2
<1>6. PICK f : Is(f, n)
  BY <1>5
<1>7. Sub(n) = SUBSET S
  BY <1>0
<1>8. f = [T \in SUBSET S |-> Step(f, T)]
  <2> HIDE DEF Sub, Step
  <2> QED BY <1>6, <1>7
<1> QED BY <1>8 DEF Pick

\* Changes that each fit between what was counted at their own point and at any point before it do
\* not add up to more than was counted in all.
LEMMA SumFits ==
    ASSUME NEW S, IsFiniteSet(S), NEW m \in Nat, NEW n \in Nat,
           \A r \in S : r.push.at \in 0 .. m /\ r.change \in Nat /\ r.push.ever \in 0 .. n,
           \A r, q \in S : r.push.at = q.push.at => r = q,
           \A r \in S : r.change <= r.push.ever,
           \A r, q \in S : q.push.at < r.push.at => r.change <= r.push.ever - q.push.ever
    PROVE  MapThenSumSet(LAMBDA r : r.change, S) <= n
<1> DEFINE Pick(T) == CHOOSE y \in T : TRUE
           Is(f) == f = [T \in SUBSET S |->
                           IF T = {} THEN 0 ELSE LET x == CHOOSE y \in T : TRUE IN x.change + f[T \ {x}]]
           sum == CHOOSE f : Is(f)
<1>1. MapThenSumSet(LAMBDA r : r.change, S) = sum[S]
  BY DEF MapThenSumSet, MapThenFoldSet
<1>2. \E f : Is(f)
  BY SumExists
<1>4. Is(sum)
  <2> HIDE DEF Is
  <2> QED BY <1>2
<1> HIDE DEF sum
<1>5. /\ sum[{}] = 0
      /\ \A T \in SUBSET S : T # {} => sum[T] = Pick(T).change + sum[T \ {Pick(T)}]
  BY <1>4
<1>6. \A T : T # {} => Pick(T) \in T
  OBVIOUS
<1> HIDE DEF Pick
<1> DEFINE F == {T \in SUBSET S : sum[T] \in Nat}
           G == {T \in SUBSET S : \A x \in T : sum[T] = x.change + sum[T \ {x}]}
           H == {T \in SUBSET S : \A k \in Nat : (\A x \in T : x.push.ever <= k) => sum[T] <= k}
<1>7. SUBSET S = F
  <2>1. {} \in F
    BY <1>5
  <2>2. ASSUME NEW T \in SUBSET S, T # {}, \A x \in T : T \ {x} \in F PROVE T \in F
    <3>1. Pick(T) \in T /\ Pick(T).change \in Nat /\ sum[T \ {Pick(T)}] \in Nat
      BY <1>6, <2>2
    <3>2. sum[T] = Pick(T).change + sum[T \ {Pick(T)}]
      BY <1>5, <2>2
    <3>3. sum[T] \in Nat
      BY <3>1, <3>2
    <3> QED BY <3>3
  <2>3. F \in SUBSET (SUBSET S)
    OBVIOUS
  <2>4. IsFiniteSet(S)
    OBVIOUS
  <2>5. \A T \in SUBSET S : T # {} /\ (\A x \in T : T \ {x} \in F) => T \in F
    <3> HIDE DEF F
    <3> QED BY ONLY <2>2
  <2> HIDE DEF F
  <2> QED BY ONLY <2>1, <2>3, <2>4, <2>5, Sized
<1>8. \A T \in SUBSET S : sum[T] \in Nat
  BY <1>7
<1>9. SUBSET S = G
  <2>1. {} \in G
    OBVIOUS
  <2>2. ASSUME NEW T \in SUBSET S, T # {}, \A x \in T : T \ {x} \in G PROVE T \in G
    <3> DEFINE y == Pick(T)
    <3>1. y \in T /\ y.change \in Nat /\ sum[T] = y.change + sum[T \ {y}] /\ T \ {y} \in G
      BY <1>5, <1>6, <2>2
    <3> HIDE DEF y
    <3>2. ASSUME NEW x \in T PROVE sum[T] = x.change + sum[T \ {x}]
      <4>1. CASE x = y
        BY <3>1, <4>1
      <4>2. CASE x # y
        <5> DEFINE s == sum[(T \ {y}) \ {x}]
        <5>1. T \ {x} \in G /\ x \in T \ {y} /\ y \in T \ {x} /\ (T \ {x}) \ {y} = (T \ {y}) \ {x}
          BY <2>2, <3>1, <4>2
        <5>2. sum[T \ {y}] = x.change + s
          BY <3>1, <5>1
        <5>3. sum[T \ {x}] = y.change + s
          BY <5>1
        <5>4. x.change \in Nat /\ s \in Nat
          BY <1>8
        <5> HIDE DEF s
        <5> QED BY <3>1, <5>2, <5>3, <5>4
      <4> QED BY <4>1, <4>2
    <3> QED BY <3>2
  <2>3. G \in SUBSET (SUBSET S)
    OBVIOUS
  <2>4. IsFiniteSet(S)
    OBVIOUS
  <2>5. \A T \in SUBSET S : T # {} /\ (\A x \in T : T \ {x} \in G) => T \in G
    <3> HIDE DEF G
    <3> QED BY ONLY <2>2
  <2> HIDE DEF G
  <2> QED BY ONLY <2>1, <2>3, <2>4, <2>5, Sized
<1>10. SUBSET S = H
  <2>1. {} \in H
    BY <1>5
  <2>2. ASSUME NEW T \in SUBSET S, T # {}, \A x \in T : T \ {x} \in H PROVE T \in H
    <3> SUFFICES ASSUME NEW k \in Nat, \A x \in T : x.push.ever <= k PROVE sum[T] <= k
      OBVIOUS
    <3> DEFINE A == {x.push.at : x \in T}
    <3>1. A \subseteq 0 .. m /\ A # {}
      BY <2>2
    <3>2. PICK a \in A : \A b \in A : b <= a
      BY <3>1, Greatest
    <3>3. PICK x \in T : a = x.push.at
      BY <3>2
    <3>4. /\ x.push.at \in 0 .. m /\ x.change \in Nat /\ x.push.ever \in 0 .. n /\ x.change <= x.push.ever
          /\ x.push.ever <= k
      OBVIOUS
    <3>5. ASSUME NEW z \in T \ {x} PROVE z.push.ever <= x.push.ever - x.change
      <4>1. z.push.at <= x.push.at /\ z.push.at # x.push.at /\ z.push.at \in 0 .. m /\ z.push.ever \in 0 .. n
        BY <3>2, <3>3
      <4>2. x.change <= x.push.ever - z.push.ever
        BY <3>4, <4>1
      <4> QED BY <3>4, <4>1, <4>2
    <3>6. x.push.ever - x.change \in Nat
      BY <3>4
    <3>7. sum[T \ {x}] <= x.push.ever - x.change
      BY <2>2, <3>5, <3>6
    <3>8. sum[T] = x.change + sum[T \ {x}] /\ sum[T \ {x}] \in Nat
      BY <1>8, <1>9
    <3> QED BY <3>4, <3>7, <3>8
  <2>3. H \in SUBSET (SUBSET S)
    OBVIOUS
  <2>4. IsFiniteSet(S)
    OBVIOUS
  <2>5. \A T \in SUBSET S : T # {} /\ (\A x \in T : T \ {x} \in H) => T \in H
    <3> HIDE DEF H
    <3> QED BY ONLY <2>2
  <2> HIDE DEF H
  <2> QED BY ONLY <2>1, <2>3, <2>4, <2>5, Sized
<1>11. S \in H
  BY <1>10
<1> QED BY <1>1, <1>11

----------------------------------------------------------------------------
(* Telemetry *)

\* A push as the servers make them.
Sent ==
    {p \in Push : p.at <= clock /\ p.fills \subseteq ToSet(TablesOf[p.kind])}

TelemetryTyped ==
    /\ clock \in 0 .. MaxClock
    /\ counter \in [Hosts -> [total: Nat, ever: Nat]]
    /\ made \subseteq Sent /\ outbox \subseteq made
    /\ spool \in [ToSet(TABLES) -> Seq(Push)]
    /\ loader \in [at: {"idle", "list", "insert", "delete"}, table: DOMAIN TABLES, files: SUBSET Push]
    /\ IsFiniteSet(loader.files)
    /\ IsFiniteSet(stored)

\* A host makes one push of a kind at a time.
MadeOnce == \A p, q \in made : p.host = q.host /\ p.kind = q.kind /\ p.at = q.at => p = q

\* A staged file is of a push and for a table it fills.
FilesOfPushes == \A t \in ToSet(TABLES) : \A p \in Staged(t) : p \in made /\ t \in p.fills

\* A row is of a push and for a table it fills, and the only one.
RowsOnce ==
    /\ \A r \in stored : r.push \in made /\ r.table \in r.push.fills /\ r.copy = 0
    /\ \A r, s \in stored : r.push = s.push /\ r.table = s.table => r = s

\* What the loader inserts is staged; what it deletes is in, unless it has expired since.
LoaderKnows ==
    /\ loader.at = "insert" => loader.files \subseteq Staged(Table)
    /\ loader.at = "delete" => \A p \in loader.files : p \in HeldPushes(Table) \/ Expired(p)

LogInv == TelemetryTyped /\ MadeOnce /\ FilesOfPushes /\ RowsOnce /\ LoaderKnows

LEMMA TablesAre ==
    /\ DOMAIN TABLES = 1 .. 4 /\ Len(TABLES) = 4
    /\ ToSet(TABLES) = {"events", "metrics", "outbound_scans", "outbound_scan_symbols"}
    /\ \A i \in 1 .. 4 : TABLES[i] \in ToSet(TABLES)
  BY DEF TABLES, ToSet

LEMMA TablesOfAre ==
    /\ ToSet(TablesOf["metrics"]) = {"metrics"} /\ ToSet(TablesOf["events"]) = {"events"}
    /\ ToSet(TablesOf["scans"]) = {"outbound_scans", "outbound_scan_symbols"}
    /\ DOMAIN TablesOf = {"metrics", "events", "scans"}
    /\ \A k \in DOMAIN TablesOf : ToSet(TablesOf[k]) \subseteq ToSet(TABLES)
  BY TablesAre DEF TablesOf, ToSet

LEMMA TableTyped == TelemetryTyped => Table \in ToSet(TABLES)
  BY TablesAre DEF TelemetryTyped, Table

\* load_pending names a table.
LEMMA ListFromTyped ==
    ASSUME NEW i \in 1 .. 5, NEW left
    PROVE  /\ ListFrom(i, left) \in [at: {"idle", "list", "insert", "delete"}, table: DOMAIN TABLES, files: SUBSET Push]
           /\ ListFrom(i, left).files = {} /\ ListFrom(i, left).at \in {"idle", "list"}
<1> DEFINE full == {j \in i .. Len(TABLES) : left[TABLES[j]] # <<>>}
<1>1. full \subseteq 1 .. 4
  BY TablesAre
<1>2. full # {} => Min(full) \in 1 .. 4
  <2> SUFFICES ASSUME full # {} PROVE Min(full) \in 1 .. 4
    OBVIOUS
  <2>0. full \subseteq Nat
    <3> HIDE DEF full
    <3> QED BY <1>1
  <2>1. PICK x \in full : \A y \in full : x <= y
    <3> HIDE DEF full
    <3> QED BY <2>0, Least
  <2>2. Min(full) \in full
    <3> HIDE DEF full
    <3> QED BY <2>1 DEF Min
  <2> HIDE DEF full
  <2> QED BY <1>1, <2>2
<1> HIDE DEF full
<1>3. ListFrom(i, left) = IF full = {} THEN Idle ELSE [Idle EXCEPT !.at = "list", !.table = Min(full)]
  BY DEF ListFrom, full
<1>4. CASE full = {}
  <2>1. ListFrom(i, left) = Idle
    BY <1>3, <1>4
  <2> QED BY <2>1, TablesAre DEF Idle
<1>5. CASE full # {}
  <2> DEFINE m == Min(full)
  <2>1. ListFrom(i, left) = [at |-> "list", table |-> m, files |-> {}]
    BY <1>3, <1>5 DEF Idle
  <2>2. m \in DOMAIN TABLES
    BY <1>2, <1>5, TablesAre
  <2> HIDE DEF m
  <2> QED BY <2>1, <2>2
<1> QED BY <1>4, <1>5

\* Taking files off a table's list.
LEMMA TakenOff ==
    ASSUME NEW R, NEW s \in Seq(R), NEW gone
    PROVE  Select(s, ToSet(s) \ gone) \in Seq(R) /\ ToSet(Select(s, ToSet(s) \ gone)) = ToSet(s) \ gone
<1>1. ToSet(s) = {s[i] : i \in 1 .. Len(s)}
  BY DEF ToSet
<1>2. \A f : ToSet(f) = Range(f)
  BY DEF ToSet, Range
<1>3. /\ Select(s, ToSet(s) \ gone) \in Seq(R)
      /\ Range(Select(s, ToSet(s) \ gone)) = {s[i] : i \in 1 .. Len(s)} \cap (ToSet(s) \ gone)
  BY Selected
<1> QED BY <1>1, <1>2, <1>3

LEMMA WrittenLast ==
    ASSUME NEW R, NEW s \in Seq(R), NEW p \in R
    PROVE  /\ Append(Select(s, ToSet(s) \ {p}), p) \in Seq(R)
           /\ ToSet(Append(Select(s, ToSet(s) \ {p}), p)) = ToSet(s) \cup {p}
<1> DEFINE u == Select(s, ToSet(s) \ {p})
<1>1. u \in Seq(R) /\ ToSet(u) = ToSet(s) \ {p}
  BY TakenOff
<1> HIDE DEF u
<1>2. Append(u, p) \in Seq(R)
  BY <1>1
<1>3. ToSet(Append(u, p)) = ToSet(u) \cup {p}
  <2>1. Len(u) \in Nat /\ DOMAIN u = 1 .. Len(u) /\ DOMAIN Append(u, p) = 1 .. Len(u) + 1
    BY <1>1
  <2>2. \A i \in 1 .. Len(u) + 1 : Append(u, p)[i] = IF i <= Len(u) THEN u[i] ELSE p
    BY <1>1
  <2>3. ASSUME NEW x \in ToSet(Append(u, p)) PROVE x \in ToSet(u) \cup {p}
    BY <2>1, <2>2 DEF ToSet
  <2>4. ASSUME NEW x \in ToSet(u) PROVE x \in ToSet(Append(u, p))
    <3>1. PICK i \in 1 .. Len(u) : x = u[i]
      BY <2>1 DEF ToSet
    <3>2. i \in 1 .. Len(u) + 1 /\ Append(u, p)[i] = x
      BY <2>1, <2>2, <3>1
    <3> QED BY <2>1, <3>2 DEF ToSet
  <2>5. p \in ToSet(Append(u, p))
    <3>1. Len(u) + 1 \in 1 .. Len(u) + 1 /\ Append(u, p)[Len(u) + 1] = p
      BY <2>1, <2>2
    <3> QED BY <2>1, <3>1 DEF ToSet
  <2> QED BY <2>3, <2>4, <2>5
<1> QED BY <1>1, <1>2, <1>3 DEF u

\* The log's state, batch by batch.
LEMMA WaitingIs ==
    ASSUME NEW b
    PROVE  b \in Waiting <=> \E t \in ToSet(TABLES) : \E p \in Staged(t) :
                                b = BatchOf(p, t) /\ p \notin HeldPushes(t) /\ ~Expired(p)
  BY DEF Waiting

LEMMA OldIs ==
    ASSUME NEW b
    PROVE  b \in Old <=> \E p \in made : \E t \in p.fills : b = BatchOf(p, t) /\ Expired(p)
  BY DEF Old

LEMMA HeldIs ==
    ASSUME NEW p, NEW t
    PROVE  p \in HeldPushes(t) <=> \E r \in stored : r.table = t /\ r.push = p
  BY DEF HeldPushes, Held

LEMMA BatchesDiffer ==
    ASSUME NEW p, NEW q, NEW t, NEW u, BatchOf(p, t) = BatchOf(q, u)
    PROVE  p = q /\ t = u
<1>1. BatchOf(p, t).push = p /\ BatchOf(q, u).push = q /\ BatchOf(p, t).table = t /\ BatchOf(q, u).table = u
  BY DEF BatchOf
<1> QED BY <1>1

LEMMA ReadIs ==
    ASSUME NEW p, NEW t
    PROVE  BatchOf(p, t) \in Log!Read <=> p \in HeldPushes(t)
<1>1. BatchOf(p, t) \in Log!Read <=> \E r \in stored : BatchOf(p, t) = BatchOf(r.push, r.table)
  <2>1. \A b : b \in Log!Read <=> \E e \in Copies : b = e.batch
    BY DEF Log!Read
  <2>2. \A e : e \in Copies <=> \E r \in stored : e = [batch |-> BatchOf(r.push, r.table), copy |-> r.copy]
    BY DEF Copies
  <2>3. ASSUME NEW r \in stored, BatchOf(p, t) = BatchOf(r.push, r.table) PROVE BatchOf(p, t) \in Log!Read
    <3> DEFINE e == [batch |-> BatchOf(r.push, r.table), copy |-> r.copy]
    <3>1. e \in Copies /\ e.batch = BatchOf(p, t)
      BY <2>2, <2>3
    <3> HIDE DEF e
    <3> QED BY <2>1, <3>1
  <2>4. ASSUME NEW e \in Copies, BatchOf(p, t) = e.batch
        PROVE  \E r \in stored : BatchOf(p, t) = BatchOf(r.push, r.table)
    BY <2>2, <2>4
  <2> QED BY <2>1, <2>3, <2>4
<1> QED BY <1>1, HeldIs, BatchesDiffer

LEMMA WaitingTyped == LogInv => Waiting \subseteq Batch /\ Waiting \cap Log!Read = {}
<1> SUFFICES ASSUME LogInv, NEW b \in Waiting PROVE b \in Batch /\ b \notin Log!Read
  OBVIOUS
<1>1. PICK t \in ToSet(TABLES) : \E p \in Staged(t) : b = BatchOf(p, t) /\ p \notin HeldPushes(t) /\ ~Expired(p)
  BY WaitingIs
<1>2. PICK p \in Staged(t) : b = BatchOf(p, t) /\ p \notin HeldPushes(t)
  BY <1>1
<1>3. p \in Push
  BY <1>2 DEF LogInv, FilesOfPushes, TelemetryTyped, Sent
<1>4. b \in Batch
  BY <1>2, <1>3 DEF BatchOf, Batch
<1> QED BY <1>2, <1>4, ReadIs

LogStep == Log!Next \/ UNCHANGED <<Waiting, Copies, rejected, Old>>

LEMMA HeldKept ==
    ASSUME UNCHANGED stored
    PROVE  \A t : HeldPushes(t)' = HeldPushes(t)
  BY DEF HeldPushes, Held

\* Steps that change neither files nor rows.
LEMMA NoFiles ==
    ASSUME LogInv, UNCHANGED <<clock, spool, stored, rejected>>,
           made' \in SUBSET Sent, made \subseteq made', \A p \in made' \ made : ~Expired(p),
           outbox' \subseteq made', counter' \in [Hosts -> [total: Nat, ever: Nat]],
           MadeOnce',
           \/ loader' = loader
           \/ /\ loader' \in [at: {"idle", "list", "insert", "delete"}, table: DOMAIN TABLES, files: SUBSET Push]
              /\ loader'.files = {} /\ loader'.at \in {"idle", "list"}
    PROVE  LogInv' /\ LogStep
<1>1. (\A t : Staged(t)' = Staged(t)) /\ (\A t : HeldPushes(t)' = HeldPushes(t)) /\ (\A p : Expired(p)' <=> Expired(p))
  BY HeldKept DEF Staged, Expired
<1>2. UNCHANGED Waiting
  BY <1>1 DEF Waiting
<1>3. UNCHANGED Copies
  BY DEF Copies
<1>4. UNCHANGED Old
  <2>1. {q \in made' : Expired(q)'} = {q \in made : Expired(q)}
    BY <1>1
  <2> QED BY <2>1 DEF Old
<1>5. IsFiniteSet(loader'.files)
  BY FS_EmptySet DEF LogInv, TelemetryTyped
<1>6. TelemetryTyped'
  <2>1. Sent' = Sent
    BY DEF Sent
  <2> QED BY <1>5, <2>1 DEF LogInv, TelemetryTyped
<1>7. FilesOfPushes' /\ RowsOnce'
  BY <1>1 DEF LogInv, FilesOfPushes, RowsOnce
<1>8. LoaderKnows'
  <2>1. CASE loader' = loader
    <3>1. Table' = Table
      BY <2>1 DEF Table
    <3> QED BY <1>1, <2>1, <3>1 DEF LogInv, LoaderKnows
  <2>2. CASE loader'.at \in {"idle", "list"}
    BY <2>2 DEF LoaderKnows
  <2> QED BY <2>1, <2>2
<1> QED BY <1>2, <1>3, <1>4, <1>6, <1>7, <1>8 DEF LogInv, LogStep

LEMMA ProduceLogged ==
    ASSUME LogInv, NEW h \in Hosts, NEW k \in Kinds, NEW n \in 0 .. 1, NEW fills \in RowsOf(k), Produce(h, k, n, fills)
    PROVE  LogInv' /\ LogStep
<1> DEFINE new == [counter EXCEPT ![h].total = @ + n, ![h].ever = @ + n]
           now == IF k = "metrics" THEN new[h] ELSE [total |-> 0, ever |-> 0]
           p == [host |-> h, kind |-> k, at |-> clock, total |-> now.total, ever |-> now.ever, fills |-> fills]
<1>1. counter \in [Hosts -> [total: Nat, ever: Nat]] /\ clock \in 0 .. MaxClock /\ MaxClock \in Nat /\ Retention \in Nat
  BY TelemetryConstants DEF LogInv, TelemetryTyped
<1>2. new \in [Hosts -> [total: Nat, ever: Nat]]
  <2> DEFINE one == [counter EXCEPT ![h].total = @ + n]
  <2>1. one \in [Hosts -> [total: Nat, ever: Nat]]
    BY <1>1
  <2>2. new = [one EXCEPT ![h].ever = @ + n]
    OBVIOUS
  <2> HIDE DEF one, new
  <2> QED BY <2>1, <2>2
<1>3. now \in [total: Nat, ever: Nat]
  <2> HIDE DEF new
  <2> QED BY <1>2
<1>4. fills \subseteq ToSet(TablesOf[k]) /\ fills \subseteq ToSet(TABLES)
  <2>1. k \in DOMAIN TablesOf
    BY TelemetryConstants
  <2>2. fills \subseteq ToSet(TablesOf[k])
    BY TablesOfAre DEF RowsOf, ScanRows
  <2> QED BY <2>1, <2>2, TablesOfAre
<1>5. counter' = new /\ made' = made \cup {p} /\ outbox' = outbox \cup {p}
      /\ UNCHANGED <<clock, spool, stored, rejected, loader>>
      /\ ~\E q \in made : q.host = h /\ q.kind = k /\ q.at = clock
  BY DEF Produce
<1> HIDE DEF now, new
<1>6. p \in Push
  BY <1>1, <1>3, <1>4 DEF Push
<1>7. p \in Sent
  BY <1>1, <1>4, <1>6 DEF Sent
<1>8. ~Expired(p)
  BY <1>1 DEF Expired
<1>9. p.host = h /\ p.kind = k /\ p.at = clock
  OBVIOUS
<1> HIDE DEF p
<1>10. MadeOnce'
  BY <1>5, <1>9 DEF LogInv, MadeOnce
<1>11. made' \in SUBSET Sent /\ made \subseteq made' /\ \A q \in made' \ made : ~Expired(q)
  BY <1>5, <1>7, <1>8 DEF LogInv, TelemetryTyped
<1>12. outbox' \subseteq made'
  BY <1>5 DEF LogInv, TelemetryTyped
<1> QED BY <1>2, <1>5, <1>10, <1>11, <1>12, NoFiles

LEMMA RestartLogged ==
    ASSUME LogInv, NEW h \in Hosts, Restart(h) \/ TrimBacklog(h)
    PROVE  LogInv' /\ LogStep
<1>1. counter \in [Hosts -> [total: Nat, ever: Nat]] /\ made \subseteq Sent /\ outbox \subseteq made /\ MadeOnce
  BY DEF LogInv, TelemetryTyped
<1>2. UNCHANGED <<clock, made, spool, stored, rejected, loader>> /\ outbox' \subseteq outbox
      /\ (counter' = [counter EXCEPT ![h].total = 0] \/ counter' = counter)
  BY DEF Restart, TrimBacklog
<1>3. counter' \in [Hosts -> [total: Nat, ever: Nat]]
  BY <1>1, <1>2
<1>4. MadeOnce'
  BY <1>1, <1>2 DEF MadeOnce
<1> QED BY <1>1, <1>2, <1>3, <1>4, NoFiles

\* Steps of the loader that touch neither files nor rows, and damage.
LEMMA LoaderTurns ==
    ASSUME LogInv, StartLoad \/ LoadDeferred \/ LoaderDies \/ \E b : Damage(b)
    PROVE  LogInv' /\ LogStep
<1>1. counter \in [Hosts -> [total: Nat, ever: Nat]] /\ made \subseteq Sent /\ outbox \subseteq made /\ MadeOnce
      /\ loader.table \in DOMAIN TABLES
  BY DEF LogInv, TelemetryTyped
<1>2. UNCHANGED <<clock, counter, made, outbox, spool, stored, rejected>>
  BY DEF StartLoad, LoadDeferred, LoaderDies, Damage
<1>3. \/ loader' = loader \/ loader' = Idle \/ loader' = ListFrom(1, spool)
      \/ loader' = ListFrom(loader.table + 1, spool)
  BY DEF StartLoad, LoadDeferred, LoaderDies, Damage
<1>4. Idle \in [at: {"idle", "list", "insert", "delete"}, table: DOMAIN TABLES, files: SUBSET Push]
      /\ Idle.files = {} /\ Idle.at = "idle"
  BY TablesAre DEF Idle
<1>5. 1 \in 1 .. 5 /\ loader.table + 1 \in 1 .. 5
  BY <1>1, TablesAre
<1>6. MadeOnce'
  BY <1>1, <1>2 DEF MadeOnce
<1> QED BY <1>1, <1>2, <1>3, <1>4, <1>5, <1>6, ListFromTyped, NoFiles

\* A request that stages some of its tables hands batches over.
LEMMA StageLogged ==
    ASSUME LogInv, NEW p \in outbox, NEW n, StageSome(p, n),
           UNCHANGED <<clock, counter, made, stored, rejected, loader>>, outbox' \subseteq made
    PROVE  LogInv' /\ LogStep
<1> DEFINE written == {TablesOf[p.kind][i] : i \in 1 .. n} \cap p.fills
<1>1. /\ p \in made /\ p \in Push /\ made \subseteq Sent /\ spool \in [ToSet(TABLES) -> Seq(Push)]
      /\ p.fills \subseteq ToSet(TABLES)
  BY DEF LogInv, TelemetryTyped, Sent, Push
<1>2. written \subseteq p.fills /\ spool' = [t \in DOMAIN spool |-> IF t \in written THEN Write(p, t) ELSE spool[t]]
  BY DEF StageSome
<1> HIDE DEF written
<1>3. ASSUME NEW t \in ToSet(TABLES) PROVE /\ spool'[t] \in Seq(Push)
                                           /\ Staged(t)' = IF t \in written THEN Staged(t) \cup {p} ELSE Staged(t)
  <2>1. spool[t] \in Seq(Push) /\ spool'[t] = IF t \in written THEN Write(p, t) ELSE spool[t]
    BY <1>1, <1>2
  <2>2. Write(p, t) \in Seq(Push) /\ ToSet(Write(p, t)) = ToSet(spool[t]) \cup {p}
    BY <1>1, <2>1, WrittenLast DEF Write, Staged
  <2> QED BY <2>1, <2>2 DEF Staged
<1>4. spool' \in [ToSet(TABLES) -> Seq(Push)]
  BY <1>1, <1>2, <1>3
<1>5. (\A t : HeldPushes(t)' = HeldPushes(t)) /\ (\A q : Expired(q)' <=> Expired(q)) /\ Table' = Table
  BY HeldKept DEF Expired, Table
<1>6. TelemetryTyped'
  <2>1. Sent' = Sent
    BY DEF Sent
  <2> QED BY <1>4, <2>1 DEF LogInv, TelemetryTyped
<1>7. FilesOfPushes'
  BY <1>1, <1>2, <1>3 DEF LogInv, FilesOfPushes
<1>8. MadeOnce' /\ RowsOnce'
  BY DEF LogInv, MadeOnce, RowsOnce
<1>9. LoaderKnows'
  BY <1>3, <1>5, TableTyped DEF LogInv, LoaderKnows
<1>10. LogInv'
  BY <1>6, <1>7, <1>8, <1>9 DEF LogInv
<1>11. Waiting \subseteq Waiting'
  <2> SUFFICES ASSUME NEW b \in Waiting PROVE b \in Waiting'
    OBVIOUS
  <2>1. PICK t \in ToSet(TABLES) : \E q \in Staged(t) : b = BatchOf(q, t) /\ q \notin HeldPushes(t) /\ ~Expired(q)
    BY WaitingIs
  <2>2. \E q \in Staged(t)' : b = BatchOf(q, t) /\ q \notin HeldPushes(t)' /\ ~Expired(q)'
    BY <1>3, <1>5, <2>1
  <2> QED BY <2>2 DEF Waiting
<1>12. Waiting' \subseteq Batch /\ Waiting' \cap Log!Read = {}
  <2>1. (Waiting \subseteq Batch /\ Waiting \cap Log!Read = {})'
    BY <1>10, WaitingTyped, PTL
  <2>2. Log!Read' = Log!Read
    BY DEF Log!Read, Copies
  <2> QED BY <2>1, <2>2 DEF Batch
<1>13. UNCHANGED <<Copies, rejected, Old>>
  BY <1>5 DEF Copies, Old
<1>14. Log!Take
  BY <1>11, <1>12, <1>13 DEF Log!Take
<1> QED BY <1>10, <1>14 DEF LogStep, Log!Next

LEMMA RequestsLogged ==
    ASSUME LogInv, NEW p \in outbox, Accept(p) \/ Unanswered(p)
    PROVE  LogInv' /\ LogStep
<1>1. outbox \subseteq made
  BY DEF LogInv, TelemetryTyped
<1>2. CASE Accept(p)
  <2>1. /\ StageSome(p, Len(TablesOf[p.kind])) /\ UNCHANGED <<clock, counter, made, stored, rejected, loader>>
        /\ outbox' = outbox \ {p}
    BY <1>2 DEF Accept
  <2>2. outbox' \subseteq made
    BY <1>1, <2>1
  <2> QED BY <2>1, <2>2, StageLogged
<1>3. CASE Unanswered(p)
  <2>1. PICK n \in 0 .. Len(TablesOf[p.kind]) : StageSome(p, n)
    BY <1>3 DEF Unanswered
  <2>2. UNCHANGED <<clock, counter, made, stored, rejected, loader>> /\ outbox' \subseteq made
    BY <1>1, <1>3 DEF Unanswered
  <2> QED BY <2>1, <2>2, StageLogged
<1> QED BY <1>2, <1>3

\* The loader takes files off its table.
LEMMA OffTable ==
    ASSUME LogInv, NEW gone, spool' = [spool EXCEPT ![Table] = Select(@, Staged(Table) \ gone)]
    PROVE  /\ spool' \in [ToSet(TABLES) -> Seq(Push)]
           /\ \A t \in ToSet(TABLES) : Staged(t)' = IF t = Table THEN Staged(t) \ gone ELSE Staged(t)
<1>1. Table \in ToSet(TABLES) /\ spool \in [ToSet(TABLES) -> Seq(Push)]
  BY TableTyped DEF LogInv, TelemetryTyped
<1> DEFINE left == Select(spool[Table], Staged(Table) \ gone)
<1>2. left \in Seq(Push) /\ ToSet(left) = Staged(Table) \ gone
  BY <1>1, TakenOff DEF Staged
<1>3. spool' = [spool EXCEPT ![Table] = left]
  BY <1>1
<1> HIDE DEF left
<1> QED BY <1>1, <1>2, <1>3 DEF Staged

LEMMA ChunkStaged == LogInv => Chunk \subseteq Staged(Table) /\ IsFiniteSet(Chunk)
<1> SUFFICES ASSUME LogInv PROVE Chunk \subseteq Staged(Table) /\ IsFiniteSet(Chunk)
  OBVIOUS
<1> DEFINE s == spool[Table]
           S == {ChunkFiles, Len(s)}
           m == Min(S)
<1>1. s \in Seq(Push)
  BY TableTyped DEF LogInv, TelemetryTyped
<1>2. ChunkFiles \in Nat /\ Len(s) \in Nat /\ DOMAIN s = 1 .. Len(s)
  BY <1>1, TelemetryConstants
<1> HIDE DEF s
<1>3. m \in S /\ \A y \in S : m <= y
  <2>1. PICK x \in S : \A y \in S : x <= y
    BY <1>2
  <2> HIDE DEF S
  <2> QED BY <2>1 DEF Min
<1>4. m \in Nat /\ m <= Len(s)
  <2> HIDE DEF m
  <2> QED BY <1>2, <1>3
<1>5. Chunk = {s[i] : i \in 1 .. m}
  BY DEF Chunk, s
<1> HIDE DEF m
<1>6. Chunk \subseteq Staged(Table)
  <2>1. \A i \in 1 .. m : i \in DOMAIN s
    BY <1>2, <1>4
  <2> QED BY <1>5, <2>1 DEF Staged, ToSet, s
<1>7. IsFiniteSet(Chunk)
  <2>1. IsFiniteSet(1 .. m)
    BY <1>4, FS_Interval
  <2> DEFINE f == [i \in 1 .. m |-> s[i]]
  <2>2. f \in [1 .. m -> Chunk] /\ \A x \in Chunk : \E i \in 1 .. m : f[i] = x
    BY <1>5
  <2>3. f \in Surjection(1 .. m, Chunk)
    BY <2>2 DEF Surjection
  <2> HIDE DEF f
  <2> QED BY <2>1, <2>3, FS_Surjection
<1> QED BY <1>6, <1>7

\* A staged file is in, waits, or is too old.
LEMMA StagedWaits ==
    ASSUME LogInv, NEW t \in ToSet(TABLES), NEW p \in Staged(t)
    PROVE  BatchOf(p, t) \in Waiting \cup Old \cup Log!Read
<1>1. p \in made /\ t \in p.fills
  BY DEF LogInv, FilesOfPushes
<1>2. CASE p \in HeldPushes(t)
  BY <1>2, ReadIs
<1>3. CASE Expired(p)
  BY <1>1, <1>3, OldIs
<1>4. CASE p \notin HeldPushes(t) /\ ~Expired(p)
  BY <1>4, WaitingIs
<1> QED BY <1>2, <1>3, <1>4

LEMMA ListLogged == LogInv /\ ListFiles => LogInv' /\ LogStep
<1> SUFFICES ASSUME LogInv, ListFiles PROVE LogInv' /\ LogStep
  OBVIOUS
<1> DEFINE broken == {p \in Chunk : BatchOf(p, Table) \in damaged}
           B == {BatchOf(p, Table) : p \in broken}
           LoaderType == [at: {"idle", "list", "insert", "delete"}, table: DOMAIN TABLES, files: SUBSET Push]
<1>1. /\ spool' = [spool EXCEPT ![Table] = Select(@, Staged(Table) \ broken)]
      /\ rejected' = rejected \cup B
      /\ loader' = IF Chunk = broken THEN ListFrom(loader.table + 1, spool)
                   ELSE [loader EXCEPT !.at = "insert", !.files = Chunk \ broken]
      /\ UNCHANGED <<clock, counter, made, outbox, stored>>
  BY DEF ListFiles
<1>2. Chunk \subseteq Staged(Table) /\ IsFiniteSet(Chunk) /\ Table \in ToSet(TABLES) /\ broken \subseteq Chunk
  BY ChunkStaged, TableTyped DEF LogInv
<1>3. /\ spool' \in [ToSet(TABLES) -> Seq(Push)]
      /\ \A t \in ToSet(TABLES) : Staged(t)' = IF t = Table THEN Staged(t) \ broken ELSE Staged(t)
  <2> HIDE DEF broken
  <2> QED BY <1>1, OffTable
<1>4. (\A t : HeldPushes(t)' = HeldPushes(t)) /\ (\A q : Expired(q)' <=> Expired(q))
  BY <1>1, HeldKept DEF Expired
<1>5. Chunk \subseteq Push
  BY <1>2 DEF LogInv, FilesOfPushes, TelemetryTyped, Sent
<1>6. loader \in LoaderType /\ loader.table \in DOMAIN TABLES
  BY DEF LogInv, TelemetryTyped
<1> HIDE DEF broken
<1>7. /\ loader' \in LoaderType /\ IsFiniteSet(loader'.files)
      /\ loader'.at \in {"idle", "list"} \/ (loader'.at = "insert" /\ Table' = Table /\ loader'.files = Chunk \ broken)
  <2>1. CASE Chunk = broken
    <3>1. loader.table + 1 \in 1 .. 5
      BY <1>6, TablesAre
    <3> QED BY <1>1, <2>1, <3>1, ListFromTyped, FS_EmptySet
  <2>2. CASE Chunk # broken
    <3>1. loader' = [loader EXCEPT !.at = "insert", !.files = Chunk \ broken]
      BY <1>1, <2>2
    <3>2. IsFiniteSet(Chunk \ broken) /\ Chunk \ broken \in SUBSET Push
      BY <1>2, <1>5, FS_Subset
    <3> QED BY <1>6, <3>1, <3>2 DEF Table
  <2> QED BY <2>1, <2>2
<1>8. TelemetryTyped'
  <2>1. Sent' = Sent
    BY <1>1 DEF Sent
  <2> QED BY <1>1, <1>3, <1>7, <2>1 DEF LogInv, TelemetryTyped
<1>9. MadeOnce' /\ RowsOnce' /\ FilesOfPushes'
  BY <1>1, <1>3 DEF LogInv, MadeOnce, RowsOnce, FilesOfPushes
<1>10. LoaderKnows'
  BY <1>2, <1>3, <1>7 DEF LoaderKnows
<1>11. Waiting' = Waiting \ B
  <2>1. ASSUME NEW b PROVE b \in Waiting' <=> b \in Waiting /\ b \notin B
    <3>1. b \in Waiting' <=> \E t \in ToSet(TABLES) : \E p \in Staged(t)' :
                                b = BatchOf(p, t) /\ p \notin HeldPushes(t) /\ ~Expired(p)
      BY <1>4 DEF Waiting
    <3>2. b \in B <=> \E p \in broken : b = BatchOf(p, Table)
      OBVIOUS
    <3> HIDE DEF B
    <3>3. ASSUME NEW t \in ToSet(TABLES), NEW p \in Staged(t), b = BatchOf(p, t)
          PROVE  p \in Staged(t)' <=> b \notin B
      BY <1>3, <3>2, <3>3, BatchesDiffer
    <3>4. \A t \in ToSet(TABLES) : Staged(t)' \subseteq Staged(t)
      BY <1>3
    <3> QED BY <3>1, <3>3, <3>4, WaitingIs
  <2> QED BY <2>1
<1>12. UNCHANGED <<Copies, Old>>
  BY <1>1, <1>4 DEF Copies, Old
<1>13. B \in SUBSET (Waiting \cup Old \cup Log!Read)
  BY <1>2, StagedWaits
<1>14. Log!SetAside(B)
  BY <1>1, <1>11, <1>12 DEF Log!SetAside
<1>15. LogStep
  <2> HIDE DEF B
  <2> QED BY <1>13, <1>14 DEF LogStep, Log!Next
<1> QED BY <1>8, <1>9, <1>10, <1>15 DEF LogInv

LEMMA DeleteLogged == LogInv /\ Delete => LogInv' /\ LogStep
<1> SUFFICES ASSUME LogInv, Delete PROVE LogInv' /\ LogStep
  OBVIOUS
<1> DEFINE next == loader.table + IF Cardinality(loader.files) < ChunkFiles THEN 1 ELSE 0
<1>1. /\ spool' = [spool EXCEPT ![Table] = Select(@, Staged(Table) \ loader.files)]
      /\ loader.at = "delete" /\ loader' = ListFrom(next, spool')
      /\ UNCHANGED <<clock, counter, made, outbox, stored, rejected>>
  BY DEF Delete
<1>2. /\ spool' \in [ToSet(TABLES) -> Seq(Push)]
      /\ \A t \in ToSet(TABLES) : Staged(t)' = IF t = Table THEN Staged(t) \ loader.files ELSE Staged(t)
  BY <1>1, OffTable
<1>3. next \in 1 .. 5
  BY TablesAre DEF LogInv, TelemetryTyped
<1> HIDE DEF next
<1>4. /\ loader' \in [at: {"idle", "list", "insert", "delete"}, table: DOMAIN TABLES, files: SUBSET Push]
      /\ IsFiniteSet(loader'.files) /\ loader'.at \in {"idle", "list"}
  BY <1>1, <1>3, ListFromTyped, FS_EmptySet
<1>5. (\A t : HeldPushes(t)' = HeldPushes(t)) /\ (\A q : Expired(q)' <=> Expired(q))
  BY <1>1, HeldKept DEF Expired
<1>6. TelemetryTyped'
  <2>1. Sent' = Sent
    BY <1>1 DEF Sent
  <2> QED BY <1>1, <1>2, <1>4, <2>1 DEF LogInv, TelemetryTyped
<1>7. MadeOnce' /\ RowsOnce' /\ FilesOfPushes'
  BY <1>1, <1>2 DEF LogInv, MadeOnce, RowsOnce, FilesOfPushes
<1>8. LoaderKnows'
  BY <1>4 DEF LoaderKnows
<1>9. Waiting' = Waiting
  <2>1. ASSUME NEW b PROVE b \in Waiting' <=> b \in Waiting
    <3>1. b \in Waiting' <=> \E t \in ToSet(TABLES) : \E p \in Staged(t)' :
                                b = BatchOf(p, t) /\ p \notin HeldPushes(t) /\ ~Expired(p)
      BY <1>5 DEF Waiting
    <3>2. ASSUME NEW t \in ToSet(TABLES), NEW p \in Staged(t), p \notin HeldPushes(t), ~Expired(p)
          PROVE  p \in Staged(t)'
      BY <1>1, <1>2, <3>2 DEF LogInv, LoaderKnows
    <3>3. \A t \in ToSet(TABLES) : Staged(t)' \subseteq Staged(t)
      BY <1>2
    <3> QED BY <3>1, <3>2, <3>3, WaitingIs
  <2> QED BY <2>1
<1>10. UNCHANGED <<Copies, Old, rejected>>
  BY <1>1, <1>5 DEF Copies, Old
<1> QED BY <1>6, <1>7, <1>8, <1>9, <1>10 DEF LogInv, LogStep

LEMMA PruneLogged == LogInv /\ PruneExpired => LogInv' /\ LogStep
<1> SUFFICES ASSUME LogInv, PruneExpired PROVE LogInv' /\ LogStep
  OBVIOUS
<1> DEFINE B == {b \in Old : b \in Log!Read}
<1>1. /\ stored' = {r \in stored : ~Expired(r.push)}
      /\ UNCHANGED <<clock, counter, made, outbox, spool, rejected, loader>>
  BY DEF PruneExpired
<1>2. (\A t : Staged(t)' = Staged(t)) /\ (\A q : Expired(q)' <=> Expired(q)) /\ Table' = Table
  BY <1>1 DEF Staged, Expired, Table
<1>3. \A t : \A p : p \in HeldPushes(t)' <=> p \in HeldPushes(t) /\ ~Expired(p)
  BY <1>1 DEF HeldPushes, Held
<1>4. TelemetryTyped'
  <2>1. Sent' = Sent
    BY <1>1 DEF Sent
  <2>2. IsFiniteSet(stored')
    BY <1>1, FS_Subset DEF LogInv, TelemetryTyped
  <2> QED BY <1>1, <2>1, <2>2 DEF LogInv, TelemetryTyped
<1>5. MadeOnce' /\ RowsOnce' /\ FilesOfPushes'
  BY <1>1, <1>2 DEF LogInv, MadeOnce, RowsOnce, FilesOfPushes
<1>6. LoaderKnows'
  BY <1>1, <1>2, <1>3 DEF LogInv, LoaderKnows
<1>7. Waiting' = Waiting
  <2>1. ASSUME NEW b PROVE b \in Waiting' <=> b \in Waiting
    <3>1. b \in Waiting' <=> \E t \in ToSet(TABLES) : \E p \in Staged(t) :
                                b = BatchOf(p, t) /\ p \notin HeldPushes(t)' /\ ~Expired(p)
      BY <1>2 DEF Waiting
    <3> QED BY <1>3, <3>1, WaitingIs
  <2> QED BY <2>1
<1>8. Copies' = {e \in Copies : e.batch \notin B}
  <2>1. ASSUME NEW r \in stored PROVE BatchOf(r.push, r.table) \in B <=> Expired(r.push)
    <3>1. BatchOf(r.push, r.table) \in Log!Read
      BY ReadIs, HeldIs
    <3>2. BatchOf(r.push, r.table) \in Old <=> Expired(r.push)
      <4>1. r.push \in made /\ r.table \in r.push.fills
        BY DEF LogInv, RowsOnce
      <4> QED BY <4>1, OldIs, BatchesDiffer
    <3> QED BY <3>1, <3>2
  <2> HIDE DEF B
  <2> DEFINE E(r) == [batch |-> BatchOf(r.push, r.table), copy |-> r.copy]
  <2>2. Copies = {E(r) : r \in stored} /\ Copies' = {E(r) : r \in stored'}
    BY DEF Copies
  <2>3. \A r : E(r).batch = BatchOf(r.push, r.table)
    OBVIOUS
  <2> HIDE DEF E
  <2> QED BY <1>1, <2>1, <2>2, <2>3
<1>9. Old' = Old
  BY <1>1, <1>2 DEF Old
<1>10. B \in SUBSET Old /\ Log!Prune(B)
  BY <1>1, <1>7, <1>8, <1>9 DEF Log!Prune
<1>11. LogStep
  <2> HIDE DEF B
  <2> QED BY <1>10 DEF LogStep, Log!Next
<1> QED BY <1>4, <1>5, <1>6, <1>11 DEF LogInv

LEMMA TickLogged == LogInv /\ Tick => LogInv' /\ LogStep
<1> SUFFICES ASSUME LogInv, Tick PROVE LogInv' /\ LogStep
  OBVIOUS
<1>1. /\ clock' = clock + 1 /\ clock < MaxClock /\ clock \in 0 .. MaxClock /\ MaxClock \in Nat /\ Retention \in Nat
      /\ UNCHANGED <<counter, made, outbox, spool, stored, rejected, loader>>
  BY TelemetryConstants DEF Tick, LogInv, TelemetryTyped
<1>2. (\A t : Staged(t)' = Staged(t)) /\ (\A t : HeldPushes(t)' = HeldPushes(t)) /\ Table' = Table
  BY <1>1, HeldKept DEF Staged, Table
<1>3. ASSUME NEW p \in made PROVE p \in Sent' /\ (Expired(p) => Expired(p)') /\ p \in Push
  <2>1. p \in Push /\ p.at \in Nat /\ p.at <= clock /\ p.fills \subseteq ToSet(TablesOf[p.kind])
    BY TelemetryConstants DEF LogInv, TelemetryTyped, Sent, Push
  <2>2. Expired(p) => Expired(p)'
    BY <1>1, <2>1 DEF Expired
  <2>3. p.at <= clock'
    BY <1>1, <2>1
  <2> QED BY <2>1, <2>2, <2>3 DEF Sent
<1>4. TelemetryTyped'
  BY <1>1, <1>3 DEF LogInv, TelemetryTyped
<1>5. MadeOnce' /\ RowsOnce' /\ FilesOfPushes'
  BY <1>1, <1>2 DEF LogInv, MadeOnce, RowsOnce, FilesOfPushes
<1>6. LoaderKnows'
  <2>1. ASSUME loader.at = "delete", NEW p \in loader.files PROVE p \in HeldPushes(Table) \/ Expired(p)'
    <3>1. CASE p \in HeldPushes(Table)
      BY <3>1
    <3>2. CASE Expired(p)
      <4>1. p \in Push /\ p.at \in Nat
        BY TelemetryConstants DEF LogInv, TelemetryTyped, Push
      <4> QED BY <1>1, <3>2, <4>1 DEF Expired
    <3> QED BY <2>1, <3>1, <3>2 DEF LogInv, LoaderKnows
  <2> QED BY <1>1, <1>2, <2>1 DEF LogInv, LoaderKnows
<1>7. Old \subseteq Old' /\ Old' \subseteq Batch
  <2>1. \A b : b \in Old' <=> \E p \in made : \E t \in p.fills : b = BatchOf(p, t) /\ Expired(p)'
    BY <1>1 DEF Old
  <2>2. \A p \in made : p.fills \subseteq ToSet(TABLES)
    BY <1>3 DEF Push
  <2>3. \A p \in made : \A t \in p.fills : BatchOf(p, t) \in Batch
    BY <1>3, <2>2 DEF BatchOf, Batch
  <2> QED BY <1>3, <2>1, <2>3, OldIs
<1>8. Waiting' = Waiting \ Old'
  <2>1. ASSUME NEW b PROVE b \in Waiting' <=> b \in Waiting /\ b \notin Old'
    <3>1. b \in Waiting' <=> \E t \in ToSet(TABLES) : \E p \in Staged(t) :
                                b = BatchOf(p, t) /\ p \notin HeldPushes(t) /\ ~Expired(p)'
      BY <1>2 DEF Waiting
    <3>2. b \in Old' <=> \E p \in made : \E t \in p.fills : b = BatchOf(p, t) /\ Expired(p)'
      BY <1>1 DEF Old
    <3>3. \A t \in ToSet(TABLES) : \A p \in Staged(t) : p \in made /\ t \in p.fills
      BY DEF LogInv, FilesOfPushes
    <3>4. ASSUME NEW t \in ToSet(TABLES), NEW p \in Staged(t), b = BatchOf(p, t)
          PROVE  b \in Old' <=> Expired(p)'
      BY <3>2, <3>3, <3>4, BatchesDiffer
    <3> QED BY <1>3, <3>1, <3>3, <3>4, WaitingIs
  <2> QED BY <2>1
<1>9. UNCHANGED <<Copies, rejected>>
  BY <1>1 DEF Copies
<1>10. Log!Age
  BY <1>7, <1>8, <1>9 DEF Log!Age
<1> QED BY <1>4, <1>5, <1>6, <1>10 DEF LogInv, LogStep, Log!Next

\* What load adds to its table.
LEMMA NewRowsAre ==
    ASSUME LogInv, NEW p \in Incoming
    PROVE  /\ NewRow(p, Incoming).push = p /\ NewRow(p, Incoming).table = Table /\ NewRow(p, Incoming).copy = 0
           /\ p \notin HeldPushes(Table)
<1>1. p \notin HeldPushes(Table)
  BY DEF Incoming
<1>2. {r \in Held(Table) : r.push = p} = {}
  BY <1>1 DEF HeldPushes
<1>3. Cardinality({r \in Held(Table) : r.push = p}) = 0
  BY <1>2, FS_EmptySet
<1> QED BY <1>1, <1>3 DEF NewRow

LEMMA InsertLogged == LogInv /\ Insert => LogInv' /\ LogStep
<1> SUFFICES ASSUME LogInv, Insert PROVE LogInv' /\ LogStep
  OBVIOUS
<1> DEFINE new(p) == NewRow(p, Incoming)
           fresh == {new(p) : p \in Incoming}
           B == {BatchOf(p, Table) : p \in Incoming}
<1>1. /\ loader.at = "insert" /\ stored' = stored \cup fresh /\ loader' = [loader EXCEPT !.at = "delete"]
      /\ UNCHANGED <<clock, counter, made, outbox, spool, rejected>>
  BY DEF Insert
<1>2. \A p \in Incoming : new(p).push = p /\ new(p).table = Table /\ new(p).copy = 0 /\ p \notin HeldPushes(Table)
  BY NewRowsAre
<1>3. /\ loader \in [at: {"idle", "list", "insert", "delete"}, table: DOMAIN TABLES, files: SUBSET Push]
      /\ IsFiniteSet(loader.files) /\ loader.files \subseteq Staged(Table) /\ Table \in ToSet(TABLES)
      /\ IsFiniteSet(stored)
  BY <1>1, TableTyped DEF LogInv, TelemetryTyped, LoaderKnows
<1>4. Incoming \subseteq Staged(Table) /\ IsFiniteSet(Incoming)
  BY <1>3, FS_Subset DEF Incoming
<1>5. \A p \in Incoming : p \in made /\ Table \in p.fills
  BY <1>3, <1>4 DEF LogInv, FilesOfPushes
<1> HIDE DEF new
<1>6. IsFiniteSet(stored')
  <2> DEFINE f == [p \in Incoming |-> new(p)]
  <2>1. f \in [Incoming -> fresh] /\ \A r \in fresh : \E p \in Incoming : f[p] = r
    OBVIOUS
  <2>2. f \in Surjection(Incoming, fresh)
    BY <2>1 DEF Surjection
  <2> HIDE DEF f, fresh
  <2>3. IsFiniteSet(fresh)
    BY <1>4, <2>2, FS_Surjection
  <2> QED BY <1>1, <1>3, <2>3, FS_Union
<1>7. (\A t : Staged(t)' = Staged(t)) /\ (\A q : Expired(q)' <=> Expired(q)) /\ Table' = Table
  BY <1>1, <1>3 DEF Staged, Expired, Table
<1>8. \A r : r \in stored' <=> r \in stored \/ \E p \in Incoming : r = new(p)
  BY <1>1
<1> HIDE DEF fresh
<1>9. \A t, p : p \in HeldPushes(t)' <=> p \in HeldPushes(t) \/ (t = Table /\ p \in Incoming)
  <2>1. \A t, p : p \in HeldPushes(t)' <=> \E r \in stored' : r.table = t /\ r.push = p
    BY DEF HeldPushes, Held
  <2> QED BY <1>2, <1>8, <2>1, HeldIs
<1>10. TelemetryTyped'
  <2>1. Sent' = Sent
    BY <1>1 DEF Sent
  <2> QED BY <1>1, <1>3, <1>6, <2>1 DEF LogInv, TelemetryTyped
<1>11. MadeOnce' /\ FilesOfPushes'
  BY <1>1, <1>7 DEF LogInv, MadeOnce, FilesOfPushes
<1>12. RowsOnce'
  <2>1. \A r \in stored' : r.push \in made' /\ r.table \in r.push.fills /\ r.copy = 0
    BY <1>1, <1>2, <1>5, <1>8 DEF LogInv, RowsOnce
  <2>2. ASSUME NEW r \in stored', NEW s \in stored', r.push = s.push, r.table = s.table PROVE r = s
    <3>1. CASE r \in stored /\ s \in stored
      BY <2>2, <3>1 DEF LogInv, RowsOnce
    <3>2. ASSUME NEW p \in Incoming, NEW x \in stored, x.push = new(p).push, x.table = new(p).table PROVE FALSE
      BY <1>2, <3>2, HeldIs
    <3> QED BY <1>2, <1>8, <2>2, <3>1, <3>2
  <2> QED BY <2>1, <2>2 DEF RowsOnce
<1>13. LoaderKnows'
  <2>1. loader'.at = "delete" /\ loader'.files = loader.files
    BY <1>1, <1>3
  <2>2. \A p \in loader.files : p \in HeldPushes(Table) \/ p \in Incoming
    BY DEF Incoming
  <2> QED BY <1>7, <1>9, <2>1, <2>2 DEF LoaderKnows
<1>14. Waiting' = Waiting \ B
  <2>1. ASSUME NEW b PROVE b \in Waiting' <=> b \in Waiting /\ b \notin B
    <3>1. b \in Waiting' <=> \E t \in ToSet(TABLES) : \E p \in Staged(t) :
                                b = BatchOf(p, t) /\ p \notin HeldPushes(t)' /\ ~Expired(p)
      BY <1>7 DEF Waiting
    <3>2. b \in B <=> \E p \in Incoming : b = BatchOf(p, Table)
      OBVIOUS
    <3> HIDE DEF B
    <3>3. ASSUME NEW t \in ToSet(TABLES), NEW p \in Staged(t), b = BatchOf(p, t)
          PROVE  b \in B <=> t = Table /\ p \in Incoming
      BY <3>2, <3>3, BatchesDiffer
    <3> QED BY <1>9, <3>1, <3>3, WaitingIs
  <2> QED BY <2>1
<1>15. Copies' = Copies \cup {[batch |-> b, copy |-> 0] : b \in B}
  <2> DEFINE E(b, c) == [batch |-> b, copy |-> c]
  <2>1. /\ Copies = {E(BatchOf(r.push, r.table), r.copy) : r \in stored}
        /\ Copies' = {E(BatchOf(r.push, r.table), r.copy) : r \in stored'}
        /\ {[batch |-> b, copy |-> 0] : b \in B} = {E(b, 0) : b \in B}
    BY DEF Copies
  <2>2. {E(b, 0) : b \in B} = {E(BatchOf(p, Table), 0) : p \in Incoming}
    OBVIOUS
  <2> HIDE DEF E
  <2>3. \A p \in Incoming : E(BatchOf(p, Table), 0) = E(BatchOf(new(p).push, new(p).table), new(p).copy)
    BY <1>2
  <2>4. \A e : e \in Copies' <=> e \in Copies \/ \E p \in Incoming : e = E(BatchOf(p, Table), 0)
    BY <1>8, <2>1, <2>3
  <2>5. \A e : e \in {E(b, 0) : b \in B} <=> \E p \in Incoming : e = E(BatchOf(p, Table), 0)
    BY <2>2
  <2> HIDE DEF B
  <2>6. \A e : e \in Copies' <=> e \in Copies \cup {E(b, 0) : b \in B}
    BY <2>4, <2>5
  <2>7. Copies' = Copies \cup {E(b, 0) : b \in B}
    BY <2>6
  <2> QED BY <2>1, <2>7
<1>16. B \cap Log!Read = {} /\ B \in SUBSET (Waiting \cup Old)
  <2>1. \A p \in Incoming : BatchOf(p, Table) \notin Log!Read
    BY <1>2, ReadIs
  <2>2. \A p \in Incoming : BatchOf(p, Table) \in Waiting \cup Old
    BY <1>3, <1>4, <2>1, StagedWaits
  <2> QED BY <2>1, <2>2
<1>17. UNCHANGED <<rejected, Old>>
  BY <1>1, <1>7 DEF Old
<1> HIDE DEF B
<1>18. Log!Store(B)
  BY <1>14, <1>15, <1>16, <1>17 DEF Log!Store
<1> QED BY <1>10, <1>11, <1>12, <1>13, <1>16, <1>18 DEF LogInv, LogStep, Log!Next

LEMMA LogInit == TelemetryInit => LogInv /\ Log!Init
<1> SUFFICES ASSUME TelemetryInit PROVE LogInv /\ Log!Init
  OBVIOUS
<1> USE DEF TelemetryInit
<1>1. \A t \in ToSet(TABLES) : Staged(t) = {}
  BY DEF Staged, ToSet
<1>2. TelemetryTyped
  <2>1. 0 \in 0 .. MaxClock
    BY TelemetryConstants
  <2>2. Idle \in [at: {"idle", "list", "insert", "delete"}, table: DOMAIN TABLES, files: SUBSET Push]
        /\ Idle.files = {}
    BY TablesAre DEF Idle
  <2> QED BY <2>1, <2>2, FS_EmptySet DEF TelemetryTyped
<1>3. MadeOnce /\ FilesOfPushes /\ RowsOnce
  BY <1>1 DEF MadeOnce, FilesOfPushes, RowsOnce
<1>4. LoaderKnows
  BY DEF LoaderKnows, Idle
<1>5. Waiting = {} /\ Copies = {} /\ Old = {}
  BY <1>1 DEF Waiting, Copies, Old
<1> QED BY <1>2, <1>3, <1>4, <1>5 DEF LogInv, Log!Init

LEMMA LogNext == LogInv /\ [TelemetryNext]_telemetryVars => LogInv' /\ LogStep
<1> SUFFICES ASSUME LogInv, TelemetryNext \/ UNCHANGED telemetryVars PROVE LogInv' /\ LogStep
  OBVIOUS
<1>1. ASSUME NEW h \in Hosts, NEW k \in Kinds, NEW n \in 0 .. 1, NEW fills \in RowsOf(k), Produce(h, k, n, fills)
      PROVE  LogInv' /\ LogStep
  BY <1>1, ProduceLogged
<1>2. CASE UNCHANGED telemetryVars
  <2>1. /\ UNCHANGED <<clock, counter, made, outbox, spool, stored, rejected, loader>>
        /\ made \subseteq Sent /\ outbox \subseteq made /\ counter \in [Hosts -> [total: Nat, ever: Nat]] /\ MadeOnce
    BY <1>2 DEF telemetryVars, LogInv, TelemetryTyped
  <2>2. MadeOnce'
    BY <2>1 DEF MadeOnce
  <2> QED BY <2>1, <2>2, NoFiles
<1> QED BY <1>1, <1>2, RestartLogged, RequestsLogged, LoaderTurns, ListLogged, InsertLogged, DeleteLogged,
           PruneLogged, TickLogged DEF TelemetryNext, Load

\* The files, the rows and the crashes between them implement a log that holds every batch once: what
\* is sent again, or left behind by a load that died after its commit, is skipped, and a file goes only
\* when its rows are in, for any number of hosts, pushes, failures and any size of a chunk
\* (Warehouse.load, Spool).
THEOREM BatchesAreLoggedOnce == FairTelemetry => LoggedOnce
<1>1. LogStep => [Log!Next]_<<Waiting, Copies, rejected, Old>>
  BY DEF LogStep
<1> QED BY <1>1, LogInit, LogNext, PTL DEF FairTelemetry, TelemetrySpec, LoggedOnce, Log!Spec

----------------------------------------------------------------------------
(* The changes *)

LEMMA MinIs ==
    ASSUME NEW A, A \subseteq Nat, A # {}
    PROVE  Min(A) \in A /\ \A y \in A : Min(A) <= y
<1>1. PICK x \in A : \A y \in A : x <= y
  BY Least
<1> QED BY <1>1 DEF Min

LEMMA MaxIs ==
    ASSUME NEW m \in Nat, NEW A, A \subseteq 0 .. m, A # {}
    PROVE  Max(A) \in A /\ \A y \in A : y <= Max(A)
<1>1. PICK x \in A : \A y \in A : y <= x
  BY Greatest
<1>2. \A y \in A : x >= y
  BY <1>1
<1>3. Max(A) \in A /\ \A y \in A : Max(A) >= y
  BY <1>2 DEF Max
<1> QED BY <1>3

LEMMA NewestIs ==
    ASSUME NEW m \in Nat, NEW P, \A p \in P : p.at \in 0 .. m, P # {}
    PROVE  Newest(P) \in P /\ \A q \in P : q.at <= Newest(P).at
<1> DEFINE A == {p.at : p \in P}
<1>1. A \subseteq 0 .. m /\ A # {}
  OBVIOUS
<1>2. PICK a \in A : \A y \in A : y <= a
  BY <1>1, Greatest
<1>3. PICK p \in P : p.at = a
  BY <1>2
<1>4. \A q \in P : q.at <= p.at
  BY <1>2, <1>3
<1> QED BY <1>4 DEF Newest

\* From one reading of a counter to a later one it went on, or began again from zero.
Since(x, q) == x.ever >= q.ever /\ (x.total <= x.ever - q.ever \/ x.total - q.total = x.ever - q.ever)

Metrics == {p \in made : p.kind = "metrics"}

CountersGrow ==
    /\ \A h \in Hosts : counter[h].total <= counter[h].ever
    /\ \A p \in Metrics : p.total <= p.ever /\ Since(counter[p.host], p)
    /\ \A p, q \in Metrics : p.host = q.host /\ q.at < p.at => Since(p, q)

\* A change fits between what was counted at its point and at any point before it.
Fits(c, p, Q) ==
    c = NULL \/ /\ c \in Nat /\ p.total > 0 /\ c <= p.ever
                /\ \A q \in Q : q.host = p.host /\ q.at < p.at /\ q.total > 0 => c <= p.ever - q.ever

RowsFit == late \/ \A r \in Held("metrics") : Fits(r.change, r.push, HeldPushes("metrics"))

CountInv == LogInv /\ late \in BOOLEAN /\ CountersGrow /\ RowsFit

LEMMA HeldMetrics == LogInv => HeldPushes("metrics") \subseteq Metrics
<1> SUFFICES ASSUME LogInv, NEW p \in HeldPushes("metrics") PROVE p \in Metrics
  OBVIOUS
<1>1. PICK r \in stored : r.table = "metrics" /\ r.push = p
  BY HeldIs
<1>2. p \in made /\ "metrics" \in p.fills
  BY <1>1 DEF LogInv, RowsOnce
<1>3. p.kind \in DOMAIN TablesOf /\ p.fills \subseteq ToSet(TablesOf[p.kind])
  BY <1>2, TelemetryConstants DEF LogInv, TelemetryTyped, Sent, Push
<1> QED BY <1>2, <1>3, TablesOfAre DEF Metrics

LEMMA MetricTyped ==
    ASSUME LogInv, NEW p \in Metrics
    PROVE  p \in Push /\ p.at \in 0 .. MaxClock /\ p.total \in Nat /\ p.ever \in Nat /\ p.host \in Hosts
  BY DEF LogInv, TelemetryTyped, Sent, Push, Metrics

\* The stored points: points of the window, and with any of them one as new.
LEMMA StoredPointsAre ==
    ASSUME LogInv, NEW I \in SUBSET Metrics, NEW p \in I, p.total > 0,
           \A x \in I, q \in HeldPushes("metrics") : x.host = q.host => q.at < x.at
    PROVE  LET since == Min({x.at : x \in I}) - Day
           IN /\ \A z \in StoredPoints(I) : z \in HeldPushes("metrics") /\ z.total > 0 /\ since <= z.at
              /\ \A q \in HeldPushes("metrics") : q.host = p.host /\ q.total > 0 /\ since <= q.at
                    => \E z \in StoredPoints(I) : z.host = p.host /\ q.at <= z.at
<1> DEFINE since == Min({x.at : x \in I}) - Day
           Series(h) == {x \in Points(I) : x.host = h}
           FirstAt(h) == Min({x.at : x \in Series(h)})
           LastAt(h) == Max({x.at : x \in Series(h)})
           Known(h) == {q \in Points(HeldPushes("metrics")) : q.host = h /\ since <= q.at /\ q.at < LastAt(h)}
           UpTo(h) == {q \in Known(h) : q.at <= FirstAt(h)}
           From(h) == {q \in Known(h) : q.at > FirstAt(h) \/ q = Newest(UpTo(h))}
<1>1. StoredPoints(I) = UNION {From(h) : h \in {x.host : x \in Points(I)}}
  BY DEF StoredPoints
<1>2. \A z \in StoredPoints(I) : z \in HeldPushes("metrics") /\ z.total > 0 /\ since <= z.at
  BY <1>1 DEF Points
<1>3. ASSUME NEW q \in HeldPushes("metrics"), q.host = p.host, q.total > 0, since <= q.at
      PROVE  \E z \in StoredPoints(I) : z.host = p.host /\ q.at <= z.at
  <2> DEFINE h == p.host
             A == {x.at : x \in Series(h)}
  <2>1. MaxClock \in Nat /\ A \subseteq 0 .. MaxClock /\ A \subseteq Nat /\ p.at \in A
    <3>1. \A x \in I : x.at \in 0 .. MaxClock
      BY MetricTyped
    <3>2. p \in Series(h) /\ MaxClock \in Nat
      BY TelemetryConstants DEF Points
    <3>3. A \subseteq 0 .. MaxClock /\ p.at \in A
      BY <3>1, <3>2 DEF Points
    <3> HIDE DEF A
    <3> QED BY <3>2, <3>3
  <2>2. /\ FirstAt(h) \in A /\ LastAt(h) \in A /\ \A y \in A : y <= LastAt(h)
    <3>1. FirstAt(h) = Min(A) /\ LastAt(h) = Max(A)
      OBVIOUS
    <3> HIDE DEF A, FirstAt, LastAt
    <3>2. A # {}
      BY <2>1
    <3>3. Min(A) \in A
      BY <2>1, <3>2, MinIs
    <3>4. Max(A) \in A /\ \A y \in A : y <= Max(A)
      BY <2>1, <3>2, MaxIs
    <3> QED BY <3>1, <3>3, <3>4
  <2>3. \A a \in A : q.at < a
    BY <1>3 DEF Points
  <2>4. q \in UpTo(h)
    <3>1. q.at < LastAt(h) /\ q.at < FirstAt(h)
      BY <2>2, <2>3
    <3>2. q.at \in 0 .. MaxClock /\ q \in Points(HeldPushes("metrics"))
      BY <1>3, HeldMetrics, MetricTyped DEF Points
    <3>3. q.at <= FirstAt(h)
      <4>1. FirstAt(h) \in Nat
        BY <2>1, <2>2
      <4> HIDE DEF FirstAt
      <4> QED BY <3>1, <3>2, <4>1
    <3> HIDE DEF FirstAt, LastAt, since
    <3> QED BY <1>3, <3>1, <3>2, <3>3
  <2>5. \A x \in UpTo(h) : x.at \in 0 .. MaxClock
    BY HeldMetrics, MetricTyped DEF Points
  <2>6. Newest(UpTo(h)) \in UpTo(h) /\ q.at <= Newest(UpTo(h)).at
    <3> HIDE DEF UpTo
    <3> QED BY <2>1, <2>4, <2>5, NewestIs
  <2>7. Newest(UpTo(h)) \in From(h)
    BY <2>6
  <2>8. h \in {x.host : x \in Points(I)}
    BY DEF Points
  <2>9. Newest(UpTo(h)).host = h
    BY <2>6
  <2> HIDE DEF From, UpTo
  <2> QED BY <1>1, <2>6, <2>7, <2>8, <2>9
<1> QED BY <1>2, <1>3

\* The pushes: the incoming ones, and others of the window.
LEMMA PushesAre ==
    ASSUME LogInv, NEW I \in SUBSET Metrics
    PROVE  \A w \in Pushes(I) : w \in I \/ (w \in HeldPushes("metrics") /\ Min({x.at : x \in I}) - Day <= w.at)
<1> DEFINE since == Min({x.at : x \in I}) - Day
           Known(h) == {q \in HeldPushes("metrics") :
                        q.host = h /\ since <= q.at /\ \A p \in I : p.host = h => q.at < p.at}
<1>1. Pushes(I) = I \cup {Newest(Known(h)) : h \in {g \in {p.host : p \in I} : Known(g) # {}}}
  BY DEF Pushes
<1>2. ASSUME NEW h, Known(h) # {} PROVE Newest(Known(h)) \in HeldPushes("metrics") /\ since <= Newest(Known(h)).at
  <2>1. \A x \in Known(h) : x.at \in 0 .. MaxClock
    BY HeldMetrics, MetricTyped
  <2>2. Newest(Known(h)) \in Known(h)
    <3> HIDE DEF Known
    <3> QED BY <1>2, <2>1, NewestIs, TelemetryConstants
  <2> QED BY <2>2
<1> HIDE DEF Known, since
<1>3. \A w \in Pushes(I) : w \in I \/ (w \in HeldPushes("metrics") /\ since <= w.at)
  BY <1>1, <1>2
<1> QED BY <1>3 DEF since

\* What get_change returns fits: its own point is later than all that is held of its host, and of
\* the points before it the newest, or a push without the counter, is among those it was taken from.
LEMMA ChangeFits ==
    ASSUME LogInv, CountersGrow, NEW I \in SUBSET Metrics, NEW p \in I,
           \A x \in I, q \in HeldPushes("metrics") : x.host = q.host => q.at < x.at
    PROVE  Fits(Change(p, I), p, HeldPushes("metrics") \cup I)
<1> DEFINE since == Min({x.at : x \in I}) - Day
           points == Points(I) \cup StoredPoints(I)
           earlier == Before(points, p)
           all == HeldPushes("metrics") \cup I
<1>1. \A q \in all : q \in Metrics /\ q.at \in 0 .. MaxClock /\ q.total \in Nat /\ q.ever \in Nat
  BY HeldMetrics, MetricTyped
<1>2. since \in Int /\ \A x \in I : since <= x.at
  <2> DEFINE A == {x.at : x \in I}
  <2>1. A \subseteq Nat /\ A # {} /\ \A x \in I : x.at \in A
    BY <1>1, TelemetryConstants
  <2>2. since = Min(A) - Day
    OBVIOUS
  <2> HIDE DEF A
  <2>3. Min(A) \in A /\ \A y \in A : Min(A) <= y
    BY <2>1, MinIs
  <2>4. Min(A) \in Nat /\ Day \in Nat
    BY <2>1, <2>3, TelemetryConstants
  <2> HIDE DEF since
  <2>5. \A x \in I : Min(A) <= x.at /\ x.at \in Nat
    BY <2>1, <2>3
  <2> QED BY <2>2, <2>4, <2>5
<1>3. CASE p.total = 0
  <2>1. Change(p, I) = NULL
    BY <1>3 DEF Change, GetChange
  <2> QED BY <2>1 DEF Fits
<1>4. CASE p.total # 0
  <2>0. p.total > 0 /\ p.total \in Nat /\ p.ever \in Nat /\ p.at \in Nat
    BY <1>1, <1>4
  <2>1. /\ \A z \in StoredPoints(I) : z \in HeldPushes("metrics") /\ z.total > 0 /\ since <= z.at
        /\ \A q \in HeldPushes("metrics") : q.host = p.host /\ q.total > 0 /\ since <= q.at
              => \E z \in StoredPoints(I) : z.host = p.host /\ q.at <= z.at
    BY <2>0, StoredPointsAre
  <2>2. \A z \in earlier : z \in all /\ z.total > 0 /\ since <= z.at /\ z.host = p.host /\ z.at < p.at
    <3> HIDE DEF since
    <3> QED BY <1>2, <2>1 DEF Before, Points
  <2>3. ASSUME NEW q \in all, q.host = p.host, q.at < p.at, q.total > 0, since <= q.at
        PROVE  \E z \in earlier : q.at <= z.at
    <3>1. CASE q \in I
      <4>1. q \in earlier
        BY <2>3, <3>1 DEF Before, Points
      <4>2. q.at <= q.at
        BY <1>1
      <4> QED BY <4>1, <4>2
    <3>2. CASE q \in HeldPushes("metrics")
      <4> HIDE DEF since
      <4>1. PICK z \in StoredPoints(I) : z.host = p.host /\ q.at <= z.at
        BY <2>1, <2>3, <3>2
      <4>2. z.at < p.at
        BY <2>1, <4>1
      <4>3. z \in earlier
        BY <4>1, <4>2 DEF Before
      <4> QED BY <4>1, <4>3
    <3> QED BY <3>1, <3>2
  <2>4. \A w \in Pushes(I) : w \in all /\ since <= w.at
    <3>1. \A w \in Pushes(I) : w \in I \/ (w \in HeldPushes("metrics") /\ since <= w.at)
      BY PushesAre
    <3> HIDE DEF since
    <3> QED BY <1>2, <3>1
  <2> HIDE DEF since
  <2>5. Change(p, I) = IF earlier = {} /\ Before(Pushes(I), p) = {} THEN NULL
                       ELSE IF earlier = {} \/ p.total < Newest(earlier).total THEN p.total
                       ELSE p.total - Newest(earlier).total
    BY <1>4 DEF Change, GetChange
  <2>6. \A x, y \in all : x.host = y.host /\ y.at < x.at => Since(x, y)
    BY <1>1 DEF CountersGrow
  <2>7. p.total <= p.ever
    BY <1>1 DEF CountersGrow
  <2> HIDE DEF earlier, points
  <2>8. CASE earlier = {} /\ Before(Pushes(I), p) = {}
    <3>1. Change(p, I) = NULL
      BY <2>5, <2>8
    <3> QED BY <3>1 DEF Fits
  <2>9. CASE earlier = {} /\ Before(Pushes(I), p) # {}
    <3>1. PICK w \in Pushes(I) : w.host = p.host /\ w.at < p.at
      BY <2>9 DEF Before
    <3>2. w \in all /\ since <= w.at /\ w.at \in Nat /\ w.total \in Nat /\ w.ever \in Nat
      BY <1>1, <2>4
    <3>3. w.total = 0
      BY <2>3, <2>9, <3>1, <3>2
    <3>4. p.total <= p.ever - w.ever
      BY <2>0, <2>6, <3>1, <3>2, <3>3 DEF Since
    <3>5. ASSUME NEW q \in all, q.host = p.host, q.at < p.at, q.total > 0
          PROVE  p.total <= p.ever - q.ever
      <4>1. q.at \in Nat /\ q.ever \in Nat
        BY <1>1
      <4>2. q.at < w.at
        BY <1>2, <2>3, <2>9, <3>2, <3>5, <4>1
      <4>3. q.ever <= w.ever
        BY <2>6, <3>1, <3>2, <3>5, <4>1, <4>2 DEF Since
      <4> QED BY <2>0, <3>2, <3>4, <4>1, <4>3
    <3>6. Change(p, I) = p.total
      BY <2>5, <2>9
    <3> HIDE DEF all
    <3> QED BY <2>0, <2>7, <3>5, <3>6 DEF Fits, all
  <2>10. CASE earlier # {}
    <3> DEFINE n == Newest(earlier)
    <3>1. n \in earlier /\ \A q \in earlier : q.at <= n.at
      <4>1. \A z \in earlier : z.at \in 0 .. MaxClock
        BY <1>1, <2>2
      <4> QED BY <2>10, <4>1, NewestIs, TelemetryConstants
    <3> HIDE DEF n
    <3>2. /\ n \in all /\ n.total > 0 /\ since <= n.at /\ n.host = p.host /\ n.at < p.at
          /\ n.at \in Nat /\ n.total \in Nat /\ n.ever \in Nat
      BY <1>1, <2>2, <3>1
    <3> DEFINE c == IF p.total < n.total THEN p.total ELSE p.total - n.total
    <3>3. Change(p, I) = c
      BY <2>5, <2>10 DEF n
    <3>4. c \in Nat /\ c <= p.ever - n.ever
      BY <2>0, <2>6, <3>2 DEF Since
    <3> HIDE DEF c
    <3>5. ASSUME NEW q \in all, q.host = p.host, q.at < p.at, q.total > 0
          PROVE  c <= p.ever - q.ever
      <4>1. q.at \in Nat /\ q.ever \in Nat
        BY <1>1
      <4>2. q.at <= n.at
        <5>1. CASE since <= q.at
          <6>1. PICK z \in earlier : q.at <= z.at
            BY <2>3, <3>5, <5>1
          <6>2. z.at <= n.at /\ z.at \in Nat
            BY <1>1, <2>2, <3>1
          <6> QED BY <3>2, <4>1, <6>1, <6>2
        <5>2. CASE ~(since <= q.at)
          BY <1>2, <3>2, <4>1, <5>2
        <5> QED BY <5>1, <5>2
      <4>3. CASE q.at = n.at
        <5>1. q = n
          BY <1>1, <3>2, <3>5, <4>3 DEF LogInv, MadeOnce, Metrics
        <5> QED BY <3>4, <5>1
      <4>4. CASE q.at < n.at
        <5>1. q.ever <= n.ever
          BY <2>6, <3>2, <3>5, <4>1, <4>4 DEF Since
        <5> QED BY <2>0, <3>2, <3>4, <4>1, <5>1
      <4> QED BY <3>2, <4>1, <4>2, <4>3, <4>4
    <3>6. c <= p.ever
      BY <2>0, <3>2, <3>4
    <3> HIDE DEF all
    <3> QED BY <2>0, <3>3, <3>4, <3>5, <3>6 DEF Fits, all
  <2> QED BY <2>8, <2>9, <2>10
<1> QED BY <1>3, <1>4

LEMMA CountersKept ==
    ASSUME CountersGrow, UNCHANGED <<counter, made>>
    PROVE  CountersGrow'
<1>1. Metrics' = Metrics
  BY DEF Metrics
<1> QED BY <1>1 DEF CountersGrow, Since

LEMMA ProduceGrows ==
    ASSUME LogInv, CountersGrow, NEW h \in Hosts, NEW k \in Kinds, NEW n \in 0 .. 1, NEW fills \in RowsOf(k),
           Produce(h, k, n, fills)
    PROVE  CountersGrow'
<1>0. counter \in [Hosts -> [total: Nat, ever: Nat]] /\ n \in Nat
  BY DEF LogInv, TelemetryTyped
<1> DEFINE new == [counter EXCEPT ![h].total = @ + n, ![h].ever = @ + n]
           now == IF k = "metrics" THEN new[h] ELSE [total |-> 0, ever |-> 0]
           p == [host |-> h, kind |-> k, at |-> clock, total |-> now.total, ever |-> now.ever, fills |-> fills]
<1>1. /\ counter' = new /\ made' = made \cup {p} /\ (k # "metrics" => n = 0)
  BY DEF Produce
<1>2. /\ p.host = h /\ p.kind = k /\ p.at = clock
      /\ (k = "metrics" => p.total = new[h].total /\ p.ever = new[h].ever)
  OBVIOUS
<1>3. /\ new[h].total = counter[h].total + n /\ new[h].ever = counter[h].ever + n
      /\ \A g \in Hosts : g # h => new[g] = counter[g]
  BY <1>0
<1>4. \A g \in Hosts : counter[g].total \in Nat /\ counter[g].ever \in Nat
  BY <1>0
<1>5. \A q \in Metrics : q.total \in Nat /\ q.ever \in Nat /\ q.host \in Hosts /\ q.at \in Nat /\ q.at <= clock
  BY MetricTyped DEF LogInv, TelemetryTyped, Sent, Metrics
<1>6. clock \in Nat
  BY DEF LogInv, TelemetryTyped
<1>7. \A q : q \in Metrics' <=> q \in Metrics \/ (q = p /\ k = "metrics")
  <2> HIDE DEF p
  <2> QED BY <1>1, <1>2 DEF Metrics
<1> HIDE DEF p, now, new
<1>8. ASSUME NEW g \in Hosts PROVE counter'[g].total <= counter'[g].ever
  <2>1. counter[g].total <= counter[g].ever
    BY DEF CountersGrow
  <2> QED BY <1>0, <1>1, <1>3, <1>4, <2>1
<1>9. ASSUME NEW q \in Metrics PROVE q.total <= q.ever /\ Since(counter'[q.host], q)
  <2>1. q.total <= q.ever /\ Since(counter[q.host], q)
    BY DEF CountersGrow
  <2>2. CASE q.host = h
    BY <1>0, <1>1, <1>3, <1>4, <1>5, <2>1, <2>2 DEF Since
  <2>3. CASE q.host # h
    BY <1>1, <1>3, <1>5, <2>1, <2>3
  <2> QED BY <2>1, <2>2, <2>3
<1>10. k = "metrics" => p.total <= p.ever /\ Since(counter'[p.host], p)
  BY <1>0, <1>1, <1>2, <1>3, <1>4, <1>8 DEF Since
<1>11. ASSUME NEW q \in Metrics, q.host = h, k = "metrics" PROVE Since(p, q)
  BY <1>1, <1>2, <1>9, <1>11 DEF Since
<1>12. ASSUME NEW q \in Metrics' PROVE q.total <= q.ever /\ Since(counter'[q.host], q)
  BY <1>7, <1>9, <1>10
<1>13. ASSUME NEW x \in Metrics', NEW q \in Metrics', x.host = q.host, q.at < x.at PROVE Since(x, q)
  <2>1. CASE x \in Metrics /\ q \in Metrics
    BY <1>13, <2>1 DEF CountersGrow
  <2>2. CASE q = p /\ k = "metrics"
    BY <1>2, <1>5, <1>6, <1>7, <1>13, <2>2
  <2>3. CASE x = p /\ k = "metrics" /\ q \in Metrics
    BY <1>2, <1>11, <1>13, <2>3
  <2> QED BY <1>7, <2>1, <2>2, <2>3
<1> QED BY <1>8, <1>12, <1>13 DEF CountersGrow, Since

LEMMA RestartGrows ==
    ASSUME LogInv, CountersGrow, NEW h \in Hosts, Restart(h)
    PROVE  CountersGrow'
<1>0. counter \in [Hosts -> [total: Nat, ever: Nat]]
  BY DEF LogInv, TelemetryTyped
<1>1. counter' = [counter EXCEPT ![h].total = 0] /\ Metrics' = Metrics
  BY DEF Restart, Metrics
<1>2. /\ counter'[h].total = 0 /\ counter'[h].ever = counter[h].ever
      /\ \A g \in Hosts : g # h => counter'[g] = counter[g]
  BY <1>0, <1>1
<1>3. \A g \in Hosts : counter[g].total \in Nat /\ counter[g].ever \in Nat
  BY <1>0
<1>4. ASSUME NEW g \in Hosts PROVE counter'[g].total <= counter'[g].ever
  <2>1. counter[g].total <= counter[g].ever
    BY DEF CountersGrow
  <2> QED BY <1>2, <1>3, <2>1
<1>5. ASSUME NEW q \in Metrics PROVE q.total <= q.ever /\ Since(counter'[q.host], q)
  <2>1. q.total <= q.ever /\ Since(counter[q.host], q) /\ q.total \in Nat /\ q.ever \in Nat /\ q.host \in Hosts
    BY MetricTyped DEF CountersGrow
  <2>2. CASE q.host = h
    BY <1>2, <1>3, <2>1, <2>2 DEF Since
  <2>3. CASE q.host # h
    BY <1>2, <2>1, <2>3
  <2> QED BY <2>1, <2>2, <2>3
<1> QED BY <1>1, <1>4, <1>5 DEF CountersGrow, Since

LEMMA FitsFewer ==
    ASSUME NEW c, NEW p, NEW P, NEW Q, Q \subseteq P, Fits(c, p, P)
    PROVE  Fits(c, p, Q)
  BY DEF Fits

LEMMA PruneFits ==
    ASSUME RowsFit, PruneExpired
    PROVE  RowsFit'
<1>1. stored' \subseteq stored /\ late' = late
  BY DEF PruneExpired
<1>2. Held("metrics")' \subseteq Held("metrics") /\ HeldPushes("metrics")' \subseteq HeldPushes("metrics")
  BY <1>1 DEF Held, HeldPushes
<1>3. ASSUME ~late, NEW r \in Held("metrics")' PROVE Fits(r.change, r.push, HeldPushes("metrics")')
  BY <1>2, <1>3, FitsFewer DEF RowsFit
<1> QED BY <1>1, <1>3 DEF RowsFit, Fits

LEMMA InsertFits ==
    ASSUME CountInv, Insert
    PROVE  RowsFit'
<1> SUFFICES ASSUME ~late' PROVE RowsFit'
  BY DEF RowsFit
<1>0. LogInv /\ CountersGrow
  BY DEF CountInv
<1>1. /\ ~late /\ loader.at = "insert"
      /\ stored' = stored \cup {NewRow(p, Incoming) : p \in Incoming}
      /\ Table = "metrics" => \A p \in Incoming, q \in HeldPushes("metrics") : p.host = q.host => ~(p.at < q.at)
  BY DEF Insert
<1>2. \A r \in Held("metrics") : Fits(r.change, r.push, HeldPushes("metrics"))
  BY <1>1 DEF CountInv, RowsFit
<1>3. \A p \in Incoming : /\ NewRow(p, Incoming).push = p /\ NewRow(p, Incoming).table = Table
                          /\ p \notin HeldPushes(Table)
  BY <1>0, NewRowsAre
<1>4. CASE Table # "metrics"
  <2>1. Held("metrics")' = Held("metrics")
    BY <1>1, <1>3, <1>4 DEF Held
  <2>2. HeldPushes("metrics")' = HeldPushes("metrics")
    BY <2>1 DEF HeldPushes
  <2> QED BY <1>2, <2>1, <2>2 DEF RowsFit, Fits
<1>5. CASE Table = "metrics"
  <2> DEFINE I == Incoming
             Q == HeldPushes("metrics") \cup I
  <2>1. I \in SUBSET Metrics
    <3>1. I \subseteq Staged("metrics") /\ "metrics" \in ToSet(TABLES)
      BY <1>0, <1>1, <1>5, TablesAre DEF Incoming, LogInv, LoaderKnows
    <3>2. \A p \in I : p \in made /\ "metrics" \in p.fills
      BY <1>0, <3>1 DEF LogInv, FilesOfPushes
    <3>3. \A p \in I : p.kind \in DOMAIN TablesOf /\ p.fills \subseteq ToSet(TablesOf[p.kind])
      BY <1>0, <3>2, TelemetryConstants DEF LogInv, TelemetryTyped, Sent, Push
    <3> QED BY <3>2, <3>3, TablesOfAre DEF Metrics
  <2>2. HeldPushes("metrics") \subseteq Metrics
    BY <1>0, HeldMetrics
  <2>3. ASSUME NEW x \in I, NEW q \in HeldPushes("metrics"), x.host = q.host PROVE q.at < x.at
    <3>1. x.at \in Nat /\ q.at \in Nat /\ x # q
      BY <1>0, <1>3, <1>5, <2>1, <2>2, MetricTyped
    <3>2. x.at # q.at
      BY <1>0, <2>1, <2>2, <2>3, <3>1 DEF LogInv, MadeOnce, Metrics
    <3> QED BY <1>1, <1>5, <2>3, <3>1, <3>2
  <2>4. ASSUME NEW p \in I PROVE Fits(NewRow(p, I).change, NewRow(p, I).push, Q)
    <3>1. NewRow(p, I).change = Change(p, I) /\ NewRow(p, I).push = p
      BY <1>5 DEF NewRow
    <3>2. Fits(Change(p, I), p, Q)
      BY <1>0, <2>1, <2>3, ChangeFits
    <3> QED BY <3>1, <3>2
  <2>5. ASSUME NEW r \in Held("metrics") PROVE Fits(r.change, r.push, Q)
    <3>1. r.push \in HeldPushes("metrics")
      BY DEF HeldPushes
    <3>2. ASSUME NEW x \in I, x.host = r.push.host PROVE ~(x.at < r.push.at)
      BY <1>1, <1>5, <3>1, <3>2
    <3> QED BY <1>2, <3>2 DEF Fits
  <2>6. HeldPushes("metrics")' = Q
    <3>1. \A p : p \in HeldPushes("metrics")' <=> \E r \in stored' : r.table = "metrics" /\ r.push = p
      BY DEF HeldPushes, Held
    <3>2. \A p : p \in HeldPushes("metrics")' <=> p \in Q
      BY <1>1, <1>3, <1>5, <3>1, HeldIs
    <3> HIDE DEF Q
    <3> QED BY <3>2
  <2>7. ASSUME NEW r \in Held("metrics")' PROVE Fits(r.change, r.push, HeldPushes("metrics")')
    <3>1. r \in Held("metrics") \/ \E p \in I : r = NewRow(p, I)
      BY <1>1 DEF Held
    <3> QED BY <2>4, <2>5, <2>6, <3>1
  <2> QED BY <2>7 DEF RowsFit, Fits
<1> QED BY <1>4, <1>5

LEMMA CountNext == CountInv /\ [TelemetryNext]_telemetryVars => CountInv'
<1> SUFFICES ASSUME CountInv, TelemetryNext \/ UNCHANGED telemetryVars PROVE CountInv'
  OBVIOUS
<1>1. LogInv /\ CountersGrow /\ RowsFit /\ late \in BOOLEAN
  BY DEF CountInv
<1>2. LogInv'
  BY <1>1, LogNext
<1>3. ASSUME UNCHANGED <<stored, late>> PROVE RowsFit' /\ late' \in BOOLEAN
  <2>1. Held("metrics")' = Held("metrics") /\ HeldPushes("metrics")' = HeldPushes("metrics")
    BY <1>3 DEF Held, HeldPushes
  <2> QED BY <1>1, <1>3, <2>1 DEF RowsFit, Fits
<1>4. ASSUME NEW h \in Hosts, NEW k \in Kinds, NEW n \in 0 .. 1, NEW fills \in RowsOf(k), Produce(h, k, n, fills)
      PROVE  CountersGrow' /\ UNCHANGED <<stored, late>>
  <2>1. UNCHANGED <<stored, late>>
    BY <1>4 DEF Produce
  <2> QED BY <1>1, <1>4, <2>1, ProduceGrows
<1>5. ASSUME NEW h \in Hosts, Restart(h)
      PROVE  CountersGrow' /\ UNCHANGED <<stored, late>>
  <2>1. UNCHANGED <<stored, late>>
    BY <1>5 DEF Restart
  <2> QED BY <1>1, <1>5, <2>1, RestartGrows
<1>6. CASE Insert
  <2>1. UNCHANGED <<counter, made>> /\ late' \in BOOLEAN
    BY <1>6 DEF Insert
  <2> QED BY <1>1, <1>2, <1>6, <2>1, InsertFits, CountersKept DEF CountInv
<1>7. CASE PruneExpired
  <2>1. UNCHANGED <<counter, made, late>>
    BY <1>7 DEF PruneExpired
  <2> QED BY <1>1, <1>2, <1>7, <2>1, PruneFits, CountersKept DEF CountInv
<1>8. ASSUME UNCHANGED <<counter, made, stored, late>> PROVE CountInv'
  BY <1>1, <1>2, <1>3, <1>8, CountersKept DEF CountInv
<1>9. ASSUME \/ \E h \in Hosts : TrimBacklog(h)
             \/ \E p \in outbox : Accept(p) \/ Unanswered(p)
             \/ StartLoad \/ ListFiles \/ Delete \/ LoadDeferred \/ LoaderDies
             \/ \E p \in made : \E t \in p.fills : Damage(BatchOf(p, t))
             \/ Tick \/ UNCHANGED telemetryVars
      PROVE  UNCHANGED <<counter, made, stored, late>>
  BY <1>9 DEF TrimBacklog, Accept, Unanswered, StartLoad, ListFiles, Delete, LoadDeferred, LoaderDies, Damage, Tick,
              telemetryVars
<1>10. ASSUME CountersGrow', UNCHANGED <<stored, late>> PROVE CountInv'
  BY <1>2, <1>3, <1>10 DEF CountInv
<1> QED BY <1>4, <1>5, <1>6, <1>7, <1>8, <1>9, <1>10 DEF TelemetryNext, Load

LEMMA CountInit == TelemetryInit => CountInv
<1> SUFFICES ASSUME TelemetryInit PROVE CountInv
  OBVIOUS
<1>1. LogInv /\ late = FALSE
  BY LogInit DEF TelemetryInit
<1>2. Metrics = {} /\ \A h \in Hosts : counter[h].total = 0 /\ counter[h].ever = 0
  BY DEF TelemetryInit, Metrics
<1>3. Held("metrics") = {}
  BY DEF TelemetryInit, Held
<1>4. CountersGrow
  BY <1>2 DEF CountersGrow
<1>5. RowsFit
  BY <1>3 DEF RowsFit
<1> QED BY <1>1, <1>4, <1>5 DEF CountInv

LEMMA Counted == CountInv => ChangesNeverOvercount
<1> SUFFICES ASSUME CountInv, ~late, NEW h \in Hosts
             PROVE  MapThenSumSet(LAMBDA r : r.change, {r \in Held("metrics") : r.push.host = h /\ r.change # NULL})
                      <= counter[h].ever
  BY DEF ChangesNeverOvercount
<1> DEFINE S == {r \in Held("metrics") : r.push.host = h /\ r.change # NULL}
<1>0. LogInv /\ CountersGrow
  BY DEF CountInv
<1>1. IsFiniteSet(S)
  <2>1. S \subseteq stored /\ IsFiniteSet(stored)
    BY <1>0 DEF Held, LogInv, TelemetryTyped
  <2> HIDE DEF S
  <2> QED BY <2>1, FS_Subset
<1>2. MaxClock \in Nat /\ counter[h].ever \in Nat
  BY <1>0, TelemetryConstants DEF LogInv, TelemetryTyped
<1>3. ASSUME NEW r \in S
      PROVE  /\ r.push \in HeldPushes("metrics") /\ r.push \in Metrics
             /\ r.push.at \in 0 .. MaxClock /\ r.push.ever \in Nat /\ r.push.host = h
             /\ Fits(r.change, r.push, HeldPushes("metrics")) /\ r.change # NULL
  <2>1. r.push \in HeldPushes("metrics")
    BY DEF HeldPushes
  <2>2. r.push \in Metrics
    BY <1>0, <2>1, HeldMetrics
  <2> QED BY <1>0, <2>1, <2>2, MetricTyped DEF CountInv, RowsFit
<1>4. ASSUME NEW r \in S
      PROVE  r.change \in Nat /\ r.push.total > 0 /\ r.change <= r.push.ever
  BY <1>3 DEF Fits
<1>5. ASSUME NEW r \in S PROVE r.push.ever \in 0 .. counter[h].ever
  <2>1. r.push.ever <= counter[h].ever
    BY <1>0, <1>2, <1>3 DEF CountersGrow, Since
  <2> QED BY <1>2, <1>3, <2>1
<1>6. ASSUME NEW r \in S, NEW q \in S, r.push.at = q.push.at PROVE r = q
  <2>1. r.push = q.push
    BY <1>0, <1>3, <1>6 DEF LogInv, MadeOnce, Metrics
  <2> QED BY <1>0, <2>1 DEF LogInv, RowsOnce, Held
<1>7. ASSUME NEW r \in S, NEW q \in S, q.push.at < r.push.at PROVE r.change <= r.push.ever - q.push.ever
  BY <1>3, <1>4, <1>7 DEF Fits
<1> HIDE DEF S
<1>8. MapThenSumSet(LAMBDA r : r.change, S) <= counter[h].ever
  BY <1>1, <1>2, <1>3, <1>4, <1>5, <1>6, <1>7, SumFits
<1> QED BY <1>8 DEF S

\* The sums the charts draw never exceed what the server counted, as long as no push is loaded after
\* a later one of its host: over chunks, restarts of Stalwart and pushes sent again, each change fits
\* between what was counted at its own point and at every point held before it (get_metrics_insert).
THEOREM ChangesAreCounted == FairTelemetry => []ChangesNeverOvercount
  BY CountInit, CountNext, Counted, PTL DEF FairTelemetry, TelemetrySpec
=============================================================================
