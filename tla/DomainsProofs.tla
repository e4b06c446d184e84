--------------------------- MODULE DomainsProofs ---------------------------
(***************************************************************************)
(* DNS records, the domains of a site and mail domains, for any number of  *)
(* owners, records, domains, workers, operators and faults.                *)
(*                                                                         *)
(* RecordsMatchRows speaks of a state with nothing under way. Between a    *)
(* provider's delete and the commit the rows are behind: what holds all    *)
(* along leaves out the rows that a reconciliation is done with (Going).   *)
(*                                                                         *)
(* PilotFollows is broken for good once two tasks at Pilot took effect of  *)
(* which only one can be saved (Broken); until then the rows and what the  *)
(* one task in between did (Pending) agree with Pilot.                     *)
(*                                                                         *)
(* ClusterFollows holds once every check that told the cluster something   *)
(* has saved it; until then a check carries either the row's own state or  *)
(* the cluster's (Carries).                                                *)
(***************************************************************************)
EXTENDS MCDomains, MailDomains, TLAPS

----------------------------------------------------------------------------
(* Records *)

\* A reconciliation has dealt with the row at the provider and will take it away.
Going(o, r) ==
    \E w \in Workers :
        proc[w].at = "reconcile" /\ proc[w].owner = o /\ r \notin proc[w].wanted \cup proc[w].stale

Process(p) ==
    \/ p = Idle
    \/ p \in Reconciling /\ p.stale \cap p.wanted = {}
    \/ p \in Pushing /\ (~p.gone => p.key \in Present)

RecordsTyped ==
    /\ rows \in [Keys -> [state: States, ttl: Ttls \cup {0}]]
    /\ \A k \in Present : rows[k].ttl \in Ttls
    /\ provider \in [Records -> Ttls \cup {0}]
    /\ jobs \subseteq Present
    /\ DOMAIN proc = Workers /\ \A w \in Workers : Process(proc[w])

\* A confirmed row has its record, unless it was lost or the row goes.
Backed(r) ==
    provider[r] = 0 /\ r \notin lost => \A o \in Owners : rows[<<o, r>>].state = "good" => Going(o, r)

\* A record has a row that does not go, unless it leaked.
Named(r) ==
    provider[r] # 0 /\ r \notin leaked => \E o \in Owners : <<o, r>> \in Present /\ ~Going(o, r)

RecordsInv == RecordsTyped /\ \A r \in Records : Backed(r) /\ Named(r)

LEMMA RecordsInit == Init => RecordsInv
<1> SUFFICES ASSUME Init PROVE RecordsInv
  OBVIOUS
<1> USE DEF Init
<1>1. Present = {}
  BY DEF Present, NoRow
<1>2. RecordsTyped
  BY <1>1 DEF RecordsTyped, NoRow, States, Process
<1>3. \A r \in Records : Backed(r) /\ Named(r)
  BY DEF Backed, Named, NoRow, Keys
<1> QED
  BY <1>2, <1>3 DEF RecordsInv

\* A process that reconciles neither before nor after the step.
LEMMA ElsewhereGoing ==
    ASSUME RecordsTyped, NEW w \in Workers, NEW p, proc' = [proc EXCEPT ![w] = p],
           proc[w].at # "reconcile", p.at # "reconcile"
    PROVE  \A o, r : Going(o, r)' <=> Going(o, r)
<1>1. \A v \in Workers : proc'[v] = IF v = w THEN p ELSE proc[v]
  BY DEF RecordsTyped
<1> QED
  BY <1>1 DEF Going

\* The processes, when no row comes or goes.
LEMMA ProcessesKept ==
    ASSUME RecordsTyped, NEW w \in Workers, NEW p, proc' = [proc EXCEPT ![w] = p], Process(p),
           Present' = Present
    PROVE  DOMAIN proc' = Workers /\ \A v \in Workers : Process(proc[v])'
<1>1. \A v \in Workers : proc'[v] = IF v = w THEN p ELSE proc[v]
  BY DEF RecordsTyped
<1>2. ASSUME NEW v \in Workers PROVE Process(proc'[v])
  BY <1>1 DEF RecordsTyped
<1>3. ASSUME NEW v \in Workers PROVE Process(proc[v])'
  BY <1>2, <1>3 DEF Process
<1> QED
  BY <1>3 DEF RecordsTyped

LEMMA KeyPairs ==
    /\ \A k \in Keys : k = <<k[1], k[2]>> /\ k[1] \in Owners /\ k[2] \in Records
    /\ \A o \in Owners, r \in Records : <<o, r>> \in Keys
BY DEF Keys

LEMMA PresentKept ==
    ASSUME UNCHANGED rows
    PROVE  Present' = Present
BY DEF Present

LEMMA ReconcileKeeps ==
    ASSUME RecordsInv, NEW w \in Workers, NEW o \in Owners, NEW wanted \in SUBSET Records,
           Reconcile(w, o, wanted)
    PROVE  RecordsInv'
<1> USE DEF RecordsInv, Reconcile
<1> DEFINE p == [at |-> "reconcile", owner |-> o, wanted |-> wanted, seen |-> Present, stale |-> Held(o) \ wanted]
<1>1. proc' = [proc EXCEPT ![w] = p] /\ Present' = Present
  BY PresentKept
<1>2. Process(p)
  BY DEF Process, Reconciling, Present, Held
<1>3. DOMAIN proc' = Workers /\ \A v \in Workers : Process(proc[v])'
  <2> HIDE DEF p, Reconcile
  <2> QED BY <1>1, <1>2, ProcessesKept
<1>4. RecordsTyped'
  BY <1>1, <1>3 DEF RecordsTyped
<1>5. \A v \in Workers : proc'[v] = IF v = w THEN p ELSE proc[v]
  BY DEF RecordsTyped
<1>6. ASSUME NEW q, NEW r \in Records
      PROVE  /\ Going(q, r) => Going(q, r)'
             /\ <<q, r>> \in Present /\ ~Going(q, r) => ~Going(q, r)'
  <2>1. Going(q, r) => Going(q, r)'
    BY <1>5 DEF Going, Idle
  <2>2. ASSUME <<q, r>> \in Present, ~Going(q, r) PROVE ~Going(q, r)'
    BY <2>2, <1>5 DEF Going, Held
  <2> QED BY <2>1, <2>2
<1>7. \A r \in Records : Backed(r)' /\ Named(r)'
  BY <1>1, <1>6 DEF Backed, Named
<1> QED
  BY <1>4, <1>7

LEMMA DeleteStaleKeeps ==
    ASSUME RecordsInv, NEW w \in Workers, NEW r \in Records, DeleteStale(w, r) \/ DeleteRefused(w, r)
    PROVE  RecordsInv'
<1> USE DEF RecordsInv
<1> DEFINE p == [proc[w] EXCEPT !.stale = @ \ {r}]
<1>0. proc[w] \in Reconciling /\ r \in proc[w].stale /\ proc[w].stale \cap proc[w].wanted = {}
  BY DEF DeleteStale, DeleteRefused, RecordsTyped, Process, Idle, Pushing
<1>1. proc' = [proc EXCEPT ![w] = p] /\ Present' = Present /\ UNCHANGED <<rows, jobs>>
  BY PresentKept DEF DeleteStale, DeleteRefused, RecordsTyped
<1>2. Process(p)
  BY <1>0 DEF Process, Reconciling
<1>3. DOMAIN proc' = Workers /\ \A v \in Workers : Process(proc[v])'
  <2> HIDE DEF p
  <2> QED BY <1>1, <1>2, ProcessesKept
<1>4. RecordsTyped'
  BY <1>1, <1>3 DEF RecordsTyped, DeleteStale, DeleteRefused
<1>5. \A v \in Workers : proc'[v] = IF v = w THEN p ELSE proc[v]
  BY <1>1 DEF RecordsTyped
<1>6. p \in Reconciling /\ p.at = "reconcile" /\ p.owner = proc[w].owner /\ p.wanted = proc[w].wanted /\ p.stale = proc[w].stale \ {r}
  BY <1>0 DEF Reconciling
<1>7. \A q, x : Going(q, x)' <=> Going(q, x) \/ (q = proc[w].owner /\ x = r)
  <2> HIDE DEF p
  <2> SUFFICES ASSUME NEW q, NEW x
               PROVE  Going(q, x)' <=> Going(q, x) \/ (q = proc[w].owner /\ x = r)
    OBVIOUS
  <2>1. q = proc[w].owner /\ x = r => Going(q, x)'
    BY <1>5, <1>6, <1>0 DEF Going
  <2>2. Going(q, x) => Going(q, x)'
    BY <1>5, <1>6 DEF Going
  <2>3. ASSUME Going(q, x)', ~Going(q, x) PROVE q = proc[w].owner /\ x = r
    BY <1>5, <1>6, <1>0, <2>3 DEF Going, Reconciling
  <2> QED BY <2>1, <2>2, <2>3
<1>8. CASE DeleteStale(w, r)
  <2> DEFINE own == proc[w].owner
             seen == proc[w].seen
             kept == StillWanted(seen, own, r)
  <2>0. seen \subseteq Keys /\ own \in Owners
    BY <1>0 DEF Reconciling
  <2>1. ASSUME NEW x \in Records PROVE Backed(x)'
    <3>1. CASE kept \/ x # r
      <4>1. (provider'[x] = 0 => provider[x] = 0) /\ lost \subseteq lost'
        BY <1>8, <3>1 DEF DeleteStale, RecordsTyped
      <4> QED BY <4>1, <1>1, <1>7 DEF Backed
    <3>2. CASE ~kept /\ x = r
      <4>1. ASSUME NEW o \in Owners, rows[<<o, r>>].state = "good", r \notin lost' PROVE Going(o, r)'
        <5>1. <<o, r>> \in Present
          BY <4>1 DEF Present, Keys
        <5>2. o = own
          BY <1>8, <3>2, <4>1, <5>1 DEF DeleteStale, StillWanted
        <5> QED BY <5>2, <1>7
      <4> QED BY <4>1, <3>2, <1>1 DEF Backed
    <3> QED BY <3>1, <3>2
  <2>2. ASSUME NEW x \in Records PROVE Named(x)'
    <3>1. CASE x # r
      <4>1. provider'[x] = provider[x] /\ (x \notin leaked' => x \notin leaked)
        BY <1>8, <3>1 DEF DeleteStale, RecordsTyped
      <4> QED BY <4>1, <3>1, <1>1, <1>7 DEF Named
    <3>2. CASE x = r /\ ~kept
      <4>1. provider'[x] = 0
        BY <1>8, <3>2 DEF DeleteStale, RecordsTyped
      <4> QED BY <4>1 DEF Named
    <3>3. CASE x = r /\ kept
      <4> DEFINE going == {<<proc[v].owner, r>> :
                             v \in {v \in Workers : proc[v].at = "reconcile" /\ r \notin proc[v].wanted}}
      <4>1. SUFFICES ASSUME r \notin leaked'
                     PROVE  \E o \in Owners : <<o, r>> \in Present /\ ~Going(o, r)'
        BY <3>3, <1>1 DEF Named
      <4>2. PICK k \in seen \cap (Owners \X {r}) \cap Present : k \notin going
        BY <1>8, <3>3, <4>1 DEF DeleteStale
      <4>3. PICK o \in Owners : k = <<o, r>>
        BY <4>2
      <4>4. ~Going(o, r)
        BY <4>2, <4>3 DEF Going
      <4>5. o # own
        BY <4>2, <4>3, <1>0 DEF Reconciling
      <4> QED BY <4>2, <4>3, <4>4, <4>5, <1>7
    <3> QED BY <3>1, <3>2, <3>3
  <2> QED BY <1>4, <2>1, <2>2
<1>9. CASE DeleteRefused(w, r)
  <2>1. provider' = provider /\ lost' = lost /\ leaked' = leaked \cup {r}
    BY <1>9 DEF DeleteRefused
  <2>2. ASSUME NEW x \in Records PROVE Backed(x)' /\ Named(x)'
    BY <2>1, <1>1, <1>7 DEF Backed, Named
  <2> QED BY <1>4, <2>2
<1> QED
  BY <1>8, <1>9

LEMMA CommitKeeps ==
    ASSUME RecordsInv, NEW w \in Workers, Commit(w)
    PROVE  RecordsInv'
<1> USE DEF RecordsInv
<1> DEFINE own == proc[w].owner
           gone == Held(own) \ proc[w].wanted
           new == proc[w].wanted \ Held(own)
<1>0. proc[w] \in Reconciling /\ proc[w].stale = {}
  BY DEF Commit, RecordsTyped, Process, Idle, Pushing
<1>1. own \in Owners /\ proc[w].wanted \subseteq Records
  BY <1>0 DEF Reconciling
<1>2. \A k \in Keys : rows'[k] = IF k[1] # own THEN rows[k]
                                 ELSE IF k[2] \in gone THEN NoRow
                                 ELSE IF k[2] \in new THEN [state |-> "new", ttl |-> DefaultTtl]
                                 ELSE rows[k]
  BY DEF Commit
<1>3. rows' \in [Keys -> [state: States, ttl: Ttls \cup {0}]]
  BY DnsConstants DEF Commit, RecordsTyped, NoRow, States
<1>4. \A k \in Keys : k \in Present' <=> IF k[1] # own THEN k \in Present ELSE k[2] \in proc[w].wanted
  <2> SUFFICES ASSUME NEW k \in Keys
               PROVE  k \in Present' <=> IF k[1] # own THEN k \in Present ELSE k[2] \in proc[w].wanted
    OBVIOUS
  <2>1. k = <<k[1], k[2]>> /\ k[2] \in Records
    BY KeyPairs
  <2>2. k \in Present' <=> rows'[k].state # "none"
    BY DEF Present
  <2>3. k \in Present <=> rows[k].state # "none"
    BY DEF Present
  <2>4. k[1] = own => (k[2] \in Held(own) <=> k \in Present)
    BY <2>1 DEF Held
  <2>5. CASE k[1] # own
    BY <2>5, <2>2, <2>3, <1>2
  <2>6. CASE k[1] = own
    BY <2>6, <2>2, <2>3, <2>4, <1>2 DEF NoRow
  <2> QED BY <2>5, <2>6
<1>5. \A k \in Present' : rows'[k].ttl \in Ttls
  <2>1. ASSUME NEW k \in Keys, k \in Present' PROVE rows'[k].ttl \in Ttls
    <3>1. CASE k \in Present /\ rows'[k] = rows[k]
      BY <3>1 DEF RecordsTyped
    <3>2. CASE rows'[k] = [state |-> "new", ttl |-> DefaultTtl]
      BY <3>2, DnsConstants
    <3> QED BY <2>1, <1>2, <1>4, <3>1, <3>2 DEF Present, Held, NoRow
  <2> QED BY <2>1 DEF Present
<1>6. jobs' \subseteq Present'
  <2>1. ASSUME NEW k \in jobs' PROVE k \in Present'
    <3>1. CASE k \in {own} \X new
      BY <3>1, <1>1, <1>4 DEF Keys
    <3>2. CASE k \in jobs /\ k \notin {own} \X gone
      <4>1. k \in Present /\ k \in Keys
        BY <3>2 DEF RecordsTyped, Present
      <4> QED BY <3>2, <4>1, <1>4, <1>1 DEF Keys, Held
    <3> QED BY <2>1, <3>1, <3>2 DEF Commit
  <2> QED BY <2>1
<1>7. \A v \in Workers : proc'[v] = IF v = w THEN Idle ELSE Forgets(proc[v], own, gone)
  BY DEF Commit
<1>8. ASSUME NEW v \in Workers PROVE Process(proc[v])'
  <2>1. CASE v = w
    BY <2>1, <1>7 DEF Process
  <2>2. CASE v # w /\ proc[v] \in Pushing
    <3>1. proc[v].key \in Keys /\ (~proc[v].gone => proc[v].key \in Present)
      BY <2>2 DEF Pushing, RecordsTyped, Process, Idle, Reconciling
    <3>2. CASE proc[v].key[1] = own /\ proc[v].key[2] \in gone
      <4>1. proc'[v] = [proc[v] EXCEPT !.gone = TRUE]
        BY <2>2, <3>2, <1>7 DEF Forgets, Pushing
      <4>2. proc'[v] \in Pushing /\ proc'[v].gone
        BY <2>2, <4>1 DEF Pushing
      <4> QED BY <4>2 DEF Process
    <3>3. CASE ~(proc[v].key[1] = own /\ proc[v].key[2] \in gone)
      <4>1. proc'[v] = proc[v]
        BY <2>2, <3>3, <1>7 DEF Forgets
      <4>2. proc[v].key \in Present => proc[v].key \in Present'
        BY <3>1, <3>3, <1>4, <1>1 DEF Keys, Held
      <4> QED BY <2>2, <3>1, <4>1, <4>2 DEF Process
    <3> QED BY <3>2, <3>3
  <2>3. CASE v # w /\ proc[v] \notin Pushing
    <3>1. proc'[v] = proc[v]
      BY <2>3, <1>7 DEF Forgets, RecordsTyped, Process, Idle, Reconciling
    <3> QED BY <2>3, <3>1 DEF Process, RecordsTyped
  <2> QED BY <2>1, <2>2, <2>3
<1>9. RecordsTyped'
  BY <1>3, <1>5, <1>6, <1>8 DEF RecordsTyped, Commit
<1>10. ASSUME NEW o, NEW r PROVE Going(o, r) <=> Going(o, r)' \/ (o = own /\ r \notin proc[w].wanted)
  <2>1. ASSUME NEW v \in Workers, v # w
        PROVE  proc'[v].at = "reconcile" \/ proc[v].at = "reconcile" => proc'[v] = proc[v]
    BY <2>1, <1>7 DEF Forgets, RecordsTyped, Process, Idle, Reconciling, Pushing
  <2>2. proc'[w].at # "reconcile" /\ proc[w].at = "reconcile"
    BY <1>7 DEF Idle, Commit
  <2>3. ASSUME Going(o, r), ~Going(o, r)' PROVE o = own /\ r \notin proc[w].wanted
    BY <2>1, <2>2, <2>3 DEF Going
  <2>4. ASSUME Going(o, r)' PROVE Going(o, r)
    BY <2>1, <2>2, <2>4 DEF Going
  <2>5. o = own /\ r \notin proc[w].wanted => Going(o, r)
    BY <1>0, <2>2 DEF Going
  <2> QED BY <2>3, <2>4, <2>5
<1>11. UNCHANGED <<provider, lost, leaked>>
  BY DEF Commit
<1>12. ASSUME NEW r \in Records PROVE Backed(r)'
  <2>1. ASSUME NEW o \in Owners, rows'[<<o, r>>].state = "good"
        PROVE  rows[<<o, r>>].state = "good" /\ ~(o = own /\ r \notin proc[w].wanted)
    <3>1. <<o, r>> \in Keys /\ <<o, r>>[1] = o /\ <<o, r>>[2] = r
      BY KeyPairs
    <3>2. r \in Held(o) <=> rows[<<o, r>>].state # "none"
      BY <3>1 DEF Held, Present
    <3>3. CASE o # own
      BY <2>1, <3>1, <3>3, <1>2
    <3>4. CASE o = own
      BY <2>1, <3>1, <3>2, <3>4, <1>2 DEF NoRow
    <3> QED BY <3>3, <3>4
  <2> QED BY <2>1, <1>10, <1>11 DEF Backed
<1>13. ASSUME NEW r \in Records PROVE Named(r)'
  <2>1. ASSUME NEW o \in Owners, <<o, r>> \in Present, ~Going(o, r)
        PROVE  <<o, r>> \in Present' /\ ~Going(o, r)'
    BY <2>1, <1>4, <1>10 DEF Keys
  <2> QED BY <2>1, <1>11 DEF Named
<1> QED
  BY <1>9, <1>12, <1>13

LEMMA RollbackKeeps ==
    ASSUME RecordsInv, NEW w \in Workers, Rollback(w)
    PROVE  RecordsInv'
<1> USE DEF RecordsInv
<1>0. proc[w] \in Reconciling
  BY DEF Rollback, RecordsTyped, Process, Idle, Pushing
<1>1. proc' = [proc EXCEPT ![w] = Idle] /\ Present' = Present
  BY PresentKept DEF Rollback
<1>2. DOMAIN proc' = Workers /\ \A v \in Workers : Process(proc[v])'
  BY <1>1, ProcessesKept DEF Process
<1>3. RecordsTyped'
  BY <1>1, <1>2 DEF RecordsTyped, Rollback
<1>4. \A v \in Workers : proc'[v] = IF v = w THEN Idle ELSE proc[v]
  BY <1>1 DEF RecordsTyped
<1>5. ASSUME NEW o, NEW r
      PROVE  /\ Going(o, r)' => Going(o, r)
             /\ Going(o, r) /\ ~Going(o, r)' =>
                  o = proc[w].owner /\ r \notin proc[w].wanted \cup proc[w].stale
  <2>1. Going(o, r)' => Going(o, r)
    BY <1>4 DEF Going, Idle
  <2>2. Going(o, r) /\ ~Going(o, r)' => o = proc[w].owner /\ r \notin proc[w].wanted \cup proc[w].stale
    BY <1>4 DEF Going
  <2> QED BY <2>1, <2>2
<1>6. ASSUME NEW r \in Records PROVE Backed(r)'
  <2>1. SUFFICES ASSUME provider[r] = 0, r \notin lost', NEW o \in Owners, rows[<<o, r>>].state = "good",
                        ~Going(o, r)'
                 PROVE  FALSE
    BY DEF Backed, Rollback
  <2>2. r \notin lost
    BY <2>1 DEF Rollback
  <2>3. Going(o, r)
    BY <2>1, <2>2 DEF Backed
  <2>4. r \in Held(proc[w].owner) \ (proc[w].wanted \cup proc[w].stale)
    BY <2>1, <2>3, <1>5 DEF Held, Present, Keys
  <2> QED BY <2>1, <2>4 DEF Rollback
<1>7. ASSUME NEW r \in Records PROVE Named(r)'
  BY <1>1, <1>5 DEF Named, Rollback
<1> QED
  BY <1>3, <1>6, <1>7

LEMMA TakePushKeeps ==
    ASSUME RecordsInv, NEW w \in Workers, NEW key \in Keys, TakePush(w, key)
    PROVE  RecordsInv'
<1> USE DEF RecordsInv
<1> DEFINE p == [at |-> "push", key |-> key, ttl |-> rows[key].ttl, gone |-> FALSE]
<1>1. proc' = [proc EXCEPT ![w] = p] /\ Present' = Present /\ p.at # "reconcile" /\ proc[w].at # "reconcile"
  BY PresentKept DEF TakePush, Idle
<1>2. Process(p)
  BY DEF Process, TakePush, RecordsTyped, Pushing
<1> HIDE DEF p
<1>3. DOMAIN proc' = Workers /\ \A v \in Workers : Process(proc[v])'
  BY <1>1, <1>2, ProcessesKept
<1>4. RecordsTyped'
  BY <1>1, <1>3 DEF RecordsTyped, TakePush
<1>5. \A o, r : Going(o, r)' <=> Going(o, r)
  BY <1>1, ElsewhereGoing
<1> QED
  BY <1>1, <1>4, <1>5 DEF Backed, Named, TakePush

LEMMA FinishPushKeeps ==
    ASSUME RecordsInv, NEW w \in Workers, FinishPush(w)
    PROVE  RecordsInv'
<1> USE DEF RecordsInv
<1>0. PICK p \in Pushing : p = proc[w] /\ (~p.gone => p.key \in Present)
  BY DEF FinishPush, RecordsTyped, Process, Idle, Reconciling
<1> DEFINE r == p.key[2]
<1>1. p.key \in Keys /\ r \in Records /\ p.key = <<p.key[1], r>> /\ p.key[1] \in Owners /\ p.ttl \in Ttls
  BY <1>0, KeyPairs DEF Pushing
<1>2. rows' = (IF p.gone THEN rows ELSE [rows EXCEPT ![p.key].state = "good"]) /\ UNCHANGED jobs
  BY <1>0 DEF FinishPush
<1>3. \A k \in Keys : rows'[k] = IF ~p.gone /\ k = p.key THEN [rows[k] EXCEPT !.state = "good"] ELSE rows[k]
  BY <1>2 DEF RecordsTyped
<1>4. rows' \in [Keys -> [state: States, ttl: Ttls \cup {0}]]
  <2>1. [rows[p.key] EXCEPT !.state = "good"] \in [state: States, ttl: Ttls \cup {0}]
    BY <1>1 DEF RecordsTyped, States
  <2> QED BY <1>2, <1>1, <2>1 DEF RecordsTyped
<1>5. Present' = Present
  BY <1>3, <1>0, <1>1 DEF Present, RecordsTyped
<1>6. \A k \in Present : rows'[k].ttl = rows[k].ttl
  BY <1>3 DEF Present, RecordsTyped
<1>7. proc' = [proc EXCEPT ![w] = Idle]
  BY DEF FinishPush
<1>8. DOMAIN proc' = Workers /\ \A v \in Workers : Process(proc[v])'
  BY <1>7, <1>5, ProcessesKept DEF Process
<1>9. \A x \in Records : provider'[x] = IF x = r THEN p.ttl ELSE provider[x]
  BY <1>0 DEF FinishPush, Ensure, RecordsTyped
<1>10. RecordsTyped'
  BY <1>0, <1>2, <1>4, <1>5, <1>6, <1>8, <1>1 DEF RecordsTyped, FinishPush, Ensure
<1>11. \A o, x : Going(o, x)' <=> Going(o, x)
  BY <1>7, ElsewhereGoing DEF FinishPush, Idle
<1>12. p.ttl # 0
  BY <1>1, DnsConstants
<1>13. ASSUME NEW x \in Records, x # r PROVE Backed(x)' /\ Named(x)'
  <2>1. provider'[x] = provider[x] /\ (x \in lost' <=> x \in lost) /\ (x \in leaked' <=> x \in leaked)
    BY <1>0, <1>9, <1>13 DEF FinishPush
  <2>2. \A o \in Owners : rows'[<<o, x>>] = rows[<<o, x>>]
    <3>1. ASSUME NEW o \in Owners PROVE <<o, x>> \in Keys /\ <<o, x>> # p.key
      BY <1>13, <1>1, KeyPairs
    <3> QED BY <3>1, <1>3
  <2> QED BY <2>1, <2>2, <1>5, <1>11 DEF Backed, Named
<1>14. Backed(r)'
  BY <1>9, <1>12, <1>1 DEF Backed
<1>15. Named(r)'
  <2>1. SUFFICES ASSUME r \notin leaked' PROVE \E o \in Owners : <<o, r>> \in Present /\ ~Going(o, r)
    BY <1>1, <1>5, <1>11 DEF Named
  <2>2. ~Outlives(p)
    BY <1>0, <2>1 DEF FinishPush
  <2>3. p.key \in Present /\ ~Going(p.key[1], r)
    BY <2>2, <1>0 DEF Outlives, Going
  <2> QED BY <2>3, <1>1
<1> QED
  BY <1>10, <1>13, <1>14, <1>15

LEMMA PushFailsKeeps ==
    ASSUME RecordsInv, NEW w \in Workers, NEW deleted \in BOOLEAN, PushFails(w, deleted)
    PROVE  RecordsInv'
<1> USE DEF RecordsInv
<1> DEFINE r == proc[w].key[2]
<1>1. proc' = [proc EXCEPT ![w] = Idle] /\ Present' = Present /\ UNCHANGED <<rows, jobs, leaked>>
  BY PresentKept DEF PushFails
<1>2. DOMAIN proc' = Workers /\ \A v \in Workers : Process(proc[v])'
  BY <1>1, ProcessesKept DEF Process
<1>3. provider' \in [Records -> Ttls \cup {0}]
      /\ \A x \in Records : /\ provider'[x] # 0 => provider'[x] = provider[x]
                            /\ provider'[x] = 0 => provider[x] = 0 \/ x \in lost'
      /\ lost \subseteq lost'
  BY DEF PushFails, RecordsTyped
<1>4. RecordsTyped'
  BY <1>1, <1>2, <1>3 DEF RecordsTyped
<1>5. \A o, x : Going(o, x)' <=> Going(o, x)
  BY <1>1, ElsewhereGoing DEF PushFails, Idle
<1>6. ASSUME NEW x \in Records PROVE Backed(x)' /\ Named(x)'
  BY <1>1, <1>3, <1>5 DEF Backed, Named
<1> QED
  BY <1>4, <1>6

\* Changes of one row that stays.
LEMMA RowEditKeeps ==
    ASSUME RecordsInv, NEW key \in Keys,
           DailyCheck(key) \/ \E ttl \in Ttls : EditTtl(key, ttl)
    PROVE  RecordsInv'
<1> USE DEF RecordsInv
<1>1. key \in Present /\ UNCHANGED <<provider, proc, leaked>> /\ lost \subseteq lost'
  BY DEF DailyCheck, EditTtl
<1>2. /\ \A k \in Keys : k # key => rows'[k] = rows[k]
      /\ rows' \in [Keys -> [state: States, ttl: Ttls \cup {0}]]
      /\ rows'[key].state # "none" /\ rows'[key].ttl \in Ttls
      /\ rows'[key].state = "good" /\ rows[key].state # "good" /\ provider[key[2]] = 0 => key[2] \in lost'
  BY DEF DailyCheck, EditTtl, RecordsTyped, Present, States, Found
<1>3. Present' = Present
  BY <1>1, <1>2 DEF Present
<1>4. jobs' \subseteq Present
  BY <1>1 DEF DailyCheck, EditTtl, RecordsTyped
<1>5. \A w \in Workers : Process(proc[w])'
  BY <1>1, <1>3 DEF Process, RecordsTyped
<1>6. RecordsTyped'
  <2>1. \A k \in Present : rows'[k].ttl \in Ttls
    BY <1>2 DEF RecordsTyped, Present
  <2> QED BY <1>1, <1>2, <1>3, <1>4, <1>5, <2>1 DEF RecordsTyped
<1>7. \A o, x : Going(o, x)' <=> Going(o, x)
  BY <1>1 DEF Going
<1>8. ASSUME NEW x \in Records PROVE Backed(x)'
  <2>1. SUFFICES ASSUME provider[x] = 0, x \notin lost', NEW o \in Owners, rows'[<<o, x>>].state = "good"
                 PROVE  Going(o, x)
    BY <1>1, <1>7 DEF Backed
  <2>2. rows[<<o, x>>].state = "good"
    BY <2>1, <1>2 DEF Keys
  <2> QED BY <2>1, <2>2, <1>1 DEF Backed
<1>9. ASSUME NEW x \in Records PROVE Named(x)'
  BY <1>1, <1>3, <1>7 DEF Named
<1> QED
  BY <1>6, <1>8, <1>9

LEMMA SameRecords ==
    ASSUME RecordsInv, UNCHANGED <<rows, provider, proc, lost, leaked>>, RecordsTyped'
    PROVE  RecordsInv'
<1>1. Present' = Present
  BY PresentKept
<1>2. \A o, r : Going(o, r)' <=> Going(o, r)
  BY DEF Going
<1>3. ASSUME NEW r \in Records PROVE Backed(r)' /\ Named(r)'
  BY <1>1, <1>2 DEF RecordsInv, Backed, Named
<1> QED
  BY <1>3 DEF RecordsInv

LEMMA RecordsNext == RecordsInv /\ [Next]_vars => RecordsInv'
<1> SUFFICES ASSUME RecordsInv, [Next]_vars PROVE RecordsInv'
  OBVIOUS
<1>1. ASSUME NEW o \in Owners, Confirm(o) PROVE RecordsInv'
  <2>1. UNCHANGED <<rows, provider, proc, lost, leaked>> /\ Present' = Present
    BY <1>1, PresentKept DEF Confirm
  <2>2. jobs' \subseteq Present
    BY <1>1 DEF Confirm, Unconfirmed, RecordsInv, RecordsTyped
  <2>3. \A w \in Workers : Process(proc[w])'
    BY <2>1 DEF Process, RecordsTyped, RecordsInv
  <2>4. RecordsTyped'
    BY <2>1, <2>2, <2>3 DEF RecordsInv, RecordsTyped
  <2> QED BY <2>1, <2>4, SameRecords
<1>2. ASSUME Propagate \/ UNCHANGED vars PROVE RecordsInv'
  <2>1. UNCHANGED <<rows, provider, proc, lost, leaked, jobs>> /\ Present' = Present
    BY <1>2, PresentKept DEF Propagate, vars
  <2>2. \A w \in Workers : Process(proc[w])'
    BY <2>1 DEF Process, RecordsTyped, RecordsInv
  <2>3. RecordsTyped'
    BY <2>1, <2>2 DEF RecordsInv, RecordsTyped
  <2> QED BY <2>1, <2>3, SameRecords
<1> QED
  BY <1>1, <1>2, ReconcileKeeps, DeleteStaleKeeps, CommitKeeps, RollbackKeeps, TakePushKeeps,
     FinishPushKeeps, PushFailsKeeps, RowEditKeeps DEF Next

\* Once nothing is under way, a confirmed record is at the provider and the provider holds no record
\* without a row, outside the races that lost and leaked name (delete_from_provider), for any number of
\* owners that share records, workers, changes and faults.
THEOREM ProviderFollowsRows == Spec => []RecordsMatchRows
<1>1. Spec => []RecordsInv
  BY RecordsInit, RecordsNext, PTL DEF Spec
<1>2. RecordsInv => RecordsMatchRows
  <2> SUFFICES ASSUME RecordsInv, Quiet PROVE \A r \in Records :
                 /\ provider[r] = 0 /\ r \notin lost => \A o \in Owners : rows[<<o, r>>].state # "good"
                 /\ provider[r] # 0 /\ r \notin leaked => \E o \in Owners : <<o, r>> \in Present
    BY DEF RecordsMatchRows
  <2>1. \A o, r : ~Going(o, r)
    BY DEF Going, Quiet, Idle
  <2> QED BY <2>1 DEF RecordsInv, Backed, Named
<1> QED
  BY <1>1, <1>2, PTL

----------------------------------------------------------------------------
(* Site domains *)

\* A task took effect at Pilot and its process is to save it.
Pending(p) == acting[p].at \in {"primary", "remove"} /\ acting[p].task = "success"

\* An outcome was not saved, or cannot be.
Broken ==
    \/ parted
    \/ \E p \in Site!Processes : Pending(p) /\ ~acting[p].fresh
    \/ \E p, q \in Site!Processes : p # q /\ Pending(p) /\ Pending(q)

Removing(d) == \E p \in Site!Processes : Pending(p) /\ acting[p].at = "remove" /\ acting[p].dom = d

\* The primary domain is Pilot's, or the one that is to be saved.
PrimaryAgrees ==
    /\ primary # NoDomain => primary \in Site!Domains /\ row[primary].status = "Active"
    /\ \A p \in Site!Processes : Pending(p) /\ acting[p].at = "primary" => pprimary = acting[p].dom
    /\ (\A p \in Site!Processes : ~(Pending(p) /\ acting[p].at = "primary")) => pprimary = primary

\* The row of a domain agrees with Pilot; one with a task has to wait for its end.
Agrees(d) ==
    IF row[d].task
    THEN /\ row[d].status # "Active" /\ tasks[d] # "none"
         /\ d \in attached <=> tasks[d] = "success"
    ELSE /\ tasks[d] # "running"
         /\ d \in attached <=> row[d].status = "Active" /\ ~Removing(d)

\* What a process that can still save has read of the site.
Current(p) ==
    acting[p].fresh =>
        CASE acting[p].at = "attach" -> row[acting[p].dom].task
          [] acting[p].at \in {"primary", "https"} -> row[acting[p].dom].status = "Active"
          [] acting[p].at = "remove" -> row[acting[p].dom].status = "Active" /\ primary # acting[p].dom
          [] OTHER -> TRUE

AllCurrent == \A p \in Site!Processes : Current(p)

Sound == PrimaryAgrees /\ \A d \in Site!Domains : Agrees(d)

Rows == [status: {"none", "Pending", "Active", "Failed"}, token: Nat, old: BOOLEAN, task: BOOLEAN, skipped: BOOLEAN]

Acts == [at: Site!Kinds \cup {"idle", "https"}, dom: Site!Domains \cup {NoDomain}, fresh: BOOLEAN,
         task: Site!Tasks]

SiteTyped ==
    /\ row \in [Site!Domains -> Rows]
    /\ token \in [Site!Domains -> Nat]
    /\ primary \in Site!Domains \cup {NoDomain}
    /\ tasks \in [Site!Domains -> Site!Tasks]
    /\ attached \subseteq Site!Domains
    /\ acting \in [Site!Processes -> Acts]
    /\ \A p \in Site!Processes : acting[p].at # "idle" => acting[p].dom \in Site!Domains

SiteInv == SiteTyped /\ AllCurrent /\ (Broken \/ Sound)

LEMMA SiteInit == Site!Init => SiteInv
<1> SUFFICES ASSUME Site!Init PROVE SiteInv
  OBVIOUS
<1> USE DEF Site!Init
<1>1. \A p \in Site!Processes : acting[p] = Site!Idle /\ ~Pending(p)
  BY DEF Pending, Site!Idle
<1>2. SiteTyped
  BY <1>1 DEF SiteTyped, Rows, Acts, Site!NoRow, Site!Idle, Site!Tasks, Site!Ended, Site!Kinds
<1>3. PrimaryAgrees
  BY <1>1 DEF PrimaryAgrees
<1>4. \A d \in Site!Domains : Agrees(d)
  BY <1>1 DEF Agrees, Removing, Site!NoRow
<1>5. AllCurrent
  BY <1>1 DEF AllCurrent, Current, Site!Idle
<1> QED
  BY <1>2, <1>3, <1>4, <1>5 DEF SiteInv, Sound

\* What a process and the others have after a move.
LEMMA MovesDo ==
    ASSUME SiteTyped, NEW p \in Site!Processes, NEW at \in {"idle", "https"} \cup Site!Kinds,
           NEW d \in Site!Domains, NEW saved \in BOOLEAN, Site!Moves(p, at, d, saved)
    PROVE  /\ acting' \in [Site!Processes -> Acts]
           /\ \A q \in Site!Processes : acting'[q].at # "idle" => acting'[q].dom \in Site!Domains
           /\ at = "idle" => acting'[p] = Site!Idle
           /\ at # "idle" => acting'[p] = [at |-> at, dom |-> d, fresh |-> TRUE,
                                           task |-> IF at = "https" THEN "none" ELSE "running"]
           /\ ~Pending(p)'
           /\ \A q \in Site!Processes \ {p} :
                acting'[q] = IF saved THEN [acting[q] EXCEPT !.fresh = FALSE] ELSE acting[q]
           /\ \A q \in Site!Processes \ {p} : Pending(q)' <=> Pending(q)
<1> USE DEF SiteTyped
<1>1. acting'[p] = IF at = "idle" THEN Site!Idle
                   ELSE [at |-> at, dom |-> d, fresh |-> TRUE, task |-> IF at = "https" THEN "none" ELSE "running"]
  BY DEF Site!Moves
<1>2. \A q \in Site!Processes \ {p} : acting'[q] = IF saved THEN [acting[q] EXCEPT !.fresh = FALSE] ELSE acting[q]
  BY DEF Site!Moves
<1>3. acting'[p] \in Acts /\ (acting'[p].at # "idle" => acting'[p].dom \in Site!Domains)
  BY <1>1 DEF Acts, Site!Idle, Site!Tasks
<1>4. ASSUME NEW q \in Site!Processes \ {p}
      PROVE  /\ acting'[q] \in Acts /\ acting'[q].at = acting[q].at /\ acting'[q].dom = acting[q].dom
             /\ acting'[q].task = acting[q].task
  <2>1. acting[q] \in Acts
    OBVIOUS
  <2> QED BY <1>2, <2>1 DEF Acts
<1>5. acting' = [q \in Site!Processes |-> acting'[q]]
  BY DEF Site!Moves
<1>6. acting' \in [Site!Processes -> Acts]
  BY <1>3, <1>4, <1>5
<1>7. ~Pending(p)'
  BY <1>1 DEF Pending, Site!Idle
<1>8. \A q \in Site!Processes \ {p} : Pending(q)' <=> Pending(q)
  BY <1>4 DEF Pending
<1>9. \A q \in Site!Processes : acting'[q].at # "idle" => acting'[q].dom \in Site!Domains
  BY <1>3, <1>4
<1> QED
  BY <1>1, <1>2, <1>6, <1>7, <1>8, <1>9

\* A save makes the others stale, so what they read no longer matters.
LEMMA MovesCurrent ==
    ASSUME SiteTyped, AllCurrent, NEW p \in Site!Processes, NEW at \in {"idle", "https"} \cup Site!Kinds,
           NEW d \in Site!Domains, NEW saved \in BOOLEAN, Site!Moves(p, at, d, saved),
           ~saved => UNCHANGED <<row, primary>>,
           at = "attach" => row'[d].task,
           at \in {"https", "primary", "remove"} => row'[d].status = "Active",
           at = "remove" => primary' # d
    PROVE  AllCurrent'
<1>1. acting'[p] = IF at = "idle" THEN Site!Idle
                   ELSE [at |-> at, dom |-> d, fresh |-> TRUE, task |-> IF at = "https" THEN "none" ELSE "running"]
  BY DEF Site!Moves
<1>2. Current(p)'
  BY <1>1 DEF Current, Site!Idle, Site!Kinds
<1>3. ASSUME NEW q \in Site!Processes \ {p} PROVE Current(q)'
  <2>1. acting'[q] = IF saved THEN [acting[q] EXCEPT !.fresh = FALSE] ELSE acting[q]
    BY DEF Site!Moves
  <2>2. CASE saved
    <3>1. ~acting'[q].fresh
      BY <2>1, <2>2 DEF SiteTyped, Acts
    <3> QED BY <3>1 DEF Current
  <2>3. CASE ~saved
    BY <2>1, <2>3 DEF AllCurrent, Current
  <2> QED BY <2>2, <2>3
<1> QED
  BY <1>2, <1>3 DEF AllCurrent

\* A save leaves the others' outcomes unsaved.
LEMMA SavesBreak ==
    ASSUME SiteTyped, ~Broken', NEW p \in Site!Processes, NEW at \in {"idle", "https"} \cup Site!Kinds,
           NEW d \in Site!Domains, Site!Moves(p, at, d, TRUE)
    PROVE  /\ \A q \in Site!Processes \ {p} : ~Pending(q)
           /\ \A q \in Site!Processes \ {p} : ~acting'[q].fresh
           /\ \A q \in Site!Processes : ~Pending(q)'
<1>0. \A q \in Site!Processes \ {p} :
        acting'[q] = IF TRUE THEN [acting[q] EXCEPT !.fresh = FALSE] ELSE acting[q]
  BY DEF Site!Moves
<1>1. \A q \in Site!Processes \ {p} : ~acting'[q].fresh
  BY <1>0 DEF SiteTyped, Acts
<1>2. \A q \in Site!Processes \ {p} : Pending(q)' <=> Pending(q)
  BY MovesDo
<1>3. ~Pending(p)'
  BY MovesDo
<1> QED
  BY <1>1, <1>2, <1>3 DEF Broken

\* Once broken, always broken: a process that does not move keeps its outcome, and one that ends without
\* saving it leaves its mark.
LEMMA StaysBroken ==
    ASSUME SiteTyped, Broken, parted => parted',
           \A p \in Site!Processes : Pending(p) /\ ~acting[p].fresh => parted' \/ (Pending(p)' /\ ~acting'[p].fresh),
           \A p \in Site!Processes : Pending(p) /\ acting[p].fresh /\ ~Pending(p)' =>
             \A q \in Site!Processes \ {p} : Pending(q) => Pending(q)' /\ ~acting'[q].fresh
    PROVE  Broken'
<1>1. CASE parted
  BY <1>1 DEF Broken
<1>2. CASE \E p \in Site!Processes : Pending(p) /\ ~acting[p].fresh
  BY <1>2 DEF Broken
<1>3. CASE \E p, q \in Site!Processes : p # q /\ Pending(p) /\ Pending(q)
  <2>1. PICK p \in Site!Processes, q \in Site!Processes : p # q /\ Pending(p) /\ Pending(q)
    BY <1>3
  <2>2. CASE ~acting[p].fresh \/ ~acting[q].fresh
    BY <2>1, <2>2 DEF Broken
  <2>3. CASE acting[p].fresh /\ acting[q].fresh
    <3>1. CASE Pending(p)' /\ Pending(q)'
      BY <2>1, <3>1 DEF Broken
    <3>2. CASE ~Pending(p)'
      BY <2>1, <2>3, <3>2 DEF Broken
    <3>3. CASE ~Pending(q)'
      BY <2>1, <2>3, <3>3 DEF Broken
    <3> QED BY <3>1, <3>2, <3>3
  <2> QED BY <2>2, <2>3
<1> QED
  BY <1>1, <1>2, <1>3 DEF Broken

\* A move of a process that has nothing to save leaves what is broken so.
LEMMA MovesStayBroken ==
    ASSUME SiteTyped, Broken, parted => parted', NEW p \in Site!Processes,
           NEW at \in {"idle", "https"} \cup Site!Kinds, NEW d \in Site!Domains, NEW saved \in BOOLEAN,
           Site!Moves(p, at, d, saved), ~Pending(p) \/ (saved /\ acting[p].fresh)
    PROVE  Broken'
<1>0. \A q \in Site!Processes \ {p} :
        acting'[q] = IF saved THEN [acting[q] EXCEPT !.fresh = FALSE] ELSE acting[q]
  BY DEF Site!Moves
<1>1. \A q \in Site!Processes \ {p} : Pending(q)' <=> Pending(q)
  BY MovesDo
<1>2. \A q \in Site!Processes \ {p} : (acting'[q].fresh => acting[q].fresh) /\ (saved => ~acting'[q].fresh)
  BY <1>0 DEF SiteTyped, Acts
<1> QED
  BY <1>1, <1>2, StaysBroken

\* The row that a save writes fits what Pilot has, when no outcome is to be saved.
Fits(d, r) ==
    IF r.task
    THEN r.status # "Active" /\ tasks'[d] # "none" /\ (d \in attached <=> tasks'[d] = "success")
    ELSE tasks'[d] # "running" /\ (d \in attached <=> r.status = "Active")

LEMMA SetRowKeeps ==
    ASSUME SiteTyped, Sound, ~Broken', NEW p \in Site!Processes, ~Pending(p),
           NEW at \in {"idle", "https", "attach"}, NEW d \in Site!Domains, NEW r \in Rows,
           Site!SetRow(p, at, d, r), UNCHANGED <<attached, pprimary>>,
           \A x \in Site!Domains : x # d \/ r = row[d] => tasks'[x] = tasks[x],
           (\A q \in Site!Processes : ~Pending(q)) => Fits(d, r),
           row[d].status = "Active" => r.status = "Active" \/ primary # d
    PROVE  Sound'
<1> USE DEF SiteTyped
<1>1. row' = [row EXCEPT ![d] = r] /\ primary' = primary /\ Site!Moves(p, at, d, row[d] # r)
  BY DEF Site!SetRow
<1>2. at \in {"idle", "https"} \cup Site!Kinds
  BY DEF Site!Kinds
<1>3. acting'[p] = IF at = "idle" THEN Site!Idle
                   ELSE [at |-> at, dom |-> d, fresh |-> TRUE, task |-> IF at = "https" THEN "none" ELSE "running"]
  BY <1>1 DEF Site!Moves
<1>5. CASE row[d] # r
  <2>0. Site!Moves(p, at, d, TRUE)
    BY <1>1, <1>5
  <2>1. /\ \A q \in Site!Processes : ~Pending(q)
        /\ \A q \in Site!Processes \ {p} : ~acting'[q].fresh
        /\ \A q \in Site!Processes : ~Pending(q)'
    BY <2>0, <1>2, SavesBreak
  <2>2. PrimaryAgrees'
    BY <1>1, <2>1 DEF Sound, PrimaryAgrees
  <2>3. ASSUME NEW x \in Site!Domains PROVE Agrees(x)'
    <3>1. ~Removing(x) /\ ~Removing(x)'
      BY <2>1 DEF Removing
    <3>2. CASE x = d
      BY <1>1, <2>1, <3>1, <3>2 DEF Agrees, Fits
    <3>3. CASE x # d
      BY <1>1, <3>1, <3>3 DEF Sound, Agrees
    <3> QED BY <3>2, <3>3
  <2> QED BY <2>2, <2>3 DEF Sound
<1>6. CASE row[d] = r
  <2>0. Site!Moves(p, at, d, FALSE)
    BY <1>1, <1>6
  <2>1. \A q \in Site!Processes \ {p} : acting'[q] = acting[q]
    BY <2>0 DEF Site!Moves
  <2>2. row' = row
    BY <1>1, <1>6
  <2>3. ~Pending(p)' /\ \A q \in Site!Processes : Pending(q)' <=> Pending(q)
    BY <1>3, <2>1 DEF Pending, Site!Idle
  <2>4. \A q \in Site!Processes : Pending(q) => acting'[q] = acting[q]
    BY <2>1
  <2>5. PrimaryAgrees'
    BY <1>1, <2>2, <2>3, <2>4 DEF Sound, PrimaryAgrees
  <2>6. ASSUME NEW x \in Site!Domains PROVE Agrees(x)'
    <3>1. Removing(x)' <=> Removing(x)
      BY <2>3, <2>4 DEF Removing
    <3> QED BY <2>2, <3>1, <1>6 DEF Sound, Agrees
  <2> QED BY <2>5, <2>6 DEF Sound
<1> QED
  BY <1>5, <1>6

\* One process goes on; the site is not written, and no outcome comes or goes.
LEMMA ProcessKeeps ==
    ASSUME SiteTyped, Sound, UNCHANGED <<row, primary, pprimary>>, NEW p \in Site!Processes,
           ~Pending(p), ~Pending(p)',
           \A q \in Site!Processes \ {p} : acting'[q] = acting[q],
           \A x \in Site!Domains : Agrees(x) =>
             IF row[x].task THEN tasks'[x] # "none" /\ (x \in attached' <=> tasks'[x] = "success")
             ELSE tasks'[x] = tasks[x] /\ (x \in attached' <=> x \in attached)
    PROVE  Sound'
<1>1. \A q \in Site!Processes : (Pending(q)' <=> Pending(q)) /\ (Pending(q) => acting'[q] = acting[q])
  BY DEF Pending
<1>2. PrimaryAgrees'
  BY <1>1 DEF Sound, PrimaryAgrees
<1>3. ASSUME NEW x \in Site!Domains PROVE Agrees(x)'
  <2>1. Removing(x)' <=> Removing(x)
    BY <1>1 DEF Removing
  <2> QED BY <2>1 DEF Sound, Agrees
<1> QED
  BY <1>2, <1>3 DEF Sound

\* A step that sets one row; what the save needs is asked for only while nothing is broken.
LEMMA SetRowStep ==
    ASSUME SiteInv, NEW p \in Site!Processes, ~Pending(p),
           NEW at \in {"idle", "https", "attach"}, NEW d \in Site!Domains, NEW r \in Rows,
           Site!SetRow(p, at, d, r), UNCHANGED <<attached, pprimary, token>>, parted => parted',
           tasks' \in [Site!Domains -> Site!Tasks],
           \A x \in Site!Domains : x # d \/ r = row[d] => tasks'[x] = tasks[x],
           at = "attach" => r.task,
           at = "https" => r.status = "Active",
           Sound /\ ~Broken' =>
             /\ (\A q \in Site!Processes : ~Pending(q)) => Fits(d, r)
             /\ row[d].status = "Active" => r.status = "Active" \/ primary # d
    PROVE  SiteInv'
<1> USE DEF SiteInv
<1>1. row' = [row EXCEPT ![d] = r] /\ primary' = primary /\ Site!Moves(p, at, d, row[d] # r)
  BY DEF Site!SetRow
<1>2. at \in {"idle", "https"} \cup Site!Kinds /\ (row[d] # r) \in BOOLEAN
  BY DEF Site!Kinds
<1>3. /\ acting' \in [Site!Processes -> Acts]
      /\ \A q \in Site!Processes : acting'[q].at # "idle" => acting'[q].dom \in Site!Domains
  BY <1>1, <1>2, MovesDo
<1>4. SiteTyped'
  BY <1>1, <1>3 DEF SiteTyped
<1>5. Broken => Broken'
  BY <1>1, <1>2, MovesStayBroken
<1>6. ASSUME ~Broken' PROVE Sound'
  <2>1. Sound
    BY <1>5, <1>6
  <2> QED BY <1>6, <2>1, SetRowKeeps
<1>7. row'[d] = r /\ (row[d] = r => row' = row) /\ at \notin {"primary", "remove"}
  BY <1>1 DEF SiteTyped
<1>8. AllCurrent'
  BY <1>1, <1>2, <1>7, MovesCurrent
<1> QED
  BY <1>4, <1>6, <1>8

\* A step that only starts a wait, or ends one.
LEMMA KeepsStep ==
    ASSUME SiteInv, NEW p \in Site!Processes, ~Pending(p),
           NEW at \in {"idle", "https"} \cup Site!Kinds, NEW d \in Site!Domains,
           Site!Keeps(p, at, d), UNCHANGED <<attached, pprimary, token, tasks>>, parted => parted',
           at # "attach",
           at # "idle" => row[d].status = "Active",
           at = "remove" => primary # d
    PROVE  SiteInv'
<1> USE DEF SiteInv
<1>1. row' = row /\ primary' = primary /\ Site!Moves(p, at, d, FALSE)
  BY DEF Site!Keeps
<1>2. /\ acting' \in [Site!Processes -> Acts]
      /\ \A q \in Site!Processes : acting'[q].at # "idle" => acting'[q].dom \in Site!Domains
      /\ ~Pending(p)'
  BY <1>1, MovesDo
<1>3. SiteTyped'
  BY <1>1, <1>2 DEF SiteTyped
<1>4. Broken => Broken'
  BY <1>1, MovesStayBroken
<1>6. AllCurrent'
  BY <1>1, MovesCurrent
<1>7. \A q \in Site!Processes \ {p} : acting'[q] = acting[q]
  BY <1>1 DEF Site!Moves
<1>8. Sound => Sound'
  BY <1>1, <1>2, <1>7, ProcessKeeps DEF Agrees
<1> QED
  BY <1>3, <1>4, <1>6, <1>8

LEMMA FetchedRow ==
    ASSUME SiteTyped, NEW d \in Site!Domains
    PROVE  /\ Site!Fetched(d) \in Rows /\ Site!Fetched(d).status = row[d].status
           /\ Site!Fetched(d).task = row[d].task
<1>1. row[d] \in Rows /\ token[d] \in Nat
  BY DEF SiteTyped
<1> QED
  BY <1>1 DEF Site!Fetched, Rows

LEMMA AttachStep ==
    ASSUME SiteInv, NEW p \in Site!Processes, ~Pending(p), NEW d \in Site!Domains, NEW r \in Rows,
           r.task = row[d].task, r.status = "Active" <=> row[d].status = "Active",
           NEW after \in {"idle", "https"}, Site!Attach(p, d, r, after),
           UNCHANGED <<attached, pprimary, token, parted>>
    PROVE  SiteInv'
<1> USE DEF SiteInv
<1>0. tasks \in [Site!Domains -> Site!Tasks]
  BY DEF SiteTyped
<1>1. CASE r.task /\ Site!SetRow(p, "attach", d, r) /\ UNCHANGED tasks
  <2>1. Sound /\ (\A q \in Site!Processes : ~Pending(q)) => Fits(d, r)
    BY <1>1 DEF Sound, Agrees, Fits
  <2> QED BY <1>0, <1>1, <2>1, SetRowStep
<1>2. CASE ~r.task /\ d \in attached /\ Site!SetRow(p, after, d, [r EXCEPT !.status = "Active"]) /\ UNCHANGED tasks
  <2> DEFINE new == [r EXCEPT !.status = "Active"]
  <2>1. new \in Rows /\ new.status = "Active" /\ ~new.task
    BY <1>2 DEF Rows
  <2>2. Sound => Fits(d, new)
    BY <1>2, <2>1 DEF Sound, Agrees, Fits
  <2>3. Site!SetRow(p, after, d, new)
    BY <1>2
  <2> HIDE DEF new
  <2> QED BY <1>0, <1>2, <2>1, <2>2, <2>3, SetRowStep
<1>3. CASE ~r.task /\ d \notin attached /\ Site!SetRow(p, "idle", d, r) /\ UNCHANGED tasks
  <2>1. Sound /\ (\A q \in Site!Processes : ~Pending(q)) => Fits(d, r)
    BY <1>3 DEF Sound, Agrees, Fits, Removing
  <2> QED BY <1>0, <1>3, <2>1, SetRowStep
<1>4. CASE ~r.task /\ d \notin attached /\ Site!SetRow(p, "attach", d, [r EXCEPT !.task = TRUE])
           /\ tasks' = [tasks EXCEPT ![d] = "running"]
  <2> DEFINE new == [r EXCEPT !.task = TRUE]
  <2>1. new \in Rows /\ new.status = r.status /\ new.task /\ new # row[d]
    BY <1>4 DEF Rows
  <2>2. tasks' \in [Site!Domains -> Site!Tasks] /\ tasks'[d] = "running"
        /\ \A x \in Site!Domains : x # d => tasks'[x] = tasks[x]
    BY <1>0, <1>4 DEF Site!Tasks
  <2>3. Sound /\ (\A q \in Site!Processes : ~Pending(q)) => Fits(d, new)
    BY <1>4, <2>1, <2>2 DEF Sound, Agrees, Fits, Removing
  <2>4. Site!SetRow(p, "attach", d, new)
    BY <1>4
  <2> HIDE DEF new
  <2> QED BY <2>1, <2>2, <2>3, <2>4, SetRowStep
<1> QED
  BY <1>1, <1>2, <1>3, <1>4 DEF Site!Attach

LEMMA EnsureKeeps ==
    ASSUME SiteInv, Site!Ensure
    PROVE  SiteInv'
<1> DEFINE old == Site!Fetched(Own)
           r == IF row[Own].status = "none" THEN [old EXCEPT !.status = "Pending"] ELSE old
<1>0. Poller \in Site!Processes /\ Own \in Site!Domains /\ ~Pending(Poller)
  BY DEF Site!Processes, Site!Domains, Site!Ensure, Pending, Site!Idle
<1>1. old \in Rows /\ old.status = row[Own].status /\ old.task = row[Own].task
  BY <1>0, FetchedRow DEF SiteInv
<1>2. r \in Rows /\ r.task = row[Own].task /\ (r.status = "Active" <=> row[Own].status = "Active")
  BY <1>1 DEF Rows
<1>3. Site!Onward \in {"idle", "https"}
  BY DEF Site!Onward
<1>4. UNCHANGED <<attached, pprimary, token, parted>>
  BY DEF Site!Ensure
<1>5. CASE row[Own].status = "Active" /\ Site!Keeps(Poller, Site!Onward, Own) /\ UNCHANGED tasks
  BY <1>0, <1>3, <1>4, <1>5, KeepsStep
<1>6. CASE Site!SetRow(Poller, "idle", Own, r) /\ UNCHANGED tasks /\ row[Own].status # "Active"
  <2>1. Sound => Fits(Own, r)
    BY <1>0, <1>2, <1>6 DEF Sound, Agrees, Fits
  <2>2. tasks' \in [Site!Domains -> Site!Tasks]
    BY <1>6 DEF SiteInv, SiteTyped
  <2> HIDE DEF r
  <2> QED BY <1>0, <1>2, <1>4, <1>6, <2>1, <2>2, SetRowStep
<1>7. CASE Site!Attach(Poller, Own, r, Site!Onward)
  <2> HIDE DEF r
  <2> QED BY <1>0, <1>2, <1>3, <1>4, <1>7, AttachStep
<1> QED
  BY <1>5, <1>6, <1>7 DEF Site!Ensure

LEMMA SkipPrimaryKeeps ==
    ASSUME SiteInv, Site!SkipPrimary
    PROVE  SiteInv'
<1> DEFINE r == [row[Own] EXCEPT !.skipped = TRUE]
<1>0. Poller \in Site!Processes /\ Own \in Site!Domains /\ ~Pending(Poller)
  BY DEF Site!Processes, Site!Domains, Site!SkipPrimary, Pending
<1>1. r \in Rows /\ r.task = row[Own].task /\ r.status = row[Own].status
  BY <1>0 DEF SiteInv, SiteTyped, Rows
<1>2. Site!SetRow(Poller, "idle", Own, r) /\ UNCHANGED <<attached, pprimary, token, parted, tasks>>
  BY DEF Site!SkipPrimary
<1>3. Sound /\ (\A q \in Site!Processes : ~Pending(q)) => Fits(Own, r)
  BY <1>0, <1>1, <1>2 DEF Sound, Agrees, Fits, Removing
<1>4. tasks' \in [Site!Domains -> Site!Tasks]
  BY <1>2 DEF SiteInv, SiteTyped
<1> HIDE DEF r
<1> QED BY <1>0, <1>1, <1>2, <1>3, <1>4, SetRowStep

LEMMA OperatesKeeps ==
    ASSUME SiteInv, NEW p \in Operators, NEW d \in Site!Domains, Site!Operates(p, d)
    PROVE  SiteInv'
<1>0. p \in Site!Processes /\ ~Pending(p)
  BY DEF Site!Processes, Site!Operates, Site!AddDomain, Site!VerifyDomain, Site!MakePrimary, Site!RemoveDomain,
         Site!Asked, Pending, Site!Idle
<1>1. tasks \in [Site!Domains -> Site!Tasks]
  BY DEF SiteInv, SiteTyped
<1>2. Site!Fetched(d) \in Rows /\ Site!Fetched(d).status = row[d].status /\ Site!Fetched(d).task = row[d].task
  BY FetchedRow DEF SiteInv
<1>3. CASE Site!AddDomain(p, d)
  <2> DEFINE r == [Site!Fetched(d) EXCEPT !.status = "Pending"]
  <2>1. r \in Rows /\ r.task = row[d].task /\ r.status = "Pending"
    BY <1>2 DEF Rows
  <2>2. /\ Site!SetRow(p, "idle", d, r) /\ row[d].status = "none"
        /\ UNCHANGED <<attached, pprimary, token, parted, tasks>>
    BY <1>3 DEF Site!AddDomain
  <2>3. Sound => Fits(d, r)
    BY <2>1, <2>2 DEF Sound, Agrees, Fits
  <2> HIDE DEF r
  <2> QED BY <1>0, <1>1, <2>1, <2>2, <2>3, SetRowStep
<1>4. CASE Site!VerifyDomain(p, d)
  <2>1. Site!Attach(p, d, Site!Fetched(d), "idle") /\ UNCHANGED <<attached, pprimary, token, parted>>
    BY <1>4 DEF Site!VerifyDomain
  <2> QED BY <1>0, <1>2, <2>1, AttachStep
<1>5. CASE Site!MakePrimary(p, d)
  <2>1. /\ Site!Keeps(p, "primary", d) /\ row[d].status = "Active"
        /\ UNCHANGED <<attached, pprimary, token, parted, tasks>>
    BY <1>5 DEF Site!MakePrimary
  <2>2. "primary" \in Site!Kinds
    BY DEF Site!Kinds
  <2> QED BY <1>0, <2>1, <2>2, KeepsStep
<1>6. CASE Site!RemoveDomain(p, d) /\ row[d].status = "Active"
  <2>1. /\ Site!Keeps(p, "remove", d) /\ primary # d
        /\ UNCHANGED <<attached, pprimary, token, parted, tasks>>
    BY <1>6 DEF Site!RemoveDomain, Site!Removable
  <2>2. "remove" \in Site!Kinds
    BY DEF Site!Kinds
  <2> QED BY <1>0, <1>6, <2>1, <2>2, KeepsStep
<1>7. CASE Site!RemoveDomain(p, d) /\ row[d].status # "Active"
  <2> DEFINE r == Site!NoRow
  <2>1. r \in Rows /\ ~r.task /\ r.status = "none"
    BY DEF Rows, Site!NoRow
  <2>2. /\ Site!SetRow(p, "idle", d, r) /\ (parted => parted') /\ (row[d].task => parted')
        /\ UNCHANGED <<attached, pprimary, token, tasks>>
    BY <1>7 DEF Site!RemoveDomain
  <2>3. Sound /\ ~Broken' => Fits(d, r)
    BY <1>7, <2>1, <2>2 DEF Sound, Agrees, Fits, Broken
  <2> HIDE DEF r
  <2> QED BY <1>0, <1>1, <1>7, <2>1, <2>2, <2>3, SetRowStep
<1> QED
  BY <1>3, <1>4, <1>5, <1>6, <1>7 DEF Site!Operates

LEMMA CollectKeeps ==
    ASSUME SiteInv, NEW p \in Site!Processes, Site!Collect(p)
    PROVE  SiteInv'
<1>0. PICK d \in Site!Domains : d = acting[p].dom
  BY DEF SiteInv, SiteTyped, Site!Collect, Site!Kinds
<1>1. tasks \in [Site!Domains -> Site!Tasks] /\ row \in [Site!Domains -> Rows] /\ row[d] \in Rows
  BY DEF SiteInv, SiteTyped
<1>2. UNCHANGED <<attached, pprimary, token, parted, tasks>> /\ acting[p].fresh
  BY DEF Site!Collect
<1>3. Current(p) /\ (Sound => Agrees(d))
  BY DEF SiteInv, AllCurrent, Sound
<1>4. CASE acting[p].at = "attach"
  <2> DEFINE r == [row[d] EXCEPT !.status = "Active", !.task = FALSE]
             at == IF p = Poller THEN Site!Onward ELSE "idle"
  <2>1. r \in Rows /\ ~r.task /\ r.status = "Active"
    BY <1>1 DEF Rows
  <2>2. Site!SetRow(p, at, d, r) /\ tasks[d] = "success"
    BY <1>0, <1>4 DEF Site!Collect, Site!TaskOf
  <2>3. at \in {"idle", "https"} /\ ~Pending(p)
    BY <1>4 DEF Site!Onward, Pending
  <2>4. Sound => Fits(d, r)
    BY <1>0, <1>2, <1>3, <1>4, <2>1, <2>2 DEF Current, Agrees, Fits
  <2> HIDE DEF r, at
  <2> QED BY <1>1, <1>2, <2>1, <2>2, <2>3, <2>4, SetRowStep
<1>5. ASSUME acting[p].at \in {"primary", "remove"}, Site!Moves(p, "idle", d, TRUE),
             row' \in [Site!Domains -> Rows], primary' \in Site!Domains \cup {NoDomain},
             Sound /\ ~Broken /\ ~Broken' => PrimaryAgrees' /\ \A x \in Site!Domains : Agrees(x)'
      PROVE  SiteInv'
  <2>1. /\ acting' \in [Site!Processes -> Acts]
        /\ \A q \in Site!Processes : acting'[q].at # "idle" => acting'[q].dom \in Site!Domains
    BY <1>5, MovesDo DEF SiteInv
  <2>2. SiteTyped'
    BY <1>2, <1>5, <2>1 DEF SiteInv, SiteTyped
  <2>3. Broken => Broken'
    BY <1>2, <1>5, MovesStayBroken DEF SiteInv
  <2>5. AllCurrent'
    BY <1>5, MovesCurrent DEF SiteInv
  <2> QED BY <1>5, <2>2, <2>3, <2>5 DEF SiteInv, Sound
<1>6. ASSUME acting[p].at \in {"primary", "remove"}, Site!Moves(p, "idle", d, TRUE), ~Broken, ~Broken'
      PROVE  /\ Pending(p) /\ \A q \in Site!Processes : Pending(q) => q = p
             /\ \A q \in Site!Processes : ~Pending(q)'
             /\ \A x \in Site!Domains : ~Removing(x)' /\ (Removing(x) <=> acting[p].at = "remove" /\ x = d)
  <2>1. Pending(p)
    BY <1>6 DEF Pending, Site!Collect, Site!TaskOf
  <2>2. \A q \in Site!Processes : ~Pending(q)'
    BY <1>6, SavesBreak DEF SiteInv
  <2>3. \A q \in Site!Processes : Pending(q) => q = p
    BY <1>6, <2>1 DEF Broken
  <2> QED BY <1>0, <2>1, <2>2, <2>3 DEF Removing
<1>7. CASE acting[p].at = "remove"
  <2>1. Site!SetRow(p, "idle", d, Site!NoRow)
    BY <1>0, <1>7 DEF Site!Collect
  <2>2. row' = [row EXCEPT ![d] = Site!NoRow] /\ primary' = primary /\ Site!NoRow \in Rows
        /\ Site!Moves(p, "idle", d, row[d] # Site!NoRow)
    BY <2>1 DEF Site!SetRow, Rows, Site!NoRow
  <2>3. row[d].status = "Active" /\ primary # d /\ row[d] # Site!NoRow
    BY <1>0, <1>2, <1>3, <1>7 DEF Current, Site!NoRow
  <2>4. Site!Moves(p, "idle", d, TRUE)
    BY <2>2, <2>3
  <2>5. ASSUME Sound, ~Broken, ~Broken' PROVE PrimaryAgrees' /\ \A x \in Site!Domains : Agrees(x)'
    <3>1. row[d].status = "Active" /\ primary # d /\ ~row[d].task
      BY <1>3, <2>3, <2>5 DEF Agrees
    <3>2. pprimary = primary
      BY <1>6, <1>7, <2>4, <2>5 DEF Sound, PrimaryAgrees
    <3>3. PrimaryAgrees'
      BY <1>1, <1>2, <1>6, <1>7, <2>2, <2>4, <2>5, <3>1, <3>2 DEF Sound, PrimaryAgrees
    <3>4. ASSUME NEW x \in Site!Domains PROVE Agrees(x)'
      <4>1. ~Removing(x)' /\ (Removing(x) <=> x = d)
        BY <1>6, <1>7, <2>4, <2>5
      <4>2. CASE x = d
        BY <1>1, <1>2, <1>3, <2>2, <2>5, <3>1, <4>1, <4>2 DEF Agrees, Site!NoRow
      <4>3. CASE x # d
        BY <1>1, <1>2, <2>2, <2>5, <4>1, <4>3 DEF Sound, Agrees
      <4> QED BY <4>2, <4>3
    <3> QED BY <3>3, <3>4
  <2>6. primary' \in Site!Domains \cup {NoDomain} /\ row' \in [Site!Domains -> Rows]
    BY <1>1, <2>2 DEF SiteInv, SiteTyped
  <2> QED BY <1>5, <1>7, <2>4, <2>5, <2>6
<1>8. CASE acting[p].at = "primary"
  <2>1. primary' = d /\ row' = [row EXCEPT ![d].skipped = FALSE] /\ Site!Moves(p, "idle", d, TRUE)
    BY <1>0, <1>8 DEF Site!Collect
  <2>2. row' \in [Site!Domains -> Rows] /\ row'[d].status = row[d].status
        /\ \A x \in Site!Domains : row'[x].task = row[x].task /\ row'[x].status = row[x].status
    BY <1>1, <2>1 DEF Rows
  <2>3. ASSUME Sound, ~Broken, ~Broken' PROVE PrimaryAgrees' /\ \A x \in Site!Domains : Agrees(x)'
    <3>1. row[d].status = "Active" /\ pprimary = d
      BY <1>0, <1>2, <1>3, <1>6, <1>8, <2>1, <2>3 DEF Current, Sound, PrimaryAgrees
    <3>2. PrimaryAgrees'
      BY <1>2, <1>6, <1>8, <2>1, <2>2, <2>3, <3>1 DEF PrimaryAgrees
    <3>3. ASSUME NEW x \in Site!Domains PROVE Agrees(x)'
      <4>1. ~Removing(x)' /\ ~Removing(x)
        BY <1>6, <1>8, <2>1, <2>3
      <4> QED BY <1>2, <2>2, <2>3, <4>1 DEF Sound, Agrees
    <3> QED BY <3>2, <3>3
  <2> QED BY <1>5, <1>8, <2>1, <2>2, <2>3
<1> QED
  BY <1>4, <1>7, <1>8 DEF Site!Collect, Site!Kinds

LEMMA CollectFailureKeeps ==
    ASSUME SiteInv, NEW p \in Site!Processes, Site!CollectFailure(p)
    PROVE  SiteInv'
<1>0. PICK d \in Site!Domains : d = acting[p].dom
  BY DEF SiteInv, SiteTyped, Site!CollectFailure, Site!Kinds
<1>1. tasks \in [Site!Domains -> Site!Tasks] /\ row[d] \in Rows
  BY DEF SiteInv, SiteTyped
<1>2. UNCHANGED <<attached, pprimary, token, parted, tasks>> /\ acting[p].fresh /\ ~Pending(p)
  BY DEF Site!CollectFailure, Site!TaskOf, Pending
<1>3. CASE acting[p].at = "attach"
  <2> DEFINE r == Site!AttachFailed(row[d])
  <2>1. r \in Rows /\ ~r.task /\ r.status = "Failed"
    BY <1>1 DEF Rows, Site!AttachFailed
  <2>2. Site!SetRow(p, "idle", d, r) /\ tasks[d] = "failed"
    BY <1>0, <1>3 DEF Site!CollectFailure, Site!TaskOf
  <2>3. row[d].task
    BY <1>0, <1>2, <1>3 DEF SiteInv, AllCurrent, Current
  <2>4. Sound => Fits(d, r) /\ row[d].status # "Active"
    BY <1>2, <2>1, <2>2, <2>3 DEF Sound, Agrees, Fits
  <2> HIDE DEF r
  <2> QED BY <1>1, <1>2, <2>1, <2>2, <2>4, SetRowStep
<1>4. CASE acting[p].at # "attach"
  <2>1. Site!Keeps(p, "idle", d)
    BY <1>0, <1>4 DEF Site!CollectFailure
  <2> QED BY <1>2, <2>1, KeepsStep
<1> QED
  BY <1>3, <1>4

\* One process goes on or ends without a save. A process that ends with its outcome unsaved leaves its mark.
LEMMA ActStep ==
    ASSUME SiteInv, NEW p \in Site!Processes, NEW a \in Acts, acting' = [acting EXCEPT ![p] = a],
           a.at # "idle" => a.dom \in Site!Domains,
           ~(a.at \in {"primary", "remove"} /\ a.task = "success"),
           a.fresh => acting[p].fresh /\ a.dom = acting[p].dom
                      /\ (a.at = acting[p].at \/ (a.at = "primary" /\ acting[p].at = "https")),
           UNCHANGED <<row, primary, token, tasks>>, attached' \subseteq Site!Domains,
           parted => parted', Pending(p) => parted',
           ~parted' => UNCHANGED <<attached, pprimary>>
    PROVE  SiteInv'
<1>1. acting \in [Site!Processes -> Acts] /\ acting'[p] = a
      /\ \A q \in Site!Processes \ {p} : acting'[q] = acting[q]
  BY DEF SiteInv, SiteTyped
<1>2. ~Pending(p)' /\ \A q \in Site!Processes \ {p} : Pending(q)' <=> Pending(q)
  BY <1>1 DEF Pending
<1>3. SiteTyped'
  BY <1>1 DEF SiteInv, SiteTyped
<1>4. AllCurrent'
  <2>1. Current(p)'
    BY <1>1 DEF SiteInv, AllCurrent, Current
  <2>2. \A q \in Site!Processes \ {p} : Current(q)'
    BY <1>1 DEF SiteInv, AllCurrent, Current
  <2> QED BY <2>1, <2>2 DEF AllCurrent
<1>5. CASE parted'
  BY <1>3, <1>4, <1>5 DEF SiteInv, Broken
<1>6. CASE ~parted'
  <2>1. Broken => Broken'
    BY <1>1, <1>2, <1>6, StaysBroken DEF SiteInv
  <2>2. Sound => Sound'
    BY <1>1, <1>2, <1>6, ProcessKeeps DEF SiteInv, Agrees
  <2> QED BY <1>3, <1>4, <2>1, <2>2 DEF SiteInv
<1> QED
  BY <1>5, <1>6

LEMMA WaitsKeep ==
    ASSUME SiteInv, NEW p \in Site!Processes, Site!Refused(p) \/ Site!WaitRunsOut(p)
    PROVE  SiteInv'
<1> DEFINE a == Site!Idle
<1>1. a \in Acts /\ a.at = "idle" /\ ~a.fresh
  BY DEF Acts, Site!Idle, Site!Tasks
<1>2. acting' = [acting EXCEPT ![p] = a] /\ UNCHANGED <<row, primary, token, tasks>> /\ (parted => parted')
  BY DEF Site!Refused, Site!WaitRunsOut
<1>3. Pending(p) => parted'
  BY DEF Site!Refused, Site!WaitRunsOut, Site!TaskOf, Pending
<1>4. attached' \subseteq Site!Domains /\ (~parted' => UNCHANGED <<attached, pprimary>>)
  <2>1. attached \subseteq Site!Domains
    BY DEF SiteInv, SiteTyped
  <2>2. CASE Site!Refused(p)
    BY <2>1, <2>2 DEF Site!Refused
  <2>3. CASE Site!WaitRunsOut(p)
    BY <2>1, <2>3 DEF Site!WaitRunsOut, Site!Does, Site!Kinds
  <2> QED BY <2>2, <2>3
<1> HIDE DEF a
<1> QED BY <1>1, <1>2, <1>3, <1>4, ActStep

LEMMA ServesHttpsKeeps ==
    ASSUME SiteInv, Site!ServesHttps
    PROVE  SiteInv'
<1> DEFINE old == acting[Poller]
           a == [old EXCEPT !.at = "primary", !.task = "running"]
<1>0. Poller \in Site!Processes /\ ~Pending(Poller) /\ old.at = "https"
  BY DEF Site!Processes, Site!ServesHttps, Pending
<1>1. old \in Acts /\ old.dom \in Site!Domains
  BY <1>0 DEF SiteInv, SiteTyped
<1>2. /\ a \in Acts /\ a.at = "primary" /\ a.task = "running" /\ a.dom = old.dom /\ a.fresh = old.fresh
  BY <1>1 DEF Acts, Site!Kinds, Site!Tasks
<1>3. acting' = [acting EXCEPT ![Poller] = a]
  BY <1>0 DEF Site!ServesHttps, SiteInv, SiteTyped
<1>4. UNCHANGED <<row, primary, token, tasks, attached, pprimary, parted>> /\ attached \subseteq Site!Domains
  BY DEF Site!ServesHttps, SiteInv, SiteTyped
<1> HIDE DEF a
<1> QED BY <1>0, <1>1, <1>2, <1>3, <1>4, ActStep

\* No process goes on; the rows keep what matters of them.
LEMMA StillStep ==
    ASSUME SiteInv, UNCHANGED <<primary, pprimary, acting, parted>>,
           row' \in [Site!Domains -> Rows], token' \in [Site!Domains -> Nat],
           tasks' \in [Site!Domains -> Site!Tasks], attached' \subseteq Site!Domains,
           \A x \in Site!Domains : row'[x].status = row[x].status /\ row'[x].task = row[x].task,
           Sound => \A x \in Site!Domains :
             IF row[x].task THEN tasks'[x] # "none" /\ (x \in attached' <=> tasks'[x] = "success")
             ELSE tasks'[x] = tasks[x] /\ (x \in attached' <=> x \in attached)
    PROVE  SiteInv'
<1>1. SiteTyped'
  BY DEF SiteInv, SiteTyped
<1>2. \A q \in Site!Processes : Pending(q)' <=> Pending(q)
  BY DEF Pending
<1>3. AllCurrent'
  <2> SUFFICES ASSUME NEW q \in Site!Processes, acting[q].fresh, acting[q].at # "idle" PROVE Current(q)'
    BY DEF AllCurrent, Current
  <2>1. acting[q].dom \in Site!Domains /\ Current(q)
    BY DEF SiteInv, SiteTyped, AllCurrent
  <2> QED BY <2>1 DEF Current
<1>4. Broken => Broken'
  BY <1>2 DEF Broken
<1>5. ASSUME Sound PROVE Sound'
  <2>1. PrimaryAgrees'
    BY <1>2, <1>5 DEF Sound, PrimaryAgrees
  <2>2. ASSUME NEW x \in Site!Domains PROVE Agrees(x)'
    <3>1. Removing(x)' <=> Removing(x)
      BY <1>2 DEF Removing
    <3> QED BY <1>5, <3>1 DEF Sound, Agrees
  <2> QED BY <2>1, <2>2 DEF Sound
<1> QED
  BY <1>1, <1>3, <1>4, <1>5 DEF SiteInv

LEMMA AttachesKeeps ==
    ASSUME SiteInv, NEW d \in Site!Domains, NEW outcome \in Site!Ended, Site!Attaches(d, outcome)
    PROVE  SiteInv'
<1>1. /\ row \in [Site!Domains -> Rows] /\ token \in [Site!Domains -> Nat]
      /\ tasks \in [Site!Domains -> Site!Tasks] /\ attached \subseteq Site!Domains
  BY DEF SiteInv, SiteTyped
<1>2. UNCHANGED <<row, primary, token, acting, parted>> /\ tasks[d] = "running" /\ tasks' = [tasks EXCEPT ![d] = outcome]
  BY DEF Site!Attaches
<1>3. pprimary' = pprimary /\ attached' = IF outcome = "success" THEN attached \cup {d} ELSE attached
  BY DEF Site!Attaches, Site!Does
<1>4. tasks' \in [Site!Domains -> Site!Tasks] /\ attached' \subseteq Site!Domains
  BY <1>1, <1>2, <1>3 DEF Site!Tasks
<1>5. Sound => row[d].task /\ d \notin attached
  BY <1>2 DEF Sound, Agrees
<1>6. ASSUME Sound, NEW x \in Site!Domains
      PROVE  IF row[x].task THEN tasks'[x] # "none" /\ (x \in attached' <=> tasks'[x] = "success")
             ELSE tasks'[x] = tasks[x] /\ (x \in attached' <=> x \in attached)
  <2>1. CASE x = d
    BY <1>1, <1>2, <1>3, <1>5, <1>6, <2>1 DEF Site!Ended
  <2>2. CASE x # d
    BY <1>1, <1>2, <1>3, <1>6, <2>2 DEF Sound, Agrees
  <2> QED BY <2>1, <2>2
<1> QED
  BY <1>1, <1>2, <1>3, <1>4, <1>6, StillStep

LEMMA OthersKeep ==
    ASSUME SiteInv,
           \/ \E d \in Site!Domains : Site!Certificate(d) \/ Site!Ages(d) \/ Site!Renews(d) \/ Site!Shows(d)
           \/ Site!PushManaged \/ UNCHANGED site
    PROVE  SiteInv'
<1>1. /\ row \in [Site!Domains -> Rows] /\ token \in [Site!Domains -> Nat]
      /\ tasks \in [Site!Domains -> Site!Tasks] /\ attached \subseteq Site!Domains
  BY DEF SiteInv, SiteTyped
<1>2. UNCHANGED <<primary, pprimary, acting, parted, tasks, attached>>
  BY DEF Site!Certificate, Site!Ages, Site!Renews, Site!Shows, Site!PushManaged, site
<1>3. /\ row' \in [Site!Domains -> Rows] /\ token' \in [Site!Domains -> Nat]
      /\ \A x \in Site!Domains : row'[x].status = row[x].status /\ row'[x].task = row[x].task
  <2>1. CASE UNCHANGED <<row, token>>
    BY <1>1, <2>1
  <2>2. ASSUME NEW d \in Site!Domains, Site!Ages(d)
        PROVE  /\ row' \in [Site!Domains -> Rows] /\ token' = token
               /\ \A x \in Site!Domains : row'[x].status = row[x].status /\ row'[x].task = row[x].task
    BY <1>1, <2>2 DEF Site!Ages, Rows
  <2>3. ASSUME NEW d \in Site!Domains, Site!Renews(d)
        PROVE  row' = row /\ token' \in [Site!Domains -> Nat]
    BY <1>1, <2>3 DEF Site!Renews
  <2> QED BY <1>1, <2>1, <2>2, <2>3 DEF Site!Certificate, Site!Shows, Site!PushManaged, site
<1>4. Sound => \A x \in Site!Domains :
        IF row[x].task THEN tasks'[x] # "none" /\ (x \in attached' <=> tasks'[x] = "success")
        ELSE tasks'[x] = tasks[x] /\ (x \in attached' <=> x \in attached)
  BY <1>2 DEF Sound, Agrees
<1> QED
  BY <1>1, <1>2, <1>3, <1>4, StillStep

\* A task that takes effect leaves an outcome to save; with two of them, or a stale one, one is lost.
LEMMA WorksKeeps ==
    ASSUME SiteInv, NEW p \in Site!Processes, NEW outcome \in Site!Ended, Site!Works(p, outcome)
    PROVE  SiteInv'
<1> DEFINE old == acting[p]
           a == [old EXCEPT !.task = outcome]
<1>0. old \in Acts /\ old.at \in {"primary", "remove"} /\ old.task = "running" /\ ~Pending(p)
  BY DEF SiteInv, SiteTyped, Site!Works, Pending
<1>1. PICK d \in Site!Domains : d = old.dom
  BY <1>0 DEF SiteInv, SiteTyped
<1>2. /\ a \in Acts /\ a.at = old.at /\ a.dom = d /\ a.fresh = old.fresh /\ a.task = outcome
  BY <1>0, <1>1 DEF Acts, Site!Tasks
<1>3. acting' = [acting EXCEPT ![p] = a]
  BY DEF Site!Works, SiteInv, SiteTyped
<1>4. UNCHANGED <<row, primary, token, tasks, parted>> /\ attached \subseteq Site!Domains
      /\ primary \in Site!Domains \cup {NoDomain} /\ acting \in [Site!Processes -> Acts]
  BY DEF Site!Works, SiteInv, SiteTyped
<1>5. CASE outcome = "failed"
  <2>1. UNCHANGED <<attached, pprimary>>
    BY <1>5 DEF Site!Works
  <2> HIDE DEF a
  <2> QED BY <1>0, <1>1, <1>2, <1>3, <1>4, <1>5, <2>1, ActStep
<1>6. CASE outcome = "success"
  <2> HIDE DEF a
  <2>1. acting'[p] = a /\ \A q \in Site!Processes \ {p} : acting'[q] = acting[q]
    BY <1>3, <1>4
  <2>2. Pending(p)' /\ \A q \in Site!Processes \ {p} : Pending(q)' <=> Pending(q)
    BY <1>0, <1>2, <1>6, <2>1 DEF Pending
  <2>3. Site!Does(old.at, d)
    BY <1>1, <1>6 DEF Site!Works
  <2>4. /\ old.at = "primary" => attached' = attached /\ pprimary' = d
        /\ old.at = "remove" => attached' = attached \ {d} /\ pprimary' = IF pprimary = d THEN NoDomain ELSE pprimary
    BY <2>3 DEF Site!Does
  <2>5. SiteTyped'
    <3>1. attached' \subseteq Site!Domains
      BY <1>0, <1>4, <2>4
    <3> QED BY <1>2, <1>4, <2>1, <1>3, <3>1 DEF SiteInv, SiteTyped
  <2>6. AllCurrent'
    <3>1. Current(p)'
      <4>1. Current(p) /\ acting'[p].at = old.at /\ acting'[p].dom = old.dom /\ acting'[p].fresh = old.fresh
        BY <1>1, <1>2, <2>1 DEF SiteInv, AllCurrent
      <4> QED BY <1>4, <4>1 DEF Current
    <3>2. \A q \in Site!Processes \ {p} : Current(q)'
      BY <1>4, <2>1 DEF SiteInv, AllCurrent, Current
    <3> QED BY <3>1, <3>2 DEF AllCurrent
  <2>7. Broken => Broken'
    BY <1>0, <1>4, <2>1, <2>2, StaysBroken DEF SiteInv
  <2>8. ASSUME Sound, ~Broken' PROVE Sound'
    <3>1. old.fresh /\ \A q \in Site!Processes \ {p} : ~Pending(q) /\ ~Pending(q)'
      BY <1>2, <2>1, <2>2, <2>8 DEF Broken
    <3>2. \A q \in Site!Processes : ~Pending(q)
      BY <1>0, <3>1
    <3>3. pprimary = primary
      BY <2>8, <3>2 DEF Sound, PrimaryAgrees
    <3>4. row[d].status = "Active" /\ (old.at = "remove" => primary # d)
      BY <1>0, <1>1, <3>1 DEF SiteInv, AllCurrent, Current
    <3>5. PrimaryAgrees'
      <4>1. primary # NoDomain => row[primary].status = "Active" /\ primary \in Site!Domains
        BY <2>8 DEF Sound, PrimaryAgrees
      <4> QED BY <1>0, <1>2, <1>4, <2>1, <2>2, <2>4, <3>1, <3>3, <3>4, <4>1 DEF PrimaryAgrees
    <3>6. ASSUME NEW x \in Site!Domains PROVE Agrees(x)'
      <4>1. ~Removing(x) /\ (Removing(x)' <=> old.at = "remove" /\ x = d)
        BY <1>2, <2>1, <2>2, <3>1, <3>2 DEF Removing
      <4>2. ~row[d].task
        BY <1>1, <2>8, <3>4 DEF Sound, Agrees
      <4> QED BY <1>0, <1>4, <2>4, <2>8, <3>4, <4>1, <4>2 DEF Sound, Agrees
    <3> QED BY <3>5, <3>6 DEF Sound
  <2> QED BY <2>5, <2>6, <2>7, <2>8 DEF SiteInv
<1> QED
  BY <1>5, <1>6 DEF Site!Ended

LEMMA SiteNext == SiteInv /\ (Site!Next \/ UNCHANGED site) => SiteInv'
<1> SUFFICES ASSUME SiteInv, Site!Next \/ UNCHANGED site PROVE SiteInv'
  OBVIOUS
<1>1. CASE Site!Ensure \/ Site!SkipPrimary \/ Site!ServesHttps
  BY <1>1, EnsureKeeps, SkipPrimaryKeeps, ServesHttpsKeeps
<1>2. CASE \E p \in Operators, d \in Site!Domains : Site!Operates(p, d)
  BY <1>2, OperatesKeeps
<1>3. CASE \E p \in Site!Processes : Site!Collect(p) \/ Site!CollectFailure(p) \/ Site!Refused(p) \/ Site!WaitRunsOut(p)
  BY <1>3, CollectKeeps, CollectFailureKeeps, WaitsKeep
<1>4. CASE \E outcome \in Site!Ended : \/ \E d \in Site!Domains : Site!Attaches(d, outcome)
                                      \/ \E p \in Site!Processes : Site!Works(p, outcome)
  BY <1>4, AttachesKeeps, WorksKeeps
<1>5. CASE \/ \E d \in Site!Domains : Site!Certificate(d) \/ Site!Ages(d) \/ Site!Renews(d) \/ Site!Shows(d)
          \/ Site!PushManaged \/ UNCHANGED site
  BY <1>5, OthersKeep
<1> QED
  BY <1>1, <1>2, <1>3, <1>4, <1>5 DEF Site!Next

\* With nothing under way and every outcome saved, the rows of a site's domains are active exactly where
\* Pilot has the domain attached and its primary domain is Pilot's: for any number of operators, domains,
\* tokens, requests and failures (attach, make_primary, remove_domain).
THEOREM PilotIsFollowed == MCSpec => []PilotFollows
<1>1. SiteInv => PilotFollows
  <2> SUFFICES ASSUME SiteInv, \A p \in Site!Processes : acting[p] = Site!Idle, ~parted
               PROVE  /\ pprimary = primary
                      /\ primary # NoDomain => row[primary].status = "Active"
                      /\ \A d \in Site!Domains : row[d].task \/ (row[d].status = "Active" <=> d \in attached)
    BY DEF PilotFollows, Site!PilotFollows
  <2>1. \A p \in Site!Processes : ~Pending(p)
    BY DEF Pending, Site!Idle
  <2>2. Sound
    BY <2>1 DEF SiteInv, Broken
  <2>3. \A d \in Site!Domains : ~Removing(d)
    BY <2>1 DEF Removing
  <2> QED BY <2>1, <2>2, <2>3 DEF Sound, PrimaryAgrees, Agrees
<1>2. MCInit => SiteInv
  BY SiteInit DEF MCInit
<1>3. SiteInv /\ [MCNext]_<<part, vars, site>> => SiteInv'
  BY SiteNext DEF MCNext
<1> QED
  BY <1>1, <1>2, <1>3, PTL DEF MCSpec

----------------------------------------------------------------------------
(* Mail domains *)

MailTyped ==
    /\ skip \in BOOLEAN /\ untold \in BOOLEAN
    /\ domain \in Row
    /\ cluster \in [exists: BOOLEAN, enabled: BOOLEAN]
    /\ checks \in [Checkers -> Proc]
    /\ \A w \in Checkers : checks[w].at = "idle" => ~checks[w].told

\* The cluster's copy is there with the row, and as the row has it until someone tells the cluster.
CopyAgrees ==
    untold \/ /\ cluster.exists <=> domain.exists
              /\ \/ \E w \in Checkers : checks[w].told
                 \/ domain.exists => (cluster.enabled <=> Live(domain))

\* What a check that can still save has of the row, or has told the cluster.
Carries(w) ==
    checks[w].fresh =>
        /\ domain.exists /\ checks[w].doc.exists
        /\ checks[w].at \in {"resolve", "save"} =>
             IF checks[w].told
             THEN \/ untold \/ \E v \in Checkers \ {w} : checks[v].told
                  \/ cluster.enabled <=> Live(checks[w].doc)
             ELSE Live(checks[w].doc) <=> Live(domain)

MailInv == MailTyped /\ CopyAgrees /\ \A w \in Checkers : Carries(w)

LEMMA VouchedRow ==
    ASSUME skip \in BOOLEAN, NEW r \in Row
    PROVE  Vouch(r) \in Row /\ (Vouch(r).exists <=> r.exists)
  BY DEF Vouch, Row

LEMMA MailInit == DomainInit => MailInv
<1> SUFFICES ASSUME DomainInit PROVE MailInv
  OBVIOUS
<1>1. NoDomainRow \in Row /\ ~NoDomainRow.exists
  BY DEF NoDomainRow, Row
<1>2. Resting \in Proc /\ ~Resting.fresh /\ ~Resting.told
  BY <1>1 DEF Resting, Proc
<1>3. MailTyped
  BY <1>1, <1>2 DEF DomainInit, MailTyped
<1>4. CopyAgrees /\ \A w \in Checkers : Carries(w)
  BY <1>1, <1>2 DEF DomainInit, CopyAgrees, Carries
<1> QED
  BY <1>3, <1>4 DEF MailInv

\* A save makes every document stale; it is right when the cluster was told, or will be.
LEMMA CommitStep ==
    ASSUME MailInv, NEW new \in Row, NEW ps \in [Checkers -> Proc], Committed(new, ps),
           \A w \in Checkers : ps[w].at = "idle" => ~ps[w].told,
           skip' \in BOOLEAN, untold' \in BOOLEAN, cluster' \in [exists: BOOLEAN, enabled: BOOLEAN],
           untold' \/ /\ cluster'.exists <=> new.exists
                      /\ (\E w \in Checkers : ps[w].told) \/ (new.exists => (cluster'.enabled <=> Live(new)))
    PROVE  MailInv'
<1>1. domain' = new /\ checks' = [w \in Checkers |-> [ps[w] EXCEPT !.fresh = FALSE]]
  BY DEF Committed
<1>2. ASSUME NEW w \in Checkers
      PROVE  /\ checks'[w] \in Proc /\ ~checks'[w].fresh
             /\ checks'[w].at = ps[w].at /\ (checks'[w].told <=> ps[w].told)
  <2>1. ps[w] \in Proc /\ checks'[w] = [ps[w] EXCEPT !.fresh = FALSE]
    BY <1>1
  <2> QED BY <2>1 DEF Proc
<1>3. checks' \in [Checkers -> Proc]
  BY <1>1, <1>2
<1>4. MailTyped'
  BY <1>1, <1>2, <1>3 DEF MailTyped
<1>5. CopyAgrees'
  BY <1>1, <1>2 DEF CopyAgrees, Live
<1>6. \A w \in Checkers : Carries(w)'
  BY <1>2 DEF Carries
<1> QED
  BY <1>4, <1>5, <1>6 DEF MailInv

\* A check goes on and the row stays; what it told the cluster it remembers, or the mark does.
LEMMA CheckStep ==
    ASSUME MailInv, NEW w \in Checkers, NEW a \in Proc, checks' = [checks EXCEPT ![w] = a],
           UNCHANGED <<skip, domain>>, untold' \in BOOLEAN, untold => untold',
           cluster' \in [exists: BOOLEAN, enabled: BOOLEAN], cluster'.exists <=> cluster.exists,
           cluster' = cluster \/ a.told,
           checks[w].told => a.told \/ untold',
           a.at = "idle" => ~a.told,
           a.fresh => domain.exists /\ a.doc.exists,
           a.fresh /\ a.at \in {"resolve", "save"} =>
             IF a.told THEN \/ untold' \/ \E v \in Checkers \ {w} : checks[v].told
                            \/ cluster'.enabled <=> Live(a.doc)
             ELSE Live(a.doc) <=> Live(domain)
    PROVE  MailInv'
<1>1. checks \in [Checkers -> Proc]
  BY DEF MailInv, MailTyped
<1>2. checks'[w] = a /\ \A v \in Checkers \ {w} : checks'[v] = checks[v]
  BY <1>1
<1>3. MailTyped'
  BY <1>1, <1>2 DEF MailInv, MailTyped
<1>4. CopyAgrees'
  <2>1. Live(domain)' <=> Live(domain)
    BY DEF Live
  <2>2. CASE untold'
    BY <2>2 DEF CopyAgrees
  <2>3. CASE ~untold' /\ a.told
    BY <1>2, <2>3 DEF MailInv, CopyAgrees
  <2>4. CASE ~untold' /\ ~a.told
    BY <1>2, <2>1, <2>4 DEF MailInv, CopyAgrees
  <2> QED BY <2>2, <2>3, <2>4
<1>5. Carries(w)'
  BY <1>2 DEF Carries, Live
<1>6. ASSUME NEW v \in Checkers \ {w}, checks[v].fresh PROVE Carries(v)'
  <2>1. Carries(v)
    BY DEF MailInv
  <2>2. checks'[v] = checks[v] /\ (Live(domain)' <=> Live(domain))
    BY <1>2 DEF Live
  <2>3. CASE checks[v].told /\ checks[v].at \in {"resolve", "save"}
    <3>1. CASE a.told \/ untold'
      BY <1>2, <1>6, <2>1, <2>2, <2>3, <3>1 DEF Carries
    <3>2. CASE ~a.told /\ ~untold'
      BY <1>2, <1>6, <2>1, <2>2, <2>3, <3>2 DEF Carries, Live
    <3> QED BY <3>1, <3>2
  <2>4. CASE ~(checks[v].told /\ checks[v].at \in {"resolve", "save"})
    BY <1>6, <2>1, <2>2, <2>4 DEF Carries, Live
  <2> QED BY <2>3, <2>4
<1>7. ASSUME NEW v \in Checkers \ {w}, ~checks[v].fresh PROVE Carries(v)'
  BY <1>2, <1>7 DEF Carries
<1> QED
  BY <1>3, <1>4, <1>5, <1>6, <1>7 DEF MailInv

LEMMA AskedKeeps ==
    ASSUME MailInv, People
    PROVE  MailInv'
<1> USE DEF MailInv
<1>1. /\ skip \in BOOLEAN /\ untold \in BOOLEAN /\ domain \in Row
      /\ cluster \in [exists: BOOLEAN, enabled: BOOLEAN] /\ checks \in [Checkers -> Proc]
      /\ \A w \in Checkers : checks[w].at = "idle" => ~checks[w].told
  BY DEF MailTyped
<1>2. CASE Add
  <2> DEFINE bare == [NoDomainRow EXCEPT !.exists = TRUE, !.enabled = TRUE]
             new == Vouch(bare)
  <2>1. bare \in Row /\ bare.exists
    BY DEF NoDomainRow, Row
  <2>2. new \in Row /\ new.exists
    BY <1>1, <2>1, VouchedRow
  <2>3. /\ Committed(new, checks) /\ cluster' = [exists |-> TRUE, enabled |-> Live(new)]
        /\ ~untold' /\ untold' \in BOOLEAN /\ skip' = skip
    BY <1>2 DEF Add
  <2>4. Live(new) \in BOOLEAN
    BY DEF Live
  <2> HIDE DEF new
  <2>5. cluster' \in [exists: BOOLEAN, enabled: BOOLEAN] /\ cluster'.exists /\ (cluster'.enabled <=> Live(new))
    BY <2>3, <2>4
  <2> QED BY <1>1, <2>2, <2>3, <2>5, CommitStep
<1>3. CASE \E e, v \in BOOLEAN : Edit(e, v)
  <2>0. PICK e \in BOOLEAN, v \in BOOLEAN : Edit(e, v)
    BY <1>3
  <2> DEFINE asked == [domain EXCEPT !.enabled = e, !.verified = v]
             kept == [asked EXCEPT !.verified = @ /\ ~(domain.enabled /\ ~asked.enabled)]
             new == Vouch(kept)
             pushed == new.enabled # domain.enabled \/ new.verified # domain.verified
  <2>1. asked \in Row /\ (asked.exists <=> domain.exists)
    BY <1>1 DEF Row
  <2>2. kept \in Row /\ (kept.exists <=> domain.exists)
    BY <1>1, <2>1 DEF Row
  <2>3. new \in Row /\ (new.exists <=> domain.exists)
    BY <1>1, <2>2, VouchedRow
  <2>4. /\ Committed(new, checks) /\ domain.exists /\ (pushed => cluster.exists) /\ skip' = skip
        /\ cluster' = IF pushed THEN [cluster EXCEPT !.enabled = Live(new)] ELSE cluster
        /\ untold' = (untold /\ ~pushed)
    BY <2>0 DEF Edit, Validated
  <2> HIDE DEF new
  <2>5. /\ cluster' \in [exists: BOOLEAN, enabled: BOOLEAN] /\ (cluster'.exists <=> cluster.exists)
        /\ pushed => (cluster'.enabled <=> Live(new))
        /\ ~pushed => cluster' = cluster /\ (Live(new) <=> Live(domain))
    BY <1>1, <2>3, <2>4 DEF Live
  <2>6. untold' \in BOOLEAN /\ (pushed => ~untold') /\ (~pushed => (untold' <=> untold))
    BY <1>1, <2>4
  <2> HIDE DEF pushed
  <2>7. CopyAgrees
    OBVIOUS
  <2>8. untold' \/ /\ cluster'.exists <=> new.exists
                   /\ (\E w \in Checkers : checks[w].told) \/ (new.exists => (cluster'.enabled <=> Live(new)))
    BY <2>3, <2>4, <2>5, <2>6, <2>7 DEF CopyAgrees
  <2> QED BY <1>1, <2>3, <2>4, <2>5, <2>6, <2>8, CommitStep
<1>4. CASE Delete
  <2>1. NoDomainRow \in Row /\ ~NoDomainRow.exists
    BY DEF NoDomainRow, Row
  <2>2. /\ Committed(NoDomainRow, checks) /\ ~untold' /\ untold' \in BOOLEAN /\ skip' = skip
        /\ cluster' \in [exists: BOOLEAN, enabled: BOOLEAN] /\ ~cluster'.exists
    BY <1>1, <1>4 DEF Delete
  <2> QED BY <1>1, <2>1, <2>2, CommitStep
<1>5. CASE ReplaceKeys
  <2> DEFINE bare == [domain EXCEPT !.proved = @ \ Selectors]
             new == Vouch(bare)
  <2>1. bare \in Row /\ (bare.exists <=> domain.exists)
    BY <1>1 DEF Row
  <2>2. new \in Row /\ (new.exists <=> domain.exists)
    BY <1>1, <2>1, VouchedRow
  <2>3. /\ Committed(new, checks) /\ cluster' = cluster /\ skip' = skip
        /\ untold' = (untold \/ Live(new) # Live(domain))
    BY <1>5 DEF ReplaceKeys
  <2> HIDE DEF new
  <2>4. untold' \in BOOLEAN /\ (untold => untold') /\ (~untold' => (Live(new) <=> Live(domain)))
    BY <1>1, <2>3 DEF Live
  <2>5. CopyAgrees
    OBVIOUS
  <2>6. untold' \/ /\ cluster'.exists <=> new.exists
                   /\ (\E w \in Checkers : checks[w].told) \/ (new.exists => (cluster'.enabled <=> Live(new)))
    BY <2>2, <2>3, <2>4, <2>5 DEF CopyAgrees
  <2> QED BY <1>1, <2>2, <2>3, <2>4, <2>6, CommitStep
<1>6. CASE AddDies \/ DeleteDies \/ \E e \in BOOLEAN : EditDies(e)
  <2>1. UNCHANGED <<skip, domain, checks>> /\ untold'
    BY <1>6 DEF AddDies, DeleteDies, EditDies
  <2>2. cluster' \in [exists: BOOLEAN, enabled: BOOLEAN] /\ untold' \in BOOLEAN
    <3>1. CASE AddDies
      BY <1>1, <3>1 DEF AddDies
    <3>2. CASE DeleteDies
      BY <1>1, <3>2 DEF DeleteDies
    <3>3. ASSUME NEW e \in BOOLEAN, EditDies(e)
          PROVE  cluster' \in [exists: BOOLEAN, enabled: BOOLEAN] /\ untold' \in BOOLEAN
      <4> DEFINE live == Live(Validated(domain, [domain EXCEPT !.enabled = e]))
      <4>1. live \in BOOLEAN
        BY DEF Live
      <4>2. cluster' = [cluster EXCEPT !.enabled = live] /\ untold' = TRUE
        BY <3>3 DEF EditDies
      <4> HIDE DEF live
      <4> QED BY <1>1, <4>1, <4>2
    <3> QED BY <1>6, <3>1, <3>2, <3>3
  <2>3. MailTyped' /\ CopyAgrees'
    BY <1>1, <2>1, <2>2 DEF MailTyped, CopyAgrees
  <2>4. \A w \in Checkers : Carries(w)'
    BY <2>1 DEF Carries, Live
  <2> QED BY <2>3, <2>4
<1>7. CASE ToggleSkip \/ \E r \in Mandatory : Publish(r)
  <2>1. UNCHANGED <<domain, cluster, checks, untold>> /\ skip' \in BOOLEAN
    BY <1>1, <1>7 DEF ToggleSkip, Publish
  <2>2. MailTyped' /\ CopyAgrees'
    BY <1>1, <2>1 DEF MailTyped, CopyAgrees, Live
  <2>3. \A w \in Checkers : Carries(w)'
    BY <2>1 DEF Carries, Live
  <2> QED BY <2>2, <2>3
<1> QED
  BY <1>2, <1>3, <1>4, <1>5, <1>6, <1>7 DEF People

LEMMA StartsKeep ==
    ASSUME MailInv, NEW w \in Checkers, StartCheck(w) \/ HourlyCheck(w) \/ StartRefresh(w)
    PROVE  MailInv'
<1> DEFINE at == checks'[w].at
           a == [at |-> at, doc |-> domain, fresh |-> TRUE, told |-> FALSE]
<1>1. /\ UNCHANGED <<skip, domain, cluster, untold>> /\ domain.exists /\ checks[w].at = "idle"
      /\ Reads(w, "resolve", domain) \/ Reads(w, "save", domain)
  BY DEF StartCheck, HourlyCheck, StartRefresh, Due
<1>2. /\ domain \in Row /\ checks \in [Checkers -> Proc] /\ ~checks[w].told
      /\ cluster \in [exists: BOOLEAN, enabled: BOOLEAN] /\ untold \in BOOLEAN
  BY <1>1 DEF MailInv, MailTyped
<1>3. checks' = [checks EXCEPT ![w] = a] /\ at \in {"resolve", "save"}
  BY <1>1, <1>2 DEF Reads
<1>4. a \in Proc /\ a.at = at /\ a.fresh /\ ~a.told /\ a.doc = domain
  BY <1>2, <1>3 DEF Proc
<1> HIDE DEF a, at
<1> QED BY <1>1, <1>2, <1>3, <1>4, CheckStep

LEMMA RecheckKeeps ==
    ASSUME MailInv, NEW w \in Checkers, Recheck(w), checks[w].at = "idle", domain.exists,
           UNCHANGED <<skip, domain, untold>>
    PROVE  MailInv'
<1> DEFINE bare == [domain EXCEPT !.vouched = FALSE, !.exempt = FALSE]
           doc == Vouch(bare)
           told == Live(doc) # Live(domain)
           a == [at |-> "resolve", doc |-> doc, fresh |-> TRUE, told |-> told]
<1>1. /\ domain \in Row /\ checks \in [Checkers -> Proc] /\ ~checks[w].told
      /\ cluster \in [exists: BOOLEAN, enabled: BOOLEAN] /\ untold \in BOOLEAN /\ skip \in BOOLEAN
  BY DEF MailInv, MailTyped
<1>2. bare \in Row /\ bare.exists
  BY <1>1 DEF Row
<1>3. doc \in Row /\ doc.exists
  BY <1>1, <1>2, VouchedRow
<1>4. /\ cluster' = IF told THEN [cluster EXCEPT !.enabled = Live(doc)] ELSE cluster
      /\ checks' = [checks EXCEPT ![w] = a]
  BY DEF Recheck
<1> HIDE DEF doc
<1>5. Live(doc) \in BOOLEAN /\ told \in BOOLEAN /\ (~told => (Live(doc) <=> Live(domain)))
  BY DEF Live
<1> HIDE DEF told
<1>6. a \in Proc /\ a.at = "resolve" /\ a.fresh /\ a.doc = doc /\ a.told = told
  BY <1>3, <1>5 DEF Proc
<1>7. /\ cluster' \in [exists: BOOLEAN, enabled: BOOLEAN] /\ (cluster'.exists <=> cluster.exists)
      /\ told => (cluster'.enabled <=> Live(doc))
      /\ ~told => cluster' = cluster
  BY <1>1, <1>4, <1>5
<1> HIDE DEF a
<1>8. Live(a.doc) <=> Live(doc)
  BY <1>6
<1> QED BY <1>1, <1>3, <1>4, <1>5, <1>6, <1>7, <1>8, CheckStep

LEMMA RechecksKeep ==
    ASSUME MailInv, NEW w \in Checkers, RecheckJob(w) \/ HourlyRecheck(w)
    PROVE  MailInv'
<1>1. UNCHANGED <<skip, domain, untold>> /\ checks[w].at = "idle"
  BY DEF RecheckJob, HourlyRecheck
<1>2. CASE Recheck(w) /\ domain.exists
  BY <1>1, <1>2, RecheckKeeps
<1>3. CASE UNCHANGED <<cluster, checks>>
  <2>1. MailTyped' /\ CopyAgrees'
    BY <1>1, <1>3 DEF MailInv, MailTyped, CopyAgrees, Live
  <2>2. \A v \in Checkers : Carries(v)'
    BY <1>1, <1>3 DEF MailInv, Carries, Live
  <2> QED BY <2>1, <2>2 DEF MailInv
<1> QED
  BY <1>2, <1>3 DEF RecheckJob, HourlyRecheck

LEMMA ResolveKeeps ==
    ASSUME MailInv, NEW w \in Checkers, NEW answered \in SUBSET Mandatory, Resolve(w, answered)
    PROVE  MailInv'
<1> DEFINE old == checks[w]
           proved == (old.doc.proved \ answered) \cup (published \cap answered)
           doc == [old.doc EXCEPT !.proved = proved, !.verified = skip \/ Proof(proved)]
           a == [old EXCEPT !.doc = doc, !.at = Tell(old.doc, doc)]
<1>1. /\ checks \in [Checkers -> Proc] /\ untold \in BOOLEAN /\ skip \in BOOLEAN
      /\ cluster \in [exists: BOOLEAN, enabled: BOOLEAN] /\ old \in Proc
  BY DEF MailInv, MailTyped
<1>2. UNCHANGED <<skip, domain, cluster, untold>> /\ old.at = "resolve"
  BY DEF Resolve
<1>3. checks' = [checks EXCEPT ![w] = a]
  BY <1>1 DEF Resolve
<1>4. doc \in Row /\ (doc.exists <=> old.doc.exists)
  <2>1. old.doc \in Row /\ proved \in SUBSET Mandatory
    BY <1>1 DEF Proc, Row
  <2>2. (skip \/ Proof(proved)) \in BOOLEAN
    OBVIOUS
  <2> QED BY <2>1, <2>2 DEF Row
<1> HIDE DEF doc
<1>5. /\ Tell(old.doc, doc) \in {"push", "save"}
      /\ Tell(old.doc, doc) = "save" => (Live(doc) <=> Live(old.doc))
  BY DEF Tell, Live
<1>6. /\ a \in Proc /\ a.at = Tell(old.doc, doc) /\ a.doc = doc
      /\ (a.told <=> old.told) /\ (a.fresh <=> old.fresh)
  BY <1>1, <1>4, <1>5 DEF Proc
<1> HIDE DEF a
<1>7. Live(a.doc) <=> Live(doc)
  BY <1>6
<1>8. Carries(w)
  BY DEF MailInv
<1>9. a.fresh => domain.exists /\ a.doc.exists
  BY <1>4, <1>6, <1>8 DEF Carries
<1>10. a.fresh /\ a.at \in {"resolve", "save"} =>
         IF a.told THEN \/ untold' \/ \E v \in Checkers \ {w} : checks[v].told
                        \/ cluster'.enabled <=> Live(a.doc)
         ELSE Live(a.doc) <=> Live(domain)
  BY <1>2, <1>5, <1>6, <1>7, <1>8 DEF Carries
<1>11. a.at # "idle" /\ (old.told => a.told)
  BY <1>5, <1>6
<1> QED BY <1>1, <1>2, <1>3, <1>6, <1>9, <1>10, <1>11, CheckStep

LEMMA PushKeeps ==
    ASSUME MailInv, NEW w \in Checkers, Push(w)
    PROVE  MailInv'
<1> DEFINE old == checks[w]
           a == [old EXCEPT !.at = "save", !.told = TRUE]
<1>1. /\ checks \in [Checkers -> Proc] /\ untold \in BOOLEAN
      /\ cluster \in [exists: BOOLEAN, enabled: BOOLEAN] /\ old \in Proc
  BY DEF MailInv, MailTyped
<1>2. UNCHANGED <<skip, domain, untold>> /\ cluster' = [cluster EXCEPT !.enabled = Live(old.doc)]
  BY DEF Push
<1>3. checks' = [checks EXCEPT ![w] = a]
  BY <1>1 DEF Push
<1>4. a \in Proc /\ a.at = "save" /\ a.doc = old.doc /\ a.told /\ (a.fresh <=> old.fresh)
  BY <1>1 DEF Proc
<1>5. Live(old.doc) \in BOOLEAN
  BY DEF Live
<1> HIDE DEF a
<1>6. /\ cluster' \in [exists: BOOLEAN, enabled: BOOLEAN] /\ (cluster'.exists <=> cluster.exists)
      /\ (cluster'.enabled <=> Live(a.doc))
  BY <1>1, <1>2, <1>4, <1>5
<1>7. a.fresh => domain.exists /\ a.doc.exists
  BY <1>4 DEF MailInv, Carries
<1> QED BY <1>1, <1>2, <1>3, <1>4, <1>6, <1>7, CheckStep

LEMMA SaveKeeps ==
    ASSUME MailInv, NEW w \in Checkers, Save(w)
    PROVE  MailInv'
<1> DEFINE old == checks[w].doc
           new == Vouch(old)
           ps == [checks EXCEPT ![w] = Resting]
<1>1. /\ checks \in [Checkers -> Proc] /\ untold \in BOOLEAN /\ skip \in BOOLEAN
      /\ cluster \in [exists: BOOLEAN, enabled: BOOLEAN]
      /\ \A v \in Checkers : checks[v].at = "idle" => ~checks[v].told
  BY DEF MailInv, MailTyped
<1>2. old \in Row
  BY <1>1 DEF Proc
<1>3. new \in Row /\ (new.exists <=> old.exists)
  BY <1>1, <1>2, VouchedRow
<1>4. /\ Committed(new, ps) /\ untold' = (untold \/ Live(new) # Live(old))
      /\ UNCHANGED <<skip, cluster>> /\ checks[w].at = "save" /\ checks[w].fresh
  BY DEF Save
<1> HIDE DEF new
<1>5. untold' \in BOOLEAN /\ (untold => untold') /\ (~untold' => (Live(new) <=> Live(old)))
  BY <1>1, <1>4 DEF Live
<1>6. Resting \in Proc /\ ~Resting.told
  BY DEF Resting, Proc, NoDomainRow, Row
<1>7. /\ ps \in [Checkers -> Proc] /\ \A v \in Checkers : ps[v].at = "idle" => ~ps[v].told
      /\ \A v \in Checkers \ {w} : ps[v] = checks[v]
  BY <1>1, <1>6
<1>8. Carries(w) /\ CopyAgrees
  BY DEF MailInv
<1>9. domain.exists /\ old.exists
  BY <1>4, <1>8 DEF Carries
<1>10. ASSUME ~untold', \A v \in Checkers \ {w} : ~checks[v].told PROVE cluster.enabled <=> Live(old)
  <2>1. CASE checks[w].told
    BY <1>4, <1>5, <1>8, <1>10, <2>1 DEF Carries
  <2>2. CASE ~checks[w].told
    <3>1. \A v \in Checkers : ~checks[v].told
      BY <1>10, <2>2
    <3> QED BY <1>4, <1>5, <1>8, <1>9, <1>10, <2>2, <3>1 DEF Carries, CopyAgrees
  <2> QED BY <2>1, <2>2
<1>11. untold' \/ /\ cluster'.exists <=> new.exists
                  /\ (\E v \in Checkers : ps[v].told) \/ (new.exists => (cluster'.enabled <=> Live(new)))
  <2>1. untold' \/ (cluster'.exists <=> new.exists)
    BY <1>3, <1>4, <1>5, <1>8, <1>9 DEF CopyAgrees
  <2>2. untold' \/ (\E v \in Checkers : ps[v].told) \/ (cluster'.enabled <=> Live(new))
    BY <1>4, <1>5, <1>7, <1>10
  <2> QED BY <2>1, <2>2
<1> HIDE DEF ps
<1> QED BY <1>1, <1>3, <1>4, <1>5, <1>7, <1>11, CommitStep

LEMMA EndsKeep ==
    ASSUME MailInv, NEW w \in Checkers, Refused(w) \/ Fails(w)
    PROVE  MailInv'
<1>1. checks \in [Checkers -> Proc] /\ untold \in BOOLEAN /\ cluster \in [exists: BOOLEAN, enabled: BOOLEAN]
      /\ checks[w] \in Proc
  BY DEF MailInv, MailTyped
<1>2. UNCHANGED <<skip, domain, cluster>> /\ checks' = [checks EXCEPT ![w] = Resting]
      /\ untold' = (untold \/ checks[w].told)
  BY DEF Refused, Fails
<1>3. Resting \in Proc /\ ~Resting.told /\ ~Resting.fresh
  BY DEF Resting, Proc, NoDomainRow, Row
<1>4. untold' \in BOOLEAN /\ (untold => untold') /\ (checks[w].told => untold')
  BY <1>1, <1>2 DEF Proc
<1> QED BY <1>1, <1>2, <1>3, <1>4, CheckStep

\* With nothing under way, the cluster has a mail domain exactly while its row exists and serves it exactly
\* while the row is live, unless a push or a save was lost on the way: for any records, and any number of
\* workers, edits, rechecks and faults (verify_dns_records, save_records, validate, recheck_vouched_domains).
THEOREM ClusterServesLiveDomains == FairDomainSpec => []ClusterFollows
<1>1. MailInv /\ [DomainNext]_domainVars => MailInv'
  <2> SUFFICES ASSUME MailInv, DomainNext \/ UNCHANGED domainVars PROVE MailInv'
    OBVIOUS
  <2>1. CASE People
    BY <2>1, AskedKeeps
  <2>2. ASSUME NEW w \in Checkers,
               \/ StartCheck(w) \/ HourlyCheck(w) \/ StartRefresh(w) \/ RecheckJob(w)
               \/ HourlyRecheck(w) \/ \E answered \in SUBSET Mandatory : Resolve(w, answered)
               \/ Push(w) \/ Save(w) \/ Refused(w) \/ Fails(w)
        PROVE  MailInv'
    BY <2>2, StartsKeep, RechecksKeep, ResolveKeeps, PushKeeps, SaveKeeps, EndsKeep
  <2>3. CASE UNCHANGED domainVars
    <3>1. UNCHANGED <<skip, domain, cluster, checks, untold>>
      BY <2>3 DEF domainVars
    <3>2. MailTyped' /\ CopyAgrees'
      BY <3>1 DEF MailInv, MailTyped, CopyAgrees, Live
    <3>3. \A v \in Checkers : Carries(v)'
      BY <3>1 DEF MailInv, Carries, Live
    <3> QED BY <3>2, <3>3 DEF MailInv
  <2> QED BY <2>1, <2>2, <2>3 DEF DomainNext
<1>2. MailInv => ClusterFollows
  <2> SUFFICES ASSUME MailInv, \A w \in Checkers : checks[w].at = "idle", ~untold
               PROVE  /\ cluster.exists = domain.exists
                      /\ domain.exists => cluster.enabled = Live(domain)
    BY DEF ClusterFollows
  <2>1. \A w \in Checkers : ~checks[w].told
    BY DEF MailInv, MailTyped
  <2>2. /\ cluster.exists <=> domain.exists
        /\ domain.exists => (cluster.enabled <=> Live(domain))
    BY <2>1 DEF MailInv, CopyAgrees
  <2>3. /\ cluster.exists \in BOOLEAN /\ cluster.enabled \in BOOLEAN /\ domain.exists \in BOOLEAN
        /\ Live(domain) \in BOOLEAN
    BY DEF MailInv, MailTyped, Row, Live
  <2> QED BY <2>2, <2>3
<1> QED
  BY <1>1, <1>2, MailInit, PTL DEF FairDomainSpec, DomainSpec
=============================================================================
