----------------------------- MODULE MailProofs -----------------------------
(***************************************************************************)
(* Proofs about what accounts may send (SendingLimits), for any number of  *)
(* accounts, limits, workers and days, and any number of saves and losses; *)
(* about an account and its app passwords (MailAccounts), for any number   *)
(* of requests, credentials, edits and faults and any quota; and about the *)
(* directory (MailDirectory), for any number of requests and faults.       *)
(***************************************************************************)
EXTENDS MCMail, FiniteSetTheorems, TLAPS

\* The keys a request counts under are keys, whatever day it has stamped.
LEMMA PeriodKeys ==
    ASSUME NEW a \in Accounts, NEW d \in Days
    PROVE  PeriodsAt(a, d) \subseteq Keys /\ DayKey(a, d) \in Keys /\ MonthKey(a, d) \in Keys
<1>1. MonthOf(d) \in Months
  <2>1. d \in Nat /\ 1 <= d /\ d <= MaxDay
    BY ConstantsAssumption DEF Days
  <2>2. (d - 1) \div MonthLength \in Nat /\ (MaxDay - 1) \div MonthLength \in Nat
    BY <2>1, ConstantsAssumption, Z3
  <2>3. (d - 1) \div MonthLength <= (MaxDay - 1) \div MonthLength
    BY <2>1, ConstantsAssumption, Z3
  <2> QED
    BY <2>2, <2>3 DEF MonthOf, Months
<1> QED
  BY <1>1 DEF PeriodsAt, DayKey, MonthKey, Keys

\* A key names its account.
LEMMA KeyAccount ==
    ASSUME NEW k \in Keys
    PROVE  k[1] \in Accounts
BY DEF Keys

\* The rest of the inductive invariant: a request knows its account, and the flush writes only
\* rows of accounts it found.
Busy == \A w \in Workers : worker[w].at # "idle" => worker[w].account \in Accounts

Matched == flusher.at = "upsert" => \A k \in flusher.rows : flusher.limits[k[1]] \in Limits

\* What a request or a flush has read is a count that was sent, too: this is what makes the
\* bound inductive, since both write what they read some steps later.
ReadCounts ==
    \A k \in Keys :
        /\ \A w \in Workers : worker[w].seed[k] <= accepted[k]
        /\ flusher.sent[k] <= accepted[k]

TypeInv == TypeOK /\ Busy /\ Matched

LEMMA InitTypeInv == Init => TypeInv
<1> SUFFICES ASSUME Init PROVE TypeInv
  OBVIOUS
<1> USE ConstantsAssumption DEF Init
<1>0. NoCounts \in [Keys -> Nat]
  BY DEF NoCounts
<1>1. worker \in [Workers -> WorkerState]
  BY <1>0 DEF Idle, WorkerState, Days
<1>2. flusher \in FlusherState
  BY <1>0 DEF NoFlush, FlusherState
<1>3. held \in [Accounts -> [Days -> SUBSET Limits]]
  BY DEF Days
<1>4. TypeOK
  BY <1>0, <1>1, <1>2, <1>3 DEF TypeOK, Days
<1> QED
  BY <1>4 DEF TypeInv, Busy, Matched, Idle, NoFlush

LEMMA IdleTypes == Idle \in WorkerState /\ NoFlush \in FlusherState /\ NoCounts \in [Keys -> Nat]
BY ConstantsAssumption DEF Idle, NoFlush, NoCounts, WorkerState, FlusherState, Days

\* The steps of a request.
LEMMA WorkerTypeInv ==
    ASSUME TypeInv, NEW w \in Workers, Worker(w)
    PROVE  TypeInv'
<1> USE ConstantsAssumption DEF TypeInv, TypeOK
<1>0. worker[w] \in WorkerState /\ Idle \in WorkerState
  BY IdleTypes
<1>a. ASSUME NEW v \in WorkerState, v.at # "idle" => v.account \in Accounts,
             worker' = [worker EXCEPT ![w] = v], UNCHANGED <<today, database, redis, flusher, accepted>>
      PROVE  TypeInv'
  BY <1>a DEF Busy, Matched, database, redis
<1>b. ASSUME NEW a \in Accounts, NEW l \in Limits \cup {NoAccount}
      PROVE  /\ AfterLimits(a, l) \in WorkerState
             /\ AfterLimits(a, l).at # "idle" => AfterLimits(a, l).account \in Accounts
  BY <1>0 DEF AfterLimits, WorkerState, Idle
<1>c. ASSUME NEW sent \in [Keys -> Nat], CountRecipient(w, sent), worker[w].at # "idle"
      PROVE  TypeInv'
  <2>1. KeysOf(w) \subseteq Keys
    BY <1>0, <1>c, PeriodKeys DEF KeysOf, Busy, WorkerState
  <2>2. counter' \in [Keys -> Nat] /\ accepted' \in [Keys -> Nat]
    BY <1>c DEF CountRecipient
  <2>3. live' \subseteq Keys /\ touched' \subseteq Keys
    BY <1>c, <2>1 DEF CountRecipient
  <2>4. worker' \in [Workers -> WorkerState] /\ Busy'
    BY <1>c, <1>0 DEF CountRecipient, Busy, Idle
  <2> QED
    BY <1>c, <2>2, <2>3, <2>4 DEF CountRecipient, Matched, database
<1>1. ASSUME NEW a \in Accounts, LimitsCached(w, a) PROVE TypeInv'
  BY <1>1, <1>a, <1>b DEF LimitsCached
<1>2. ASSUME NEW a \in Accounts, LimitsMissing(w, a) PROVE TypeInv'
  <2>1. [Idle EXCEPT !.at = "load", !.account = a] \in WorkerState
    BY <1>0 DEF WorkerState
  <2> QED
    BY <1>2, <1>a, <2>1 DEF LimitsMissing, Idle
<1>3. ASSUME LoadLimits(w) PROVE TypeInv'
  <2> DEFINE v == [worker[w] EXCEPT !.at = "fill", !.limits = account[worker[w].account]]
  <2>1. v \in WorkerState /\ v.account \in Accounts
    BY <1>3, <1>0 DEF LoadLimits, WorkerState, Busy
  <2>2. worker' = [worker EXCEPT ![w] = v]
    BY <1>3 DEF LoadLimits
  <2> QED
    BY <1>3, <1>a, <2>1, <2>2 DEF LoadLimits
<1>4. ASSUME FillCache(w) PROVE TypeInv'
  <2>1. worker[w].account \in Accounts /\ worker[w].limits \in Limits \cup {NoAccount}
    BY <1>4, <1>0 DEF FillCache, WorkerState, Busy
  <2>2. worker' \in [Workers -> WorkerState] /\ Busy'
    BY <1>4, <2>1, <1>b DEF FillCache, Busy
  <2>3. cache' \in [Accounts -> Limits \cup {NoAccount, None}]
    BY <1>4, <2>1 DEF FillCache
  <2> QED
    BY <1>4, <2>2, <2>3 DEF FillCache, Matched, database
<1>5. ASSUME Stamp(w) PROVE TypeInv'
  <2> DEFINE v == [worker[w] EXCEPT !.at = "check", !.day = today]
  <2>1. v \in WorkerState /\ v.account \in Accounts
    BY <1>5, <1>0 DEF Stamp, WorkerState, Busy
  <2> QED
    BY <1>5, <1>a, <2>1 DEF Stamp
<1>6. ASSUME Check(w) PROVE TypeInv'
  BY <1>6, <1>c DEF Check
<1>7. ASSUME CheckAsksForSeed(w) PROVE TypeInv'
  <2> DEFINE v == [worker[w] EXCEPT !.at = "seed"]
  <2>1. v \in WorkerState /\ v.account \in Accounts
    BY <1>7, <1>0 DEF CheckAsksForSeed, WorkerState, Busy
  <2> QED
    BY <1>7, <1>a, <2>1 DEF CheckAsksForSeed
<1>8. ASSUME GetSeed(w) PROVE TypeInv'
  <2> DEFINE sd == [k \in Keys |-> IF k \in KeysOf(w) THEN usage[k] ELSE 0]
             v == [worker[w] EXCEPT !.at = "recheck", !.seed = sd]
  <2>0. sd \in [Keys -> Nat]
    OBVIOUS
  <2> HIDE DEF sd
  <2>1. v \in WorkerState /\ v.account \in Accounts
    BY <1>8, <1>0, <2>0 DEF GetSeed, WorkerState, Busy
  <2>2. worker' = [worker EXCEPT ![w] = v]
    BY <1>8 DEF GetSeed, sd
  <2> QED
    BY <1>8, <1>a, <2>1, <2>2 DEF GetSeed
<1>9. ASSUME CheckSeeded(w) PROVE TypeInv'
  <2>1. Seeded(w) \in [Keys -> Nat]
    BY <1>0 DEF Seeded, WorkerState
  <2> QED
    BY <1>9, <1>c, <2>1 DEF CheckSeeded
<1>10. ASSUME WorkerFails(w) PROVE TypeInv'
  BY <1>10, <1>a, <1>0 DEF WorkerFails, Idle
<1> QED
  BY <1>1, <1>2, <1>3, <1>4, <1>5, <1>6, <1>7, <1>8, <1>9, <1>10 DEF Worker
\* The steps of the flush.
LEMMA FlushTypeInv ==
    ASSUME TypeInv, Flush
    PROVE  TypeInv'
<1> USE ConstantsAssumption DEF TypeInv, TypeOK
<1>0. NoFlush \in FlusherState /\ NoFlush.at = "idle"
  BY IdleTypes DEF NoFlush
<1>a. ASSUME NEW v \in FlusherState, v.at # "upsert", flusher' = v,
             UNCHANGED <<today, database, redis, worker, accepted>>
      PROVE  TypeInv'
  BY <1>a DEF Busy, Matched, database, redis
<1>1. ASSUME FlushTake PROVE TypeInv'
  <2>1. flusher' \in FlusherState /\ flusher'.at # "upsert"
    BY <1>1, <1>0 DEF FlushTake, FlusherState
  <2>2. flushing' \subseteq Keys /\ touched' \subseteq Keys
    BY <1>1 DEF FlushTake
  <2> QED
    BY <1>1, <2>1, <2>2 DEF FlushTake, Busy, Matched, database
<1>2. ASSUME FlushRead PROVE TypeInv'
  <2> DEFINE rows == {k \in flushing \cap live : k \in Reportable(k[1])}
             sent == [k \in Keys |-> IF k \in rows THEN counter[k] ELSE 0]
  <2>1. rows \subseteq Keys /\ sent \in [Keys -> Nat]
    OBVIOUS
  <2>2. flusher' = [flusher EXCEPT !.at = "match", !.rows = rows, !.sent = sent]
    BY <1>2 DEF FlushRead
  <2> HIDE DEF rows, sent
  <2>3. flusher' \in FlusherState /\ flusher'.at # "upsert"
    BY <2>1, <2>2 DEF FlusherState
  <2> QED
    BY <1>2, <1>a, <2>3 DEF FlushRead
<1>3. ASSUME FlushMatch PROVE TypeInv'
  <2> DEFINE rows == {k \in flusher.rows : account[k[1]] # NoAccount}
  <2>1. rows \subseteq Keys /\ \A k \in rows : account[k[1]] \in Limits
    BY KeyAccount DEF FlusherState
  <2>2. flusher' = [flusher EXCEPT !.at = "upsert", !.limits = account, !.rows = rows]
    BY <1>3 DEF FlushMatch, FlusherState
  <2> HIDE DEF rows
  <2>3. flusher' \in FlusherState /\ flusher'.rows = rows /\ flusher'.limits = account
    BY <2>1, <2>2 DEF FlusherState
  <2>4. Matched'
    BY <2>1, <2>3 DEF Matched
  <2> QED
    BY <1>3, <2>3, <2>4 DEF FlushMatch, Busy, database, redis
<1>4. ASSUME FlushUpsert PROVE TypeInv'
  <2>1. Upserted \in [Keys -> Nat]
    BY DEF Upserted, FlusherState
  <2>2. UpsertedLimit \in [Keys -> Nat]
    BY <1>4 DEF UpsertedLimit, FlushUpsert, Matched, LimitOf
  <2>3. flusher' \in FlusherState /\ flusher'.at # "upsert"
    BY <1>4, <1>0 DEF FlushUpsert, FlusherState
  <2> QED
    BY <1>4, <2>1, <2>2, <2>3 DEF FlushUpsert, Busy, Matched, redis
<1>5. ASSUME FlushClear PROVE TypeInv'
  BY <1>5, <1>0 DEF FlushClear, Busy, Matched, database
<1>6. ASSUME FlushFails PROVE TypeInv'
  BY <1>6, <1>a, <1>0 DEF FlushFails
<1> QED
  BY <1>1, <1>2, <1>3, <1>4, <1>5, <1>6 DEF Flush

\* Every step.
LEMMA NextTypeInv ==
    ASSUME TypeInv, [Next]_vars
    PROVE  TypeInv'
<1> USE ConstantsAssumption DEF TypeInv, TypeOK
<1>1. ASSUME NEW w \in Workers, Worker(w) PROVE TypeInv'
  BY <1>1, WorkerTypeInv
<1>2. ASSUME Flush PROVE TypeInv'
  BY <1>2, FlushTypeInv
<1>3. ASSUME NEW a \in Accounts, NEW l \in Limits, SaveAccount(a, l) PROVE TypeInv'
  <2>1. held' \in [Accounts -> [Days -> SUBSET Limits]]
    BY <1>3 DEF SaveAccount
  <2> QED
    BY <1>3, <2>1 DEF SaveAccount, Busy, Matched, redis
<1>4. ASSUME NEW a \in Accounts, TrashAccount(a) PROVE TypeInv'
  BY <1>4 DEF TrashAccount, Busy, Matched, redis
<1>5. ASSUME NEW a \in Accounts, ClearLimits(a) PROVE TypeInv'
  BY <1>5 DEF ClearLimits, Busy, Matched
<1>6. ASSUME NEW a \in Accounts, MissClear(a) PROVE TypeInv'
  BY <1>6 DEF MissClear, Busy, Matched
<1>7. ASSUME NEW a \in Accounts, ExpireLimits(a) PROVE TypeInv'
  BY <1>7 DEF ExpireLimits, Busy, Matched, database
<1>8. ASSUME NEW keys \in SUBSET live, LoseCounters(keys) PROVE TypeInv'
  BY <1>8 DEF LoseCounters, Busy, Matched, database
<1>9. ASSUME NewDay PROVE TypeInv'
  <2>1. today' \in Days
    BY <1>9 DEF NewDay, Days
  <2>2. held' \in [Accounts -> [Days -> SUBSET Limits]]
    BY <1>9 DEF NewDay
  <2> QED
    BY <1>9, <2>1, <2>2 DEF NewDay, Busy, Matched, redis
<1>10. ASSUME UNCHANGED vars PROVE TypeInv'
  BY <1>10 DEF vars, Busy, Matched
<1> QED
  BY <1>1, <1>2, <1>3, <1>4, <1>5, <1>6, <1>7, <1>8, <1>9, <1>10 DEF Next

\* Type correctness, for every number of workers, accounts, days, saves and losses.
THEOREM TypeCorrect == Spec => []TypeOK
<1>1. Spec => []TypeInv
  BY InitTypeInv, NextTypeInv, PTL DEF Spec
<1>2. TypeInv => TypeOK
  BY DEF TypeInv
<1> QED
  BY <1>1, <1>2, PTL
----------------------------------------------------------------------------
(* Nothing is counted that was not sent *)

Counted == NeverOvercounted /\ ReadCounts

\* A recipient is counted on top of counts that were sent.
LEMMA CountRecipientCounted ==
    ASSUME TypeInv, Counted, NEW w \in Workers, NEW sent \in [Keys -> Nat],
           \A k \in Keys : sent[k] <= accepted[k], CountRecipient(w, sent)
    PROVE  Counted'
<1> USE DEF TypeInv, TypeOK
<1>1. \A k \in Keys : accepted'[k] \in Nat /\ accepted[k] <= accepted'[k] /\ counter'[k] <= accepted'[k]
  BY DEF CountRecipient
<1>2. NeverOvercounted'
  BY <1>1 DEF CountRecipient, Counted, NeverOvercounted, database
<1>3. ASSUME NEW k \in Keys PROVE flusher'.sent[k] <= accepted'[k]
  BY <1>1 DEF CountRecipient, Counted, ReadCounts, FlusherState
<1>4. ASSUME NEW k \in Keys, NEW x \in Workers PROVE worker'[x].seed[k] <= accepted'[k]
  <2>1. CASE x = w
    BY <2>1, <1>1 DEF CountRecipient, Idle, NoCounts
  <2>2. CASE x # w
    <3>1. worker'[x] = worker[x] /\ worker[x].seed[k] \in Nat
      BY <2>2 DEF CountRecipient, WorkerState
    <3> QED
      BY <3>1, <1>1 DEF Counted, ReadCounts
  <2> QED
    BY <2>1, <2>2
<1> QED
  BY <1>2, <1>3, <1>4 DEF Counted, ReadCounts

LEMMA NextCounted ==
    ASSUME TypeInv, Counted, [Next]_vars
    PROVE  Counted'
<1> USE DEF TypeInv, TypeOK
\* Steps that leave the counts alone and set a request or the flush to something harmless.
<1>a. ASSUME UNCHANGED <<counter, usage, accepted, flusher>>, NEW w \in Workers,
             \A x \in Workers : x # w => worker'[x] = worker[x],
             \A k \in Keys : worker'[w].seed[k] <= accepted[k]
      PROVE  Counted'
  <2>1. ASSUME NEW k \in Keys, NEW x \in Workers PROVE worker'[x].seed[k] <= accepted'[k]
    BY <1>a DEF Counted, ReadCounts
  <2> QED
    BY <1>a, <2>1 DEF Counted, NeverOvercounted, ReadCounts
<1>b. \A k \in Keys : Idle.seed[k] <= accepted[k]
  BY DEF Idle, NoCounts
<1>1. ASSUME NEW w \in Workers, Worker(w) PROVE Counted'
  <2>0. worker[w] \in WorkerState /\ \A k \in Keys : worker[w].seed[k] <= accepted[k]
    BY DEF Counted, ReadCounts
  <2>1. ASSUME NEW a \in Accounts, LimitsCached(w, a) PROVE Counted'
    <3>1. \A k \in Keys : worker'[w].seed[k] <= accepted[k]
      BY <2>1, <1>b DEF LimitsCached, AfterLimits, Idle
    <3> QED
      BY <2>1, <3>1, <1>a DEF LimitsCached, database, redis
  <2>2. ASSUME NEW a \in Accounts, LimitsMissing(w, a) PROVE Counted'
    <3>1. \A k \in Keys : worker'[w].seed[k] <= accepted[k]
      BY <2>2, <1>b DEF LimitsMissing, Idle
    <3> QED
      BY <2>2, <3>1, <1>a DEF LimitsMissing, database, redis
  <2>3. ASSUME LoadLimits(w) PROVE Counted'
    <3>1. worker'[w].seed = worker[w].seed
      BY <2>3, <2>0 DEF LoadLimits, WorkerState
    <3> QED
      BY <2>3, <3>1, <2>0, <1>a DEF LoadLimits, database, redis
  <2>4. ASSUME FillCache(w) PROVE Counted'
    <3>1. \A k \in Keys : worker'[w].seed[k] <= accepted[k]
      BY <2>4, <1>b DEF FillCache, AfterLimits, Idle
    <3> QED
      BY <2>4, <3>1, <1>a DEF FillCache, database
  <2>5. ASSUME Stamp(w) PROVE Counted'
    <3>1. worker'[w].seed = worker[w].seed
      BY <2>5, <2>0 DEF Stamp, WorkerState
    <3> QED
      BY <2>5, <3>1, <2>0, <1>a DEF Stamp, database, redis
  <2>6. ASSUME Check(w) PROVE Counted'
    BY <2>6, CountRecipientCounted DEF Check, Counted, NeverOvercounted
  <2>7. ASSUME CheckAsksForSeed(w) PROVE Counted'
    <3>1. worker'[w].seed = worker[w].seed
      BY <2>7, <2>0 DEF CheckAsksForSeed, WorkerState
    <3> QED
      BY <2>7, <3>1, <2>0, <1>a DEF CheckAsksForSeed, database, redis
  <2>8. ASSUME GetSeed(w) PROVE Counted'
    <3>1. worker'[w].seed = [k \in Keys |-> IF k \in KeysOf(w) THEN usage[k] ELSE 0]
      BY <2>8, <2>0 DEF GetSeed, WorkerState
    <3>2. \A k \in Keys : worker'[w].seed[k] <= accepted[k]
      BY <3>1 DEF Counted, NeverOvercounted
    <3> QED
      BY <2>8, <3>2, <1>a DEF GetSeed, database, redis
  <2>9. ASSUME CheckSeeded(w) PROVE Counted'
    <3>1. Seeded(w) \in [Keys -> Nat]
      BY <2>0 DEF Seeded, WorkerState
    <3>2. \A k \in Keys : Seeded(w)[k] <= accepted[k]
      BY <2>0 DEF Seeded, Counted, NeverOvercounted
    <3> QED
      BY <2>9, <3>1, <3>2, CountRecipientCounted DEF CheckSeeded
  <2>10. ASSUME WorkerFails(w) PROVE Counted'
    BY <2>10, <1>a, <1>b DEF WorkerFails, database, redis
  <2> QED
    BY <1>1, <2>1, <2>2, <2>3, <2>4, <2>5, <2>6, <2>7, <2>8, <2>9, <2>10 DEF Worker
<1>2. ASSUME Flush PROVE Counted'
  <2>a. ASSUME UNCHANGED <<counter, accepted, worker>>,
               \A k \in Keys : usage'[k] <= accepted[k],
               \A k \in Keys : flusher'.sent[k] <= accepted[k]
        PROVE  Counted'
    BY <2>a DEF Counted, NeverOvercounted, ReadCounts
  <2>b. \A k \in Keys : NoFlush.sent[k] <= accepted[k]
    BY DEF NoFlush, NoCounts
  <2>c. \A k \in Keys : usage[k] <= accepted[k] /\ flusher.sent[k] <= accepted[k]
    BY DEF Counted, NeverOvercounted, ReadCounts
  <2>1. ASSUME FlushTake PROVE Counted'
    BY <2>1, <2>a, <2>b, <2>c DEF FlushTake, database, NoFlush
  <2>2. ASSUME FlushRead PROVE Counted'
    <3>1. \A k \in Keys : flusher'.sent[k] <= accepted[k]
      BY <2>2 DEF FlushRead, FlusherState, Counted, NeverOvercounted
    <3> QED
      BY <2>2, <3>1, <2>a, <2>c DEF FlushRead, database, redis
  <2>3. ASSUME FlushMatch PROVE Counted'
    <3>1. flusher'.sent = flusher.sent
      BY <2>3 DEF FlushMatch, FlusherState
    <3> QED
      BY <2>3, <3>1, <2>a, <2>c DEF FlushMatch, database, redis
  <2>4. ASSUME FlushUpsert PROVE Counted'
    <3>1. \A k \in Keys : Upserted[k] <= accepted[k]
      BY <2>c DEF Upserted
    <3> QED
      BY <2>4, <3>1, <2>a, <2>b DEF FlushUpsert, redis, NoFlush
  <2>5. ASSUME FlushClear PROVE Counted'
    BY <2>5, <2>a, <2>b, <2>c DEF FlushClear, database
  <2>6. ASSUME FlushFails PROVE Counted'
    BY <2>6, <2>a, <2>b, <2>c DEF FlushFails, database, redis
  <2> QED
    BY <1>2, <2>1, <2>2, <2>3, <2>4, <2>5, <2>6 DEF Flush
<1>c. ASSUME UNCHANGED <<worker, flusher, accepted>>,
             \A k \in Keys : counter'[k] <= accepted[k],
             \A k \in Keys : usage'[k] <= accepted[k]
      PROVE  Counted'
  BY <1>c DEF Counted, NeverOvercounted, ReadCounts
<1>d. \A k \in Keys : counter[k] <= accepted[k] /\ usage[k] <= accepted[k] /\ 0 <= accepted[k]
  BY DEF Counted, NeverOvercounted
<1>3. ASSUME NEW a \in Accounts, NEW l \in Limits, SaveAccount(a, l) PROVE Counted'
  BY <1>3, <1>c, <1>d DEF SaveAccount, redis
<1>4. ASSUME NEW a \in Accounts, TrashAccount(a) PROVE Counted'
  BY <1>4, <1>c, <1>d DEF TrashAccount, redis
<1>5. ASSUME NEW a \in Accounts, ClearLimits(a) PROVE Counted'
  BY <1>5, <1>c, <1>d DEF ClearLimits
<1>6. ASSUME NEW a \in Accounts, MissClear(a) PROVE Counted'
  BY <1>6, <1>c, <1>d DEF MissClear
<1>7. ASSUME NEW a \in Accounts, ExpireLimits(a) PROVE Counted'
  BY <1>7, <1>c, <1>d DEF ExpireLimits, database
<1>8. ASSUME NEW keys \in SUBSET live, LoseCounters(keys) PROVE Counted'
  BY <1>8, <1>c, <1>d DEF LoseCounters, database
<1>9. ASSUME NewDay PROVE Counted'
  BY <1>9, <1>c, <1>d DEF NewDay, redis
<1>10. ASSUME UNCHANGED vars PROVE Counted'
  BY <1>10, <1>c, <1>d DEF vars
<1> QED
  BY <1>1, <1>2, <1>3, <1>4, <1>5, <1>6, <1>7, <1>8, <1>9, <1>10 DEF Next

LEMMA InitCounted == Init => Counted
BY DEF Init, Counted, NeverOvercounted, ReadCounts, Idle, NoFlush, NoCounts

\* No account is counted, refused or reported for more recipients than it sent, however requests,
\* flushes, losses of Redis, deletions and re-creations interleave.
THEOREM NothingOvercounted == Spec => []NeverOvercounted
<1>1. Spec => [](TypeInv /\ Counted)
  <2>1. Init => TypeInv /\ Counted
    BY InitTypeInv, InitCounted
  <2>2. TypeInv /\ Counted /\ [Next]_vars => (TypeInv /\ Counted)'
    BY NextTypeInv, NextCounted
  <2> QED
    BY <2>1, <2>2, PTL DEF Spec
<1>2. Counted => NeverOvercounted
  BY DEF Counted
<1> QED
  BY <1>1, <1>2, PTL
----------------------------------------------------------------------------
(* No account sends more than a limit it had *)

\* Every copy of an account's limits, in its row, in the cache or in a request, is of limits the
\* account had.
LimitsHeld ==
    /\ \A a \in Accounts : /\ account[a] \in EverHeld(a) \cup {NoAccount}
                           /\ cache[a] \in EverHeld(a) \cup {NoAccount, None}
    /\ \A w \in Workers : worker[w].at # "idle" =>
         /\ worker[w].limits \in EverHeld(worker[w].account) \cup {NoAccount}
         /\ worker[w].at \in {"stamp", "check", "seed", "recheck"} => worker[w].limits # NoAccount

\* Until Redis loses something its counters are exact, and a counter that is missing was never
\* written: that is why a seed changes nothing then.
Exact == losses = 0 => \A k \in Keys : counter[k] = accepted[k] /\ (k \notin live => accepted[k] = 0)

Bounded == TypeInv /\ Counted /\ LimitsHeld /\ Exact /\ SentWithinLimit

\* What an account once had it keeps on record.
LEMMA HeldGrows ==
    ASSUME TypeInv, [Next]_vars, NEW a \in Accounts
    PROVE  EverHeld(a) \subseteq EverHeld(a)'
<1> USE DEF TypeInv, TypeOK
<1>1. ASSUME NEW d \in Days PROVE held[a][d] \subseteq held'[a][d]
  <2>1. ASSUME UNCHANGED held PROVE held[a][d] \subseteq held'[a][d]
    BY <2>1
  <2>2. ASSUME NEW b \in Accounts, NEW l \in Limits, SaveAccount(b, l)
        PROVE  held[a][d] \subseteq held'[a][d]
    BY <2>2 DEF SaveAccount
  <2>3. ASSUME NewDay PROVE held[a][d] \subseteq held'[a][d]
    BY <2>3 DEF NewDay
  <2>4. ASSUME NEW w \in Workers, Worker(w) PROVE UNCHANGED held
    BY <2>4 DEF Worker, LimitsCached, LimitsMissing, LoadLimits, FillCache, Stamp, Check,
                CheckAsksForSeed, GetSeed, CheckSeeded, CountRecipient, WorkerFails, database
  <2>5. ASSUME Flush PROVE UNCHANGED held
    BY <2>5 DEF Flush, FlushTake, FlushRead, FlushMatch, FlushUpsert, FlushClear, FlushFails, database
  <2>6. ASSUME NEW b \in Accounts, TrashAccount(b) \/ ClearLimits(b) \/ MissClear(b) \/ ExpireLimits(b)
        PROVE  UNCHANGED held
    BY <2>6 DEF TrashAccount, ClearLimits, MissClear, ExpireLimits, database
  <2>7. ASSUME NEW keys \in SUBSET live, LoseCounters(keys) PROVE UNCHANGED held
    BY <2>7 DEF LoseCounters, database
  <2>8. ASSUME UNCHANGED vars PROVE UNCHANGED held
    BY <2>8 DEF vars
  <2> QED
    BY <2>1, <2>2, <2>3, <2>4, <2>5, <2>6, <2>7, <2>8 DEF Next
<1> QED
  BY <1>1 DEF EverHeld

\* A step of a request keeps its limits among those the account had.
LEMMA WorkerLimitsHeld ==
    ASSUME TypeInv, LimitsHeld, NEW w \in Workers, Worker(w)
    PROVE  LimitsHeld'
<1> USE DEF TypeInv, TypeOK
<1>0. worker[w] \in WorkerState
  OBVIOUS
\* Enough for a step of w that leaves the database alone.
<1>a. ASSUME UNCHANGED <<account, held>>,
             \A a \in Accounts : cache'[a] \in EverHeld(a) \cup {NoAccount, None},
             \A x \in Workers : x # w => worker'[x] = worker[x],
             worker'[w].at # "idle" =>
               /\ worker'[w].limits \in EverHeld(worker'[w].account) \cup {NoAccount}
               /\ worker'[w].at \in {"stamp", "check", "seed", "recheck"} => worker'[w].limits # NoAccount
      PROVE  LimitsHeld'
  <2>1. \A a : EverHeld(a)' = EverHeld(a)
    BY <1>a DEF EverHeld
  <2>2. ASSUME NEW x \in Workers, worker'[x].at # "idle"
        PROVE  /\ worker'[x].limits \in EverHeld(worker'[x].account) \cup {NoAccount}
               /\ worker'[x].at \in {"stamp", "check", "seed", "recheck"} => worker'[x].limits # NoAccount
    BY <1>a, <2>2 DEF LimitsHeld
  <2>3. \A x \in Workers : EverHeld(worker[x].account)' = EverHeld(worker'[x].account)
    BY <1>a DEF EverHeld
  <2> QED
    BY <1>a, <2>1, <2>2, <2>3 DEF LimitsHeld
<1>b. \A a \in Accounts : /\ cache[a] \in EverHeld(a) \cup {NoAccount, None}
                         /\ account[a] \in EverHeld(a) \cup {NoAccount}
  BY DEF LimitsHeld
\* A request that goes on with the limits it has.
<1>c. ASSUME UNCHANGED <<account, held, cache>>, worker[w].at # "idle",
             \A x \in Workers : x # w => worker'[x] = worker[x],
             worker'[w].limits = worker[w].limits, worker'[w].account = worker[w].account,
             worker[w].at \in {"stamp", "check", "seed", "recheck"}
      PROVE  LimitsHeld'
  BY <1>a, <1>b, <1>c DEF LimitsHeld
<1>d. ASSUME UNCHANGED <<account, held, cache>>, worker' = [worker EXCEPT ![w] = Idle]
      PROVE  LimitsHeld'
  BY <1>a, <1>b, <1>d DEF Idle
<1>e. ASSUME NEW a \in Accounts, NEW l \in EverHeld(a) \cup {NoAccount},
             worker' = [worker EXCEPT ![w] = AfterLimits(a, l)], UNCHANGED <<account, held>>,
             \A b \in Accounts : cache'[b] \in EverHeld(b) \cup {NoAccount, None}
      PROVE  LimitsHeld'
  <2>1. worker'[w] = AfterLimits(a, l)
    BY <1>e
  <2>2. AfterLimits(a, l).at # "idle" => /\ AfterLimits(a, l).limits = l /\ l # NoAccount
                                         /\ AfterLimits(a, l).account = a
    BY DEF AfterLimits, Idle
  <2> QED
    BY <1>a, <1>e, <2>1, <2>2
<1>1. ASSUME NEW a \in Accounts, LimitsCached(w, a) PROVE LimitsHeld'
  BY <1>1, <1>b, <1>e DEF LimitsCached, database, redis
<1>2. ASSUME NEW a \in Accounts, LimitsMissing(w, a) PROVE LimitsHeld'
  <2>1. worker'[w].limits = NoAccount /\ worker'[w].at = "load"
    BY <1>2 DEF LimitsMissing, Idle
  <2> QED
    BY <1>2, <2>1, <1>a, <1>b DEF LimitsMissing, database, redis
<1>3. ASSUME LoadLimits(w) PROVE LimitsHeld'
  <2>1. worker'[w].at = "fill" /\ worker'[w].account = worker[w].account
        /\ worker'[w].limits = account[worker[w].account] /\ worker[w].account \in Accounts
    BY <1>3, <1>0 DEF LoadLimits, WorkerState, Busy
  <2> QED
    BY <1>3, <2>1, <1>a, <1>b DEF LoadLimits, database, redis
<1>4. ASSUME FillCache(w) PROVE LimitsHeld'
  <2>1. worker[w].account \in Accounts /\ worker[w].limits \in EverHeld(worker[w].account) \cup {NoAccount}
    BY <1>4 DEF FillCache, Busy, LimitsHeld
  <2>2. \A b \in Accounts : cache'[b] \in EverHeld(b) \cup {NoAccount, None}
    BY <1>4, <1>b, <2>1 DEF FillCache
  <2> QED
    BY <1>4, <2>1, <2>2, <1>e DEF FillCache, database
<1>5. ASSUME Stamp(w) PROVE LimitsHeld'
  <2>1. worker'[w].limits = worker[w].limits /\ worker'[w].account = worker[w].account
    BY <1>5, <1>0 DEF Stamp, WorkerState
  <2> QED
    BY <1>5, <2>1, <1>c DEF Stamp, database, redis
<1>6. ASSUME Check(w) PROVE LimitsHeld'
  BY <1>6, <1>d DEF Check, CountRecipient, database
<1>7. ASSUME CheckAsksForSeed(w) PROVE LimitsHeld'
  <2>1. worker'[w].limits = worker[w].limits /\ worker'[w].account = worker[w].account
    BY <1>7, <1>0 DEF CheckAsksForSeed, WorkerState
  <2> QED
    BY <1>7, <2>1, <1>c DEF CheckAsksForSeed, database, redis
<1>8. ASSUME GetSeed(w) PROVE LimitsHeld'
  <2>1. worker'[w].limits = worker[w].limits /\ worker'[w].account = worker[w].account
    BY <1>8, <1>0 DEF GetSeed, WorkerState
  <2> QED
    BY <1>8, <2>1, <1>c DEF GetSeed, database, redis
<1>9. ASSUME CheckSeeded(w) PROVE LimitsHeld'
  BY <1>9, <1>d DEF CheckSeeded, CountRecipient, database
<1>10. ASSUME WorkerFails(w) PROVE LimitsHeld'
  BY <1>10, <1>d DEF WorkerFails, database, redis
<1> QED
  BY <1>1, <1>2, <1>3, <1>4, <1>5, <1>6, <1>7, <1>8, <1>9, <1>10 DEF Worker
LEMMA NextLimitsHeld ==
    ASSUME TypeInv, LimitsHeld, [Next]_vars
    PROVE  LimitsHeld'
<1> USE DEF TypeInv, TypeOK
<1>0. \A a \in Accounts : EverHeld(a) \subseteq EverHeld(a)'
  BY HeldGrows
\* Enough for a step that is not a request's.
<1>a. ASSUME UNCHANGED worker,
             \A a \in Accounts : account'[a] \in EverHeld(a)' \cup {NoAccount},
             \A a \in Accounts : cache'[a] \in {cache[a], None}
      PROVE  LimitsHeld'
  <2>1. ASSUME NEW w \in Workers, worker[w].at # "idle"
        PROVE  worker[w].limits \in EverHeld(worker[w].account)' \cup {NoAccount}
    <3>1. PICK a \in Accounts : a = worker[w].account
      BY <2>1 DEF Busy
    <3>2. worker[w].limits \in EverHeld(a)' \cup {NoAccount}
      BY <1>0, <2>1, <3>1 DEF LimitsHeld
    <3>3. EverHeld(a)' = EverHeld(worker[w].account)'
      BY <1>a, <3>1 DEF EverHeld
    <3> QED
      BY <3>2, <3>3
  <2> QED
    BY <1>0, <1>a, <2>1 DEF LimitsHeld
<1>b. \A a \in Accounts : account[a] \in EverHeld(a)' \cup {NoAccount}
  BY <1>0 DEF LimitsHeld
<1>1. ASSUME NEW w \in Workers, Worker(w) PROVE LimitsHeld'
  BY <1>1, WorkerLimitsHeld
<1>2. ASSUME Flush PROVE LimitsHeld'
  BY <1>2, <1>a, <1>b DEF Flush, FlushTake, FlushRead, FlushMatch, FlushUpsert, FlushClear, FlushFails,
                          database, redis
<1>3. ASSUME NEW a \in Accounts, NEW l \in Limits, SaveAccount(a, l) PROVE LimitsHeld'
  <2>1. l \in held'[a][today] /\ today \in Days
    BY <1>3 DEF SaveAccount
  <2>2. l \in EverHeld(a)'
    BY <2>1 DEF EverHeld
  <2> QED
    BY <1>3, <2>2, <1>a, <1>b DEF SaveAccount, redis
<1>4. ASSUME NEW a \in Accounts, TrashAccount(a) PROVE LimitsHeld'
  BY <1>4, <1>a, <1>b DEF TrashAccount, redis
<1>5. ASSUME NEW a \in Accounts, ClearLimits(a) PROVE LimitsHeld'
  BY <1>5, <1>a, <1>b DEF ClearLimits
<1>6. ASSUME NEW a \in Accounts, MissClear(a) PROVE LimitsHeld'
  BY <1>6, <1>a, <1>b DEF MissClear
<1>7. ASSUME NEW a \in Accounts, ExpireLimits(a) PROVE LimitsHeld'
  BY <1>7, <1>a, <1>b DEF ExpireLimits, database
<1>8. ASSUME NEW keys \in SUBSET live, LoseCounters(keys) PROVE LimitsHeld'
  BY <1>8, <1>a, <1>b DEF LoseCounters, database
<1>9. ASSUME NewDay PROVE LimitsHeld'
  BY <1>9, <1>a, <1>b DEF NewDay, redis
<1>10. ASSUME UNCHANGED vars PROVE LimitsHeld'
  BY <1>10, <1>a, <1>b DEF vars
<1> QED
  BY <1>1, <1>2, <1>3, <1>4, <1>5, <1>6, <1>7, <1>8, <1>9, <1>10 DEF Next

\* One more recipient, counted on exact counts, is within the limits the request holds.
LEMMA CountRecipientBounded ==
    ASSUME Bounded, NEW w \in Workers, worker[w].at \in {"check", "recheck"},
           CountRecipient(w, IF worker[w].at = "check" THEN counter ELSE Seeded(w)),
           worker[w].at = "check" => KeysOf(w) \subseteq live
    PROVE  Exact' /\ SentWithinLimit'
<1> DEFINE sent == IF worker[w].at = "check" THEN counter ELSE Seeded(w)
           a == worker[w].account
           l == worker[w].limits
<1> USE ConstantsAssumption DEF Bounded, TypeInv, TypeOK
<1> SUFFICES ASSUME losses = 0
             PROVE  /\ \A k \in Keys : counter'[k] = accepted'[k] /\ (k \notin live' => accepted'[k] = 0)
                    /\ \A k \in Keys : accepted'[k] > 0 =>
                         \E x \in EverHeld(k[1])' : accepted'[k] <= LimitOf(x, k)
  BY DEF Exact, SentWithinLimit, CountRecipient
<1>1. worker[w] \in WorkerState /\ a \in Accounts /\ KeysOf(w) \subseteq Keys
  BY PeriodKeys DEF Busy, KeysOf, WorkerState
<1>2. \A k \in Keys : sent[k] = accepted[k]
  <2>1. ASSUME NEW k \in Keys PROVE Seeded(w)[k] = accepted[k]
    <3>1. counter[k] = accepted[k] /\ (k \notin live => accepted[k] = 0)
      BY DEF Exact
    <3>2. worker[w].seed[k] <= accepted[k] /\ worker[w].seed[k] \in Nat
      BY <1>1 DEF Counted, ReadCounts, WorkerState
    <3> QED
      BY <3>1, <3>2 DEF Seeded
  <2> QED
    BY <2>1 DEF Exact
<1>3. sent \in [Keys -> Nat]
  BY <1>1 DEF Seeded, WorkerState
<1>4. /\ counter' = [k \in Keys |-> IF k \in KeysOf(w) /\ Fits(w, sent) THEN sent[k] + 1 ELSE sent[k]]
      /\ accepted' = [k \in Keys |->
                        IF k \in KeysOf(w) /\ Fits(w, sent) THEN accepted[k] + 1 ELSE accepted[k]]
      /\ live' = live \cup KeysOf(w)
      /\ UNCHANGED held
  BY DEF CountRecipient, database
<1> HIDE DEF sent
<1>5. \A k \in Keys : counter'[k] = accepted'[k] /\ (k \notin live' => accepted'[k] = 0)
  BY <1>2, <1>3, <1>4 DEF Exact
<1>6. ASSUME NEW k \in Keys, accepted'[k] > 0
      PROVE  \E x \in EverHeld(k[1])' : accepted'[k] <= LimitOf(x, k)
  <2>0. EverHeld(k[1])' = EverHeld(k[1])
    BY <1>4 DEF EverHeld
  <2>1. CASE k \in KeysOf(w) /\ Fits(w, sent)
    <3>1. l \in EverHeld(a)
      BY DEF LimitsHeld
    <3>2. k[1] = a /\ (k = DayKey(a, worker[w].day) \/ k = MonthKey(a, worker[w].day))
      BY <2>1 DEF KeysOf, PeriodsAt, DayKey, MonthKey
    <3>3. sent[k] + 1 <= LimitOf(l, k)
      <4>1. sent[DayKey(a, worker[w].day)] + 1 <= l.daily /\ sent[MonthKey(a, worker[w].day)] + 1 <= l.monthly
        BY <2>1 DEF Fits
      <4>2. LimitOf(l, DayKey(a, worker[w].day)) = l.daily /\ LimitOf(l, MonthKey(a, worker[w].day)) = l.monthly
        BY DEF LimitOf, DayKey, MonthKey
      <4> HIDE DEF a, l
      <4> QED
        BY <4>1, <4>2, <3>2
    <3>4. accepted'[k] <= LimitOf(l, k)
      BY <2>1, <3>3, <1>2, <1>4
    <3> QED
      BY <2>0, <3>1, <3>2, <3>4
  <2>2. CASE ~(k \in KeysOf(w) /\ Fits(w, sent))
    BY <2>2, <2>0, <1>4, <1>6 DEF SentWithinLimit
  <2> QED
    BY <2>1, <2>2
<1> QED
  BY <1>5, <1>6

LEMMA NextBounded ==
    ASSUME Bounded, [Next]_vars
    PROVE  Exact' /\ SentWithinLimit'
<1> USE DEF Bounded, TypeInv, TypeOK
<1>0. \A a \in Accounts : EverHeld(a) \subseteq EverHeld(a)'
  BY HeldGrows
<1>a. ASSUME UNCHANGED <<live, counter, accepted>>, losses' = 0 => losses = 0
      PROVE  Exact' /\ SentWithinLimit'
  <2>1. ASSUME NEW k \in Keys, losses = 0, accepted[k] > 0
        PROVE  \E l \in EverHeld(k[1])' : accepted[k] <= LimitOf(l, k)
    BY <2>1, <1>0, KeyAccount DEF SentWithinLimit
  <2> QED
    BY <1>a, <2>1 DEF Exact, SentWithinLimit
<1>b. ASSUME losses' = losses + 1 PROVE Exact' /\ SentWithinLimit'
  BY <1>b DEF Exact, SentWithinLimit
<1>1. ASSUME NEW w \in Workers, Worker(w) PROVE Exact' /\ SentWithinLimit'
  <2>1. CASE Check(w)
    BY <2>1, CountRecipientBounded DEF Check
  <2>2. CASE CheckSeeded(w)
    BY <2>2, CountRecipientBounded DEF CheckSeeded
  <2>3. CASE ~Check(w) /\ ~CheckSeeded(w)
    BY <1>1, <2>3, <1>a DEF Worker, LimitsCached, LimitsMissing, LoadLimits, FillCache, Stamp,
                            CheckAsksForSeed, GetSeed, WorkerFails, redis
  <2> QED
    BY <2>1, <2>2, <2>3
<1>2. ASSUME Flush PROVE Exact' /\ SentWithinLimit'
  BY <1>2, <1>a DEF Flush, FlushTake, FlushRead, FlushMatch, FlushUpsert, FlushClear, FlushFails, redis
<1>3. ASSUME NEW a \in Accounts, NEW l \in Limits, SaveAccount(a, l) PROVE Exact' /\ SentWithinLimit'
  BY <1>3, <1>a DEF SaveAccount, redis
<1>4. ASSUME NEW a \in Accounts, TrashAccount(a) \/ ClearLimits(a) \/ ExpireLimits(a)
      PROVE  Exact' /\ SentWithinLimit'
  BY <1>4, <1>a DEF TrashAccount, ClearLimits, ExpireLimits, redis
<1>5. ASSUME NEW a \in Accounts, MissClear(a) PROVE Exact' /\ SentWithinLimit'
  BY <1>5, <1>b DEF MissClear
<1>6. ASSUME NEW keys \in SUBSET live, LoseCounters(keys) PROVE Exact' /\ SentWithinLimit'
  BY <1>6, <1>b DEF LoseCounters
<1>7. ASSUME NewDay PROVE Exact' /\ SentWithinLimit'
  BY <1>7, <1>a DEF NewDay, redis
<1>8. ASSUME UNCHANGED vars PROVE Exact' /\ SentWithinLimit'
  BY <1>8, <1>a DEF vars
<1> QED
  BY <1>1, <1>2, <1>3, <1>4, <1>5, <1>6, <1>7, <1>8 DEF Next

LEMMA InitBounded == Init => Bounded
<1> SUFFICES ASSUME Init PROVE Bounded
  OBVIOUS
<1>1. \A a \in Accounts : account[a] \in EverHeld(a)
  <2>1. 1 \in Days /\ \A a \in Accounts : account[a] \in held[a][1]
    BY ConstantsAssumption DEF Init, Days
  <2> QED
    BY <2>1 DEF EverHeld
<1>2. LimitsHeld
  BY <1>1 DEF Init, LimitsHeld, Idle
<1>3. Exact /\ SentWithinLimit
  BY DEF Init, Exact, SentWithinLimit, NoCounts
<1> QED
  BY <1>2, <1>3, InitTypeInv, InitCounted DEF Bounded

\* While Redis keeps what it was given, no account sends more recipients in a day or a month than
\* a limit it had allows, for any number of workers that check, seed and fill the cache at once.
THEOREM LimitsAreKept == Spec => []SentWithinLimit
<1>1. Bounded /\ [Next]_vars => Bounded'
  BY NextTypeInv, NextCounted, NextLimitsHeld, NextBounded DEF Bounded
<1>2. Bounded => SentWithinLimit
  BY DEF Bounded
<1> QED
  BY InitBounded, <1>1, <1>2, PTL DEF Spec
----------------------------------------------------------------------------
(* A period that is over keeps its limit *)

\* Only the flush and a deletion write the stored limits.
LEMMA StepKeepsPastLimit ==
    ASSUME TypeInv, [Next]_vars, NEW k \in Keys, stored[k] # 0, k \notin PeriodsAt(k[1], today)
    PROVE  stored'[k] = stored[k] \/ account'[k[1]] = NoAccount
<1>1. ASSUME NEW w \in Workers, Worker(w) PROVE stored' = stored
  BY <1>1 DEF Worker, LimitsCached, LimitsMissing, LoadLimits, FillCache, Stamp, Check,
              CheckAsksForSeed, GetSeed, CheckSeeded, CountRecipient, WorkerFails, database
<1>2. CASE FlushUpsert
  BY <1>2 DEF FlushUpsert, UpsertedLimit
<1>3. CASE FlushTake \/ FlushRead \/ FlushMatch \/ FlushClear \/ FlushFails
  BY <1>3 DEF FlushTake, FlushRead, FlushMatch, FlushClear, FlushFails, database
<1>4. ASSUME NEW a \in Accounts, TrashAccount(a)
      PROVE  stored'[k] = stored[k] \/ account'[k[1]] = NoAccount
  BY <1>4 DEF TrashAccount, TypeInv, TypeOK
<1>5. ASSUME NEW a \in Accounts,
             (\E l \in Limits : SaveAccount(a, l)) \/ ClearLimits(a) \/ MissClear(a) \/ ExpireLimits(a)
      PROVE  stored' = stored
  BY <1>5 DEF SaveAccount, ClearLimits, MissClear, ExpireLimits, database
<1>6. ASSUME NEW keys \in SUBSET live, LoseCounters(keys) PROVE stored' = stored
  BY <1>6 DEF LoseCounters, database
<1>7. CASE NewDay
  BY <1>7 DEF NewDay
<1>8. CASE UNCHANGED vars
  BY <1>8 DEF vars
<1> QED
  BY <1>1, <1>2, <1>3, <1>4, <1>5, <1>6, <1>7, <1>8 DEF Next, Flush

\* upsert_usage: "a past one keeps the limit it was stored with", over any number of days, months,
\* limit changes, failed flushes and flushes that come after midnight.
THEOREM PastLimitsAreKept == Spec => PastLimitIsKept
<1>1. Spec => []TypeInv
  BY InitTypeInv, NextTypeInv, PTL DEF Spec
<1>2. ASSUME TypeInv, [Next]_vars
      PROVE  [\A k \in Keys : stored[k] # 0 /\ k \notin PeriodsAt(k[1], today) =>
                stored'[k] = stored[k] \/ account'[k[1]] = NoAccount]_vars
  BY <1>2, StepKeepsPastLimit
<1> QED
  BY <1>1, <1>2, PTL DEF Spec, PastLimitIsKept

----------------------------------------------------------------------------
(* An account and its app passwords *)

\* Where a step is among the pushes left.
Has(s, x) == \E i \in 1..Len(s) : s[i] = x
Once(s, x) == \A i, j \in 1..Len(s) : s[i] = x /\ s[j] = x => i = j
AtStart(s, x) == \A i \in 1..Len(s) : s[i] = x => i = 1
AtEnd(s, x) == \A i \in 1..Len(s) : s[i] = x => i = Len(s)

\* What is left once the first push is done.
LEMMA HasTail ==
    ASSUME NEW s \in Seq(A!Pushes), s # <<>>
    PROVE  /\ Head(s) \in A!Pushes /\ Tail(s) \in Seq(A!Pushes) /\ Has(s, Head(s))
           /\ \A x : Has(Tail(s), x) => Has(s, x)
           /\ \A x : Has(s, x) => x = Head(s) \/ Has(Tail(s), x)
<1>1. /\ Len(s) \in Nat /\ Len(s) >= 1 /\ Head(s) = s[1] /\ s[1] \in A!Pushes
      /\ Tail(s) \in Seq(A!Pushes) /\ Len(Tail(s)) = Len(s) - 1
      /\ \A i \in 1..Len(Tail(s)) : Tail(s)[i] = s[i + 1]
  OBVIOUS
<1>2. Has(s, Head(s))
  BY <1>1 DEF Has
<1>3. ASSUME NEW x, Has(Tail(s), x) PROVE Has(s, x)
  <2>1. PICK i \in 1..Len(Tail(s)) : Tail(s)[i] = x
    BY <1>3 DEF Has
  <2>2. i + 1 \in 1..Len(s) /\ s[i + 1] = x
    BY <1>1, <2>1
  <2> QED BY <2>2 DEF Has
<1>4. ASSUME NEW x, Has(s, x), x # Head(s) PROVE Has(Tail(s), x)
  <2>1. PICK i \in 1..Len(s) : s[i] = x
    BY <1>4 DEF Has
  <2>2. i # 1 /\ i - 1 \in 1..Len(Tail(s)) /\ Tail(s)[i - 1] = s[(i - 1) + 1] /\ (i - 1) + 1 = i
    BY <1>1, <1>4, <2>1
  <2> QED BY <2>1, <2>2 DEF Has
<1> QED
  BY <1>1, <1>2, <1>3, <1>4

LEMMA NoSteps ==
    ASSUME NEW s \in Seq(A!Pushes), Len(s) = 0
    PROVE  s = << >>
OBVIOUS

\* A step that stands once, at the start or at the end, does so until it is done.
LEMMA PlaceInTail ==
    ASSUME NEW s \in Seq(A!Pushes), s # <<>>, NEW x
    PROVE  /\ Once(s, x) => Once(Tail(s), x) /\ (Head(s) = x => ~Has(Tail(s), x))
           /\ AtStart(s, x) => ~Has(Tail(s), x) /\ (Has(s, x) => Head(s) = x)
           /\ AtEnd(s, x) => AtEnd(Tail(s), x) /\ (Head(s) = x => Tail(s) = <<>>)
<1>1. /\ Len(s) \in Nat /\ Len(s) >= 1 /\ Head(s) = s[1]
      /\ Tail(s) \in Seq(A!Pushes) /\ Len(Tail(s)) = Len(s) - 1
      /\ \A i \in 1..Len(Tail(s)) : Tail(s)[i] = s[i + 1]
  OBVIOUS
<1>2. \A i \in 1..Len(Tail(s)) : i \in Nat /\ i + 1 \in 1..Len(s) /\ i + 1 # 1
  BY <1>1
<1>3. ASSUME Once(s, x) PROVE Once(Tail(s), x)
  <2> SUFFICES ASSUME NEW i \in 1..Len(Tail(s)), NEW j \in 1..Len(Tail(s)), Tail(s)[i] = x, Tail(s)[j] = x
               PROVE  i = j
    BY DEF Once
  <2>1. i + 1 = j + 1
    BY <1>1, <1>2, <1>3 DEF Once
  <2> QED BY <1>2, <2>1
<1>4. ASSUME Once(s, x), Head(s) = x, NEW i \in 1..Len(Tail(s)), Tail(s)[i] = x PROVE FALSE
  <2>1. 1 \in 1..Len(s) /\ s[1] = x /\ s[i + 1] = x
    BY <1>1, <1>4
  <2> QED BY <1>2, <1>4, <2>1 DEF Once
<1>5. ASSUME AtStart(s, x), NEW i \in 1..Len(Tail(s)), Tail(s)[i] = x PROVE FALSE
  BY <1>1, <1>2, <1>5 DEF AtStart
<1>8. ASSUME AtStart(s, x), Has(s, x) PROVE Head(s) = x
  BY <1>1, <1>8 DEF AtStart, Has
<1>6. ASSUME AtEnd(s, x), NEW i \in 1..Len(Tail(s)), Tail(s)[i] = x PROVE i = Len(Tail(s))
  <2>1. i + 1 = Len(s)
    BY <1>1, <1>2, <1>6 DEF AtEnd
  <2>2. i \in Nat /\ Len(s) \in Nat /\ Len(Tail(s)) = Len(s) - 1
    BY <1>1, <1>2
  <2> QED BY <2>1, <2>2
<1>7. ASSUME AtEnd(s, x), Head(s) = x PROVE Tail(s) = <<>>
  <2>1. 1 \in 1..Len(s)
    BY <1>1
  <2>2. Len(s) = 1
    BY <1>1, <1>7, <2>1 DEF AtEnd
  <2>3. Len(Tail(s)) = 0
    BY <1>1, <2>2
  <2> QED BY <1>1, <2>3, NoSteps
<1> QED
  BY <1>3, <1>4, <1>5, <1>6, <1>7, <1>8 DEF Has, AtEnd

\* A step is in a sequence of two parts when it is in one of them, and keeps its place.
LEMMA HasConcat ==
    ASSUME NEW s \in Seq(A!Pushes), NEW t \in Seq(A!Pushes), NEW x
    PROVE  /\ s \o t \in Seq(A!Pushes)
           /\ Has(s \o t, x) <=> Has(s, x) \/ Has(t, x)
           /\ Once(s, x) /\ ~Has(t, x) => Once(s \o t, x)
           /\ Once(t, x) /\ ~Has(s, x) => Once(s \o t, x)
           /\ AtStart(s, x) /\ ~Has(t, x) => AtStart(s \o t, x)
           /\ AtEnd(t, x) /\ ~Has(s, x) => AtEnd(s \o t, x)
<1>1. /\ Len(s) \in Nat /\ Len(t) \in Nat /\ s \o t \in Seq(A!Pushes) /\ Len(s \o t) = Len(s) + Len(t)
      /\ \A i \in 1..Len(s) : (s \o t)[i] = s[i]
      /\ \A i \in 1..Len(t) : (s \o t)[Len(s) + i] = t[i]
  OBVIOUS
<1>2. ASSUME NEW i \in 1..Len(s \o t)
      PROVE  \/ i \in 1..Len(s) /\ (s \o t)[i] = s[i]
             \/ i - Len(s) \in 1..Len(t) /\ (s \o t)[i] = t[i - Len(s)]
  <2>1. CASE i <= Len(s)
    BY <1>1, <2>1
  <2>2. CASE i > Len(s)
    <3>1. i - Len(s) \in 1..Len(t) /\ Len(s) + (i - Len(s)) = i
      BY <1>1, <2>2
    <3> QED BY <1>1, <3>1
  <2> QED BY <1>1, <2>1, <2>2
<1>3. Has(s \o t, x) => Has(s, x) \/ Has(t, x)
  BY <1>2 DEF Has
<1>4. Has(s, x) => Has(s \o t, x)
  <2>1. \A i \in 1..Len(s) : i \in 1..Len(s \o t)
    BY <1>1
  <2> QED BY <1>1, <2>1 DEF Has
<1>5. Has(t, x) => Has(s \o t, x)
  <2>1. \A i \in 1..Len(t) : Len(s) + i \in 1..Len(s \o t)
    BY <1>1
  <2> QED BY <1>1, <2>1 DEF Has
<1>6. ASSUME Once(s, x), ~Has(t, x) PROVE Once(s \o t, x)
  BY <1>2, <1>6 DEF Once, Has
<1>7. ASSUME Once(t, x), ~Has(s, x), NEW i \in 1..Len(s \o t), NEW j \in 1..Len(s \o t), (s \o t)[i] = x, (s \o t)[j] = x
      PROVE  i = j
  <2>1. /\ i - Len(s) \in 1..Len(t) /\ t[i - Len(s)] = x
        /\ j - Len(s) \in 1..Len(t) /\ t[j - Len(s)] = x
    BY <1>2, <1>7 DEF Has
  <2>2. i - Len(s) = j - Len(s)
    BY <1>7, <2>1 DEF Once
  <2> QED BY <1>1, <2>2
<1>8. ASSUME AtStart(s, x), ~Has(t, x) PROVE AtStart(s \o t, x)
  BY <1>2, <1>8 DEF AtStart, Has
<1>9. ASSUME AtEnd(t, x), ~Has(s, x), NEW i \in 1..Len(s \o t), (s \o t)[i] = x PROVE i = Len(s \o t)
  <2>1. i - Len(s) \in 1..Len(t) /\ t[i - Len(s)] = x
    BY <1>2, <1>9 DEF Has
  <2>2. i - Len(s) = Len(t)
    BY <1>9, <2>1 DEF AtEnd
  <2>3. i \in Nat
    OBVIOUS
  <2> QED BY <1>1, <2>2, <2>3
<1> QED
  BY <1>1, <1>3, <1>4, <1>5, <1>6, <1>7, <1>8, <1>9 DEF Once, AtEnd

\* One step, or none.
LEMMA HasOnly ==
    ASSUME NEW x \in A!Pushes, NEW b \in BOOLEAN
    PROVE  /\ A!Only(x, b) \in Seq(A!Pushes)
           /\ \A y : Has(A!Only(x, b), y) <=> (b /\ x = y)
           /\ \A y : Once(A!Only(x, b), y) /\ AtEnd(A!Only(x, b), y)
<1>1. CASE b
  <2>1. A!Only(x, b) = <<x>> /\ Len(<<x>>) = 1 /\ <<x>>[1] = x /\ <<x>> \in Seq(A!Pushes)
    BY <1>1 DEF A!Only
  <2>2. \A i \in 1..1 : i = 1
    OBVIOUS
  <2>3. 1 \in 1..1
    OBVIOUS
  <2>4. \A i \in 1..Len(A!Only(x, b)) : i = 1 /\ i = Len(A!Only(x, b)) /\ A!Only(x, b)[i] = x
    BY <2>1, <2>2
  <2>5. 1 \in 1..Len(A!Only(x, b)) /\ A!Only(x, b)[1] = x
    BY <2>1, <2>3
  <2>6. \A y : Has(A!Only(x, b), y) <=> x = y
    BY <2>4, <2>5, Zenon DEF Has
  <2>7. \A y : Once(A!Only(x, b), y) /\ AtEnd(A!Only(x, b), y)
    BY <2>4, Zenon DEF Once, AtEnd
  <2> QED BY <1>1, <2>1, <2>6, <2>7
<1>2. CASE ~b
  <2>1. A!Only(x, b) = << >> /\ Len(<< >>) = 0 /\ << >> \in Seq(A!Pushes)
    BY <1>2 DEF A!Only
  <2>2. 1..0 = {}
    OBVIOUS
  <2> QED BY <1>2, <2>1, <2>2 DEF Has, Once, AtEnd
<1> QED BY <1>1, <1>2

\* An update pushes what it changes, mints at most once and neither creates nor destroys.
LEMMA ChangesSteps ==
    ASSUME row \in A!Account, NEW want \in A!Account, NEW mint \in BOOLEAN, NEW adds \in 0..1
    PROVE  LET todo == A!Changes(want, mint, adds)
           IN  /\ todo \in Seq(A!Pushes) /\ ~Has(todo, "create") /\ ~Has(todo, "destroy")
               /\ Has(todo, "login") <=> mint
               /\ Once(todo, "login")
               /\ Has(todo, "exempt") <=> want.exempt # row.exempt
               /\ Has(todo, "patch") <=> want.field # row.field
               /\ Has(todo, "role") <=> want.enabled # row.enabled
<1> DEFINE a == A!Only("exempt", want.exempt # row.exempt)
           b == A!Only("patch", want.field # row.field)
           c == A!Only("login", mint)
           d == A!Only("app", adds = 1)
           e == A!Only("role", want.enabled # row.enabled)
<1>0. {"exempt", "patch", "login", "app", "role"} \subseteq A!Pushes
  BY DEF A!Pushes
<1>1. /\ a \in Seq(A!Pushes) /\ \A y : Has(a, y) <=> (want.exempt # row.exempt) /\ "exempt" = y
      /\ b \in Seq(A!Pushes) /\ \A y : Has(b, y) <=> (want.field # row.field) /\ "patch" = y
  BY <1>0, HasOnly
<1>2. c \in Seq(A!Pushes) /\ (\A y : Has(c, y) <=> mint /\ "login" = y) /\ Once(c, "login")
  BY <1>0, HasOnly
<1>3. /\ d \in Seq(A!Pushes) /\ \A y : Has(d, y) <=> (adds = 1) /\ "app" = y
      /\ e \in Seq(A!Pushes) /\ \A y : Has(e, y) <=> (want.enabled # row.enabled) /\ "role" = y
  BY <1>0, HasOnly
<1>4. A!Changes(want, mint, adds) = (((a \o b) \o c) \o d) \o e
  BY DEF A!Changes
<1> HIDE DEF a, b, c, d, e
<1>5. a \o b \in Seq(A!Pushes) /\ \A y : Has(a \o b, y) <=> Has(a, y) \/ Has(b, y)
  BY <1>1, HasConcat
<1>6. /\ (a \o b) \o c \in Seq(A!Pushes) /\ \A y : Has((a \o b) \o c, y) <=> Has(a \o b, y) \/ Has(c, y)
      /\ Once((a \o b) \o c, "login")
  <2>1. ~Has(a \o b, "login")
    BY <1>1, <1>5
  <2> QED BY <1>2, <1>5, <2>1, HasConcat
<1>7. /\ ((a \o b) \o c) \o d \in Seq(A!Pushes)
      /\ \A y : Has(((a \o b) \o c) \o d, y) <=> Has((a \o b) \o c, y) \/ Has(d, y)
      /\ Once(((a \o b) \o c) \o d, "login")
  <2>1. ~Has(d, "login")
    BY <1>3
  <2>2. d \in Seq(A!Pushes) /\ (a \o b) \o c \in Seq(A!Pushes)
    BY <1>3, <1>6
  <2> QED BY <1>6, <2>1, <2>2, HasConcat
<1>8. /\ (((a \o b) \o c) \o d) \o e \in Seq(A!Pushes)
      /\ \A y : Has((((a \o b) \o c) \o d) \o e, y) <=> Has(((a \o b) \o c) \o d, y) \/ Has(e, y)
      /\ Once((((a \o b) \o c) \o d) \o e, "login")
  <2>1. ~Has(e, "login")
    BY <1>3
  <2> QED BY <1>3, <1>7, <2>1, HasConcat
<1>9. \A y : Has(A!Changes(want, mint, adds), y) <=> Has(a, y) \/ Has(b, y) \/ Has(c, y) \/ Has(d, y) \/ Has(e, y)
  BY <1>4, <1>5, <1>6, <1>7, <1>8
<1>10. /\ ~Has(A!Changes(want, mint, adds), "create") /\ ~Has(A!Changes(want, mint, adds), "destroy")
       /\ Has(A!Changes(want, mint, adds), "login") <=> mint
       /\ Has(A!Changes(want, mint, adds), "exempt") <=> want.exempt # row.exempt
       /\ Has(A!Changes(want, mint, adds), "patch") <=> want.field # row.field
       /\ Has(A!Changes(want, mint, adds), "role") <=> want.enabled # row.enabled
  BY <1>1, <1>2, <1>3, <1>9
<1> QED
  BY <1>4, <1>8, <1>10

\* An insert creates first and exempts last.
LEMMA InsertSteps ==
    ASSUME NEW enabled \in BOOLEAN, NEW exempt \in BOOLEAN
    PROVE  LET todo == <<"create", "login">> \o A!Only("role", ~enabled) \o A!Only("exempt", exempt)
           IN  /\ todo \in Seq(A!Pushes) /\ AtStart(todo, "create") /\ Has(todo, "create") /\ AtEnd(todo, "exempt")
               /\ Once(todo, "login") /\ Has(todo, "login")
               /\ ~Has(todo, "destroy") /\ ~Has(todo, "patch")
               /\ Has(todo, "exempt") <=> exempt
               /\ Has(todo, "role") <=> ~enabled
<1> DEFINE a == <<"create", "login">>
           b == A!Only("role", ~enabled)
           c == A!Only("exempt", exempt)
<1>0. {"create", "role", "login", "exempt"} \subseteq A!Pushes
  BY DEF A!Pushes
<1>1. /\ a \in Seq(A!Pushes) /\ \A y : Has(a, y) <=> y \in {"create", "login"}
      /\ Once(a, "login") /\ AtStart(a, "create")
  <2>1. Len(a) = 2 /\ a[1] = "create" /\ a[2] = "login" /\ a \in Seq(A!Pushes)
    BY <1>0
  <2>2. 1..2 = {1, 2}
    OBVIOUS
  <2> QED BY <2>1, <2>2 DEF Has, Once, AtStart
<1>2. /\ b \in Seq(A!Pushes) /\ \A y : Has(b, y) <=> ~enabled /\ "role" = y
      /\ c \in Seq(A!Pushes) /\ \A y : Has(c, y) <=> exempt /\ "exempt" = y
      /\ AtEnd(c, "exempt")
  BY <1>0, HasOnly
<1> HIDE DEF a, b, c
<1>3. /\ a \o b \in Seq(A!Pushes) /\ \A y : Has(a \o b, y) <=> Has(a, y) \/ Has(b, y)
      /\ AtStart(a \o b, "create") /\ Once(a \o b, "login")
  BY <1>1, <1>2, HasConcat
<1>4. /\ (a \o b) \o c \in Seq(A!Pushes) /\ \A y : Has((a \o b) \o c, y) <=> Has(a \o b, y) \/ Has(c, y)
      /\ AtStart((a \o b) \o c, "create") /\ Once((a \o b) \o c, "login")
      /\ AtEnd((a \o b) \o c, "exempt")
  <2>1. ~Has(a \o b, "exempt") /\ ~Has(c, "create") /\ ~Has(c, "login")
    BY <1>1, <1>2, <1>3
  <2> QED BY <1>2, <1>3, <2>1, HasConcat
<1> QED
  BY <1>1, <1>2, <1>3, <1>4 DEF a, b, c

\* A deletion only exempts and destroys.
LEMMA DeleteSteps ==
    ASSUME NEW exempt \in BOOLEAN
    PROVE  LET todo == A!Only("exempt", exempt) \o <<"destroy">>
           IN  /\ todo \in Seq(A!Pushes) /\ Once(todo, "login")
               /\ \A y : Has(todo, y) <=> y = "destroy" \/ (exempt /\ y = "exempt")
<1>1. <<"destroy">> = A!Only("destroy", TRUE) /\ "destroy" \in A!Pushes /\ "exempt" \in A!Pushes
  BY DEF A!Only, A!Pushes
<1>2. \A y : /\ Has(A!Only("exempt", exempt), y) <=> exempt /\ "exempt" = y
             /\ Has(<<"destroy">>, y) <=> "destroy" = y
  BY <1>1, HasOnly
<1>3. A!Only("exempt", exempt) \in Seq(A!Pushes) /\ <<"destroy">> \in Seq(A!Pushes) /\ Once(<<"destroy">>, "login")
  <2>1. TRUE \in BOOLEAN
    OBVIOUS
  <2>2. A!Only("exempt", exempt) \in Seq(A!Pushes)
    BY <1>1, HasOnly
  <2>3. A!Only("destroy", TRUE) \in Seq(A!Pushes) /\ Once(A!Only("destroy", TRUE), "login")
    BY <1>1, <2>1, HasOnly
  <2> QED BY <1>1, <2>2, <2>3
<1>4. ~Has(A!Only("exempt", exempt), "login")
  BY <1>2
<1>5. /\ A!Only("exempt", exempt) \o <<"destroy">> \in Seq(A!Pushes)
      /\ Once(A!Only("exempt", exempt) \o <<"destroy">>, "login")
      /\ \A y : Has(A!Only("exempt", exempt) \o <<"destroy">>, y) <=> Has(A!Only("exempt", exempt), y) \/ Has(<<"destroy">>, y)
  BY <1>3, <1>4, HasConcat
<1> QED
  BY <1>2, <1>5

RequestState == [at: {"idle", "listed", "loaded", "saving", "revoking"}, fresh: BOOLEAN, doc: A!Account, todo: Seq(A!Pushes),
         pushed: BOOLEAN, created: SUBSET A!Ids, gone: SUBSET A!Ids]

AccountTyped ==
    /\ row \in A!Account /\ box \in A!Account /\ proc \in [Requests -> RequestState]
    /\ made \in Seq({"login", "app", "owner"}) /\ Len(made) <= MaxIds
    /\ handed \in Nat /\ lock \in Requests \cup {NoRequest}
    /\ parted \in BOOLEAN /\ overlaid \in BOOLEAN

\* Every number in use is that of a credential that was made.
Known ==
    /\ row.creds \subseteq DOMAIN made /\ box.creds \subseteq DOMAIN made /\ lost \subseteq DOMAIN made
    /\ \A p \in Requests : /\ proc[p].doc.creds \subseteq DOMAIN made
                           /\ proc[p].created \subseteq DOMAIN made /\ proc[p].gone \subseteq DOMAIN made

\* The request that saves has the lock; only a save creates, and only it and what follows it takes out.
Locked ==
    \A p \in Requests :
        /\ proc[p].at = "saving" <=> lock = p
        /\ proc[p].at # "saving" => proc[p].created = {}
        /\ proc[p].at \notin {"saving", "revoking"} => proc[p].gone = {}

\* Alike but for the credentials.
Same(a, b) == a.exists = b.exists /\ a.enabled = b.enabled /\ a.exempt = b.exempt /\ a.field = b.field

\* What a save still has to push, by whether it inserts, updates or deletes.
Planned(r) ==
    /\ row.exists \/ r.doc.exists
    /\ row.exists => ~Has(r.todo, "create")
    /\ ~row.exists => /\ AtStart(r.todo, "create") /\ AtEnd(r.todo, "exempt")
                      /\ ~Has(r.todo, "destroy") /\ ~Has(r.todo, "patch")
                      /\ Has(r.todo, "create") => ~r.pushed /\ r.created = {}
                      /\ ~Has(r.todo, "create") => r.pushed
                      /\ r.todo # << >> => ~box.exempt
    /\ r.doc.exists => ~Has(r.todo, "destroy")
    /\ ~r.doc.exists => /\ Same(r.doc, A!Vacant) /\ r.created = {} /\ r.doc.creds = {}
                        /\ ~Has(r.todo, "login") /\ ~Has(r.todo, "app")

\* What the pushes of a save have made of the cluster's account so far.
Reached(r) ==
    /\ ~r.pushed => Same(box, row)
    /\ ~Has(r.todo, "create") /\ ~Has(r.todo, "destroy") => box.exists = r.doc.exists
    /\ ~Has(r.todo, "patch") /\ ~Has(r.todo, "destroy") => box.field = r.doc.field
    /\ ~Has(r.todo, "role") /\ ~Has(r.todo, "destroy") => box.enabled = r.doc.enabled
    /\ ~Has(r.todo, "exempt") => box.exempt = r.doc.exempt

\* The cluster keeps no credentials of an account that it does not have.
NoStrayCreds == ~box.exists => box.creds = {}

\* The cluster has the account as the row says, or the save that has the lock is on its way there.
Following ==
    /\ ~row.exists => row = A!Vacant
    /\ lock = NoRequest => Same(box, row)
    /\ \A p \in Requests : proc[p].at = "saving" => Planned(proc[p]) /\ Reached(proc[p])

\* The save mints a login, or has.
Minting(r) == Has(r.todo, "login") \/ r.created \cap A!Logins # {}

\* Every credential on the cluster is mirrored, its owner's, lost, or a request still has it in hand.
Accounted ==
    \A c \in box.creds :
        \/ c \in row.creds \/ c \in A!MadeBy("owner") \/ c \in lost
        \/ \E p \in Requests : c \in proc[p].created \/ (proc[p].at = "revoking" /\ c \in proc[p].gone)

\* The login last handed out is mirrored, alone, answers, and nobody is about to revoke it.
Handed ==
    handed # 0 =>
        /\ row.exists /\ handed \in row.creds /\ handed \in A!Logins
        /\ row.creds \cap A!Logins \subseteq {handed} \cup lost
        /\ handed \notin lost
        /\ \A p \in Requests : proc[p].at = "revoking" => handed \notin proc[p].gone
        /\ box.exists => handed \in box.creds

\* What a save has created is in no other hand, and it mints one login when it keeps none.
Replaces(r) ==
    /\ r.doc.exists => row.creds \subseteq r.doc.creds \cup r.gone
    /\ \A c \in r.created :
        /\ c \notin lost /\ c \notin row.creds /\ c \notin r.gone
        /\ \A q \in Requests : c \notin proc[q].gone
        /\ c \in A!Logins => c \in box.creds
    /\ Once(r.todo, "login")
    /\ Minting(r) => r.doc.creds \cap A!Logins = {}
    /\ r.created \cap A!Logins # {} => ~Has(r.todo, "login")
    /\ \A c, d \in r.created \cap A!Logins : c = d
    /\ handed # 0 /\ r.doc.exists /\ ~Minting(r) =>
        handed \in r.doc.creds /\ handed \notin r.gone /\ r.doc.creds \subseteq row.creds

\* A form's list is the mirror's.
Listed ==
    /\ Accounted /\ Handed
    /\ \A p \in Requests : proc[p].at = "saving" => Replaces(proc[p])
    /\ \A p \in Requests : proc[p].at = "loaded" => proc[p].doc.creds = row.creds

\* The invariant: what is always so, what holds until the account parted from the cluster's, and what
\* holds of the lists until a form wrote over one.
AccountInv ==
    /\ AccountTyped /\ Known /\ Locked /\ NoStrayCreds
    /\ ~parted => Following
    /\ ~parted /\ ~overlaid => Listed

LEMMA EmptyAccount == A!Vacant \in A!Account /\ A!Idle \in RequestState
<1>1. A!Vacant \in A!Account
  BY DEF A!Vacant, A!Account
<1>2. << >> \in Seq(A!Pushes)
  OBVIOUS
<1> QED
  BY <1>1, <1>2 DEF A!Idle, RequestState

\* An account that does not exist, or one that was adopted.
LEMMA AccountInit == A!Init => AccountInv
<1> SUFFICES ASSUME A!Init PROVE AccountInv
  OBVIOUS
<1>1. PICK adopted \in BOOLEAN :
        /\ row = [A!Vacant EXCEPT !.exists = adopted]
        /\ box = [A!Vacant EXCEPT !.exists = adopted, !.creds = IF adopted THEN {1} ELSE {}]
        /\ made = IF adopted THEN <<"owner">> ELSE <<>>
  BY DEF A!Init
<1>2. /\ handed = 0 /\ lock = NoRequest /\ proc = [p \in Requests |-> A!Idle]
      /\ parted = FALSE /\ lost = {} /\ overlaid = FALSE
  BY DEF A!Init
<1>3. 1 \in A!Ids /\ MaxIds \in Nat /\ MaxIds >= 1
  BY AccountConstants DEF A!Ids
<1>4. \A p \in Requests : /\ proc[p].at = "idle" /\ proc[p].created = {} /\ proc[p].gone = {}
                          /\ proc[p].doc.creds = {} /\ lock # p
  BY <1>2, AccountConstants DEF A!Idle, A!Vacant
<1>5. /\ row \in A!Account /\ box \in A!Account /\ Same(box, row)
      /\ ~row.exists => row = A!Vacant
      /\ row.creds = {} /\ (box.creds = IF adopted THEN {1} ELSE {}) /\ box.exists = adopted
  BY <1>1, <1>3 DEF A!Vacant, A!Account, Same
<1>6. made \in Seq({"login", "app", "owner"}) /\ Len(made) <= MaxIds /\ box.creds \subseteq DOMAIN made
      /\ \A c \in box.creds : made[c] = "owner"
  <2>1. CASE adopted
    BY <1>1, <1>3, <1>5, <2>1
  <2>2. CASE ~adopted
    BY <1>1, <1>3, <1>5, <2>2
  <2> QED BY <2>1, <2>2
<1>7. AccountTyped
  BY <1>2, <1>5, <1>6, EmptyAccount DEF AccountTyped
<1>8. Known /\ Locked /\ NoStrayCreds
  BY <1>2, <1>4, <1>5, <1>6 DEF Known, Locked, NoStrayCreds
<1>9. Following
  BY <1>4, <1>5 DEF Following
<1>10. Listed
  BY <1>2, <1>4, <1>6 DEF Listed, Accounted, Handed, A!MadeBy
<1> QED
  BY <1>7, <1>8, <1>9, <1>10 DEF AccountInv

\* A save that starts as planned keeps the invariant.
LEMMA StartKeeps ==
    ASSUME AccountInv, ~parted, ~overlaid, NEW p \in Requests, proc[p].at \in {"idle", "loaded"},
           NEW want \in A!Account, NEW todo \in Seq(A!Pushes), NEW gone \in SUBSET DOMAIN made,
           want.creds \subseteq DOMAIN made, A!Start(p, want, todo, gone),
           NEW r, r = [at |-> "saving", fresh |-> TRUE, doc |-> want, todo |-> todo, pushed |-> FALSE,
                       created |-> {}, gone |-> gone],
           Planned(r), Reached(r), Replaces(r)
    PROVE  AccountInv'
<1>1. /\ UNCHANGED <<row, box, made, handed, parted, lost, overlaid>>
      /\ lock = NoRequest /\ lock' = p /\ proc' = [proc EXCEPT ![p] = r]
  BY DEF A!Start
<1>2. /\ r \in RequestState /\ r.at = "saving" /\ r.created = {} /\ r.gone = gone /\ r.doc.creds \subseteq DOMAIN made
  <2>1. DOMAIN made \subseteq A!Ids
    BY AccountConstants DEF AccountInv, AccountTyped, A!Ids
  <2> QED BY <2>1 DEF RequestState
<1>3. proc'[p] = r /\ \A q \in Requests : q # p => proc'[q] = proc[q]
  BY <1>1 DEF AccountInv, AccountTyped
<1>4. \A q \in Requests : proc[q].at # "saving" /\ proc[q].created = {}
  BY <1>1, AccountConstants DEF AccountInv, Locked
<1>5. proc[p].gone = {}
  BY DEF AccountInv, Locked
<1>6. AccountTyped'
  BY <1>1, <1>2, <1>3 DEF AccountInv, AccountTyped
<1>7. Known'
  BY <1>1, <1>2, <1>3 DEF AccountInv, Known
<1>8. Locked'
  BY <1>1, <1>2, <1>3, <1>4, AccountConstants DEF AccountInv, Locked
<1>9. NoStrayCreds'
  BY <1>1 DEF AccountInv, NoStrayCreds
<1>10. Following'
  <2>1. Planned(r)' /\ Reached(r)'
    BY <1>1 DEF Planned, Reached
  <2>2. ASSUME NEW q \in Requests, proc'[q].at = "saving" PROVE q = p
    BY <1>3, <1>4, <2>2
  <2>3. lock' # NoRequest
    BY <1>1, AccountConstants
  <2>4. ~row'.exists => row' = A!Vacant
    BY <1>1 DEF AccountInv, Following
  <2> QED BY <1>3, <2>1, <2>2, <2>3, <2>4 DEF Following, Planned, Reached
<1>11. Listed'
  <2>1. Listed
    BY DEF AccountInv
  <2>2. Accounted'
    <3> SUFFICES ASSUME NEW c \in box.creds
                 PROVE  \/ c \in row.creds \/ c \in A!MadeBy("owner") \/ c \in lost
                        \/ \E q \in Requests : c \in proc'[q].created \/ (proc'[q].at = "revoking" /\ c \in proc'[q].gone)
      BY <1>1 DEF Accounted, A!MadeBy
    <3>1. CASE \E q \in Requests : c \in proc[q].created \/ (proc[q].at = "revoking" /\ c \in proc[q].gone)
      BY <1>3, <1>4, <1>5, <3>1
    <3> QED BY <2>1, <3>1 DEF Listed, Accounted
  <2>3. Handed'
    BY <1>1, <1>2, <1>3, <2>1 DEF Listed, Handed, A!Logins, A!MadeBy
  <2>4. ASSUME NEW q \in Requests, proc'[q].at = "saving" PROVE Replaces(proc[q])'
    <3>1. proc'[q] = r
      BY <1>3, <1>4, <2>4
    <3> QED BY <1>1, <1>2, <3>1 DEF Replaces, Minting, A!Logins, A!MadeBy
  <2>5. \A q \in Requests : proc'[q].at = "loaded" => proc'[q].doc.creds = row'.creds
    BY <1>1, <1>2, <1>3, <2>1 DEF Listed
  <2> QED BY <2>2, <2>3, <2>4, <2>5 DEF Listed
<1> QED
  BY <1>6, <1>7, <1>8, <1>9, <1>10, <1>11 DEF AccountInv

\* The start of an insert: nothing is there, so nothing is kept.
LEMMA InsertKeeps ==
    ASSUME AccountInv, NEW p \in Requests, A!Insert(p)
    PROVE  AccountInv'
<1>1. proc[p] = A!Idle /\ ~row.exists /\ ~box.exists /\ ~parted /\ ~overlaid
  BY DEF A!Insert, A!Edit, A!Explored, AccountInv, AccountTyped
<1>2. PICK enabled \in BOOLEAN, exempt \in BOOLEAN :
        A!Start(p, [A!Vacant EXCEPT !.exists = TRUE, !.enabled = enabled, !.exempt = exempt],
              <<"create", "login">> \o A!Only("role", ~enabled) \o A!Only("exempt", exempt), {})
  BY DEF A!Insert
<1> DEFINE want == [A!Vacant EXCEPT !.exists = TRUE, !.enabled = enabled, !.exempt = exempt]
           todo == <<"create", "login">> \o A!Only("role", ~enabled) \o A!Only("exempt", exempt)
           r == [at |-> "saving", fresh |-> TRUE, doc |-> want, todo |-> todo, pushed |-> FALSE,
                 created |-> {}, gone |-> {}]
<1>3. /\ want \in A!Account /\ want.exists /\ want.enabled = enabled /\ want.exempt = exempt /\ want.field = FALSE
      /\ want.creds = {}
  BY DEF A!Vacant, A!Account
<1>4. /\ todo \in Seq(A!Pushes) /\ AtStart(todo, "create") /\ Has(todo, "create") /\ AtEnd(todo, "exempt")
      /\ Once(todo, "login") /\ Has(todo, "login")
      /\ ~Has(todo, "destroy") /\ ~Has(todo, "patch")
      /\ Has(todo, "exempt") <=> exempt
      /\ Has(todo, "role") <=> ~enabled
  BY InsertSteps
<1>5. /\ row = A!Vacant /\ Same(box, row) /\ handed = 0
      /\ box.exempt = FALSE /\ box.enabled = TRUE /\ box.field = FALSE
  <2>1. lock = NoRequest
    BY <1>2 DEF A!Start
  <2>2. row = A!Vacant /\ Same(box, row) /\ handed = 0
    BY <1>1, <2>1 DEF AccountInv, Following, Listed, Handed
  <2> QED BY <2>2 DEF Same, A!Vacant
<1> HIDE DEF want, todo
<1>6. Planned(r)
  BY <1>1, <1>3, <1>4, <1>5 DEF Planned
<1>7. Reached(r)
  BY <1>3, <1>4, <1>5 DEF Reached
<1>8. Replaces(r)
  BY <1>3, <1>4, <1>5 DEF Replaces, A!Vacant
<1>9. A!Start(p, want, todo, {}) /\ proc[p].at = "idle" /\ {} \in SUBSET DOMAIN made
  BY <1>1, <1>2 DEF want, todo, A!Idle
<1> HIDE DEF r
<1> QED
  BY <1>1, <1>3, <1>4, <1>6, <1>7, <1>8, <1>9, StartKeeps DEF r

\* The start of a deletion.
LEMMA DeleteKeeps ==
    ASSUME AccountInv, NEW p \in Requests, A!Delete(p)
    PROVE  AccountInv'
<1>1. proc[p] = A!Idle /\ row.exists /\ ~parted /\ ~overlaid
  BY DEF A!Delete, A!Edit, A!Explored, AccountInv, AccountTyped
<1> DEFINE todo == A!Only("exempt", row.exempt) \o <<"destroy">>
           r == [at |-> "saving", fresh |-> TRUE, doc |-> A!Vacant, todo |-> todo, pushed |-> FALSE,
                 created |-> {}, gone |-> {}]
<1>2. A!Start(p, A!Vacant, todo, {})
  BY DEF A!Delete
<1>3. row.exempt \in BOOLEAN
  BY DEF AccountInv, AccountTyped, A!Account
<1>4. /\ todo \in Seq(A!Pushes) /\ Once(todo, "login")
      /\ \A y : Has(todo, y) <=> y = "destroy" \/ (row.exempt /\ y = "exempt")
  BY <1>3, DeleteSteps
<1> HIDE DEF todo
<1>5. Same(box, row)
  BY <1>1, <1>2 DEF AccountInv, Following, A!Start
<1>6. A!Vacant \in A!Account /\ ~A!Vacant.exists /\ A!Vacant.exempt = FALSE /\ A!Vacant.creds = {} /\ Same(A!Vacant, A!Vacant)
  BY DEF A!Vacant, A!Account, Same
<1>7. Planned(r)
  BY <1>1, <1>4, <1>6 DEF Planned
<1>8. Reached(r)
  <2>1. Has(todo, "destroy") /\ (~Has(todo, "exempt") => box.exempt = FALSE)
    BY <1>3, <1>4, <1>5 DEF Same
  <2> QED BY <1>5, <1>6, <2>1 DEF Reached
<1>9. Replaces(r)
  BY <1>4, <1>6 DEF Replaces, Minting
<1>10. proc[p].at = "idle" /\ {} \in SUBSET DOMAIN made
  BY <1>1 DEF A!Idle
<1> HIDE DEF r
<1> QED
  BY <1>1, <1>2, <1>4, <1>6, <1>7, <1>8, <1>9, <1>10, StartKeeps DEF r

\* A save of an account that exists: the credentials that stay and that go are those of the mirror.
LEMMA UpdateKeeps ==
    ASSUME AccountInv, ~parted, ~overlaid, NEW p \in Requests, proc[p].at \in {"idle", "loaded"}, row.exists,
           NEW doc \in A!Account, doc.exists, NEW mint \in BOOLEAN, NEW adds \in 0..1,
           NEW creds \in SUBSET DOMAIN made, NEW gone \in SUBSET DOMAIN made,
           A!Start(p, [doc EXCEPT !.creds = creds], A!Changes(doc, mint, adds), gone),
           row.creds \subseteq creds \cup gone,
           mint => creds \cap A!Logins = {},
           ~mint /\ handed # 0 => handed \in creds /\ handed \notin gone /\ creds \subseteq row.creds
    PROVE  AccountInv'
<1> DEFINE want == [doc EXCEPT !.creds = creds]
           todo == A!Changes(doc, mint, adds)
           r == [at |-> "saving", fresh |-> TRUE, doc |-> want, todo |-> todo, pushed |-> FALSE,
                 created |-> {}, gone |-> gone]
<1>1. /\ want \in A!Account /\ want.exists /\ want.creds = creds
      /\ want.enabled = doc.enabled /\ want.exempt = doc.exempt /\ want.field = doc.field
  <2>1. DOMAIN made \subseteq A!Ids
    BY AccountConstants DEF AccountInv, AccountTyped, A!Ids
  <2> QED BY <2>1 DEF A!Account
<1>2. row \in A!Account
  BY DEF AccountInv, AccountTyped
<1>3. /\ todo \in Seq(A!Pushes) /\ ~Has(todo, "create") /\ ~Has(todo, "destroy")
      /\ Has(todo, "login") <=> mint
      /\ Once(todo, "login")
      /\ Has(todo, "exempt") <=> doc.exempt # row.exempt
      /\ Has(todo, "patch") <=> doc.field # row.field
      /\ Has(todo, "role") <=> doc.enabled # row.enabled
  BY <1>2, ChangesSteps
<1>4. A!Start(p, want, todo, gone)
  OBVIOUS
<1>5. Same(box, row)
  BY <1>4 DEF AccountInv, Following, A!Start
<1> HIDE DEF want, todo
<1>6. Planned(r)
  BY <1>1, <1>3 DEF Planned
<1>7. Reached(r)
  <2>1. doc.exists = row.exists
    BY <1>2 DEF A!Account
  <2> QED BY <1>1, <1>3, <1>5, <2>1 DEF Reached, Same
<1>8. Replaces(r)
  BY <1>1, <1>3 DEF Replaces, Minting
<1> HIDE DEF r
<1> QED
  BY <1>1, <1>3, <1>4, <1>6, <1>7, <1>8, StartKeeps DEF r

\* place_site_login keeps only what it is given, and mints when no login is among it.
LEMMA PlacedCreds ==
    ASSUME NEW creds, NEW adds
    PROVE  /\ A!Placed(creds, adds).creds \subseteq creds /\ A!Placed(creds, adds).mint \in BOOLEAN
           /\ A!Placed(creds, adds).mint => creds \cap A!Logins = {}
           /\ ~A!Placed(creds, adds).mint => A!Placed(creds, adds).creds = creds
<1>1. CASE creds \cap A!Logins # {}
  BY <1>1 DEF A!Placed
<1>2. CASE creds \cap A!Logins = {}
  <2>1. \A k : A!Newest(creds, k) \subseteq creds
    BY DEF A!Newest
  <2>2. /\ A!Placed(creds, adds).creds = A!Newest(creds, IF Limit > adds THEN Limit - adds - 1 ELSE 0)
        /\ A!Placed(creds, adds).mint = TRUE
    BY <1>2 DEF A!Placed
  <2> QED BY <1>2, <2>1, <2>2
<1> QED BY <1>1, <1>2

\* A save that keeps the mirrored logins.
LEMMA SavesKeep ==
    ASSUME AccountInv, ~parted, ~overlaid, NEW p \in Requests, proc[p].at \in {"idle", "loaded"}, row.exists,
           NEW doc \in A!Account, doc.exists, NEW adds \in 0..1, NEW keep \in SUBSET row.creds,
           row.creds \cap A!Logins \subseteq keep, A!Saves(p, doc, keep, adds)
    PROVE  AccountInv'
<1>1. handed # 0 => handed \in keep /\ row.creds # {}
  BY DEF AccountInv, Listed, Handed
<1>2. row.creds \subseteq DOMAIN made /\ box.creds \subseteq DOMAIN made
  BY DEF AccountInv, Known
<1>3. CASE ~row.enabled
  <2>1. keep = row.creds /\ A!Start(p, [doc EXCEPT !.creds = keep], A!Changes(doc, FALSE, 0), {})
    BY <1>3 DEF A!Saves
  <2>2. 0 \in 0..1 /\ FALSE \in BOOLEAN /\ {} \in SUBSET DOMAIN made
    OBVIOUS
  <2> QED BY <1>1, <1>2, <2>1, <2>2, UpdateKeeps
<1>4. CASE row.enabled
  <2> DEFINE creds == IF row.creds = {} THEN box.creds ELSE keep
             placed == A!Placed(creds, adds)
             gone == A!Baseline \ placed.creds
  <2>1. A!Start(p, [doc EXCEPT !.creds = placed.creds], A!Changes(doc, placed.mint, adds), gone)
    BY <1>4 DEF A!Saves
  <2>2. /\ placed.creds \subseteq creds /\ placed.mint \in BOOLEAN
        /\ placed.mint => creds \cap A!Logins = {}
        /\ ~placed.mint => placed.creds = creds
    BY PlacedCreds
  <2>3. creds \subseteq DOMAIN made
    BY <1>2
  <2>4. row.creds \subseteq A!Baseline /\ A!Baseline \subseteq DOMAIN made
    BY <1>2 DEF A!Baseline
  <2> HIDE DEF placed
  <2>5. placed.creds \in SUBSET DOMAIN made /\ gone \in SUBSET DOMAIN made /\ row.creds \subseteq placed.creds \cup gone
    BY <2>2, <2>3, <2>4
  <2>6. placed.mint => placed.creds \cap A!Logins = {}
    BY <2>2
  <2>7. ASSUME ~placed.mint, handed # 0 PROVE handed \in placed.creds /\ handed \notin gone /\ placed.creds \subseteq row.creds
    BY <1>1, <2>2, <2>7
  <2> HIDE DEF gone
  <2> QED BY <2>1, <2>2, <2>5, <2>6, <2>7, UpdateKeeps
<1> QED
  BY <1>3, <1>4 DEF AccountInv, AccountTyped, A!Account

\* A form's list is the mirror's, unless it was overlaid, so its logins are kept.
LEMMA SaveKeeps ==
    ASSUME AccountInv, NEW p \in Requests, A!Save(p)
    PROVE  AccountInv'
<1>1. proc[p].at = "loaded" /\ row.exists /\ ~parted /\ ~overlaid
  BY DEF A!Save, A!Edit, A!Explored, AccountInv, AccountTyped
<1>2. PICK enabled \in BOOLEAN, exempt \in BOOLEAN, field \in BOOLEAN, adds \in 0..1, drop \in SUBSET (proc[p].doc.creds \ A!Logins) :
        A!Saves(p, [row EXCEPT !.enabled = enabled, !.exempt = exempt, !.field = field], proc[p].doc.creds \ drop, adds)
  BY DEF A!Save
<1>3. proc[p].doc.creds = row.creds
  BY <1>1 DEF AccountInv, Listed
<1>4. /\ [row EXCEPT !.enabled = enabled, !.exempt = exempt, !.field = field] \in A!Account
      /\ [row EXCEPT !.enabled = enabled, !.exempt = exempt, !.field = field].exists
  BY <1>1 DEF AccountInv, AccountTyped, A!Account
<1>5. proc[p].doc.creds \ drop \in SUBSET row.creds /\ row.creds \cap A!Logins \subseteq proc[p].doc.creds \ drop
  BY <1>3
<1> QED
  BY <1>1, <1>2, <1>4, <1>5, SavesKeep

LEMMA ChangeCredentialKeeps ==
    ASSUME AccountInv, NEW p \in Requests, A!ChangeCredential(p)
    PROVE  AccountInv'
<1>1. proc[p].at = "idle" /\ row.exists /\ ~parted /\ ~overlaid /\ row \in A!Account
  BY DEF A!ChangeCredential, A!Edit, A!Explored, AccountInv, AccountTyped, A!Idle
<1>2. CASE A!Saves(p, row, row.creds, 1)
  <2>1. 1 \in 0..1 /\ row.creds \in SUBSET row.creds
    OBVIOUS
  <2> QED BY <1>1, <1>2, <2>1, SavesKeep
<1>3. ASSUME NEW c \in row.creds \ A!Logins, A!Saves(p, row, row.creds \ {c}, 0) PROVE AccountInv'
  <2>1. 0 \in 0..1 /\ row.creds \ {c} \in SUBSET row.creds /\ row.creds \cap A!Logins \subseteq row.creds \ {c}
    OBVIOUS
  <2> QED BY <1>1, <1>3, <2>1, SavesKeep
<1> QED
  BY <1>2, <1>3 DEF A!ChangeCredential

\* A rotation keeps no login and mints one.
LEMMA RotateKeeps ==
    ASSUME AccountInv, NEW p \in Requests, A!Rotate(p)
    PROVE  AccountInv'
<1>1. proc[p].at = "idle" /\ row.exists /\ ~parted /\ ~overlaid /\ row \in A!Account
  BY DEF A!Rotate, A!Edit, A!Explored, AccountInv, AccountTyped, A!Idle
<1> DEFINE loaded == IF row.creds = {} THEN box.creds ELSE row.creds
           placed == A!Placed(loaded \ A!Logins, 0)
           gone == loaded \ placed.creds
<1>2. A!Start(p, [row EXCEPT !.creds = placed.creds], A!Changes(row, TRUE, 0), gone)
  BY DEF A!Rotate
<1>3. placed.creds \subseteq loaded \ A!Logins
  BY PlacedCreds
<1>4. loaded \subseteq DOMAIN made /\ row.creds \subseteq loaded
  BY DEF AccountInv, Known
<1> HIDE DEF placed, loaded
<1>5. /\ placed.creds \in SUBSET DOMAIN made /\ gone \in SUBSET DOMAIN made
      /\ row.creds \subseteq placed.creds \cup gone /\ placed.creds \cap A!Logins = {}
  BY <1>3, <1>4
<1>6. 0 \in 0..1 /\ TRUE \in BOOLEAN
  OBVIOUS
<1> HIDE DEF gone
<1> QED
  BY <1>1, <1>2, <1>5, <1>6, UpdateKeeps

\* A request that does not save reads, and leaves the rest alone.
LEMMA ReadKeeps ==
    ASSUME AccountInv, NEW p \in Requests, proc[p].at # "saving", NEW r \in RequestState, proc' = [proc EXCEPT ![p] = r],
           UNCHANGED <<row, box, made, handed, lock, parted, lost, overlaid>>,
           proc[p].at # "revoking", r.at \in {"idle", "listed", "loaded"}, r.created = {}, r.gone = {},
           r.doc.creds \subseteq DOMAIN made,
           ~parted /\ ~overlaid /\ r.at = "loaded" => r.doc.creds = row.creds
    PROVE  AccountInv'
<1>1. proc'[p] = r /\ \A q \in Requests : q # p => proc'[q] = proc[q]
  BY DEF AccountInv, AccountTyped
<1>2. AccountTyped' /\ NoStrayCreds'
  BY DEF AccountInv, AccountTyped, NoStrayCreds
<1>3. Known'
  BY <1>1 DEF AccountInv, Known
<1>4. Locked'
  BY <1>1 DEF AccountInv, Locked
<1>5. ASSUME ~parted PROVE Following'
  <2>1. Following
    BY <1>5 DEF AccountInv
  <2> QED BY <1>1, <2>1 DEF Following, Planned, Reached
<1>6. ASSUME ~parted, ~overlaid PROVE Listed'
  <2>1. Listed
    BY <1>6 DEF AccountInv
  <2>2. proc[p].created = {}
    BY DEF AccountInv, Locked
  <2>3. Accounted'
    BY <1>1, <2>1, <2>2 DEF Listed, Accounted, A!MadeBy
  <2>4. Handed'
    BY <1>1, <2>1 DEF Listed, Handed, A!Logins, A!MadeBy
  <2>5. ASSUME NEW q \in Requests, proc'[q].at = "saving" PROVE Replaces(proc[q])'
    <3>1. q # p /\ proc'[q] = proc[q] /\ Replaces(proc[q])
      BY <1>1, <2>1, <2>5 DEF Listed
    <3>2. \A v \in Requests : proc'[v].gone \subseteq proc[v].gone
      BY <1>1
    <3> QED BY <3>1, <3>2 DEF Replaces, Minting, A!Logins, A!MadeBy
  <2>6. \A q \in Requests : proc'[q].at = "loaded" => proc'[q].doc.creds = row'.creds
    BY <1>1, <1>6, <2>1 DEF Listed
  <2> QED BY <2>3, <2>4, <2>5, <2>6 DEF Listed
<1> QED
  BY <1>2, <1>3, <1>4, <1>5, <1>6 DEF AccountInv

LEMMA ReadsKeep ==
    ASSUME AccountInv, NEW p \in Requests, A!Load(p) \/ A!OpenForm(p) \/ A!Close(p)
    PROVE  AccountInv'
<1>1. row \in A!Account /\ box \in A!Account /\ row.creds \subseteq DOMAIN made /\ box.creds \subseteq DOMAIN made
  BY DEF AccountInv, AccountTyped, Known
<1>2. CASE A!Close(p)
  <2>1. A!Idle \in RequestState /\ A!Idle.at = "idle" /\ A!Idle.created = {} /\ A!Idle.gone = {} /\ A!Idle.doc.creds = {}
    BY EmptyAccount DEF A!Idle, A!Vacant
  <2> QED BY <1>2, <2>1, ReadKeeps DEF A!Close
<1>4. CASE A!Load(p)
  <2> DEFINE r == [A!Idle EXCEPT !.at = "loaded", !.fresh = TRUE, !.doc.creds = row.creds]
  <2>1. r \in RequestState /\ r.at = "loaded" /\ r.created = {} /\ r.gone = {} /\ r.doc.creds = row.creds
    <3>1. row.creds \in SUBSET A!Ids
      BY <1>1 DEF A!Account
    <3> QED BY <3>1, EmptyAccount DEF A!Idle, RequestState, A!Account, A!Vacant
  <2>2. proc' = [proc EXCEPT ![p] = r] /\ proc[p] = A!Idle /\ UNCHANGED <<row, box, made, handed, lock, parted, lost, overlaid>>
    BY <1>4 DEF A!Load
  <2> HIDE DEF r
  <2>3. proc[p].at = "idle"
    BY <2>2 DEF A!Idle
  <2> QED BY <1>1, <2>1, <2>2, <2>3, ReadKeeps
<1>5. CASE A!OpenForm(p)
  <2> DEFINE shown == IF row.enabled /\ box.exists /\ box.enabled THEN box.creds ELSE row.creds
             at == IF shown = row.creds THEN "loaded" ELSE "listed"
             r == [A!Idle EXCEPT !.at = at, !.fresh = TRUE, !.doc.creds = shown]
  <2>1. shown \in SUBSET A!Ids /\ shown \subseteq DOMAIN made
    BY <1>1 DEF A!Account
  <2>2. proc' = [proc EXCEPT ![p] = r] /\ proc[p] = A!Idle /\ UNCHANGED <<row, box, made, handed, lock, parted, lost, overlaid>>
    BY <1>5 DEF A!OpenForm
  <2>3. at \in {"listed", "loaded"} /\ (at = "loaded" => shown = row.creds)
    OBVIOUS
  <2> HIDE DEF shown, at
  <2>4. r \in RequestState /\ r.at = at /\ r.created = {} /\ r.gone = {} /\ r.doc.creds = shown
    BY <2>1, <2>3, EmptyAccount DEF A!Idle, RequestState, A!Account, A!Vacant
  <2> HIDE DEF r
  <2>5. proc[p].at = "idle"
    BY <2>2 DEF A!Idle
  <2> QED BY <2>1, <2>2, <2>3, <2>4, <2>5, ReadKeeps
<1> QED
  BY <1>2, <1>4, <1>5

\* The list a form writes over the mirror is the cluster's, and nobody else is about, or it is overlaid.
LEMMA WriteMirrorKeeps ==
    ASSUME AccountInv, NEW p \in Requests, A!WriteMirror(p)
    PROVE  AccountInv'
<1> DEFINE r == IF proc[p].fresh THEN [proc[p] EXCEPT !.at = "loaded"] ELSE A!Idle
<1>1. /\ proc[p].at = "listed" /\ lock = NoRequest
      /\ row' = IF row.exists THEN [row EXCEPT !.creds = proc[p].doc.creds] ELSE row
      /\ proc' = [proc EXCEPT ![p] = r]
      /\ overlaid' = (overlaid \/ proc[p].doc.creds # box.creds \/ \E q \in Requests \ {p} : proc[q].at # "idle")
      /\ UNCHANGED <<box, made, handed, lock, parted, lost>>
  BY DEF A!WriteMirror
<1>2. /\ proc[p] \in RequestState /\ proc[p].doc.creds \in SUBSET A!Ids /\ proc[p].doc.creds \subseteq DOMAIN made
      /\ proc[p].created = {} /\ proc[p].gone = {}
  BY <1>1 DEF AccountInv, AccountTyped, Known, Locked, RequestState, A!Account
<1>3. /\ r \in RequestState /\ r.created = {} /\ r.gone = {} /\ r.at \in {"idle", "loaded"}
      /\ r.doc.creds \subseteq DOMAIN made /\ (r.at = "loaded" => r.doc.creds = proc[p].doc.creds)
  <2>1. CASE proc[p].fresh
    BY <1>2, <2>1 DEF RequestState
  <2>2. CASE ~proc[p].fresh
    BY <1>2, <2>2, EmptyAccount DEF A!Idle, A!Vacant
  <2> QED BY <2>1, <2>2
<1> HIDE DEF r
<1>4. proc'[p] = r /\ \A q \in Requests : q # p => proc'[q] = proc[q]
  BY <1>1 DEF AccountInv, AccountTyped
<1>5. row' \in A!Account /\ row'.exists = row.exists /\ Same(row', row) /\ row'.creds \subseteq DOMAIN made
  <2>1. row \in A!Account /\ row.creds \subseteq DOMAIN made
    BY DEF AccountInv, AccountTyped, Known
  <2>2. CASE row.exists
    BY <1>1, <1>2, <2>1, <2>2 DEF A!Account, Same
  <2>3. CASE ~row.exists
    BY <1>1, <2>1, <2>3 DEF Same
  <2> QED BY <2>2, <2>3
<1>6. AccountTyped'
  <2>1. overlaid' \in BOOLEAN
    BY <1>1 DEF AccountInv, AccountTyped
  <2> QED BY <1>1, <1>3, <1>5, <2>1 DEF AccountInv, AccountTyped
<1>7. Known'
  BY <1>1, <1>3, <1>4, <1>5 DEF AccountInv, Known
<1>8. Locked' /\ NoStrayCreds'
  BY <1>1, <1>3, <1>4, <1>5 DEF AccountInv, Locked, NoStrayCreds
<1>9. \A q \in Requests : proc[q].at # "saving" /\ proc'[q].at # "saving"
  BY <1>1, <1>3, <1>4, AccountConstants DEF AccountInv, Locked
<1>10. ASSUME ~parted PROVE Following'
  <2>1. Same(box, row) /\ (~row.exists => row' = A!Vacant)
    BY <1>1, <1>10 DEF AccountInv, Following
  <2> QED BY <1>1, <1>5, <1>9, <2>1 DEF Following, Same
<1>11. ASSUME ~parted, ~overlaid' PROVE Listed'
  <2>1. Listed /\ Same(box, row) /\ proc[p].doc.creds = box.creds /\ \A q \in Requests : q # p => proc[q].at = "idle"
    BY <1>1, <1>11 DEF AccountInv, Following, AccountTyped
  <2>2. row'.creds = box.creds
    <3>1. CASE row.exists
      <4>1. row \in A!Account
        BY DEF AccountInv, AccountTyped
      <4> QED BY <1>1, <2>1, <3>1, <4>1 DEF A!Account
    <3>2. CASE ~row.exists
      <4>1. row' = A!Vacant /\ box.creds = {}
        BY <1>1, <1>11, <2>1, <3>2 DEF AccountInv, NoStrayCreds, Following, Same
      <4> QED BY <4>1 DEF A!Vacant
    <3> QED BY <3>1, <3>2
  <2>3. \A q \in Requests : proc[q].created = {} /\ proc[q].at # "revoking" /\ proc'[q].at # "revoking"
    BY <1>1, <1>2, <1>3, <1>4, <1>9, <2>1 DEF AccountInv, Locked
  <2>4. Accounted'
    BY <1>1, <2>2 DEF Accounted
  <2>5. Handed'
    <3> SUFFICES ASSUME handed # 0
                 PROVE  /\ row'.exists /\ handed \in row'.creds /\ handed \in A!Logins
                        /\ row'.creds \cap A!Logins \subseteq {handed} \cup lost
                        /\ handed \notin lost
                        /\ box.exists => handed \in box.creds
      BY <1>1, <2>3 DEF Handed, A!Logins, A!MadeBy
    <3>1. /\ row.exists /\ handed \in A!Logins /\ handed \notin lost /\ row.creds \cap A!Logins \subseteq {handed} \cup lost
          /\ box.exists => handed \in box.creds
      BY <2>1 DEF Listed, Handed
    <3>2. box.exists
      BY <2>1, <3>1 DEF Same
    <3>3. \A c \in box.creds : c \in row.creds \/ c \in A!MadeBy("owner") \/ c \in lost
      BY <2>1, <2>3 DEF Listed, Accounted
    <3>4. \A c \in A!MadeBy("owner") : c \notin A!Logins
      BY DEF A!MadeBy, A!Logins
    <3> QED BY <1>5, <2>2, <3>1, <3>2, <3>3, <3>4
  <2>6. \A q \in Requests : proc'[q].at = "loaded" => proc'[q].doc.creds = row'.creds
    BY <1>3, <1>4, <2>1, <2>2
  <2> QED BY <1>9, <2>4, <2>5, <2>6 DEF Listed
<1>12. overlaid => overlaid'
  BY <1>1
<1> QED
  BY <1>1, <1>6, <1>7, <1>8, <1>10, <1>11 DEF AccountInv

\* A new credential has a number of its own.
LEMMA NewCredential ==
    ASSUME AccountTyped, Len(made) < MaxIds, NEW who \in {"login", "app", "owner"}, made' = Append(made, who)
    PROVE  /\ made' \in Seq({"login", "app", "owner"}) /\ Len(made') <= MaxIds
           /\ DOMAIN made' = DOMAIN made \cup {A!Fresh} /\ A!Fresh \notin DOMAIN made /\ A!Fresh \in A!Ids /\ A!Fresh # 0
           /\ A!Logins' = (IF who = "login" THEN A!Logins \cup {A!Fresh} ELSE A!Logins)
           /\ A!MadeBy("owner")' = (IF who = "owner" THEN A!MadeBy("owner") \cup {A!Fresh} ELSE A!MadeBy("owner"))
<1>1. /\ made \in Seq({"login", "app", "owner"}) /\ Len(made) \in Nat /\ MaxIds \in Nat /\ DOMAIN made = 1..Len(made)
      /\ A!Fresh = Len(made) + 1
  BY AccountConstants DEF AccountTyped, A!Fresh
<1>2. /\ made' \in Seq({"login", "app", "owner"}) /\ Len(made') = Len(made) + 1 /\ DOMAIN made' = 1..(Len(made) + 1)
      /\ made'[A!Fresh] = who /\ \A c \in 1..Len(made) : made'[c] = made[c]
  BY <1>1
<1>3. /\ DOMAIN made' = DOMAIN made \cup {A!Fresh} /\ A!Fresh \notin DOMAIN made /\ A!Fresh \in A!Ids /\ A!Fresh # 0
      /\ Len(made') <= MaxIds
  BY <1>1, <1>2 DEF A!Ids
<1>4. \A c \in DOMAIN made : made'[c] = made[c]
  BY <1>1, <1>2
<1>5. /\ {c \in DOMAIN made' : made'[c] = "login"} =
         (IF who = "login" THEN {c \in DOMAIN made : made[c] = "login"} \cup {A!Fresh} ELSE {c \in DOMAIN made : made[c] = "login"})
      /\ {c \in DOMAIN made' : made'[c] = "owner"} =
         (IF who = "owner" THEN {c \in DOMAIN made : made[c] = "owner"} \cup {A!Fresh} ELSE {c \in DOMAIN made : made[c] = "owner"})
  <2> HIDE DEF A!Fresh
  <2>1. made'[A!Fresh] = who
    BY <1>2
  <2> QED BY <1>3, <1>4, <2>1
<1> QED
  BY <1>2, <1>3, <1>5 DEF A!Logins, A!MadeBy

\* What a push makes of each field of the cluster's account.
LEMMA EffectFields ==
    ASSUME AccountTyped, NEW p \in Requests, proc[p].todo # << >>, A!Mints(p) => Len(made) < MaxIds
    PROVE  LET h == Head(proc[p].todo)
               want == proc[p].doc
               e == A!Effect(p)
           IN  /\ e \in A!Account
               /\ e.exists = (IF h = "create" THEN TRUE ELSE IF h = "destroy" THEN FALSE ELSE box.exists)
               /\ e.enabled = (IF h \in {"create", "destroy"} THEN TRUE ELSE IF h = "role" THEN want.enabled ELSE box.enabled)
               /\ e.exempt = (IF h = "exempt" THEN want.exempt ELSE box.exempt)
               /\ e.field = (IF h = "destroy" THEN FALSE ELSE IF h \in {"create", "patch"} THEN want.field ELSE box.field)
               /\ e.creds = (IF h \in {"create", "destroy"} THEN {} ELSE IF A!Mints(p) THEN box.creds \cup {A!Fresh} ELSE box.creds)
<1> DEFINE h == Head(proc[p].todo)
           want == proc[p].doc
<1>1. box \in A!Account /\ want \in A!Account /\ proc[p].todo \in Seq(A!Pushes)
  BY DEF AccountTyped, RequestState
<1>2. h \in A!Pushes
  BY <1>1, HasTail
<1>3. A!Mints(p) <=> h \in {"login", "app"}
  BY DEF A!Mints
<1>4. A!Mints(p) => A!Fresh \in A!Ids
  BY AccountConstants DEF AccountTyped, A!Fresh, A!Ids
<1>5. A!Effect(p) = CASE h = "create"  -> [A!Vacant EXCEPT !.exists = TRUE, !.field = want.field, !.exempt = box.exempt]
                    [] h = "exempt"  -> [box EXCEPT !.exempt = want.exempt]
                    [] h = "patch"   -> [box EXCEPT !.field = want.field]
                    [] h = "role"    -> [box EXCEPT !.enabled = want.enabled]
                    [] h = "destroy" -> [A!Vacant EXCEPT !.exempt = box.exempt]
                    [] OTHER         -> [box EXCEPT !.creds = box.creds \cup {A!Fresh}]
  BY DEF A!Effect, A!Minted
<1> HIDE DEF h, want
<1>6. CASE h = "create"
  BY <1>1, <1>5, <1>6 DEF A!Vacant, A!Account, h, want
<1>7. CASE h = "exempt"
  BY <1>1, <1>3, <1>5, <1>7 DEF A!Account, h, want
<1>8. CASE h = "patch"
  BY <1>1, <1>3, <1>5, <1>8 DEF A!Account, h, want
<1>9. CASE h = "role"
  BY <1>1, <1>3, <1>5, <1>9 DEF A!Account, h, want
<1>10. CASE h = "destroy"
  BY <1>1, <1>5, <1>10 DEF A!Vacant, A!Account, h, want
<1>11. CASE h \in {"login", "app"}
  <2>1. A!Effect(p) = [box EXCEPT !.creds = box.creds \cup {A!Fresh}]
    BY <1>5, <1>11
  <2> QED BY <1>1, <1>3, <1>4, <1>11, <2>1 DEF A!Account, h, want
<1> QED
  BY <1>2, <1>6, <1>7, <1>8, <1>9, <1>10, <1>11 DEF A!Pushes

\* A push does the first step that is left, and nothing else.
LEMMA PushKeeps ==
    ASSUME AccountInv, NEW p \in Requests, A!Push(p)
    PROVE  AccountInv'
<1> DEFINE h == Head(proc[p].todo)
           r == proc[p]
           n == proc'[p]
<1>1. /\ r.at = "saving" /\ r.todo # << >> /\ (A!Mints(p) => Len(made) < MaxIds /\ box.exists)
      /\ box' = A!Effect(p)
      /\ made' = (IF A!Mints(p) THEN Append(made, h) ELSE made)
      /\ UNCHANGED <<row, handed, lock, parted, lost, overlaid>>
  BY DEF A!Push, A!Possible
<1>2. AccountTyped /\ r \in RequestState
  BY DEF AccountInv, AccountTyped
<1>3. /\ h \in A!Pushes /\ Tail(r.todo) \in Seq(A!Pushes) /\ Has(r.todo, h)
      /\ \A x : Has(Tail(r.todo), x) => Has(r.todo, x)
      /\ \A x : Has(r.todo, x) => x = h \/ Has(Tail(r.todo), x)
  BY <1>1, <1>2, HasTail DEF RequestState
<1>4. /\ Once(r.todo, "login") => Once(Tail(r.todo), "login") /\ (h = "login" => ~Has(Tail(r.todo), "login"))
      /\ AtStart(r.todo, "create") => ~Has(Tail(r.todo), "create")
      /\ AtEnd(r.todo, "exempt") => AtEnd(Tail(r.todo), "exempt") /\ (h = "exempt" => Tail(r.todo) = <<>>)
  BY <1>1, <1>2, PlaceInTail DEF RequestState
<1>5. A!Mints(p) <=> h \in {"login", "app"}
  BY DEF A!Mints
<1>6. IF A!Mints(p)
      THEN /\ made' \in Seq({"login", "app", "owner"}) /\ Len(made') <= MaxIds
           /\ DOMAIN made' = DOMAIN made \cup {A!Fresh} /\ A!Fresh \notin DOMAIN made /\ A!Fresh \in A!Ids
           /\ A!Logins' = (IF h = "login" THEN A!Logins \cup {A!Fresh} ELSE A!Logins)
           /\ A!MadeBy("owner")' = A!MadeBy("owner")
      ELSE made' = made /\ A!Logins' = A!Logins /\ A!MadeBy("owner")' = A!MadeBy("owner")
  <2>1. CASE A!Mints(p)
    <3>1. h \in {"login", "app", "owner"} /\ h # "owner" /\ made' = Append(made, h) /\ Len(made) < MaxIds
      BY <1>1, <1>5, <2>1
    <3> HIDE DEF h
    <3> QED BY <1>2, <2>1, <3>1, NewCredential
  <2>2. CASE ~A!Mints(p)
    BY <1>1, <2>2 DEF A!Logins, A!MadeBy
  <2> QED BY <2>1, <2>2
<1>7. /\ box' \in A!Account
      /\ box'.exists = (IF h = "create" THEN TRUE ELSE IF h = "destroy" THEN FALSE ELSE box.exists)
      /\ box'.enabled = (IF h \in {"create", "destroy"} THEN TRUE ELSE IF h = "role" THEN r.doc.enabled ELSE box.enabled)
      /\ box'.exempt = (IF h = "exempt" THEN r.doc.exempt ELSE box.exempt)
      /\ box'.field = (IF h = "destroy" THEN FALSE ELSE IF h \in {"create", "patch"} THEN r.doc.field ELSE box.field)
      /\ box'.creds = (IF h \in {"create", "destroy"} THEN {} ELSE IF A!Mints(p) THEN box.creds \cup {A!Fresh} ELSE box.creds)
  BY <1>1, <1>2, EffectFields
<1>8. /\ proc' = [proc EXCEPT ![p] = [r EXCEPT !.todo = Tail(r.todo), !.pushed = r.pushed \/ ~A!Mints(p),
                                                !.created = IF A!Mints(p) THEN r.created \cup {A!Fresh} ELSE r.created]]
      /\ n = [r EXCEPT !.todo = Tail(r.todo), !.pushed = r.pushed \/ ~A!Mints(p),
                        !.created = IF A!Mints(p) THEN r.created \cup {A!Fresh} ELSE r.created]
      /\ \A q \in Requests : q # p => proc'[q] = proc[q]
  BY <1>2 DEF A!Push, AccountTyped
<1>9. /\ n \in RequestState /\ n.at = "saving" /\ n.doc = r.doc /\ n.gone = r.gone /\ n.todo = Tail(r.todo)
      /\ n.pushed = (r.pushed \/ ~A!Mints(p))
      /\ n.created = (IF A!Mints(p) THEN r.created \cup {A!Fresh} ELSE r.created)
  <2>1. (r.pushed \/ ~A!Mints(p)) \in BOOLEAN /\ (IF A!Mints(p) THEN r.created \cup {A!Fresh} ELSE r.created) \in SUBSET A!Ids
    BY <1>2, <1>6 DEF RequestState, A!Mints
  <2> HIDE DEF n
  <2> QED BY <1>1, <1>2, <1>3, <1>8, <2>1 DEF RequestState
<1>10. \A q \in Requests : q # p => proc[q].at # "saving" /\ proc[q].created = {}
  BY <1>1 DEF AccountInv, Locked
<1>11. AccountTyped'
  <2>1. proc' \in [Requests -> RequestState]
    BY <1>2, <1>8, <1>9 DEF AccountTyped
  <2>2. made' \in Seq({"login", "app", "owner"}) /\ Len(made') <= MaxIds
    BY <1>2, <1>6 DEF AccountTyped
  <2> QED BY <1>1, <1>2, <1>7, <2>1, <2>2 DEF AccountTyped
<1> HIDE DEF h, r, n
<1>12. Known'
  <2>1. DOMAIN made \subseteq DOMAIN made' /\ (A!Mints(p) => A!Fresh \in DOMAIN made')
    BY <1>6
  <2>2. /\ n.doc.creds \subseteq DOMAIN made' /\ n.created \subseteq DOMAIN made' /\ n.gone \subseteq DOMAIN made'
    BY <1>9, <2>1 DEF AccountInv, Known, r
  <2>3. box'.creds \subseteq DOMAIN made'
    BY <1>7, <2>1 DEF AccountInv, Known
  <2>4. \A q \in Requests : /\ proc'[q].doc.creds \subseteq DOMAIN made'
                            /\ proc'[q].created \subseteq DOMAIN made' /\ proc'[q].gone \subseteq DOMAIN made'
    BY <1>8, <2>1, <2>2 DEF AccountInv, Known, n
  <2> QED BY <1>1, <2>1, <2>3, <2>4 DEF AccountInv, Known
<1>13. Locked'
  BY <1>1, <1>8, <1>9, <1>10 DEF AccountInv, Locked, n, r
<1>14. NoStrayCreds'
  BY <1>1, <1>5, <1>7 DEF AccountInv, NoStrayCreds
<1>15. ASSUME ~parted PROVE Following'
  <2>1. Planned(r) /\ Reached(r)
    BY <1>1, <1>15 DEF AccountInv, Following, r
  <2>2. lock' = p /\ lock' # NoRequest /\ \A q \in Requests : proc'[q].at = "saving" => q = p
    BY <1>1, <1>8, <1>10, AccountConstants DEF AccountInv, Locked, r
  <2>3. /\ row.exists => h # "create"
        /\ r.doc.exists => h # "destroy"
        /\ ~row.exists => h # "patch"
        /\ ~r.doc.exists => ~A!Mints(p)
    BY <1>3, <1>5, <2>1 DEF Planned
  <2>4. Planned(proc[p])'
    <3>1. ~row.exists => /\ AtStart(n.todo, "create") /\ AtEnd(n.todo, "exempt") /\ ~Has(n.todo, "create") /\ n.pushed
                         /\ ~Has(n.todo, "destroy") /\ ~Has(n.todo, "patch")
                         /\ n.todo # << >> => ~box'.exempt
      <4> SUFFICES ASSUME ~row.exists
                   PROVE  /\ AtStart(n.todo, "create") /\ AtEnd(n.todo, "exempt") /\ ~Has(n.todo, "create") /\ n.pushed
                          /\ ~Has(n.todo, "destroy") /\ ~Has(n.todo, "patch")
                          /\ n.todo # << >> => ~box'.exempt
        OBVIOUS
      <4>1. /\ AtStart(r.todo, "create") /\ AtEnd(r.todo, "exempt") /\ ~Has(r.todo, "destroy") /\ ~Has(r.todo, "patch")
            /\ ~Has(r.todo, "create") => r.pushed
            /\ ~box.exempt
        BY <1>1, <2>1 DEF Planned, r
      <4>2. ~Has(n.todo, "create") /\ AtEnd(n.todo, "exempt") /\ (h = "exempt" => n.todo = <<>>)
        BY <1>4, <1>9, <4>1
      <4>3. AtStart(n.todo, "create")
        BY <4>2 DEF Has, AtStart
      <4>4. ~Has(n.todo, "destroy") /\ ~Has(n.todo, "patch")
        BY <1>3, <1>9, <4>1
      <4>5. n.pushed
        BY <1>3, <1>5, <1>9, <4>1, <4>2
      <4>6. n.todo # << >> => ~box'.exempt
        BY <1>7, <4>1, <4>2
      <4> QED BY <4>2, <4>3, <4>4, <4>5, <4>6
    <3>2. row.exists => ~Has(n.todo, "create")
      BY <1>3, <1>9, <2>1 DEF Planned
    <3>3. n.doc.exists => ~Has(n.todo, "destroy")
      BY <1>3, <1>9, <2>1 DEF Planned
    <3>4. ~n.doc.exists => /\ Same(n.doc, A!Vacant) /\ n.created = {} /\ n.doc.creds = {}
                           /\ ~Has(n.todo, "login") /\ ~Has(n.todo, "app")
      BY <1>3, <1>9, <2>1, <2>3 DEF Planned
    <3>5. row.exists \/ n.doc.exists
      BY <1>9, <2>1 DEF Planned
    <3> QED BY <1>1, <3>1, <3>2, <3>3, <3>4, <3>5 DEF Planned, n
  <2>5. Reached(proc[p])'
    <3>1. ~n.pushed => Same(box', row)
      BY <1>5, <1>7, <1>9, <2>1 DEF Reached, Same
    <3>2. ~r.doc.exists => r.doc.field = FALSE /\ r.doc.enabled = TRUE /\ r.doc.exists = FALSE
      BY <2>1 DEF Planned, Same, A!Vacant
    <3>3. r.doc.exists \in BOOLEAN
      BY <1>2 DEF RequestState, A!Account
    <3>4. ~Has(n.todo, "create") /\ ~Has(n.todo, "destroy") => box'.exists = n.doc.exists
      <4>1. h = "create" => r.doc.exists
        BY <2>1, <2>3 DEF Planned
      <4> QED BY <1>3, <1>7, <1>9, <2>1, <2>3, <3>2, <3>3, <4>1 DEF Reached
    <3>5. ~Has(n.todo, "patch") /\ ~Has(n.todo, "destroy") => box'.field = n.doc.field
      BY <1>3, <1>7, <1>9, <2>1, <2>3, <3>2 DEF Reached
    <3>6. ~Has(n.todo, "role") /\ ~Has(n.todo, "destroy") => box'.enabled = n.doc.enabled
      <4>1. ASSUME h = "create", ~Has(n.todo, "role"), ~Has(n.todo, "destroy") PROVE r.doc.enabled = TRUE
        <5>1. ~row.exists /\ row = A!Vacant
          BY <1>15, <2>3, <4>1 DEF AccountInv, Following
        <5>2. ~r.pushed /\ Same(box, row)
          BY <1>3, <2>1, <4>1, <5>1 DEF Planned, Reached
        <5>3. box.enabled = TRUE
          BY <5>1, <5>2 DEF Same, A!Vacant
        <5>4. ~Has(r.todo, "role") /\ ~Has(r.todo, "destroy")
          BY <1>3, <1>9, <4>1
        <5> QED BY <2>1, <5>3, <5>4 DEF Reached
      <4> QED BY <1>3, <1>7, <1>9, <2>1, <2>3, <3>2, <4>1 DEF Reached
    <3>7. ~Has(n.todo, "exempt") => box'.exempt = n.doc.exempt
      BY <1>3, <1>7, <1>9, <2>1 DEF Reached
    <3> QED BY <1>1, <3>1, <3>4, <3>5, <3>6, <3>7 DEF Reached, n
  <2>6. ~row'.exists => row' = A!Vacant
    BY <1>1, <1>15 DEF AccountInv, Following
  <2> QED BY <2>2, <2>4, <2>5, <2>6 DEF Following
<1>16. ASSUME ~parted, ~overlaid PROVE Listed'
  <2>1. Listed /\ Replaces(r) /\ Planned(r)
    BY <1>1, <1>16 DEF AccountInv, Listed, Following, r
  <2>2. /\ row.exists => h # "create"
        /\ ~r.doc.exists => ~A!Mints(p)
    BY <1>3, <1>5, <2>1 DEF Planned
  <2>3. Accounted'
    <3> SUFFICES ASSUME NEW c \in box'.creds
                 PROVE  \/ c \in row.creds \/ c \in A!MadeBy("owner") \/ c \in lost
                        \/ \E q \in Requests : c \in proc'[q].created \/ (proc'[q].at = "revoking" /\ c \in proc'[q].gone)
      BY <1>1, <1>6 DEF Accounted
    <3>1. CASE A!Mints(p) /\ c = A!Fresh
      BY <1>9, <3>1 DEF n
    <3>2. CASE c \in box.creds
      <4>1. CASE \E q \in Requests : c \in proc[q].created \/ (proc[q].at = "revoking" /\ c \in proc[q].gone)
        <5>1. PICK q \in Requests : c \in proc[q].created \/ (proc[q].at = "revoking" /\ c \in proc[q].gone)
          BY <4>1
        <5>2. CASE q = p
          BY <1>1, <1>9, <5>1, <5>2 DEF n, r
        <5>3. CASE q # p
          BY <1>8, <5>1, <5>3
        <5> QED BY <5>2, <5>3
      <4> QED BY <2>1, <3>2, <4>1 DEF Listed, Accounted
    <3> QED BY <1>7, <3>1, <3>2
  <2>4. Handed'
    <3> SUFFICES ASSUME handed # 0
                 PROVE  /\ row.exists /\ handed \in row.creds /\ handed \in A!Logins'
                        /\ row.creds \cap A!Logins' \subseteq {handed} \cup lost
                        /\ handed \notin lost
                        /\ \A q \in Requests : proc'[q].at = "revoking" => handed \notin proc'[q].gone
                        /\ box'.exists => handed \in box'.creds
      BY <1>1 DEF Handed
    <3>1. /\ row.exists /\ handed \in row.creds /\ handed \in A!Logins
          /\ row.creds \cap A!Logins \subseteq {handed} \cup lost
          /\ handed \notin lost
          /\ \A q \in Requests : proc[q].at = "revoking" => handed \notin proc[q].gone
          /\ box.exists => handed \in box.creds
      BY <2>1 DEF Listed, Handed
    <3>2. handed \in A!Logins' /\ row.creds \cap A!Logins' \subseteq {handed} \cup lost
      BY <1>6, <3>1 DEF AccountInv, Known
    <3>3. \A q \in Requests : proc'[q].at = "revoking" => handed \notin proc'[q].gone
      BY <1>8, <1>9, <3>1 DEF n
    <3>4. box'.exists => handed \in box'.creds
      BY <1>7, <2>2, <3>1
    <3> QED BY <3>1, <3>2, <3>3, <3>4
  <2>5. Replaces(proc[p])'
    <3>1. n.doc.exists => row.creds \subseteq n.doc.creds \cup n.gone
      BY <1>9, <2>1 DEF Replaces
    <3>2. /\ r.created \subseteq DOMAIN made /\ row.creds \subseteq DOMAIN made /\ lost \subseteq DOMAIN made
          /\ r.doc.creds \subseteq DOMAIN made /\ r.gone \subseteq DOMAIN made
          /\ \A q \in Requests : proc[q].gone \subseteq DOMAIN made
      BY DEF AccountInv, Known, r
    <3>3. \A q \in Requests : proc'[q].gone = proc[q].gone
      BY <1>8, <1>9 DEF n, r
    <3>4. ASSUME NEW c \in n.created
          PROVE  /\ c \notin lost /\ c \notin row.creds /\ c \notin n.gone
                 /\ \A q \in Requests : c \notin proc'[q].gone
                 /\ c \in A!Logins' => c \in box'.creds
      <4>1. CASE A!Mints(p) /\ c = A!Fresh
        BY <1>5, <1>6, <1>7, <1>9, <3>2, <3>3, <4>1
      <4>2. CASE c \in r.created /\ c \in DOMAIN made
        <5>1. /\ c \notin lost /\ c \notin row.creds /\ c \notin r.gone
              /\ \A q \in Requests : c \notin proc[q].gone
              /\ c \in A!Logins => c \in box.creds
          BY <2>1, <4>2 DEF Replaces
        <5>2. c \in A!Logins' => c \in A!Logins
          BY <1>6, <4>2
        <5>3. h # "create" /\ (h = "destroy" => r.created = {})
          <6>1. h = "create" => ~row.exists /\ r.created = {}
            BY <1>3, <2>1, <2>2 DEF Planned
          <6>2. h = "destroy" => r.created = {}
            BY <1>3, <2>1 DEF Planned
          <6> QED BY <4>2, <6>1, <6>2
        <5> QED BY <1>7, <1>9, <3>3, <4>2, <5>1, <5>2, <5>3
      <4> QED BY <1>9, <3>2, <4>1, <4>2
    <3>5. Once(n.todo, "login")
      BY <1>4, <1>9, <2>1 DEF Replaces
    <3>12. n.created \cap A!Logins' = (IF h = "login" THEN (r.created \cap A!Logins) \cup {A!Fresh} ELSE r.created \cap A!Logins)
      <4>1. CASE ~A!Mints(p)
        BY <1>5, <1>6, <1>9, <4>1
      <4>2. CASE A!Mints(p)
        <5>1. A!Fresh \notin A!Logins /\ A!Fresh \notin r.created
          BY <1>6, <3>2, <4>2 DEF A!Logins, A!MadeBy
        <5>2. CASE h = "login"
          BY <1>6, <1>9, <4>2, <5>1, <5>2
        <5>3. CASE h # "login"
          BY <1>6, <1>9, <4>2, <5>1, <5>3
        <5> QED BY <5>2, <5>3
      <4> QED BY <4>1, <4>2
    <3>6. (Has(n.todo, "login") \/ n.created \cap A!Logins' # {}) => Minting(r)
      BY <1>3, <1>9, <3>12 DEF Minting
    <3>7. Minting(r) => (Has(n.todo, "login") \/ n.created \cap A!Logins' # {})
      BY <1>3, <1>9, <3>12 DEF Minting
    <3>8. Minting(r) => n.doc.creds \cap A!Logins' = {}
      BY <1>6, <1>9, <2>1, <3>2 DEF Replaces
    <3>9. n.created \cap A!Logins' # {} => ~Has(n.todo, "login")
      <4>1. r.created \cap A!Logins # {} => ~Has(n.todo, "login")
        BY <1>3, <1>9, <2>1 DEF Replaces
      <4>2. h = "login" => ~Has(n.todo, "login")
        BY <1>4, <1>9, <2>1 DEF Replaces
      <4> QED BY <3>12, <4>1, <4>2
    <3>10. \A c, d \in n.created \cap A!Logins' : c = d
      <4>1. h = "login" => r.created \cap A!Logins = {}
        BY <1>3, <2>1 DEF Replaces
      <4>2. \A c, d \in r.created \cap A!Logins : c = d
        BY <2>1 DEF Replaces
      <4> QED BY <3>12, <4>1, <4>2
    <3>11. handed # 0 /\ n.doc.exists /\ ~Minting(r) =>
             handed \in n.doc.creds /\ handed \notin n.gone /\ n.doc.creds \subseteq row.creds
      BY <1>9, <2>1 DEF Replaces
    <3> QED BY <1>1, <3>1, <3>4, <3>5, <3>6, <3>7, <3>8, <3>9, <3>10, <3>11 DEF Replaces, Minting, n
  <2>6. ASSUME NEW q \in Requests, proc'[q].at = "saving" PROVE Replaces(proc[q])'
    <3>1. q = p
      BY <1>8, <1>10, <2>6
    <3> QED BY <2>5, <3>1
  <2>7. \A q \in Requests : proc'[q].at = "loaded" => proc'[q].doc.creds = row'.creds
    BY <1>1, <1>8, <1>9, <2>1 DEF Listed, n
  <2> QED BY <2>3, <2>4, <2>6, <2>7 DEF Listed
<1> QED
  BY <1>1, <1>11, <1>12, <1>13, <1>14, <1>15, <1>16 DEF AccountInv

\* A save that ends without its commit leaves the cluster as it was, or marks the account parted.
LEMMA RollbackKeeps ==
    ASSUME AccountInv, NEW p \in Requests, proc[p].at = "saving",
           NEW x \in RequestState, proc' = [proc EXCEPT ![p] = x], lock' = NoRequest, UNCHANGED <<row, handed, overlaid>>,
           x.at \in {"idle", "revoking"}, x.at = "idle" => x.gone = {}, x.created = {}, x.gone \subseteq proc[p].created,
           x.doc.creds = {},
           made' \in Seq({"login", "app", "owner"}), Len(made') <= MaxIds, DOMAIN made \subseteq DOMAIN made',
           A!Logins \subseteq A!Logins', A!Logins' \cap DOMAIN made \subseteq A!Logins, A!MadeBy("owner") \subseteq A!MadeBy("owner")',
           lost \subseteq lost', lost' \subseteq DOMAIN made', parted' \in BOOLEAN, parted => parted',
           box' \in A!Account, box'.creds \subseteq DOMAIN made', ~box'.exists => box'.creds = {},
           ~parted' => Same(box', row),
           ~parted' /\ ~overlaid =>
             /\ \A c \in box'.creds : (c \in box.creds /\ c \notin proc[p].created) \/ c \in lost' \/ c \in x.gone
             /\ lost' \subseteq lost \cup proc[p].created \cup (DOMAIN made' \ DOMAIN made)
             /\ row.exists => box.creds \subseteq box'.creds /\ box'.exists = box.exists
    PROVE  AccountInv'
<1>1. proc'[p] = x /\ \A q \in Requests : q # p => proc'[q] = proc[q]
  BY DEF AccountInv, AccountTyped
<1>2. \A q \in Requests : q # p => proc[q].at # "saving" /\ proc[q].created = {}
  BY DEF AccountInv, Locked
<1>3. \A q \in Requests : proc'[q].at # "saving"
  BY <1>1, <1>2
<1>4. AccountTyped' /\ NoStrayCreds'
  BY DEF AccountInv, AccountTyped, NoStrayCreds
<1>5. Known'
  <2>1. x.gone \subseteq DOMAIN made' /\ row.creds \subseteq DOMAIN made'
    BY DEF AccountInv, Known
  <2> QED BY <1>1, <2>1 DEF AccountInv, Known
<1>6. Locked'
  BY <1>1, <1>2, <1>3, AccountConstants DEF AccountInv, Locked
<1>7. ASSUME ~parted' PROVE Following'
  BY <1>3, <1>7 DEF AccountInv, Following, Same
<1>8. ASSUME ~parted', ~overlaid PROVE Listed'
  <2>1. Listed /\ Replaces(proc[p])
    BY <1>8 DEF AccountInv, Listed
  <2>2. Accounted'
    <3> SUFFICES ASSUME NEW c \in box'.creds
                 PROVE  \/ c \in row.creds \/ c \in A!MadeBy("owner")' \/ c \in lost'
                        \/ \E q \in Requests : c \in proc'[q].created \/ (proc'[q].at = "revoking" /\ c \in proc'[q].gone)
      BY DEF Accounted
    <3>1. CASE c \in x.gone
      BY <1>1, <3>1
    <3>2. CASE c \in box.creds /\ c \notin proc[p].created
      <4>1. CASE \E q \in Requests : c \in proc[q].created \/ (proc[q].at = "revoking" /\ c \in proc[q].gone)
        <5>1. PICK q \in Requests : c \in proc[q].created \/ (proc[q].at = "revoking" /\ c \in proc[q].gone)
          BY <4>1
        <5>2. q # p
          BY <3>2, <5>1
        <5> QED BY <1>1, <5>1, <5>2
      <4> QED BY <2>1, <3>2, <4>1 DEF Listed, Accounted
    <3> QED BY <1>8, <3>1, <3>2
  <2>3. Handed'
    <3> SUFFICES ASSUME handed # 0
                 PROVE  /\ row.exists /\ handed \in row.creds /\ handed \in A!Logins'
                        /\ row.creds \cap A!Logins' \subseteq {handed} \cup lost'
                        /\ handed \notin lost'
                        /\ \A q \in Requests : proc'[q].at = "revoking" => handed \notin proc'[q].gone
                        /\ box'.exists => handed \in box'.creds
      BY DEF Handed
    <3>1. /\ row.exists /\ handed \in row.creds /\ handed \in A!Logins
          /\ row.creds \cap A!Logins \subseteq {handed} \cup lost
          /\ handed \notin lost
          /\ \A q \in Requests : proc[q].at = "revoking" => handed \notin proc[q].gone
          /\ box.exists => handed \in box.creds
      BY <2>1 DEF Listed, Handed
    <3>2. row.creds \subseteq DOMAIN made
      BY DEF AccountInv, Known
    <3>3. handed \notin proc[p].created
      BY <2>1, <3>1 DEF Replaces
    <3>4. handed \notin lost'
      BY <1>8, <3>1, <3>2, <3>3
    <3>5. row.creds \cap A!Logins' \subseteq {handed} \cup lost'
      BY <3>1, <3>2
    <3>6. \A q \in Requests : proc'[q].at = "revoking" => handed \notin proc'[q].gone
      BY <1>1, <3>1, <3>3
    <3>7. box'.exists => handed \in box'.creds
      BY <1>8, <3>1
    <3> QED BY <3>1, <3>4, <3>5, <3>6, <3>7
  <2>4. \A q \in Requests : proc'[q].at = "loaded" => proc'[q].doc.creds = row'.creds
    BY <1>1, <2>1 DEF Listed
  <2> QED BY <1>3, <2>2, <2>3, <2>4 DEF Listed
<1> QED
  BY <1>4, <1>5, <1>6, <1>7, <1>8 DEF AccountInv

\* A worker that dies leaves what it created as lost.
LEMMA CrashKeeps ==
    ASSUME AccountInv, NEW p \in Requests, A!Crash(p)
    PROVE  AccountInv'
<1>1. /\ proc[p].at = "saving" /\ parted' = (parted \/ proc[p].pushed) /\ lost' = lost \cup proc[p].created
      /\ proc' = [proc EXCEPT ![p] = A!Idle] /\ lock' = NoRequest
      /\ UNCHANGED <<row, box, made, handed, overlaid>>
  BY DEF A!Crash
<1>2. /\ A!Idle \in RequestState /\ A!Idle.at = "idle" /\ A!Idle.created = {} /\ A!Idle.gone = {} /\ A!Idle.doc.creds = {}
  BY EmptyAccount DEF A!Idle, A!Vacant
<1>3. /\ box \in A!Account /\ proc[p] \in RequestState /\ lost \subseteq DOMAIN made /\ box.creds \subseteq DOMAIN made
      /\ proc[p].created \subseteq DOMAIN made /\ parted \in BOOLEAN
      /\ made \in Seq({"login", "app", "owner"}) /\ Len(made) <= MaxIds
  BY DEF AccountInv, AccountTyped, Known
<1>4. A!Logins' = A!Logins /\ A!MadeBy("owner")' = A!MadeBy("owner")
  BY <1>1 DEF A!Logins, A!MadeBy
<1>5. parted' \in BOOLEAN /\ (parted => parted')
  BY <1>1, <1>3 DEF RequestState
<1>6. ~parted' => Same(box, row)
  BY <1>1 DEF AccountInv, Following, Reached
<1>7. ~box.exists => box.creds = {}
  BY DEF AccountInv, NoStrayCreds
<1>8. Same(box, row) => Same(box', row)
  BY <1>1 DEF Same
<1> QED
  BY <1>1, <1>2, <1>3, <1>4, <1>5, <1>6, <1>7, <1>8, RollbackKeeps

\* A call that fails: an insert takes its account away again, an update revokes what it created.
LEMMA FailKeeps ==
    ASSUME AccountInv, NEW p \in Requests, NEW effect \in BOOLEAN, A!Fail(p, effect)
    PROVE  AccountInv'
<1> DEFINE h == Head(proc[p].todo)
           r == proc[p]
           now == IF effect THEN A!Effect(p) ELSE box
           lone == IF effect /\ A!Mints(p) /\ ~A!Inserting(p) THEN {A!Fresh} ELSE {}
           x == IF A!RolledBack(p) = {} \/ A!Inserting(p) THEN A!Idle ELSE [A!Idle EXCEPT !.at = "revoking", !.gone = A!RolledBack(p)]
<1>1. /\ r.at = "saving" /\ r.todo # << >> /\ (A!Mints(p) => Len(made) < MaxIds /\ box.exists)
      /\ box' = (IF A!Destroyed(p) THEN [A!Vacant EXCEPT !.exempt = now.exempt] ELSE now)
      /\ made' = (IF effect /\ A!Mints(p) THEN Append(made, h) ELSE made)
      /\ lost' = lost \cup lone
      /\ parted' = (parted \/ (IF A!Inserting(p) THEN effect /\ h \in {"create", "exempt"}
                               ELSE r.pushed \/ (effect /\ ~A!Mints(p))))
      /\ proc' = [proc EXCEPT ![p] = x] /\ lock' = NoRequest /\ UNCHANGED <<row, handed, overlaid>>
  BY DEF A!Fail, A!Possible
<1>2. AccountTyped /\ r \in RequestState /\ (A!Inserting(p) <=> ~row.exists) /\ (A!Destroyed(p) <=> ~row.exists /\ r.pushed)
  BY <1>1 DEF AccountInv, AccountTyped, A!Inserting, A!Destroyed
<1>3. A!Mints(p) <=> h \in {"login", "app"}
  BY DEF A!Mints
<1>4. /\ box.creds \subseteq DOMAIN made /\ lost \subseteq DOMAIN made /\ r.created \subseteq DOMAIN made
  BY DEF AccountInv, Known
<1>5. /\ x \in RequestState /\ x.at \in {"idle", "revoking"} /\ (x.at = "idle" => x.gone = {}) /\ x.created = {}
      /\ x.gone \subseteq r.created /\ x.doc.creds = {}
      /\ row.exists => x.gone = r.created
  <2>1. A!Idle \in RequestState /\ A!Idle.at = "idle" /\ A!Idle.created = {} /\ A!Idle.gone = {} /\ A!Idle.doc.creds = {}
    BY EmptyAccount DEF A!Idle, A!Vacant
  <2>2. r.created \in SUBSET A!Ids /\ A!RolledBack(p) = r.created
    BY <1>2 DEF RequestState, A!RolledBack
  <2>3. CASE A!RolledBack(p) = {} \/ A!Inserting(p)
    BY <1>2, <2>1, <2>2, <2>3
  <2>4. CASE ~(A!RolledBack(p) = {} \/ A!Inserting(p))
    <3>1. x = [A!Idle EXCEPT !.at = "revoking", !.gone = r.created]
      BY <2>2, <2>4
    <3> QED BY <2>2, <3>1, EmptyAccount DEF RequestState, A!Idle, A!Vacant
  <2> QED BY <2>3, <2>4
<1>6. /\ made' \in Seq({"login", "app", "owner"}) /\ Len(made') <= MaxIds /\ DOMAIN made \subseteq DOMAIN made'
      /\ A!Logins \subseteq A!Logins' /\ A!Logins' \cap DOMAIN made \subseteq A!Logins /\ A!MadeBy("owner") \subseteq A!MadeBy("owner")'
      /\ effect /\ A!Mints(p) => A!Fresh \in DOMAIN made' \ DOMAIN made
  <2>1. CASE effect /\ A!Mints(p)
    <3>1. h \in {"login", "app", "owner"} /\ made' = Append(made, h) /\ Len(made) < MaxIds
      BY <1>1, <1>3, <2>1
    <3> HIDE DEF h
    <3> QED BY <1>2, <2>1, <3>1, NewCredential
  <2>2. CASE ~(effect /\ A!Mints(p))
    <3>1. made' = made /\ made \in Seq({"login", "app", "owner"}) /\ Len(made) <= MaxIds
      BY <1>1, <1>2, <2>2 DEF AccountTyped
    <3> QED BY <2>2, <3>1 DEF A!Logins, A!MadeBy
  <2> QED BY <2>1, <2>2
<1>7. /\ A!Effect(p) \in A!Account
      /\ A!Effect(p).exists = (IF h = "create" THEN TRUE ELSE IF h = "destroy" THEN FALSE ELSE box.exists)
      /\ A!Effect(p).enabled = (IF h \in {"create", "destroy"} THEN TRUE ELSE IF h = "role" THEN r.doc.enabled ELSE box.enabled)
      /\ A!Effect(p).exempt = (IF h = "exempt" THEN r.doc.exempt ELSE box.exempt)
      /\ A!Effect(p).field = (IF h = "destroy" THEN FALSE ELSE IF h \in {"create", "patch"} THEN r.doc.field ELSE box.field)
      /\ A!Effect(p).creds = (IF h \in {"create", "destroy"} THEN {} ELSE IF A!Mints(p) THEN box.creds \cup {A!Fresh} ELSE box.creds)
  BY <1>1, <1>2, EffectFields
<1>8. /\ now \in A!Account /\ now.creds \subseteq DOMAIN made' /\ (~now.exists => now.creds = {})
  <2>1. box \in A!Account /\ (~box.exists => box.creds = {})
    BY DEF AccountInv, AccountTyped, NoStrayCreds
  <2>2. CASE effect
    BY <1>1, <1>3, <1>4, <1>6, <1>7, <2>1, <2>2
  <2>3. CASE ~effect
    BY <1>4, <1>6, <2>1, <2>3
  <2> QED BY <2>2, <2>3
<1> DEFINE left == [A!Vacant EXCEPT !.exempt = now.exempt]
<1>9. /\ left \in A!Account /\ left.exists = FALSE /\ left.enabled = TRUE /\ left.field = FALSE /\ left.exempt = now.exempt
      /\ left.creds = {}
  BY <1>8 DEF A!Account, A!Vacant
<1>10. box' \in A!Account /\ box'.creds \subseteq DOMAIN made' /\ (~box'.exists => box'.creds = {})
  BY <1>1, <1>8, <1>9
<1>11. lost \subseteq lost' /\ lost' \subseteq DOMAIN made' /\ lost' \subseteq lost \cup (DOMAIN made' \ DOMAIN made)
  BY <1>1, <1>4, <1>6
<1>12. parted' \in BOOLEAN /\ (parted => parted')
  BY <1>1, <1>2 DEF AccountTyped, RequestState
<1> HIDE DEF x, now, lone, h, left
<1>13. ASSUME ~parted'
       PROVE  /\ Same(box', row)
              /\ \A c \in box'.creds : (c \in box.creds /\ c \notin r.created) \/ c \in lost' \/ c \in x.gone
              /\ row.exists => box.creds \subseteq box'.creds /\ box'.exists = box.exists
  <2>1. ~parted /\ Planned(r) /\ Reached(r)
    BY <1>1, <1>12, <1>13 DEF AccountInv, Following
  <2>2. CASE row.exists
    <3>1. ~r.pushed /\ (effect => A!Mints(p)) /\ Same(box, row) /\ box' = now
      BY <1>1, <1>2, <1>13, <2>1, <2>2 DEF Reached
    <3>2. CASE effect
      <4>1. h \in {"login", "app"} /\ lone = {A!Fresh} /\ now = A!Effect(p)
        BY <1>2, <1>3, <2>2, <3>1, <3>2 DEF lone, now, h
      <4>2. Same(box', row) /\ box'.creds = box.creds \cup {A!Fresh} /\ box'.exists = box.exists
        BY <1>3, <1>7, <3>1, <4>1 DEF Same
      <4> QED BY <1>1, <1>5, <2>2, <4>1, <4>2
    <3>3. CASE ~effect
      <4>1. now = box
        BY <3>3 DEF now
      <4> QED BY <1>5, <2>2, <3>1, <4>1
    <3> QED BY <3>2, <3>3
  <2>3. CASE ~row.exists
    <3>1. row = A!Vacant /\ box.exempt = FALSE
      <4>1. box.exempt \in BOOLEAN
        BY <1>2 DEF AccountTyped, A!Account
      <4> QED BY <1>1, <2>1, <2>3, <4>1 DEF AccountInv, Following, Planned
    <3>2. effect => h \notin {"create", "exempt"}
      BY <1>1, <1>2, <1>13, <2>3
    <3>3. CASE r.pushed
      <4>1. now.exempt = FALSE
        BY <1>7, <3>1, <3>2 DEF now
      <4>2. box' = left
        BY <1>1, <1>2, <2>3, <3>3 DEF left
      <4>3. Same(box', row) /\ box'.creds = {}
        BY <1>9, <3>1, <4>1, <4>2 DEF Same, A!Vacant
      <4> QED BY <2>3, <4>3
    <3>4. CASE ~r.pushed
      <4>1. Has(r.todo, "create") /\ AtStart(r.todo, "create")
        BY <2>1, <2>3, <3>4 DEF Planned
      <4>2. h = "create"
        BY <1>1, <1>2, <4>1, PlaceInTail DEF RequestState, h
      <4>3. box' = box
        BY <1>1, <1>2, <3>2, <3>4, <4>2 DEF now
      <4>4. Same(box, row) /\ box.creds = {}
        BY <2>1, <2>3, <3>4 DEF Reached, Same, AccountInv, NoStrayCreds
      <4> QED BY <2>3, <4>3, <4>4
    <3> QED BY <3>3, <3>4
  <2> QED BY <2>2, <2>3
<1> QED
  BY <1>1, <1>5, <1>6, <1>10, <1>11, <1>12, <1>13, RollbackKeeps

\* A commit finds every push done; the login it hands out is the one it created.
LEMMA CommitKeeps ==
    ASSUME AccountInv, NEW p \in Requests, A!Commit(p)
    PROVE  AccountInv'
<1> DEFINE r == proc[p]
           x == IF r.gone = {} THEN A!Idle ELSE [A!Idle EXCEPT !.at = "revoking", !.gone = r.gone]
<1>1. /\ r.at = "saving" /\ r.todo = << >>
      /\ row' = [r.doc EXCEPT !.creds = r.doc.creds \cup r.created]
      /\ handed' = (IF ~r.doc.exists THEN 0 ELSE IF A!NewLogin(p) = {} THEN handed ELSE CHOOSE c \in A!NewLogin(p) : TRUE)
      /\ proc' = [q \in Requests |-> IF q # p THEN A!Outdated(proc[q]) ELSE x]
      /\ lock' = NoRequest /\ UNCHANGED <<box, made, parted, lost, overlaid>>
  BY DEF A!Commit
<1>2. /\ AccountTyped /\ r \in RequestState /\ r.doc \in A!Account /\ r.created \in SUBSET A!Ids /\ r.gone \in SUBSET A!Ids
      /\ r.doc.creds \subseteq DOMAIN made /\ r.created \subseteq DOMAIN made /\ r.gone \subseteq DOMAIN made
  BY DEF AccountInv, AccountTyped, Known, RequestState
<1>3. /\ row' \in A!Account /\ row'.creds = r.doc.creds \cup r.created /\ row'.exists = r.doc.exists /\ Same(row', r.doc)
  BY <1>1, <1>2 DEF A!Account, Same
<1>4. /\ x \in RequestState /\ x.at \in {"idle", "revoking"} /\ x.created = {} /\ x.gone = r.gone /\ x.doc.creds = {}
      /\ x.at = "idle" <=> r.gone = {}
  <2>1. CASE r.gone = {}
    BY <2>1, EmptyAccount DEF A!Idle, A!Vacant
  <2>2. CASE r.gone # {}
    BY <1>2, <2>2, EmptyAccount DEF A!Idle, A!Vacant, RequestState
  <2> QED BY <2>1, <2>2
<1>5. ASSUME NEW q \in Requests, q # p
      PROVE  /\ proc'[q] \in RequestState /\ proc'[q].at \notin {"saving", "loaded"} /\ proc'[q].created = {}
             /\ proc'[q].at = "revoking" <=> proc[q].at = "revoking"
             /\ proc[q].at = "revoking" => proc'[q].gone = proc[q].gone
             /\ proc'[q].at # "revoking" => proc'[q].gone = {}
             /\ proc'[q].doc.creds \subseteq DOMAIN made /\ proc'[q].gone \subseteq DOMAIN made
  <2>1. /\ proc[q] \in RequestState /\ proc[q].at # "saving" /\ proc[q].created = {}
        /\ proc[q].at # "revoking" => proc[q].gone = {}
        /\ proc[q].doc.creds \subseteq DOMAIN made /\ proc[q].gone \subseteq DOMAIN made
    BY <1>1, <1>5 DEF AccountInv, AccountTyped, Known, Locked
  <2>2. proc'[q] = A!Outdated(proc[q])
    BY <1>1, <1>5
  <2>3. CASE proc[q].at = "loaded"
    BY <2>2, <2>3, EmptyAccount DEF A!Outdated, A!Idle, A!Vacant
  <2>4. CASE proc[q].at # "loaded"
    <3>1. proc'[q] = [proc[q] EXCEPT !.fresh = FALSE]
      BY <2>2, <2>4 DEF A!Outdated
    <3>2. /\ proc'[q] \in RequestState /\ proc'[q].at = proc[q].at /\ proc'[q].created = proc[q].created
          /\ proc'[q].gone = proc[q].gone /\ proc'[q].doc = proc[q].doc
      BY <2>1, <3>1 DEF RequestState
    <3> QED BY <2>1, <2>4, <3>2
  <2> QED BY <2>3, <2>4
<1>6. proc'[p] = x
  BY <1>1
<1>7. A!NewLogin(p) = r.created \cap A!Logins
  BY DEF A!NewLogin
<1> HIDE DEF x, r
<1>8. AccountTyped'
  <2>1. proc' \in [Requests -> RequestState]
    <3>1. \A q \in Requests : proc'[q] \in RequestState
      BY <1>4, <1>5, <1>6
    <3> QED BY <1>1, <3>1
  <2>2. handed' \in Nat
    <3>1. A!NewLogin(p) # {} => (CHOOSE c \in A!NewLogin(p) : TRUE) \in A!NewLogin(p)
      OBVIOUS
    <3>2. A!NewLogin(p) \subseteq Nat
      BY <1>2, <1>7, AccountConstants DEF A!Ids
    <3> QED BY <1>1, <1>2, <3>1, <3>2 DEF AccountTyped
  <2> QED BY <1>1, <1>2, <1>3, <2>1, <2>2 DEF AccountTyped
<1>9. Known'
  <2>1. row'.creds \subseteq DOMAIN made
    BY <1>2, <1>3
  <2>2. \A q \in Requests : /\ proc'[q].doc.creds \subseteq DOMAIN made
                            /\ proc'[q].created \subseteq DOMAIN made /\ proc'[q].gone \subseteq DOMAIN made
    BY <1>2, <1>4, <1>5, <1>6
  <2> QED BY <1>1, <2>1, <2>2 DEF AccountInv, Known
<1>10. Locked'
  BY <1>1, <1>4, <1>5, <1>6, AccountConstants DEF Locked
<1>11. NoStrayCreds'
  BY <1>1 DEF AccountInv, NoStrayCreds
<1>12. \A q \in Requests : proc'[q].at \notin {"saving", "loaded"}
  BY <1>4, <1>5, <1>6
<1>13. ASSUME ~parted PROVE Planned(r) /\ Same(box, r.doc)
  <2>1. Planned(r) /\ Reached(r)
    BY <1>1, <1>13 DEF AccountInv, Following, r
  <2>2. \A y : ~Has(r.todo, y)
    BY <1>1 DEF Has
  <2> QED BY <2>1, <2>2 DEF Reached, Same
<1>14. ASSUME ~parted PROVE Following'
  <2>1. Same(box', row')
    BY <1>1, <1>3, <1>13, <1>14 DEF Same
  <2>2. ~row'.exists => row' = A!Vacant
    <3> SUFFICES ASSUME ~row'.exists PROVE row' = A!Vacant
      OBVIOUS
    <3>1. Same(r.doc, A!Vacant) /\ r.created = {} /\ r.doc.creds = {}
      BY <1>3, <1>13, <1>14 DEF Planned
    <3>2. Same(row', A!Vacant) /\ row'.creds = {}
      BY <1>3, <3>1 DEF Same
    <3> QED BY <1>3, <3>2 DEF Same, A!Vacant, A!Account
  <2> QED BY <1>12, <2>1, <2>2 DEF Following
<1>15. ASSUME ~parted, ~overlaid PROVE Listed'
  <2>1. Listed /\ Replaces(r) /\ Planned(r) /\ Same(box, r.doc)
    BY <1>1, <1>13, <1>15 DEF AccountInv, Listed, r
  <2>2. Accounted'
    <3> SUFFICES ASSUME NEW c \in box.creds
                 PROVE  \/ c \in row'.creds \/ c \in A!MadeBy("owner") \/ c \in lost
                        \/ \E q \in Requests : c \in proc'[q].created \/ (proc'[q].at = "revoking" /\ c \in proc'[q].gone)
      BY <1>1 DEF Accounted, A!MadeBy
    <3>1. r.doc.exists
      BY <2>1 DEF AccountInv, NoStrayCreds, Same
    <3>2. CASE c \in row.creds
      <4>1. c \in r.doc.creds \/ c \in r.gone
        BY <2>1, <3>1, <3>2 DEF Replaces
      <4> QED BY <1>3, <1>4, <1>6, <4>1
    <3>3. CASE \E q \in Requests : c \in proc[q].created \/ (proc[q].at = "revoking" /\ c \in proc[q].gone)
      <4>1. PICK q \in Requests : c \in proc[q].created \/ (proc[q].at = "revoking" /\ c \in proc[q].gone)
        BY <3>3
      <4>2. CASE q = p
        BY <1>1, <1>3, <4>1, <4>2 DEF r
      <4>3. CASE q # p
        <5>1. proc[q].created = {}
          BY <1>1, <4>3 DEF AccountInv, Locked, r
        <5> QED BY <1>5, <4>1, <4>3, <5>1
      <4> QED BY <4>2, <4>3
    <3> QED BY <2>1, <3>2, <3>3 DEF Listed, Accounted
  <2>3. Handed'
    <3>1. A!Logins' = A!Logins
      BY <1>1 DEF A!Logins, A!MadeBy
    <3>2. CASE ~r.doc.exists
      BY <1>1, <3>2 DEF Handed
    <3>3. CASE r.doc.exists /\ A!NewLogin(p) = {}
      <4> SUFFICES ASSUME handed # 0
                   PROVE  /\ row'.exists /\ handed \in row'.creds /\ handed \in A!Logins
                          /\ row'.creds \cap A!Logins \subseteq {handed} \cup lost
                          /\ handed \notin lost
                          /\ \A q \in Requests : proc'[q].at = "revoking" => handed \notin proc'[q].gone
                          /\ box.exists => handed \in box.creds
        BY <1>1, <3>1, <3>3 DEF Handed
      <4>1. /\ handed \in A!Logins /\ row.creds \cap A!Logins \subseteq {handed} \cup lost /\ handed \notin lost
            /\ \A q \in Requests : proc[q].at = "revoking" => handed \notin proc[q].gone
            /\ box.exists => handed \in box.creds
        BY <2>1 DEF Listed, Handed
      <4>2. ~Minting(r)
        BY <1>1, <1>7, <3>3 DEF Minting, Has
      <4>3. handed \in r.doc.creds /\ handed \notin r.gone /\ r.doc.creds \subseteq row.creds
        BY <2>1, <3>3, <4>2 DEF Replaces
      <4>4. row'.creds \cap A!Logins \subseteq {handed} \cup lost
        BY <1>3, <1>7, <3>3, <4>1, <4>3
      <4>5. \A q \in Requests : proc'[q].at = "revoking" => handed \notin proc'[q].gone
        BY <1>4, <1>5, <1>6, <4>1, <4>3
      <4> QED BY <1>3, <3>3, <4>1, <4>3, <4>4, <4>5
    <3>4. CASE r.doc.exists /\ A!NewLogin(p) # {}
      <4>1. handed' \in r.created /\ handed' \in A!Logins
        <5>1. handed' = CHOOSE c \in A!NewLogin(p) : TRUE
          BY <1>1, <3>4
        <5>2. handed' \in A!NewLogin(p)
          BY <3>4, <5>1
        <5> QED BY <1>7, <5>2
      <4>2. r.doc.creds \cap A!Logins = {} /\ \A c \in r.created \cap A!Logins : c = handed'
        BY <2>1, <4>1 DEF Replaces, Minting
      <4>3. /\ handed' \notin lost /\ handed' \notin r.gone /\ handed' \in box.creds
            /\ \A q \in Requests : handed' \notin proc[q].gone
        BY <2>1, <4>1 DEF Replaces
      <4>4. row'.creds \cap A!Logins \subseteq {handed'} \cup lost
        BY <1>3, <4>2
      <4>5. \A q \in Requests : proc'[q].at = "revoking" => handed' \notin proc'[q].gone
        BY <1>4, <1>5, <1>6, <4>3
      <4> QED BY <1>1, <1>3, <3>1, <3>4, <4>1, <4>3, <4>4, <4>5 DEF Handed
    <3> QED BY <3>2, <3>3, <3>4
  <2> QED BY <1>12, <2>2, <2>3 DEF Listed
<1> QED
  BY <1>1, <1>8, <1>9, <1>10, <1>11, <1>14, <1>15 DEF AccountInv

\* A revocation is of credentials that no mirror needs.
LEMMA RevokeKeeps ==
    ASSUME AccountInv, NEW p \in Requests, A!Revoke(p)
    PROVE  AccountInv'
<1> DEFINE gone == proc[p].gone
<1>1. /\ proc[p].at = "revoking" /\ proc' = [proc EXCEPT ![p] = A!Idle]
      /\ UNCHANGED <<row, made, handed, lock, parted, overlaid>>
      /\ \/ box' = [box EXCEPT !.creds = box.creds \ gone] /\ lost' = lost
         \/ box' = box /\ lost' = lost \cup gone
  BY DEF A!Revoke
<1>2. box \in A!Account /\ box.creds \subseteq DOMAIN made /\ lost \subseteq DOMAIN made /\ gone \subseteq DOMAIN made
  BY DEF AccountInv, AccountTyped, Known
<1>3. /\ box' \in A!Account /\ box'.creds \subseteq box.creds /\ Same(box', box) /\ lost \subseteq lost' /\ lost' \subseteq lost \cup gone
      /\ box.creds \ gone \subseteq box'.creds
      /\ \A c \in gone : c \notin box'.creds \/ c \in lost'
  <2>1. CASE box' = [box EXCEPT !.creds = box.creds \ gone] /\ lost' = lost
    BY <1>2, <2>1 DEF A!Account, Same
  <2>2. CASE box' = box /\ lost' = lost \cup gone
    BY <1>2, <2>2 DEF Same
  <2> QED BY <1>1, <2>1, <2>2
<1>4. /\ A!Idle \in RequestState /\ A!Idle.at = "idle" /\ A!Idle.created = {} /\ A!Idle.gone = {} /\ A!Idle.doc.creds = {}
  BY EmptyAccount DEF A!Idle, A!Vacant
<1>5. proc'[p] = A!Idle /\ \A q \in Requests : q # p => proc'[q] = proc[q]
  BY <1>1 DEF AccountInv, AccountTyped
<1>6. A!Logins' = A!Logins /\ A!MadeBy("owner")' = A!MadeBy("owner")
  BY <1>1 DEF A!Logins, A!MadeBy
<1> HIDE DEF gone
<1>7. AccountTyped'
  BY <1>1, <1>3, <1>4 DEF AccountInv, AccountTyped
<1>8. Known'
  <2>1. box'.creds \subseteq DOMAIN made /\ lost' \subseteq DOMAIN made
    BY <1>2, <1>3
  <2> QED BY <1>1, <1>4, <1>5, <2>1 DEF AccountInv, Known
<1>9. Locked'
  BY <1>1, <1>4, <1>5 DEF AccountInv, Locked
<1>10. NoStrayCreds'
  BY <1>3 DEF AccountInv, NoStrayCreds, Same
<1>11. ASSUME ~parted PROVE Following'
  <2>1. Following
    BY <1>11 DEF AccountInv
  <2>2. ASSUME NEW q \in Requests, proc'[q].at = "saving" PROVE Planned(proc[q])' /\ Reached(proc[q])'
    <3>1. proc'[q] = proc[q] /\ Planned(proc[q]) /\ Reached(proc[q])
      BY <1>4, <1>5, <2>1, <2>2 DEF Following
    <3> QED BY <1>1, <1>3, <3>1 DEF Planned, Reached, Same
  <2>3. lock' = NoRequest => Same(box', row')
    BY <1>1, <1>3, <2>1 DEF Following, Same
  <2> QED BY <1>1, <2>1, <2>2, <2>3 DEF Following
<1>12. ASSUME ~parted, ~overlaid PROVE Listed'
  <2>1. Listed
    BY <1>12 DEF AccountInv
  <2>2. Accounted'
    <3> SUFFICES ASSUME NEW c \in box'.creds
                 PROVE  \/ c \in row.creds \/ c \in A!MadeBy("owner") \/ c \in lost'
                        \/ \E q \in Requests : c \in proc'[q].created \/ (proc'[q].at = "revoking" /\ c \in proc'[q].gone)
      BY <1>1, <1>6 DEF Accounted
    <3>1. c \in box.creds /\ (c \in gone => c \in lost')
      BY <1>3
    <3>2. CASE \E q \in Requests : c \in proc[q].created \/ (proc[q].at = "revoking" /\ c \in proc[q].gone)
      <4>1. PICK q \in Requests : c \in proc[q].created \/ (proc[q].at = "revoking" /\ c \in proc[q].gone)
        BY <3>2
      <4>2. CASE q = p
        <5>1. proc[p].created = {}
          BY <1>1 DEF AccountInv, Locked
        <5> QED BY <3>1, <4>1, <4>2, <5>1 DEF gone
      <4>3. CASE q # p
        BY <1>5, <4>1, <4>3
      <4> QED BY <4>2, <4>3
    <3> QED BY <1>3, <2>1, <3>1, <3>2 DEF Listed, Accounted
  <2>3. Handed'
    <3> SUFFICES ASSUME handed # 0
                 PROVE  /\ row.exists /\ handed \in row.creds /\ handed \in A!Logins
                        /\ row.creds \cap A!Logins \subseteq {handed} \cup lost'
                        /\ handed \notin lost'
                        /\ \A q \in Requests : proc'[q].at = "revoking" => handed \notin proc'[q].gone
                        /\ box'.exists => handed \in box'.creds
      BY <1>1, <1>6 DEF Handed
    <3>1. /\ row.exists /\ handed \in row.creds /\ handed \in A!Logins
          /\ row.creds \cap A!Logins \subseteq {handed} \cup lost
          /\ handed \notin lost
          /\ \A q \in Requests : proc[q].at = "revoking" => handed \notin proc[q].gone
          /\ box.exists => handed \in box.creds
      BY <2>1 DEF Listed, Handed
    <3>2. handed \notin gone
      BY <1>1, <3>1 DEF gone
    <3>3. \A q \in Requests : proc'[q].at = "revoking" => handed \notin proc'[q].gone
      BY <1>4, <1>5, <3>1
    <3> QED BY <1>3, <3>1, <3>2, <3>3 DEF Same
  <2>4. ASSUME NEW q \in Requests, proc'[q].at = "saving" PROVE Replaces(proc[q])'
    <3>1. proc'[q] = proc[q] /\ Replaces(proc[q])
      BY <1>4, <1>5, <2>1, <2>4 DEF Listed
    <3>2. \A c \in proc[q].created : c \notin gone
      BY <3>1 DEF Replaces, gone
    <3>3. \A v \in Requests : proc'[v].gone \subseteq proc[v].gone
      BY <1>4, <1>5
    <3>4. ASSUME NEW c \in proc'[q].created
          PROVE  /\ c \notin lost' /\ c \notin row' .creds /\ c \notin proc'[q].gone
                 /\ \A v \in Requests : c \notin proc'[v].gone
                 /\ c \in A!Logins' => c \in box'.creds
      BY <1>1, <1>3, <1>6, <3>1, <3>2, <3>3 DEF Replaces
    <3> QED BY <1>1, <1>6, <3>1, <3>4 DEF Replaces, Minting
  <2>5. \A q \in Requests : proc'[q].at = "loaded" => proc'[q].doc.creds = row'.creds
    BY <1>1, <1>4, <1>5, <2>1 DEF Listed
  <2> QED BY <2>2, <2>3, <2>4, <2>5 DEF Listed
<1> QED
  BY <1>1, <1>7, <1>8, <1>9, <1>10, <1>11, <1>12 DEF AccountInv

\* What the owner does on the cluster touches no login and no field.
LEMMA OwnerKeeps ==
    ASSUME AccountInv, A!OwnerMints \/ \E c \in A!Ids : A!OwnerRevokes(c)
    PROVE  AccountInv'
<1>1. UNCHANGED <<row, handed, lock, proc, parted, lost, overlaid>>
  BY DEF A!OwnerMints, A!OwnerRevokes
<1>2. AccountTyped /\ box \in A!Account /\ box.creds \subseteq DOMAIN made
  BY DEF AccountInv, AccountTyped, Known
<1>3. /\ box' \in A!Account /\ Same(box', box) /\ (~box'.exists => box'.creds = {})
      /\ made' \in Seq({"login", "app", "owner"}) /\ Len(made') <= MaxIds /\ DOMAIN made \subseteq DOMAIN made'
      /\ box'.creds \subseteq DOMAIN made' /\ box'.creds \subseteq box.creds \cup A!MadeBy("owner")'
      /\ A!Logins' = A!Logins /\ A!MadeBy("owner") \subseteq A!MadeBy("owner")' /\ box.creds \cap A!Logins \subseteq box'.creds
  <2>1. CASE A!OwnerMints
    <3>1. box.exists /\ Len(made) < MaxIds /\ box' = [box EXCEPT !.creds = box.creds \cup {A!Fresh}] /\ made' = Append(made, "owner")
      BY <2>1 DEF A!OwnerMints
    <3>2. /\ made' \in Seq({"login", "app", "owner"}) /\ Len(made') <= MaxIds
          /\ DOMAIN made' = DOMAIN made \cup {A!Fresh} /\ A!Fresh \in A!Ids
          /\ A!Logins' = A!Logins /\ A!MadeBy("owner")' = A!MadeBy("owner") \cup {A!Fresh}
      BY <1>2, <3>1, NewCredential
    <3>3. box' \in A!Account /\ Same(box', box) /\ box'.creds = box.creds \cup {A!Fresh} /\ box'.exists
      BY <1>2, <3>1, <3>2 DEF A!Account, Same
    <3> QED BY <1>2, <3>2, <3>3
  <2>2. CASE \E c \in A!Ids : A!OwnerRevokes(c)
    <3>0. PICK c \in A!Ids : A!OwnerRevokes(c)
      BY <2>2
    <3>1. c \notin A!Logins /\ box' = [box EXCEPT !.creds = box.creds \ {c}] /\ made' = made
      BY <3>0 DEF A!OwnerRevokes
    <3>2. A!Logins' = A!Logins /\ A!MadeBy("owner")' = A!MadeBy("owner")
      BY <3>1 DEF A!Logins, A!MadeBy
    <3>3. box' \in A!Account /\ Same(box', box) /\ box'.creds = box.creds \ {c}
      BY <1>2, <3>1 DEF A!Account, Same
    <3>4. ~box'.exists => box'.creds = {}
      BY <3>3 DEF AccountInv, NoStrayCreds, Same
    <3> QED BY <1>2, <3>1, <3>2, <3>3, <3>4 DEF AccountTyped
  <2> QED BY <2>1, <2>2
<1>4. AccountTyped' /\ NoStrayCreds'
  BY <1>1, <1>2, <1>3 DEF AccountTyped, NoStrayCreds
<1>5. Known' /\ Locked'
  BY <1>1, <1>3 DEF AccountInv, Known, Locked
<1>6. ASSUME ~parted PROVE Following'
  BY <1>1, <1>3, <1>6 DEF AccountInv, Following, Planned, Reached, Same
<1>7. ASSUME ~parted, ~overlaid PROVE Listed'
  <2>1. Listed
    BY <1>7 DEF AccountInv
  <2>2. Accounted'
    BY <1>1, <1>3, <2>1 DEF Listed, Accounted
  <2>3. Handed'
    BY <1>1, <1>3, <2>1 DEF Listed, Handed, Same
  <2>4. ASSUME NEW q \in Requests, proc[q].at = "saving" PROVE Replaces(proc[q])'
    <3>1. Replaces(proc[q])
      BY <2>1, <2>4 DEF Listed
    <3> QED BY <1>1, <1>3, <3>1 DEF Replaces, Minting
  <2> QED BY <1>1, <2>1, <2>2, <2>3, <2>4 DEF Listed
<1> QED
  BY <1>1, <1>4, <1>5, <1>6, <1>7 DEF AccountInv

\* Every step keeps the invariant.
LEMMA AccountNext ==
    ASSUME AccountInv, A!Next \/ UNCHANGED A!vars
    PROVE  AccountInv'
<1>1. ASSUME NEW p \in Requests,
             \/ A!Insert(p) \/ A!Load(p) \/ A!OpenForm(p) \/ A!WriteMirror(p) \/ A!Save(p) \/ A!Close(p)
             \/ A!Rotate(p) \/ A!ChangeCredential(p) \/ A!Delete(p)
             \/ A!Push(p) \/ A!Crash(p) \/ A!Commit(p) \/ A!Revoke(p) \/ \E effect \in BOOLEAN : A!Fail(p, effect)
      PROVE  AccountInv'
  BY <1>1, InsertKeeps, ReadsKeep, WriteMirrorKeeps, SaveKeeps, RotateKeeps, ChangeCredentialKeeps, DeleteKeeps,
     PushKeeps, CrashKeeps, CommitKeeps, RevokeKeeps, FailKeeps
<1>2. CASE UNCHANGED A!vars
  <2>1. UNCHANGED <<row, box, made, handed, lock, proc, parted, lost, overlaid>>
    BY <1>2 DEF A!vars
  <2>2. AccountTyped' /\ Known' /\ Locked' /\ NoStrayCreds'
    BY <2>1 DEF AccountInv, AccountTyped, Known, Locked, NoStrayCreds
  <2>3. ~parted => Following'
    BY <2>1 DEF AccountInv, Following, Planned, Reached
  <2>4. ~parted /\ ~overlaid => Listed'
    BY <2>1 DEF AccountInv, Listed, Accounted, Handed, Replaces, Minting, A!Logins, A!MadeBy
  <2> QED BY <2>1, <2>2, <2>3, <2>4 DEF AccountInv
<1> QED
  BY <1>1, <1>2, OwnerKeeps DEF A!Next

\* Nobody has the lock while no save is under way.
LEMMA QuietUnlocked ==
    ASSUME AccountInv, A!Quiet
    PROVE  lock = NoRequest
  BY DEF AccountInv, A!Quiet, Locked, AccountTyped

\* The account's requests and its owner keep the invariant, and the other parts leave it alone.
LEMMA AccountAlways == MCSpec => []AccountInv
<1>1. MCInit => AccountInv
  BY AccountInit DEF MCInit
<1>2. ASSUME AccountInv, [MCNext]_<<part, vars, credentials, directory>> PROVE AccountInv'
  <2>1. A!Next \/ UNCHANGED A!vars
    BY <1>2 DEF MCNext, credentials, A!vars
  <2> QED BY <1>2, <2>1, AccountNext
<1> QED
  BY <1>1, <1>2, PTL DEF MCSpec

\* Once every request is done or only reads, the cluster has the account as its row says, over inserts,
\* updates and deletions whose calls fail with or without effect and workers that die, unless a save of
\* several pushes ended between two of them (on_update, after_insert): for any number of requests.
THEOREM AccountIsFollowed == MCSpec => []AccountFollows
<1>1. AccountInv => AccountFollows
  <2> SUFFICES ASSUME AccountInv, A!Quiet, ~parted PROVE [box EXCEPT !.creds = {}] = [row EXCEPT !.creds = {}]
    BY DEF AccountFollows, A!AccountFollows
  <2>1. Same(box, row) /\ box \in A!Account /\ row \in A!Account
    BY QuietUnlocked DEF AccountInv, AccountTyped, Following
  <2> QED BY <2>1 DEF Same, A!Account
<1> QED
  BY <1>1, AccountAlways, PTL

\* Once every request is done or only reads, the mirror has every credential that Suite Cloud made and that
\* still works, but for lost revocations, and exactly the login that was handed out last (push_kind,
\* refresh): for any number of requests and credentials, under any limit.
THEOREM CredentialsAreFollowed == MCSpec => []CredentialsFollow
<1>1. AccountInv => CredentialsFollow
  <2> SUFFICES ASSUME AccountInv, A!Quiet, ~parted, ~overlaid
               PROVE  /\ box.creds \subseteq row.creds \cup A!MadeBy("owner") \cup lost
                      /\ handed # 0 => (row.creds \cap A!Logins) \ lost = {handed}
    BY DEF CredentialsFollow, A!CredentialsFollow
  <2>1. Accounted /\ Handed
    BY DEF AccountInv, Listed
  <2>2. \A p \in Requests : proc[p].at # "revoking" /\ proc[p].created = {}
    BY DEF AccountInv, A!Quiet, Locked
  <2>3. box.creds \subseteq row.creds \cup A!MadeBy("owner") \cup lost
    BY <2>1, <2>2 DEF Accounted
  <2>4. handed # 0 => (row.creds \cap A!Logins) \ lost = {handed}
    BY <2>1 DEF Handed
  <2> QED BY <2>3, <2>4
<1> QED
  BY <1>1, AccountAlways, PTL

\* The login last handed to the tenant answers in every state in which the cluster has the account, between
\* the steps of a rotation, after its failures and over the owner's own changes (rotate_site_login,
\* push_kind): the new login is handed out before the old one is revoked.
THEOREM TenantKeepsItsLogin == MCSpec => []LoginAnswers
<1>1. AccountInv => LoginAnswers
  BY DEF AccountInv, Listed, Handed, LoginAnswers, A!LoginAnswers
<1> QED
  BY <1>1, AccountAlways, PTL

----------------------------------------------------------------------------
(* The directory *)

\* A sequence that has the elements of S, each once.
Lists(s, S) ==
    /\ s \in Seq(S) /\ D!ToSet(s) = S
    /\ \A i, j \in 1 .. Len(s) : s[i] = s[j] => i = j

DirRows ==
    {<<"obj", o>> : o \in D!Objects} \cup {<<"member", Mailbox>>} \cup {<<"rcpt", e>> : e \in D!Recipients}

\* The cluster's row r is as in t; it has no disabled recipients.
SameRow(s, t, r) ==
    /\ r[1] = "obj" => s.obj[r[2]] = t.obj[r[2]]
    /\ r[1] = "member" => (s.member <=> t.member)
    /\ r[1] = "rcpt" => (s.rcpt[r[2]] = "on" <=> t.rcpt[r[2]] = "on")

\* The row r is the same in both.
EqualRow(s, t, r) ==
    /\ r[1] = "obj" => s.obj[r[2]] = t.obj[r[2]]
    /\ r[1] = "member" => (s.member <=> t.member)
    /\ r[1] = "rcpt" => s.rcpt[r[2]] = t.rcpt[r[2]]

\* The rows that a write is about, and those that go with its object.
Reach(w) ==
    {<<w.kind, w.o>>}
    \cup (IF w.kind = "obj" /\ w.o = Mailbox THEN {<<"member", Mailbox>>} ELSE {})
    \cup (IF w.kind = "obj" /\ w.o = List THEN {<<"rcpt", e>> : e \in D!Recipients} ELSE {})

Pushing(p) == request[p].at = "pushing"
WritesOf(r) == D!ToSet(r.writes)
TodoOf(r) == D!ToSet(r.todo)
DoneOf(r) == WritesOf(r) \ TodoOf(r)
LetsGo(op) == op.kind = "delete" \/ (op.kind = "alias" /\ ~op.on)

OldCluster ==
    [obj |-> [o \in D!Objects |-> D!Present(IF o = Group THEN {Alias} ELSE {})], member |-> TRUE,
     rcpt |-> [e \in D!Recipients |-> "on"]]

\* What a request writes: rows it has locked, each once; what goes with an object that is deleted is not
\* written besides.
WellWritten(r) ==
    /\ Lists(r.todo, TodoOf(r)) /\ TodoOf(r) \subseteq WritesOf(r)
    /\ \A w \in WritesOf(r) : Reach(w) \subseteq D!Locks(r.op) /\ Reach(w) \subseteq DirRows
    /\ \A w, v \in WritesOf(r) : w.kind = v.kind /\ w.o = v.o => w = v
    /\ \A w \in WritesOf(r) : w.kind = "obj" => w.val.exists \/ (w.val = D!Absent /\ (w.o # Group => WritesOf(r) = {w}))

\* A creation pushes its object first.
CreatesFirst(r) ==
    r.op.kind = "create" =>
        /\ ~db.obj[r.op.o].exists
        /\ D!Of(WritesOf(r), "obj", r.op.o) # {}
        /\ \A w \in WritesOf(r) : w.kind = "obj" => w.o = r.op.o /\ w.val.exists
        /\ \A w \in WritesOf(r) : w.kind # "obj" /\ r.op.o = Mailbox => w.kind = "rcpt" /\ w.o = Mailbox
        /\ ~r.pushed => r.todo # <<>> /\ r.todo[1].kind = "obj"
        /\ \A i \in 1 .. Len(r.todo) : r.todo[i].kind = "obj" => i = 1 /\ ~r.pushed

\* An adoption pushes nothing; with what it writes the rows are the cluster's.
AdoptsAll(r) ==
    r.op.kind = "adopt" =>
        /\ r.todo = <<>> /\ ~r.pushed
        /\ IF legacy = {} THEN WritesOf(r) = {} ELSE D!Write(db, WritesOf(r)) = cluster

\* What the writes suppose of the rows.
Supposes(r) ==
    r.op.kind # "adopt" => \A w \in WritesOf(r) :
        /\ w.kind = "member" /\ w.status = "on" => db.obj[Mailbox].exists /\ <<"obj", Mailbox>> \in D!Locks(r.op)
        /\ w.kind = "rcpt" /\ w.status # "none" /\ w \in DoneOf(r) =>
              db.obj[List].exists \/ D!Of(WritesOf(r), "obj", List) # {}
        /\ w.kind = "rcpt" /\ <<"obj", List>> \in D!Locks(r.op) => D!Of(WritesOf(r), "obj", List) # {}
        /\ w.kind = "obj" /\ ~LetsGo(r.op) => w.val.exists /\ D!HeldBy(db, w.o) \subseteq {w.o} \cup w.val.aliases

\* The rows by themselves.
RowsSound ==
    /\ db.member \in BOOLEAN /\ cluster.member \in BOOLEAN
    /\ \A o \in D!Objects : db.obj[o].exists \/ db.obj[o] = D!Absent
    /\ db.member => db.obj[Mailbox].exists
    /\ db.obj[List].exists \/ \A e \in D!Recipients : db.rcpt[e] = "none"

\* The cluster refuses an address it has elsewhere.
ClusterHeldOnce == \A o, other \in D!Objects : o # other => D!HeldBy(cluster, o) \cap D!HeldBy(cluster, other) = {}

\* Row by row: nobody has it locked and the cluster has it, or a request has, and the cluster has what the
\* request has pushed.
Free(x) == \A p \in Requests : Pushing(p) => x \notin D!Locks(request[p].op)

RowsFollow ==
    /\ \A x \in DirRows : Free(x) => SameRow(cluster, db, x)
    /\ \A p \in Requests : Pushing(p) => \A x \in D!Locks(request[p].op) :
          /\ SameRow(cluster, D!Write(db, DoneOf(request[p])), x)
          /\ ~request[p].pushed => SameRow(cluster, db, x)

\* Before the adoption nothing can be created.
NothingAdopted ==
    /\ legacy = D!Objects /\ db = D!Empty /\ cluster = OldCluster
    /\ \A p \in Requests : request[p].at # "idle" => request[p].op.kind \in {"create", "adopt"} /\ ~request[p].pushed

Asking ==
    \A p \in Requests :
        /\ request[p].at # "idle" => request[p].op \in D!Ops
        /\ request[p].at = "asked" => ~request[p].pushed

Planning ==
    \A p \in Requests : Pushing(p) =>
        WellWritten(request[p]) /\ CreatesFirst(request[p]) /\ AdoptsAll(request[p]) /\ Supposes(request[p])

Excluding ==
    \A p, q \in Requests : p # q /\ Pushing(p) /\ Pushing(q) => D!Locks(request[p].op) \cap D!Locks(request[q].op) = {}

DirSound ==
    /\ RowsSound /\ ClusterHeldOnce /\ Asking /\ Planning /\ Excluding
    /\ IF legacy = {} THEN RowsFollow ELSE NothingAdopted

DirInv == DOMAIN request = Requests /\ broken \in BOOLEAN /\ (broken \/ DirSound)

\* The empty sequence.
LEMMA ListsNone == Lists(<<>>, {})
  BY DEF Lists, D!ToSet

\* One element.
LEMMA ListsOne == ASSUME NEW x PROVE Lists(<<x>>, {x})
  BY DEF Lists, D!ToSet

\* A finite set as a sequence has each element once.
LEMMA ListsSet ==
    ASSUME NEW S, IsFiniteSet(S)
    PROVE  Lists(D!SetToSeq(S), S)
<1> DEFINE n == Cardinality(S)
           f == D!SetToSeq(S)
<1>1. n \in Nat /\ IsFiniteSet(1 .. n) /\ Cardinality(1 .. n) = n
  BY FS_CardinalityType, FS_Interval
<1>2. PICK b : b \in Bijection(1 .. n, S)
  BY FS_CardinalityType DEF ExistsBijection
<1>3. b \in [1 .. n -> S] /\ D!IsInjective(b)
  BY <1>2 DEF Bijection, Injection, IsInjective, D!IsInjective
<1>4. f \in [1 .. n -> S] /\ D!IsInjective(f)
  <2>1. D!Cardinality(S) = n
    BY DEF D!Cardinality, Cardinality
  <2> HIDE DEF n
  <2> QED BY <1>3, <2>1 DEF D!SetToSeq
<1> HIDE DEF f, n
<1>5. f \in Injection(1 .. n, S)
  BY <1>4 DEF Injection, IsInjective, D!IsInjective
<1>6. f \in Surjection(1 .. n, S)
  BY <1>1, <1>5, FS_Injection DEF n
<1>7. \A x \in S : \E i \in 1 .. n : f[i] = x
  BY <1>6 DEF Surjection
<1>8. f \in Seq(S) /\ Len(f) = n /\ DOMAIN f = 1 .. n
  BY <1>1, <1>4
<1>9. D!ToSet(f) = S
  BY <1>4, <1>7, <1>8 DEF D!ToSet
<1>10. \A i, j \in 1 .. Len(f) : f[i] = f[j] => i = j
  BY <1>4, <1>8 DEF D!IsInjective
<1> QED BY <1>8, <1>9, <1>10 DEF Lists, f

\* Sequences of disjoint sets, joined.
LEMMA ListsJoin ==
    ASSUME NEW s, NEW t, NEW S, NEW T, Lists(s, S), Lists(t, T), S \cap T = {}
    PROVE  Lists(s \o t, S \cup T)
<1>1. s \in Seq(S) /\ t \in Seq(T) /\ s \in Seq(S \cup T) /\ t \in Seq(S \cup T)
  BY DEF Lists
<1>2. /\ Len(s) \in Nat /\ Len(t) \in Nat /\ DOMAIN s = 1 .. Len(s) /\ DOMAIN t = 1 .. Len(t)
      /\ Len(s \o t) = Len(s) + Len(t) /\ s \o t \in Seq(S \cup T) /\ DOMAIN (s \o t) = 1 .. Len(s) + Len(t)
  BY <1>1
<1>3. \A i \in 1 .. Len(s) + Len(t) : (s \o t)[i] = IF i <= Len(s) THEN s[i] ELSE t[i - Len(s)]
  BY <1>1
<1>4. \A i \in 1 .. Len(s) : s[i] \in S
  BY <1>1
<1>5. \A i \in 1 .. Len(t) : t[i] \in T
  BY <1>1
<1>6. ASSUME NEW x \in S PROVE \E i \in 1 .. Len(s) + Len(t) : (s \o t)[i] = x
  <2>1. PICK i \in 1 .. Len(s) : s[i] = x
    BY <1>1, <1>2 DEF Lists, D!ToSet
  <2>2. i \in 1 .. Len(s) + Len(t) /\ i <= Len(s)
    BY <1>2
  <2> QED BY <1>3, <2>1, <2>2
<1>7. ASSUME NEW x \in T PROVE \E i \in 1 .. Len(s) + Len(t) : (s \o t)[i] = x
  <2>1. PICK i \in 1 .. Len(t) : t[i] = x
    BY <1>1, <1>2 DEF Lists, D!ToSet
  <2>2. i + Len(s) \in 1 .. Len(s) + Len(t) /\ ~(i + Len(s) <= Len(s)) /\ i + Len(s) - Len(s) = i
    BY <1>2
  <2> QED BY <1>3, <2>1, <2>2
<1>8. D!ToSet(s \o t) = S \cup T
  <2>1. D!ToSet(s \o t) = {(s \o t)[i] : i \in 1 .. Len(s) + Len(t)}
    BY <1>2 DEF D!ToSet
  <2>2. \A i \in 1 .. Len(s) + Len(t) : (s \o t)[i] \in S \cup T
    BY <1>2
  <2> QED BY <1>6, <1>7, <2>1, <2>2
<1>9. ASSUME NEW i \in 1 .. Len(s) + Len(t), NEW j \in 1 .. Len(s) + Len(t), (s \o t)[i] = (s \o t)[j]
      PROVE  i = j
  <2>1. CASE i <= Len(s) /\ j <= Len(s)
    <3>1. i \in 1 .. Len(s) /\ j \in 1 .. Len(s) /\ s[i] = s[j]
      BY <1>2, <1>3, <1>9, <2>1
    <3> QED BY <3>1 DEF Lists
  <2>2. CASE ~(i <= Len(s)) /\ ~(j <= Len(s))
    <3>1. i - Len(s) \in 1 .. Len(t) /\ j - Len(s) \in 1 .. Len(t)
      BY <1>2, <2>2
    <3>2. t[i - Len(s)] = t[j - Len(s)]
      BY <1>3, <1>9, <2>2
    <3>3. i - Len(s) = j - Len(s)
      BY <3>1, <3>2 DEF Lists
    <3> QED BY <1>2, <3>3
  <2>3. ASSUME NEW a \in 1 .. Len(s) + Len(t), NEW b \in 1 .. Len(s) + Len(t), a <= Len(s), ~(b <= Len(s)),
               (s \o t)[a] = (s \o t)[b]
        PROVE  FALSE
    <3>1. a \in 1 .. Len(s) /\ b - Len(s) \in 1 .. Len(t)
      BY <1>2, <2>3
    <3>2. s[a] = t[b - Len(s)]
      BY <1>3, <2>3
    <3> QED BY <1>4, <1>5, <3>1, <3>2
  <2> QED BY <1>9, <2>1, <2>2, <2>3
<1> QED BY <1>2, <1>8, <1>9 DEF Lists

\* The tail is the rest.
LEMMA ListsTail ==
    ASSUME NEW s, NEW S, Lists(s, S), s # <<>>
    PROVE  Head(s) \in S /\ Lists(Tail(s), S \ {Head(s)})
<1>1. s \in Seq(S) /\ Len(s) \in Nat /\ Len(s) >= 1 /\ DOMAIN s = 1 .. Len(s) /\ Head(s) = s[1] /\ D!ToSet(s) = S
  BY DEF Lists
<1>2. /\ Tail(s) \in Seq(S) /\ Len(Tail(s)) = Len(s) - 1 /\ DOMAIN Tail(s) = 1 .. Len(s) - 1
      /\ \A i \in 1 .. Len(s) - 1 : Tail(s)[i] = s[i + 1]
  BY <1>1
<1>3. Head(s) \in S
  BY <1>1
<1>4. \A i \in 1 .. Len(s) - 1 : i + 1 \in 1 .. Len(s) /\ i + 1 # 1
  BY <1>1
<1>5. \A i, j \in 1 .. Len(s) : s[i] = s[j] => i = j
  BY DEF Lists
<1>6. \A i \in 1 .. Len(s) - 1 : Tail(s)[i] \in S \ {Head(s)}
  BY <1>1, <1>2, <1>4, <1>5
<1>7. ASSUME NEW x \in S \ {Head(s)} PROVE \E i \in 1 .. Len(s) - 1 : Tail(s)[i] = x
  <2>1. PICK i \in 1 .. Len(s) : s[i] = x
    BY <1>1 DEF D!ToSet
  <2>2. i # 1
    BY <1>1, <2>1
  <2>3. i - 1 \in 1 .. Len(s) - 1 /\ (i - 1) + 1 = i
    BY <1>1, <2>2
  <2> QED BY <1>2, <2>1, <2>3
<1>8. D!ToSet(Tail(s)) = S \ {Head(s)}
  <2>1. D!ToSet(Tail(s)) = {Tail(s)[i] : i \in 1 .. Len(s) - 1}
    BY <1>2 DEF D!ToSet
  <2> QED BY <1>6, <1>7, <2>1
<1>9. Tail(s) \in Seq(S \ {Head(s)})
  <2> DEFINE t == Tail(s)
  <2>0. t \in Seq(S)
    BY <1>2
  <2>2. \A i \in 1 .. Len(t) : t[i] \in S \ {Head(s)}
    BY <1>2, <1>6
  <2> HIDE DEF t
  <2>1. Len(t) \in Nat /\ DOMAIN t = 1 .. Len(t) /\ t = [i \in 1 .. Len(t) |-> t[i]]
    BY <2>0
  <2>3. t \in [1 .. Len(t) -> S \ {Head(s)}]
    BY <2>1, <2>2
  <2>4. t \in Seq(S \ {Head(s)})
    BY <2>1, <2>3
  <2> QED BY <2>4 DEF t
<1>10. \A i, j \in 1 .. Len(Tail(s)) : Tail(s)[i] = Tail(s)[j] => i = j
  <2> SUFFICES ASSUME NEW i \in 1 .. Len(s) - 1, NEW j \in 1 .. Len(s) - 1, Tail(s)[i] = Tail(s)[j] PROVE i = j
    BY <1>2
  <2>1. s[i + 1] = s[j + 1]
    BY <1>2
  <2>2. i + 1 = j + 1
    BY <1>4, <1>5, <2>1
  <2> QED BY <1>1, <2>2
<1> QED BY <1>3, <1>8, <1>9, <1>10 DEF Lists

\* A row is of one kind.
LEMMA RowsDiffer ==
    /\ \A o \in D!Objects : <<"obj", o>> \in DirRows /\ <<"obj", o>>[1] = "obj" /\ <<"obj", o>>[2] = o
    /\ <<"member", Mailbox>> \in DirRows /\ <<"member", Mailbox>>[1] = "member"
    /\ \A e \in D!Recipients : <<"rcpt", e>> \in DirRows /\ <<"rcpt", e>>[1] = "rcpt" /\ <<"rcpt", e>>[2] = e
    /\ \A r \in DirRows : \/ r[1] = "obj" /\ r[2] \in D!Objects /\ r = <<"obj", r[2]>>
                          \/ r[1] = "member" /\ r = <<"member", Mailbox>>
                          \/ r[1] = "rcpt" /\ r[2] \in D!Recipients /\ r = <<"rcpt", r[2]>>
    /\ Mailbox \in D!Objects /\ Group \in D!Objects /\ List \in D!Objects
    /\ \A o \in D!Objects : o \in {Mailbox, Group, List}
    /\ Mailbox # Group /\ Mailbox # List /\ Group # List
  BY DirectoryConstants DEF DirRows, D!Objects, D!Recipients

\* The rows of both sides compared through a third.
LEMMA EqualSame ==
    ASSUME NEW a, NEW b, NEW c, NEW r
    PROVE  /\ EqualRow(a, b, r) => SameRow(a, b, r)
           /\ EqualRow(a, b, r) /\ SameRow(b, c, r) => SameRow(a, c, r)
           /\ SameRow(a, b, r) /\ EqualRow(c, b, r) => SameRow(a, c, r)
  BY DEF EqualRow, SameRow

\* What a write leaves in the row of an object.
LEMMA WriteObj ==
    ASSUME NEW s, NEW W, NEW o \in D!Objects
    PROVE  D!Write(s, W).obj[o] = IF D!Of(W, "obj", o) = {} THEN s.obj[o] ELSE D!The(D!Of(W, "obj", o)).val
  BY DEF D!Write

\* What it leaves of the membership.
LEMMA WriteMember ==
    ASSUME NEW s, NEW W
    PROVE  /\ D!Write(s, W).member \in BOOLEAN
           /\ D!Write(s, W).member <=> IF D!Of(W, "member", Mailbox) = {} THEN s.member /\ ~D!Gone(W, Mailbox)
                                       ELSE D!The(D!Of(W, "member", Mailbox)).status = "on"
  BY DEF D!Write

\* What it leaves of a recipient.
LEMMA WriteRcpt ==
    ASSUME NEW s, NEW W, NEW e \in D!Recipients
    PROVE  D!Write(s, W).rcpt[e] = IF D!Of(W, "rcpt", e) # {} THEN D!The(D!Of(W, "rcpt", e)).status
                                   ELSE IF D!Gone(W, List) THEN "none" ELSE s.rcpt[e]
  BY DEF D!Write

\* A write leaves the rows alone that it does not reach.
LEMMA WriteAway ==
    ASSUME NEW s, NEW W, NEW r \in DirRows, \A w \in W : r \notin Reach(w)
    PROVE  EqualRow(D!Write(s, W), s, r)
<1>1. CASE r[1] = "obj"
  <2>1. r[2] \in D!Objects /\ r = <<"obj", r[2]>>
    BY <1>1, RowsDiffer
  <2>2. D!Of(W, "obj", r[2]) = {}
    BY <2>1 DEF D!Of, Reach
  <2> QED BY <1>1, <2>1, <2>2, WriteObj DEF EqualRow
<1>2. CASE r[1] = "member"
  <2>1. r = <<"member", Mailbox>>
    BY <1>2, RowsDiffer
  <2>2. D!Of(W, "member", Mailbox) = {} /\ ~D!Gone(W, Mailbox)
    BY <2>1 DEF D!Of, D!Gone, Reach
  <2> QED BY <1>2, <2>2, WriteMember DEF EqualRow
<1>3. CASE r[1] = "rcpt"
  <2>1. r[2] \in D!Recipients /\ r = <<"rcpt", r[2]>>
    BY <1>3, RowsDiffer
  <2>2. D!Of(W, "rcpt", r[2]) = {} /\ ~D!Gone(W, List)
    BY <2>1 DEF D!Of, D!Gone, Reach
  <2> QED BY <1>3, <2>1, <2>2, WriteRcpt DEF EqualRow
<1> QED BY <1>1, <1>2, <1>3, RowsDiffer

\* Writes go row by row.
LEMMA WriteByRow ==
    ASSUME NEW s, NEW t, NEW W, NEW r \in DirRows, EqualRow(s, t, r)
    PROVE  EqualRow(D!Write(s, W), D!Write(t, W), r)
<1>1. CASE r[1] = "obj"
  BY <1>1, WriteObj, RowsDiffer DEF EqualRow
<1>2. CASE r[1] = "member"
  BY <1>2, WriteMember DEF EqualRow
<1>3. CASE r[1] = "rcpt"
  BY <1>3, WriteRcpt, RowsDiffer DEF EqualRow
<1> QED BY <1>1, <1>2, <1>3, RowsDiffer

\* What is sent for a write.
SentAs(w) == IF w.kind = "rcpt" /\ w.status = "off" THEN [w EXCEPT !.status = "none"] ELSE w

\* A push is one write.
LEMMA SentIs ==
    ASSUME NEW c, NEW w, NEW k, NEW o
    PROVE  /\ D!Sent(c, w) = D!Write(c, {SentAs(w)})
           /\ D!Of({SentAs(w)}, k, o) = IF w.kind = k /\ w.o = o THEN {SentAs(w)} ELSE {}
           /\ D!The({SentAs(w)}) = SentAs(w)
           /\ w.kind # "rcpt" => SentAs(w) = w
           /\ D!Gone({SentAs(w)}, o) <=> w.kind = "obj" /\ w.o = o /\ ~w.val.exists
           /\ Reach(SentAs(w)) = Reach(w)
<1>1. SentAs(w).kind = w.kind /\ SentAs(w).o = w.o /\ (w.kind # "rcpt" => SentAs(w) = w)
  <2>1. CASE w.kind = "rcpt" /\ w.status = "off"
    <3>1. SentAs(w) = [w EXCEPT !.status = "none"]
      BY <2>1 DEF SentAs
    <3>2. [w EXCEPT !.status = "none"].kind = w.kind /\ [w EXCEPT !.status = "none"].o = w.o
      OBVIOUS
    <3> QED BY <2>1, <3>1, <3>2
  <2> QED BY <2>1 DEF SentAs
<1>2. D!Sent(c, w) = D!Write(c, {SentAs(w)})
  BY DEF D!Sent, SentAs
<1> HIDE DEF SentAs
<1>3. D!The({SentAs(w)}) = SentAs(w)
  BY DEF D!The
<1>4. \A x : D!Of({SentAs(w)}, x, o) = IF w.kind = x /\ w.o = o THEN {SentAs(w)} ELSE {}
  BY <1>1 DEF D!Of
<1>5. D!Gone({SentAs(w)}, o) <=> w.kind = "obj" /\ w.o = o /\ ~w.val.exists
  BY <1>1, <1>4 DEF D!Gone
<1>6. Reach(SentAs(w)) = Reach(w)
  BY <1>1 DEF Reach
<1> QED BY <1>1, <1>2, <1>3, <1>4, <1>5, <1>6

\* The cluster's rows after a push.
LEMMA SentRows ==
    ASSUME NEW c, NEW w
    PROVE  /\ \A o \in D!Objects : D!Sent(c, w).obj[o] = IF w.kind = "obj" /\ w.o = o THEN w.val ELSE c.obj[o]
           /\ D!Sent(c, w).member \in BOOLEAN
           /\ D!Sent(c, w).member <=> IF w.kind = "member" /\ w.o = Mailbox THEN w.status = "on"
                                      ELSE c.member /\ ~(w.kind = "obj" /\ w.o = Mailbox /\ ~w.val.exists)
           /\ \A e \in D!Recipients :
                 D!Sent(c, w).rcpt[e] = IF w.kind = "rcpt" /\ w.o = e THEN SentAs(w).status
                                        ELSE IF w.kind = "obj" /\ w.o = List /\ ~w.val.exists THEN "none" ELSE c.rcpt[e]
<1> DEFINE x == SentAs(w)
           X == {x}
           t == D!Write(c, X)
<1>1. D!Sent(c, w) = t /\ D!The(X) = x /\ (w.kind # "rcpt" => x = w)
  BY SentIs
<1>2. \A k, o : D!Of(X, k, o) = IF w.kind = k /\ w.o = o THEN X ELSE {}
  BY SentIs
<1>3. \A o : D!Gone(X, o) <=> w.kind = "obj" /\ w.o = o /\ ~w.val.exists
  BY SentIs
<1>4. X # {}
  OBVIOUS
<1>5. /\ \A o \in D!Objects : t.obj[o] = IF D!Of(X, "obj", o) = {} THEN c.obj[o] ELSE D!The(D!Of(X, "obj", o)).val
      /\ t.member \in BOOLEAN
      /\ t.member <=> IF D!Of(X, "member", Mailbox) = {} THEN c.member /\ ~D!Gone(X, Mailbox)
                      ELSE D!The(D!Of(X, "member", Mailbox)).status = "on"
      /\ \A e \in D!Recipients : t.rcpt[e] = IF D!Of(X, "rcpt", e) # {} THEN D!The(D!Of(X, "rcpt", e)).status
                                             ELSE IF D!Gone(X, List) THEN "none" ELSE c.rcpt[e]
  <2> HIDE DEF X
  <2> QED BY WriteObj, WriteMember, WriteRcpt
<1> HIDE DEF x, X, t
<1>6. \A o \in D!Objects : t.obj[o] = IF w.kind = "obj" /\ w.o = o THEN w.val ELSE c.obj[o]
  BY <1>1, <1>2, <1>4, <1>5
<1>7. t.member <=> IF w.kind = "member" /\ w.o = Mailbox THEN w.status = "on"
                   ELSE c.member /\ ~(w.kind = "obj" /\ w.o = Mailbox /\ ~w.val.exists)
  BY <1>1, <1>2, <1>3, <1>4, <1>5
<1>8. \A e \in D!Recipients : t.rcpt[e] = IF w.kind = "rcpt" /\ w.o = e THEN x.status
                              ELSE IF w.kind = "obj" /\ w.o = List /\ ~w.val.exists THEN "none" ELSE c.rcpt[e]
  BY <1>1, <1>2, <1>3, <1>4, <1>5
<1> QED BY <1>1, <1>5, <1>6, <1>7, <1>8 DEF x

\* The rows with one write more, of a row that no other writes.
LEMMA OneMore ==
    ASSUME NEW s, NEW N, NEW w, \A v \in N : ~(v.kind = w.kind /\ v.o = w.o)
    PROVE  /\ \A o \in D!Objects :
                 D!Write(s, N \cup {w}).obj[o] = IF w.kind = "obj" /\ w.o = o THEN w.val ELSE D!Write(s, N).obj[o]
           /\ D!Write(s, N \cup {w}).member <=>
                 IF w.kind = "member" /\ w.o = Mailbox THEN w.status = "on"
                 ELSE IF w.kind = "obj" /\ w.o = Mailbox /\ ~w.val.exists /\ D!Of(N, "member", Mailbox) = {} THEN FALSE
                 ELSE D!Write(s, N).member
           /\ \A e \in D!Recipients :
                 D!Write(s, N \cup {w}).rcpt[e] =
                    IF w.kind = "rcpt" /\ w.o = e THEN w.status
                    ELSE IF w.kind = "obj" /\ w.o = List /\ ~w.val.exists /\ D!Of(N, "rcpt", e) = {} THEN "none"
                    ELSE D!Write(s, N).rcpt[e]
<1> DEFINE X == {w}
           M == N \cup X
           t == D!Write(s, M)
           u == D!Write(s, N)
<1>1. \A k, o : D!Of(M, k, o) = IF w.kind = k /\ w.o = o THEN X ELSE D!Of(N, k, o)
  BY DEF D!Of
<1>2. D!The(X) = w /\ X # {}
  BY DEF D!The
<1>3. \A o : D!Gone(M, o) <=> D!Gone(N, o) \/ (w.kind = "obj" /\ w.o = o /\ ~w.val.exists)
  <2>1. \A o : w.kind = "obj" /\ w.o = o => (D!Gone(M, o) <=> ~w.val.exists)
    BY <1>1 DEF D!Gone
  <2>2. \A o : w.kind = "obj" /\ w.o = o => ~D!Gone(N, o)
    BY DEF D!Gone, D!Of
  <2>3. \A o : ~(w.kind = "obj" /\ w.o = o) => (D!Gone(M, o) <=> D!Gone(N, o))
    <3> HIDE DEF M
    <3> QED BY <1>1 DEF D!Gone
  <2> HIDE DEF D!Gone, M
  <2> QED BY <2>1, <2>2, <2>3
<1>4. /\ \A o \in D!Objects : t.obj[o] = IF D!Of(M, "obj", o) = {} THEN s.obj[o] ELSE D!The(D!Of(M, "obj", o)).val
      /\ t.member <=> IF D!Of(M, "member", Mailbox) = {} THEN s.member /\ ~D!Gone(M, Mailbox)
                      ELSE D!The(D!Of(M, "member", Mailbox)).status = "on"
      /\ \A e \in D!Recipients : t.rcpt[e] = IF D!Of(M, "rcpt", e) # {} THEN D!The(D!Of(M, "rcpt", e)).status
                                             ELSE IF D!Gone(M, List) THEN "none" ELSE s.rcpt[e]
  <2> HIDE DEF M
  <2> QED BY WriteObj, WriteMember, WriteRcpt
<1>5. /\ \A o \in D!Objects : u.obj[o] = IF D!Of(N, "obj", o) = {} THEN s.obj[o] ELSE D!The(D!Of(N, "obj", o)).val
      /\ u.member <=> IF D!Of(N, "member", Mailbox) = {} THEN s.member /\ ~D!Gone(N, Mailbox)
                      ELSE D!The(D!Of(N, "member", Mailbox)).status = "on"
      /\ \A e \in D!Recipients : u.rcpt[e] = IF D!Of(N, "rcpt", e) # {} THEN D!The(D!Of(N, "rcpt", e)).status
                                             ELSE IF D!Gone(N, List) THEN "none" ELSE s.rcpt[e]
  BY WriteObj, WriteMember, WriteRcpt
<1> HIDE DEF X, M, t, u
<1>6. \A o \in D!Objects : t.obj[o] = IF w.kind = "obj" /\ w.o = o THEN w.val ELSE u.obj[o]
  BY <1>1, <1>2, <1>4, <1>5
<1>7. t.member <=> IF w.kind = "member" /\ w.o = Mailbox THEN w.status = "on"
                   ELSE IF w.kind = "obj" /\ w.o = Mailbox /\ ~w.val.exists /\ D!Of(N, "member", Mailbox) = {} THEN FALSE
                   ELSE u.member
  <2>1. D!Of(M, "member", Mailbox) = IF w.kind = "member" /\ w.o = Mailbox THEN X ELSE D!Of(N, "member", Mailbox)
    BY <1>1
  <2>2. D!Gone(M, Mailbox) <=> D!Gone(N, Mailbox) \/ (w.kind = "obj" /\ w.o = Mailbox /\ ~w.val.exists)
    BY <1>3
  <2> QED BY <1>2, <1>4, <1>5, <2>1, <2>2
<1>8. ASSUME NEW e \in D!Recipients
      PROVE  t.rcpt[e] = IF w.kind = "rcpt" /\ w.o = e THEN w.status
                         ELSE IF w.kind = "obj" /\ w.o = List /\ ~w.val.exists /\ D!Of(N, "rcpt", e) = {} THEN "none"
                         ELSE u.rcpt[e]
  <2>1. D!Of(M, "rcpt", e) = IF w.kind = "rcpt" /\ w.o = e THEN X ELSE D!Of(N, "rcpt", e)
    BY <1>1
  <2>2. D!Gone(M, List) <=> D!Gone(N, List) \/ (w.kind = "obj" /\ w.o = List /\ ~w.val.exists)
    BY <1>3
  <2> QED BY <1>2, <1>4, <1>5, <2>1, <2>2
<1> QED BY <1>6, <1>7, <1>8 DEF t, u, M, X

\* One more push: the cluster has what the rows will have with one more write.
LEMMA PushedOn ==
    ASSUME NEW s, NEW c, NEW W, NEW w \in W, NEW N \in SUBSET W, w \notin N, NEW r \in DirRows,
           \A u, v \in W : u.kind = v.kind /\ u.o = v.o => u = v,
           \A u \in W : u.kind = "obj" => u.val.exists \/ (u.o # Group => W = {u}),
           SameRow(c, D!Write(s, N), r)
    PROVE  SameRow(D!Sent(c, w), D!Write(s, N \cup {w}), r)
<1> DEFINE a == D!Sent(c, w)
           t == D!Write(s, N \cup {w})
           u == D!Write(s, N)
           gone(o) == w.kind = "obj" /\ w.o = o /\ ~w.val.exists
<1>1. \A v \in N : ~(v.kind = w.kind /\ v.o = w.o)
  OBVIOUS
<1>2. gone(Mailbox) \/ gone(List) => \A k, o : D!Of(N, k, o) = {}
  <2> SUFFICES ASSUME gone(Mailbox) \/ gone(List) PROVE N = {}
    BY DEF D!Of
  <2>1. W = {w}
    BY RowsDiffer
  <2> QED BY <2>1
<1>3. /\ \A o \in D!Objects : a.obj[o] = IF w.kind = "obj" /\ w.o = o THEN w.val ELSE c.obj[o]
      /\ a.member <=> IF w.kind = "member" /\ w.o = Mailbox THEN w.status = "on" ELSE c.member /\ ~gone(Mailbox)
      /\ \A e \in D!Recipients : a.rcpt[e] = IF w.kind = "rcpt" /\ w.o = e THEN SentAs(w).status
                                             ELSE IF gone(List) THEN "none" ELSE c.rcpt[e]
  BY SentRows
<1>4. /\ \A o \in D!Objects : t.obj[o] = IF w.kind = "obj" /\ w.o = o THEN w.val ELSE u.obj[o]
      /\ t.member <=> IF w.kind = "member" /\ w.o = Mailbox THEN w.status = "on"
                      ELSE IF gone(Mailbox) THEN FALSE ELSE u.member
      /\ \A e \in D!Recipients : t.rcpt[e] = IF w.kind = "rcpt" /\ w.o = e THEN w.status
                                             ELSE IF gone(List) THEN "none" ELSE u.rcpt[e]
  BY <1>1, <1>2, OneMore
<1>5. w.kind = "rcpt" => (SentAs(w).status = "on" <=> w.status = "on")
  BY DEF SentAs
<1> HIDE DEF a, t, u, gone
<1>6. SameRow(c, u, r)
  BY DEF u
<1>7. CASE r[1] = "obj"
  <2>1. r[2] \in D!Objects
    BY <1>7, RowsDiffer
  <2>2. a.obj[r[2]] = t.obj[r[2]]
    BY <1>3, <1>4, <1>6, <1>7, <2>1 DEF SameRow
  <2> QED BY <1>7, <2>2 DEF SameRow, a, t
<1>8. CASE r[1] = "member"
  <2>1. a.member <=> t.member
    BY <1>3, <1>4, <1>6, <1>8 DEF SameRow
  <2> QED BY <1>8, <2>1 DEF SameRow, a, t
<1>9. CASE r[1] = "rcpt"
  <2>1. r[2] \in D!Recipients
    BY <1>9, RowsDiffer
  <2>2. a.rcpt[r[2]] = "on" <=> t.rcpt[r[2]] = "on"
    BY <1>3, <1>4, <1>5, <1>6, <1>9, <2>1 DEF SameRow
  <2> QED BY <1>9, <2>2 DEF SameRow, a, t
<1> QED BY <1>7, <1>8, <1>9, RowsDiffer

\* What a request has pushed stays within its locks.
LEMMA SentAway ==
    ASSUME NEW c, NEW w, NEW r \in DirRows, r \notin Reach(w)
    PROVE  EqualRow(D!Sent(c, w), c, r)
<1>1. D!Sent(c, w) = D!Write(c, {SentAs(w)}) /\ Reach(SentAs(w)) = Reach(w)
  BY SentIs
<1>2. \A v \in {SentAs(w)} : r \notin Reach(v)
  BY <1>1
<1> QED BY <1>1, <1>2, WriteAway

\* The cluster's addresses, over a push that it accepts.
LEMMA SentHeldOnce ==
    ASSUME ClusterHeldOnce, NEW w, D!Accepts(w)
    PROVE  \A o, other \in D!Objects :
              o # other => D!HeldBy(D!Sent(cluster, w), o) \cap D!HeldBy(D!Sent(cluster, w), other) = {}
<1>1. CASE w.kind # "obj"
  <2>1. \A o \in D!Objects : D!Sent(cluster, w).obj[o] = cluster.obj[o]
    BY <1>1, SentRows
  <2> QED BY <2>1 DEF ClusterHeldOnce, D!HeldBy
<1>2. CASE w.kind = "obj"
  <2>1. \A o \in D!Objects : D!Sent(cluster, w).obj[o] = IF w.o = o THEN w.val ELSE cluster.obj[o]
    BY <1>2, SentRows
  <2>2. w.val.exists => \A o \in D!Objects \ {w.o} : D!HeldBy(cluster, o) \cap ({w.o} \cup w.val.aliases) = {}
    BY <1>2 DEF D!Accepts
  <2>3. \A o \in D!Objects : /\ o # w.o => D!HeldBy(D!Sent(cluster, w), o) = D!HeldBy(cluster, o)
                             /\ o = w.o => D!HeldBy(D!Sent(cluster, w), o) = IF w.val.exists THEN {w.o} \cup w.val.aliases ELSE {}
    BY <2>1 DEF D!HeldBy
  <2> HIDE DEF D!HeldBy
  <2> QED BY <2>2, <2>3 DEF ClusterHeldOnce
<1> QED BY <1>1, <1>2

\* A deletion takes addresses away.
LEMMA DroppedHeldOnce ==
    ASSUME NEW c, NEW x \in D!Objects,
           \A o, other \in D!Objects : o # other => D!HeldBy(c, o) \cap D!HeldBy(c, other) = {}
    PROVE  \A o, other \in D!Objects :
              o # other => D!HeldBy(D!Sent(c, D!SetObj(x, D!Absent)), o)
                             \cap D!HeldBy(D!Sent(c, D!SetObj(x, D!Absent)), other) = {}
<1> DEFINE w == D!SetObj(x, D!Absent)
<1>1. w.kind = "obj" /\ w.o = x /\ w.val = D!Absent /\ ~D!Absent.exists
  BY DEF D!SetObj, D!Absent
<1> HIDE DEF w
<1>2. \A o \in D!Objects : D!Sent(c, w).obj[o] = IF x = o THEN D!Absent ELSE c.obj[o]
  BY <1>1, SentRows
<1>3. \A o \in D!Objects : D!HeldBy(D!Sent(c, w), o) \subseteq D!HeldBy(c, o)
  BY <1>1, <1>2 DEF D!HeldBy
<1> HIDE DEF D!HeldBy
<1>4. \A o, other \in D!Objects : o # other => D!HeldBy(D!Sent(c, w), o) \cap D!HeldBy(D!Sent(c, w), other) = {}
  BY <1>3
<1> QED BY <1>4 DEF w

\* The fields of the writes.
LEMMA SetIs ==
    /\ \A o, val : /\ D!SetObj(o, val).kind = "obj" /\ D!SetObj(o, val).o = o /\ D!SetObj(o, val).val = val
    /\ \A on : /\ D!SetMember(on).kind = "member" /\ D!SetMember(on).o = Mailbox
    /\ D!SetMember(TRUE).status = "on" /\ D!SetMember(FALSE).status = "none"
    /\ \A e, st : /\ D!SetRcpt(e, st).kind = "rcpt" /\ D!SetRcpt(e, st).o = e /\ D!SetRcpt(e, st).status = st
    /\ \A a : D!Present(a).exists /\ D!Present(a).aliases = a
    /\ ~D!Absent.exists /\ D!Absent.aliases = {}
  BY DEF D!SetObj, D!SetMember, D!SetRcpt, D!Present, D!Absent

\* The rows they reach.
LEMMA ReachIs ==
    /\ \A o, val : Reach(D!SetObj(o, val)) =
          {<<"obj", o>>} \cup (IF o = Mailbox THEN {<<"member", Mailbox>>} ELSE {})
          \cup (IF o = List THEN {<<"rcpt", e>> : e \in D!Recipients} ELSE {})
    /\ \A on : Reach(D!SetMember(on)) = {<<"member", Mailbox>>}
    /\ \A e, st : Reach(D!SetRcpt(e, st)) = {<<"rcpt", e>>}
<1>1. ASSUME NEW w, w.kind # "obj" PROVE Reach(w) = {<<w.kind, w.o>>}
  BY <1>1 DEF Reach
<1>2. ASSUME NEW w, w.kind = "obj"
      PROVE  Reach(w) = {<<"obj", w.o>>} \cup (IF w.o = Mailbox THEN {<<"member", Mailbox>>} ELSE {})
                        \cup (IF w.o = List THEN {<<"rcpt", e>> : e \in D!Recipients} ELSE {})
  BY <1>2 DEF Reach
<1> HIDE DEF Reach
<1>3. ASSUME NEW o, NEW val
      PROVE  Reach(D!SetObj(o, val)) =
               {<<"obj", o>>} \cup (IF o = Mailbox THEN {<<"member", Mailbox>>} ELSE {})
               \cup (IF o = List THEN {<<"rcpt", e>> : e \in D!Recipients} ELSE {})
  BY <1>2, SetIs
<1>4. ASSUME NEW on PROVE Reach(D!SetMember(on)) = {<<"member", Mailbox>>}
  BY <1>1, SetIs
<1>5. ASSUME NEW e, NEW st PROVE Reach(D!SetRcpt(e, st)) = {<<"rcpt", e>>}
  BY <1>1, SetIs
<1> QED BY <1>3, <1>4, <1>5

\* The writes of some recipients.
RcptSet(S, st) == {D!SetRcpt(e, st) : e \in S}

\* They are written one by one.
LEMMA ListsRcpts ==
    ASSUME NEW S \in SUBSET D!Recipients, NEW st
    PROVE  Lists(D!Rcpts(S, st), RcptSet(S, st))
<1>1. RcptSet(S, st) \subseteq {D!SetRcpt(Mailbox, st), D!SetRcpt(Outside, st)}
  BY DEF RcptSet, D!Recipients
<1>2. IsFiniteSet({D!SetRcpt(Mailbox, st)} \cup {D!SetRcpt(Outside, st)})
  BY FS_Singleton, FS_Union
<1>3. RcptSet(S, st) \subseteq {D!SetRcpt(Mailbox, st)} \cup {D!SetRcpt(Outside, st)}
  BY <1>1
<1>4. IsFiniteSet(RcptSet(S, st))
  BY <1>2, <1>3, FS_Subset
<1>5. D!Rcpts(S, st) = D!SetToSeq(RcptSet(S, st))
  BY DEF D!Rcpts, RcptSet
<1> QED BY <1>4, <1>5, ListsSet

\* The locks of the requests.
LEMMA LocksAre ==
    ASSUME NEW op \in D!Ops
    PROVE  /\ op.o \in D!Objects
           /\ op.kind \in {"create", "delete", "alias", "member", "add", "remove", "toggle", "adopt"}
           /\ op.kind = "member" => D!Locks(op) = {<<"obj", Mailbox>>, <<"member", Mailbox>>} /\ op.o = Mailbox
           /\ op.kind \in {"add", "remove", "toggle"} =>
                 op.addr \in SUBSET D!Recipients /\ D!Locks(op) = {<<"rcpt", e>> : e \in op.addr}
           /\ op.kind = "adopt" =>
                 D!Locks(op) = {<<"obj", o>> : o \in legacy} \cup {<<"member", Mailbox>>} \cup {<<"rcpt", e>> : e \in D!Recipients}
           /\ op.kind \in {"create", "delete", "alias"} =>
                 D!Locks(op) = {<<"obj", op.o>>}
                    \cup (IF op.o = Group \/ op.o = Mailbox THEN {<<"member", Mailbox>>} ELSE {})
                    \cup (IF op.o = Group /\ op.on THEN {<<"obj", Mailbox>>} ELSE {})
                    \cup (IF op.o = Mailbox /\ op.on THEN {<<"rcpt", Mailbox>>} ELSE {})
                    \cup (IF op.o = List THEN {<<"rcpt", e>> : e \in D!Recipients} ELSE {})
           /\ op.kind = "delete" => op.on = FALSE
           /\ op.kind \in {"create", "alias", "member"} => op.on \in BOOLEAN
<1>1. /\ op.o \in D!Objects
      /\ op.kind \in {"create", "delete", "alias", "member", "add", "remove", "toggle", "adopt"}
      /\ op.kind = "member" => op.o = Mailbox
      /\ op.kind \in {"add", "remove", "toggle"} => op.addr \in SUBSET D!Recipients
      /\ op.kind = "delete" => op.on = FALSE
      /\ op.kind \in {"create", "alias", "member"} => op.on \in BOOLEAN
  BY DEF D!Ops, D!Objects
<1>2. CASE op.kind = "member"
  BY <1>1, <1>2 DEF D!Locks
<1>3. CASE op.kind \in {"add", "remove", "toggle"}
  <2>1. D!Locks(op) = {<<"rcpt", e>> : e \in op.addr}
    BY <1>3 DEF D!Locks
  <2> QED BY <1>1, <1>3, <2>1
<1>4. CASE op.kind = "adopt"
  <2>1. D!Locks(op) = {<<"obj", o>> : o \in legacy} \cup {<<"member", Mailbox>>} \cup {<<"rcpt", e>> : e \in D!Recipients}
    BY <1>4 DEF D!Locks
  <2> QED BY <1>1, <1>4, <2>1
<1>5. CASE op.kind \in {"create", "delete", "alias"}
  <2>1. D!Locks(op) = {<<"obj", op.o>>}
                    \cup (IF op.o = Group \/ op.o = Mailbox THEN {<<"member", Mailbox>>} ELSE {})
                    \cup (IF op.o = Group /\ op.on THEN {<<"obj", Mailbox>>} ELSE {})
                    \cup (IF op.o = Mailbox /\ op.on THEN {<<"rcpt", Mailbox>>} ELSE {})
                    \cup (IF op.o = List THEN {<<"rcpt", e>> : e \in D!Recipients} ELSE {})
    BY <1>5 DEF D!Locks
  <2> QED BY <1>1, <1>5, <2>1
<1> QED BY <1>1, <1>2, <1>3, <1>4, <1>5

\* What is locked is a row; with a list its recipients are.
LEMMA LocksRows ==
    ASSUME NEW op \in D!Ops, legacy \subseteq D!Objects
    PROVE  /\ D!Locks(op) \subseteq DirRows
           /\ <<"obj", List>> \in D!Locks(op) => \A e \in D!Recipients : <<"rcpt", e>> \in D!Locks(op)
<1> USE LocksAre, RowsDiffer
<1>0. Mailbox \in D!Recipients
  BY DEF D!Recipients
<1>1. CASE op.kind = "member"
  <2>1. D!Locks(op) = {<<"obj", Mailbox>>, <<"member", Mailbox>>}
    BY <1>1
  <2>2. <<"obj", List>> # <<"obj", Mailbox>> /\ <<"obj", List>> # <<"member", Mailbox>>
    OBVIOUS
  <2> QED BY ONLY <2>1, <2>2, RowsDiffer
<1>2. CASE op.kind \in {"add", "remove", "toggle"}
  <2>1. D!Locks(op) = {<<"rcpt", e>> : e \in op.addr} /\ op.addr \in SUBSET D!Recipients
    BY <1>2
  <2> QED BY <2>1
<1>3. CASE op.kind = "adopt"
  <2>1. D!Locks(op) = {<<"obj", o>> : o \in legacy} \cup {<<"member", Mailbox>>} \cup {<<"rcpt", e>> : e \in D!Recipients}
    BY <1>3
  <2> QED BY <2>1
<1>4. CASE op.kind \in {"create", "delete", "alias"}
  <2>1. D!Locks(op) = {<<"obj", op.o>>}
                    \cup (IF op.o = Group \/ op.o = Mailbox THEN {<<"member", Mailbox>>} ELSE {})
                    \cup (IF op.o = Group /\ op.on THEN {<<"obj", Mailbox>>} ELSE {})
                    \cup (IF op.o = Mailbox /\ op.on THEN {<<"rcpt", Mailbox>>} ELSE {})
                    \cup (IF op.o = List THEN {<<"rcpt", e>> : e \in D!Recipients} ELSE {})
    BY <1>4
  <2>2. op.o \in D!Objects
    OBVIOUS
  <2>3. D!Locks(op) \subseteq DirRows
    BY ONLY <1>0, <2>1, <2>2, RowsDiffer
  <2>4. <<"obj", List>> # <<"obj", Mailbox>> /\ \A o, e : <<"obj", List>> # <<"member", o>> /\ <<"obj", List>> # <<"rcpt", e>>
    OBVIOUS
  <2>5. <<"obj", List>> \in D!Locks(op) => <<"obj", List>> = <<"obj", op.o>>
    BY ONLY <2>1, <2>4
  <2>6. <<"obj", List>> = <<"obj", op.o>> => op.o = List
    OBVIOUS
  <2>7. op.o = List => \A e \in D!Recipients : <<"rcpt", e>> \in D!Locks(op)
    BY ONLY <2>1
  <2> QED BY <2>3, <2>5, <2>6, <2>7
<1> QED BY <1>1, <1>2, <1>3, <1>4

\* A creation writes the object and what is named with it.
LEMMA CreatePlans ==
    ASSUME NEW r, NEW seen, r.op \in D!Ops, r.op.kind = "create", ~D!Refused(r.op),
           r.writes = D!Writes(r.op, seen), r.todo = D!Pushes(r.op, r.writes, seen), ~r.pushed
    PROVE  WellWritten(r) /\ CreatesFirst(r) /\ Supposes(r) /\ DoneOf(r) = {}
<1> DEFINE o == r.op.o
           first == D!SetObj(o, D!Present(r.op.addr))
           rest == IF r.op.on THEN D!Named(o) ELSE <<>>
           Locks == D!Locks(r.op)
<1>1. o \in D!Objects /\ r.op.on \in BOOLEAN
  BY LocksAre
<1>2. r.writes = <<first>> \o rest /\ r.todo = r.writes
  BY DEF D!Writes, D!Pushes
<1>3. ~db.obj[o].exists /\ (r.op.on /\ o = Group => db.obj[Mailbox].exists)
  BY DEF D!Refused
<1>4. Locks = {<<"obj", o>>}
              \cup (IF o = Group \/ o = Mailbox THEN {<<"member", Mailbox>>} ELSE {})
              \cup (IF o = Group /\ r.op.on THEN {<<"obj", Mailbox>>} ELSE {})
              \cup (IF o = Mailbox /\ r.op.on THEN {<<"rcpt", Mailbox>>} ELSE {})
              \cup (IF o = List THEN {<<"rcpt", e>> : e \in D!Recipients} ELSE {})
  BY LocksAre
<1> DEFINE Names(N) == /\ Lists(rest, N) /\ (~r.op.on => N = {})
                       /\ o = Mailbox => \A w \in N : w = D!SetRcpt(Mailbox, "on")
                       /\ o = Group => \A w \in N : w = D!SetMember(TRUE)
                       /\ o = List => \A w \in N : w \in RcptSet(D!Recipients, "on")
<1>5. PICK N : Names(N)
  <2>1. CASE ~r.op.on
    <3>1. rest = <<>>
      BY <2>1
    <3> HIDE DEF rest
    <3>2. Lists(rest, {})
      BY <3>1, ListsNone
    <3>3. Names({})
      BY <3>2
    <3> HIDE DEF Names
    <3> QED BY <3>3
  <2>2. CASE r.op.on /\ o = Mailbox /\ db.rcpt[Mailbox] = "none"
    <3>1. rest = <<D!SetRcpt(Mailbox, "on")>>
      BY <2>2, RowsDiffer DEF D!Named
    <3> HIDE DEF rest
    <3> QED BY <2>2, <3>1, ListsOne, RowsDiffer
  <2>3. CASE r.op.on /\ o = Mailbox /\ db.rcpt[Mailbox] # "none"
    <3>1. rest = <<>>
      BY <2>3, RowsDiffer DEF D!Named
    <3> HIDE DEF rest
    <3>2. Lists(rest, {})
      BY <3>1, ListsNone
    <3>3. Names({})
      BY <3>2
    <3> HIDE DEF Names
    <3> QED BY <3>3
  <2>4. CASE r.op.on /\ o = Group
    <3>1. rest = <<D!SetMember(TRUE)>>
      BY <2>4, RowsDiffer DEF D!Named
    <3> HIDE DEF rest
    <3> QED BY <2>4, <3>1, ListsOne, RowsDiffer
  <2>5. CASE r.op.on /\ o = List
    <3>1. rest = D!Rcpts(D!Recipients, "on")
      BY <2>5, RowsDiffer DEF D!Named
    <3> HIDE DEF rest
    <3>2. Lists(rest, RcptSet(D!Recipients, "on"))
      BY <3>1, ListsRcpts
    <3> QED BY <2>5, <3>2, RowsDiffer
  <2> QED BY <1>1, <2>1, <2>2, <2>3, <2>4, <2>5, RowsDiffer
<1> DEFINE W == {first} \cup N
<1>6. first.kind = "obj" /\ first.o = o /\ first.val.exists
  BY SetIs
<1>7. \A w \in N : /\ r.op.on /\ w.kind # "obj"
                   /\ o = Mailbox => w = D!SetRcpt(Mailbox, "on") /\ w.kind = "rcpt" /\ w.o = Mailbox
                   /\ o = Group => w = D!SetMember(TRUE) /\ w.kind = "member" /\ w.o = Mailbox
                   /\ o = List => \E e \in D!Recipients : w = D!SetRcpt(e, "on") /\ w.kind = "rcpt" /\ w.o = e
  <2> SUFFICES ASSUME NEW w \in N
               PROVE  /\ r.op.on /\ w.kind # "obj"
                      /\ o = Mailbox => w = D!SetRcpt(Mailbox, "on") /\ w.kind = "rcpt" /\ w.o = Mailbox
                      /\ o = Group => w = D!SetMember(TRUE) /\ w.kind = "member" /\ w.o = Mailbox
                      /\ o = List => \E e \in D!Recipients : w = D!SetRcpt(e, "on") /\ w.kind = "rcpt" /\ w.o = e
    OBVIOUS
  <2>0. r.op.on
    BY <1>1, <1>5
  <2>1. CASE o = Mailbox
    <3>1. w = D!SetRcpt(Mailbox, "on")
      BY <1>5, <2>1
    <3>2. w.kind = "rcpt" /\ w.o = Mailbox
      BY <3>1, SetIs
    <3> QED BY <2>0, <2>1, <3>1, <3>2, RowsDiffer
  <2>2. CASE o = Group
    <3>1. w = D!SetMember(TRUE)
      BY <1>5, <2>2
    <3>2. w.kind = "member" /\ w.o = Mailbox
      BY <3>1, SetIs
    <3> QED BY <2>0, <2>2, <3>1, <3>2, RowsDiffer
  <2>3. CASE o = List
    <3>1. w \in RcptSet(D!Recipients, "on")
      BY <1>5, <2>3
    <3>2. PICK e \in D!Recipients : w = D!SetRcpt(e, "on")
      BY <3>1 DEF RcptSet
    <3>3. w.kind = "rcpt" /\ w.o = e
      BY <3>2, SetIs
    <3>4. \E f \in D!Recipients : w = D!SetRcpt(f, "on") /\ w.kind = "rcpt" /\ w.o = f
      BY <3>2, <3>3
    <3>5. w.kind # "obj"
      BY <3>3
    <3> QED BY <2>0, <2>3, <3>4, <3>5, RowsDiffer
  <2> QED BY <1>1, <2>1, <2>2, <2>3, RowsDiffer
<1> HIDE DEF first, rest
<1>8. Lists(r.writes, W)
  <2>1. {first} \cap N = {}
    BY <1>6, <1>7
  <2>2. Lists(<<first>>, {first})
    BY ListsOne
  <2>3. Lists(rest, N)
    BY <1>5
  <2> QED BY <1>2, <2>1, <2>2, <2>3, ListsJoin
<1>9. WritesOf(r) = W /\ TodoOf(r) = W /\ DoneOf(r) = {} /\ Lists(r.todo, W)
  BY <1>2, <1>8 DEF WritesOf, TodoOf, DoneOf, Lists
<1>10. Reach(first) \subseteq Locks /\ Reach(first) \subseteq DirRows
  <2>1. Reach(first) = {<<"obj", o>>} \cup (IF o = Mailbox THEN {<<"member", Mailbox>>} ELSE {})
                        \cup (IF o = List THEN {<<"rcpt", e>> : e \in D!Recipients} ELSE {})
    BY ReachIs DEF first
  <2>2. Reach(first) \subseteq Locks
    BY <1>4, <2>1
  <2>3. Reach(first) \subseteq DirRows
    BY <1>1, <2>1, RowsDiffer
  <2> QED BY <2>2, <2>3
<1>11. ASSUME NEW w \in N PROVE Reach(w) \subseteq Locks /\ Reach(w) \subseteq DirRows
  <2>0. Mailbox \in D!Recipients
    BY DEF D!Recipients
  <2>1. CASE o = Mailbox
    <3>0. w = D!SetRcpt(Mailbox, "on") /\ r.op.on
      BY <1>7, <2>1
    <3>1. Reach(w) = {<<"rcpt", Mailbox>>}
      BY <3>0, ReachIs
    <3>2. <<"rcpt", Mailbox>> \in Locks
      BY <1>4, <2>1, <3>0
    <3>3. <<"rcpt", Mailbox>> \in DirRows
      BY <2>0, RowsDiffer
    <3> QED BY <3>1, <3>2, <3>3
  <2>2. CASE o = Group
    <3>0. w = D!SetMember(TRUE) /\ r.op.on
      BY <1>7, <2>2
    <3>1. Reach(w) = {<<"member", Mailbox>>}
      BY <3>0, ReachIs
    <3>2. <<"member", Mailbox>> \in Locks
      BY <1>4, <2>2
    <3>3. <<"member", Mailbox>> \in DirRows
      BY RowsDiffer
    <3> QED BY <3>1, <3>2, <3>3
  <2>3. CASE o = List
    <3>1. PICK e \in D!Recipients : w = D!SetRcpt(e, "on")
      BY <1>7, <2>3
    <3>2. Reach(w) = {<<"rcpt", e>>}
      BY <3>1, ReachIs
    <3>3. <<"rcpt", e>> \in Locks
      BY <1>4, <2>3
    <3>4. <<"rcpt", e>> \in DirRows
      BY RowsDiffer
    <3> QED BY <3>2, <3>3, <3>4
  <2> QED BY <1>1, <2>1, <2>2, <2>3, RowsDiffer
<1>12. ASSUME NEW w \in W, NEW v \in W, w.kind = v.kind, w.o = v.o PROVE w = v
  <2>1. CASE w = first
    <3>1. v = first
      BY <1>6, <1>7, <1>12, <2>1
    <3> QED BY <2>1, <3>1
  <2>2. CASE w \in N
    <3>1. v \in N
      BY <1>6, <1>7, <1>12, <2>2
    <3>2. CASE o = Mailbox
      BY <1>7, <2>2, <3>1, <3>2
    <3>3. CASE o = Group
      BY <1>7, <2>2, <3>1, <3>3
    <3>4. CASE o = List
      <4>1. w = D!SetRcpt(w.o, "on") /\ v = D!SetRcpt(v.o, "on")
        BY <1>7, <2>2, <3>1, <3>4
      <4> QED BY <1>12, <4>1
    <3> QED BY <1>1, <3>2, <3>3, <3>4, RowsDiffer
  <2> QED BY <2>1, <2>2
<1>13. WellWritten(r)
  BY <1>6, <1>7, <1>9, <1>10, <1>11, <1>12 DEF WellWritten
<1>14. r.todo # <<>> /\ r.todo[1] = first
  <2>1. rest \in Seq(N)
    BY <1>5 DEF Lists
  <2>2. r.todo = <<first>> \o rest
    BY <1>2
  <2>3. rest \in Seq(W) /\ <<first>> \in Seq(W) /\ Len(<<first>>) = 1 /\ <<first>>[1] = first
    BY <2>1
  <2>4. (<<first>> \o rest)[1] = first /\ Len(<<first>> \o rest) = 1 + Len(rest)
    BY <2>3
  <2>5. Len(rest) \in Nat
    BY <2>1
  <2>6. r.todo # <<>>
    BY <2>2, <2>4, <2>5
  <2> QED BY <2>2, <2>4, <2>6
<1>15. ASSUME NEW i \in 1 .. Len(r.todo), r.todo[i].kind = "obj" PROVE i = 1
  <2>1. r.todo \in Seq(W) /\ 1 \in 1 .. Len(r.todo)
    BY <1>9, <1>14 DEF Lists
  <2>2. r.todo[i] \in W
    BY <2>1
  <2>3. r.todo[i] = r.todo[1]
    BY <1>7, <1>14, <1>15, <2>2
  <2> QED BY <1>9, <2>1, <2>3 DEF Lists
<1>16. D!Of(W, "obj", o) # {}
  BY <1>6 DEF D!Of
<1>17. CreatesFirst(r)
  BY <1>3, <1>6, <1>7, <1>9, <1>14, <1>15, <1>16 DEF CreatesFirst
<1>18. Supposes(r)
  <2>1. ASSUME NEW w \in W, w.kind = "member" PROVE db.obj[Mailbox].exists /\ <<"obj", Mailbox>> \in Locks
    <3>1. w \in N /\ r.op.on /\ o = Group
      BY <1>1, <1>6, <1>7, <2>1, RowsDiffer
    <3> QED BY <1>3, <1>4, <3>1
  <2>2. <<"obj", List>> \in Locks => o = List
    <3>1. <<"obj", List>> # <<"obj", Mailbox>> /\ \A x, e : <<"obj", List>> # <<"member", x>> /\ <<"obj", List>> # <<"rcpt", e>>
      BY RowsDiffer
    <3>2. <<"obj", List>> \in Locks => <<"obj", List>> = <<"obj", o>>
      BY ONLY <1>4, <3>1
    <3> QED BY <3>2
  <2>3. ASSUME NEW w \in W, w.kind = "obj" PROVE w.val.exists /\ D!HeldBy(db, w.o) \subseteq {w.o} \cup w.val.aliases
    BY <1>3, <1>6, <1>7, <2>3 DEF D!HeldBy
  <2> QED BY <1>9, <1>16, <2>1, <2>2, <2>3 DEF Supposes
<1> QED BY <1>9, <1>13, <1>17, <1>18

\* Recipients are written within their locks.
LEMMA RcptPlans ==
    ASSUME NEW r, NEW On, NEW Off, NEW None2, r.op \in D!Ops, r.op.kind \in {"add", "remove", "toggle"},
           On \cup Off \cup None2 \subseteq r.op.addr, On \cap Off = {}, On \cap None2 = {}, Off \cap None2 = {},
           WritesOf(r) = RcptSet(On, "on") \cup RcptSet(Off, "off") \cup RcptSet(None2, "none"),
           Lists(r.todo, TodoOf(r)), TodoOf(r) \subseteq WritesOf(r), \A w \in DoneOf(r) : w.status = "none"
    PROVE  WellWritten(r) /\ CreatesFirst(r) /\ Supposes(r)
<1> DEFINE W == WritesOf(r)
<1>1. r.op.addr \in SUBSET D!Recipients /\ D!Locks(r.op) = {<<"rcpt", e>> : e \in r.op.addr}
  BY LocksAre
<1>2. \A w \in W : \E e \in r.op.addr : \E st \in {"on", "off", "none"} :
        w = D!SetRcpt(e, st) /\ w.kind = "rcpt" /\ w.o = e
  BY SetIs DEF RcptSet
<1>3. ASSUME NEW w \in W PROVE Reach(w) \subseteq D!Locks(r.op) /\ Reach(w) \subseteq DirRows
  <2>1. PICK e \in r.op.addr, st \in {"on", "off", "none"} : w = D!SetRcpt(e, st)
    BY <1>2
  <2>2. Reach(w) = {<<"rcpt", e>>}
    BY <2>1, ReachIs
  <2>3. <<"rcpt", e>> \in D!Locks(r.op) /\ <<"rcpt", e>> \in DirRows
    BY <1>1, RowsDiffer
  <2> QED BY <2>2, <2>3
<1>4. ASSUME NEW w \in W, NEW v \in W, w.o = v.o PROVE w = v
  <2>1. \A x \in W : \/ x.o \in On /\ x = D!SetRcpt(x.o, "on")
                     \/ x.o \in Off /\ x = D!SetRcpt(x.o, "off")
                     \/ x.o \in None2 /\ x = D!SetRcpt(x.o, "none")
    BY SetIs DEF RcptSet
  <2> HIDE DEF W
  <2> QED BY <1>4, <2>1
<1>5. \A w \in W : w.kind = "rcpt"
  BY <1>2
<1>6. <<"obj", List>> \notin D!Locks(r.op)
  <2>1. \A e : <<"obj", List>> # <<"rcpt", e>>
    OBVIOUS
  <2> QED BY ONLY <1>1, <2>1
<1> HIDE DEF WritesOf
<1>7. WellWritten(r)
  BY <1>3, <1>4, <1>5 DEF WellWritten
<1>8. CreatesFirst(r)
  BY DEF CreatesFirst
<1>9. Supposes(r)
  BY <1>5, <1>6 DEF Supposes
<1> QED BY <1>7, <1>8, <1>9

\* A request that pushes what it writes has nothing done at first.
LEMMA AllToDo ==
    ASSUME NEW r, NEW W, Lists(r.writes, W), r.todo = r.writes
    PROVE  WritesOf(r) = W /\ TodoOf(r) = W /\ DoneOf(r) = {} /\ Lists(r.todo, TodoOf(r))
  BY DEF WritesOf, TodoOf, DoneOf, Lists

\* An alias is a new value of its object.
LEMMA AliasPlans ==
    ASSUME NEW r, NEW seen, r.op \in D!Ops, r.op.kind = "alias",
           r.writes = D!Writes(r.op, seen), r.todo = D!Pushes(r.op, r.writes, seen)
    PROVE  WellWritten(r) /\ CreatesFirst(r) /\ Supposes(r) /\ DoneOf(r) = {}
<1> DEFINE o == r.op.o
           now == IF r.op.on THEN db.obj[o].aliases \cup r.op.addr ELSE db.obj[o].aliases \ r.op.addr
           w == D!SetObj(o, D!Present(now))
           Locks == D!Locks(r.op)
<1>1. o \in D!Objects /\ r.op.on \in BOOLEAN
  BY LocksAre
<1>2. r.writes = <<w>> /\ r.todo = r.writes
  BY DEF D!Writes, D!Pushes, D!ChangeAlias
<1>3. w.kind = "obj" /\ w.o = o /\ w.val.exists /\ w.val.aliases = now
  BY SetIs
<1>4. Reach(w) = {<<"obj", o>>} \cup (IF o = Mailbox THEN {<<"member", Mailbox>>} ELSE {})
                 \cup (IF o = List THEN {<<"rcpt", e>> : e \in D!Recipients} ELSE {})
  BY ReachIs
<1>5. Reach(w) \subseteq Locks
  <2>1. Locks = {<<"obj", o>>}
              \cup (IF o = Group \/ o = Mailbox THEN {<<"member", Mailbox>>} ELSE {})
              \cup (IF o = Group /\ r.op.on THEN {<<"obj", Mailbox>>} ELSE {})
              \cup (IF o = Mailbox /\ r.op.on THEN {<<"rcpt", Mailbox>>} ELSE {})
              \cup (IF o = List THEN {<<"rcpt", e>> : e \in D!Recipients} ELSE {})
    BY LocksAre
  <2> HIDE DEF o, w, Locks
  <2> QED BY ONLY <1>4, <2>1
<1>6. Reach(w) \subseteq DirRows
  <2> HIDE DEF o, w
  <2> QED BY <1>1, <1>4, RowsDiffer
<1>7. LetsGo(r.op) \/ D!HeldBy(db, o) \subseteq {o} \cup now
  BY <1>1 DEF LetsGo, D!HeldBy
<1> HIDE DEF w
<1>8. Lists(r.writes, {w})
  BY <1>2, ListsOne
<1>9. WritesOf(r) = {w} /\ TodoOf(r) = {w} /\ DoneOf(r) = {} /\ Lists(r.todo, TodoOf(r))
  BY <1>2, <1>8, AllToDo
<1>10. WellWritten(r)
  BY <1>3, <1>5, <1>6, <1>9 DEF WellWritten
<1>11. CreatesFirst(r)
  BY DEF CreatesFirst
<1>12. Supposes(r)
  BY <1>3, <1>7, <1>9 DEF Supposes
<1> QED BY <1>9, <1>10, <1>11, <1>12

\* A membership is one row of an account that is there.
LEMMA MemberPlans ==
    ASSUME NEW r, NEW seen, r.op \in D!Ops, r.op.kind = "member", ~D!Refused(r.op),
           r.writes = D!Writes(r.op, seen), r.todo = D!Pushes(r.op, r.writes, seen)
    PROVE  WellWritten(r) /\ CreatesFirst(r) /\ Supposes(r) /\ DoneOf(r) = {}
<1> DEFINE w == D!SetMember(r.op.on)
           Locks == D!Locks(r.op)
<1>1. r.op.o = Mailbox /\ Locks = {<<"obj", Mailbox>>, <<"member", Mailbox>>}
  BY LocksAre
<1>2. r.writes = <<w>> /\ r.todo = r.writes
  BY DEF D!Writes, D!Pushes
<1>3. w.kind = "member" /\ w.o = Mailbox
  BY SetIs
<1>4. Reach(w) = {<<"member", Mailbox>>}
  BY ReachIs
<1>5. db.obj[Mailbox].exists
  BY <1>1 DEF D!Refused
<1> HIDE DEF w
<1>6. Reach(w) \subseteq Locks /\ Reach(w) \subseteq DirRows
  BY <1>1, <1>4, RowsDiffer
<1>8. Lists(r.writes, {w})
  BY <1>2, ListsOne
<1>9. WritesOf(r) = {w} /\ TodoOf(r) = {w} /\ DoneOf(r) = {} /\ Lists(r.todo, TodoOf(r))
  BY <1>2, <1>8, AllToDo
<1>10. WellWritten(r)
  BY <1>3, <1>6, <1>9 DEF WellWritten
<1>11. CreatesFirst(r)
  BY DEF CreatesFirst
<1>12. Supposes(r)
  BY <1>1, <1>3, <1>5, <1>9 DEF Supposes
<1> QED BY <1>9, <1>10, <1>11, <1>12

\* A deletion is one row, and the membership for a group.
LEMMA DeletePlans ==
    ASSUME NEW r, NEW seen, r.op \in D!Ops, r.op.kind = "delete",
           r.writes = D!Writes(r.op, seen), r.todo = D!Pushes(r.op, r.writes, seen)
    PROVE  WellWritten(r) /\ CreatesFirst(r) /\ Supposes(r) /\ DoneOf(r) = {}
<1> DEFINE o == r.op.o
           w == D!SetObj(o, D!Absent)
           m == D!SetMember(FALSE)
           W == IF o = Group THEN {m} \cup {w} ELSE {w}
           Locks == D!Locks(r.op)
<1>1. o \in D!Objects /\ r.op.on = FALSE /\ LetsGo(r.op)
  BY LocksAre DEF LetsGo
<1>2. r.writes = (IF o = Group THEN <<m>> ELSE <<>>) \o <<w>> /\ r.todo = r.writes
  BY DEF D!Writes, D!Pushes, D!RemoveObject
<1>3. w.kind = "obj" /\ w.o = o /\ w.val = D!Absent /\ m.kind = "member" /\ m.o = Mailbox /\ m.status = "none"
  <2>1. w.kind = "obj" /\ w.o = o /\ w.val = D!Absent
    BY SetIs
  <2>2. m.kind = "member" /\ m.o = Mailbox /\ m.status = "none"
    BY SetIs
  <2> QED BY <2>1, <2>2
<1>4. Reach(w) = {<<"obj", o>>} \cup (IF o = Mailbox THEN {<<"member", Mailbox>>} ELSE {})
                 \cup (IF o = List THEN {<<"rcpt", e>> : e \in D!Recipients} ELSE {})
  BY ReachIs
<1>5. Reach(m) = {<<"member", Mailbox>>}
  BY ReachIs
<1> HIDE DEF w, m
<1>6. Locks = {<<"obj", o>>}
              \cup (IF o = Group \/ o = Mailbox THEN {<<"member", Mailbox>>} ELSE {})
              \cup (IF o = Group /\ r.op.on THEN {<<"obj", Mailbox>>} ELSE {})
              \cup (IF o = Mailbox /\ r.op.on THEN {<<"rcpt", Mailbox>>} ELSE {})
              \cup (IF o = List THEN {<<"rcpt", e>> : e \in D!Recipients} ELSE {})
  BY LocksAre
<1>7. Reach(w) \subseteq Locks /\ (o = Group => Reach(m) \subseteq Locks)
  <2> HIDE DEF o, Locks
  <2> QED BY ONLY <1>4, <1>5, <1>6
<1>8. Reach(w) \subseteq DirRows /\ Reach(m) \subseteq DirRows
  BY <1>1, <1>4, <1>5, RowsDiffer
<1>9. Lists(r.writes, W)
  <2>1. Lists(<<w>>, {w}) /\ Lists(<<m>>, {m}) /\ Lists(<<>>, {})
    BY ListsOne, ListsNone
  <2>2. CASE o = Group
    <3>1. {m} \cap {w} = {}
      BY <1>3
    <3>2. Lists(<<m>> \o <<w>>, {m} \cup {w})
      BY <2>1, <3>1, ListsJoin
    <3> QED BY <1>2, <2>2, <3>2
  <2>3. CASE o # Group
    <3>1. Lists(<<>> \o <<w>>, {} \cup {w})
      BY <2>1, ListsJoin
    <3>2. {} \cup {w} = {w}
      OBVIOUS
    <3> QED BY <1>2, <2>3, <3>1, <3>2
  <2> QED BY <2>2, <2>3
<1>10. WritesOf(r) = W /\ TodoOf(r) = W /\ DoneOf(r) = {} /\ Lists(r.todo, TodoOf(r))
  <2> HIDE DEF W
  <2> QED BY <1>2, <1>9, AllToDo
<1>11. WellWritten(r)
  <2>1. \A x \in W : Reach(x) \subseteq Locks /\ Reach(x) \subseteq DirRows
    BY <1>7, <1>8
  <2>2. \A x, y \in W : x.kind = y.kind => x = y
    BY <1>3
  <2>3. \A x \in W : x.kind = "obj" => x = w /\ x.val = D!Absent /\ (x.o # Group => W = {x})
    BY <1>3
  <2> HIDE DEF W, Locks
  <2> QED BY <1>10, <2>1, <2>2, <2>3 DEF WellWritten, Locks
<1>12. CreatesFirst(r)
  BY DEF CreatesFirst
<1>13. Supposes(r)
  BY <1>1, <1>3, <1>10 DEF Supposes
<1> QED BY <1>10, <1>11, <1>12, <1>13

\* Recipients that are added or switched.
LEMMA AddPlans ==
    ASSUME NEW r, NEW seen, r.op \in D!Ops, r.op.kind \in {"add", "toggle"},
           r.writes = D!Writes(r.op, seen), r.todo = D!Pushes(r.op, r.writes, seen)
    PROVE  WellWritten(r) /\ CreatesFirst(r) /\ Supposes(r) /\ DoneOf(r) = {}
<1>1. r.op.addr \in SUBSET D!Recipients /\ r.todo = r.writes
  BY LocksAre DEF D!Pushes
<1>2. CASE r.op.kind = "add"
  <2> DEFINE S == {e \in r.op.addr : seen.rcpt[e] = "none" /\ db.rcpt[e] = "none"}
  <2>1. r.writes = D!Rcpts(S, "on")
    BY <1>2 DEF D!Writes, D!AddRecipients
  <2>2. S \in SUBSET D!Recipients /\ S \subseteq r.op.addr
    BY <1>1
  <2> HIDE DEF S
  <2>3. Lists(r.writes, RcptSet(S, "on"))
    BY <2>1, <2>2, ListsRcpts
  <2>4. WritesOf(r) = RcptSet(S, "on") /\ TodoOf(r) = WritesOf(r) /\ DoneOf(r) = {} /\ Lists(r.todo, TodoOf(r))
    BY <1>1, <2>3, AllToDo
  <2>5. WritesOf(r) = RcptSet(S, "on") \cup RcptSet({}, "off") \cup RcptSet({}, "none")
    BY <2>4 DEF RcptSet
  <2>6. S \cup {} \cup {} \subseteq r.op.addr
    BY <2>2
  <2> QED BY <2>4, <2>5, <2>6, RcptPlans
<1>3. CASE r.op.kind = "toggle"
  <2> DEFINE S == {e \in r.op.addr : db.rcpt[e] = "on"}
             T == {e \in r.op.addr : db.rcpt[e] = "off"}
  <2>1. r.writes = D!Rcpts(S, "off") \o D!Rcpts(T, "on")
    BY <1>3 DEF D!Writes, D!Toggle
  <2>2. S \in SUBSET D!Recipients /\ T \in SUBSET D!Recipients /\ S \subseteq r.op.addr /\ T \subseteq r.op.addr /\ S \cap T = {}
    BY <1>1
  <2> HIDE DEF S, T
  <2>3. Lists(D!Rcpts(S, "off"), RcptSet(S, "off")) /\ Lists(D!Rcpts(T, "on"), RcptSet(T, "on"))
    BY <2>2, ListsRcpts
  <2>4. RcptSet(S, "off") \cap RcptSet(T, "on") = {}
    <3>1. \A x \in RcptSet(S, "off") : x.status = "off"
      BY SetIs DEF RcptSet
    <3>2. \A x \in RcptSet(T, "on") : x.status = "on"
      BY SetIs DEF RcptSet
    <3> QED BY <3>1, <3>2
  <2>5. Lists(r.writes, RcptSet(S, "off") \cup RcptSet(T, "on"))
    BY <2>1, <2>3, <2>4, ListsJoin
  <2>6. WritesOf(r) = RcptSet(S, "off") \cup RcptSet(T, "on") /\ TodoOf(r) = WritesOf(r) /\ DoneOf(r) = {} /\ Lists(r.todo, TodoOf(r))
    BY <1>1, <2>5, AllToDo
  <2>7. WritesOf(r) = RcptSet(T, "on") \cup RcptSet(S, "off") \cup RcptSet({}, "none")
    BY <2>6 DEF RcptSet
  <2>8. T \cup S \cup {} \subseteq r.op.addr /\ T \cap S = {}
    BY <2>2
  <2> QED BY <2>6, <2>7, <2>8, RcptPlans
<1> QED BY <1>2, <1>3

\* Recipients that are removed: those that are not pushed are disabled.
LEMMA RemovePlans ==
    ASSUME NEW r, NEW seen, r.op \in D!Ops, r.op.kind = "remove", ~D!Outdated(r.op, seen),
           r.writes = D!Writes(r.op, seen), r.todo = D!Pushes(r.op, r.writes, seen)
    PROVE  /\ WellWritten(r) /\ CreatesFirst(r) /\ Supposes(r)
           /\ \A w \in DoneOf(r) : w.kind = "rcpt" /\ w.status = "none" /\ w.o \in D!Recipients /\ db.rcpt[w.o] # "on"
<1> DEFINE S == {e \in r.op.addr : seen.rcpt[e] # "none"}
           T == {e \in r.op.addr : seen.rcpt[e] = "on"}
<1>1. r.op.addr \in SUBSET D!Recipients
  BY LocksAre
<1>2. r.writes = D!Rcpts(S, "none") /\ r.todo = D!Rcpts(T, "none")
  BY DEF D!Writes, D!Pushes, D!RemoveRecipients
<1>3. T \subseteq S /\ S \subseteq r.op.addr /\ S \in SUBSET D!Recipients /\ T \in SUBSET D!Recipients
  BY <1>1
<1>4. \A e \in S \ T : db.rcpt[e] # "on" /\ e \in D!Recipients
  BY <1>1 DEF D!Outdated
<1> HIDE DEF S, T
<1>5. Lists(r.writes, RcptSet(S, "none")) /\ Lists(r.todo, RcptSet(T, "none"))
  BY <1>2, <1>3, ListsRcpts
<1>6. WritesOf(r) = RcptSet(S, "none") /\ TodoOf(r) = RcptSet(T, "none") /\ Lists(r.todo, TodoOf(r))
  BY <1>5 DEF Lists, WritesOf, TodoOf
<1>7. TodoOf(r) \subseteq WritesOf(r)
  BY <1>3, <1>6 DEF RcptSet
<1>8. ASSUME NEW w \in DoneOf(r) PROVE w.kind = "rcpt" /\ w.status = "none" /\ w.o \in S \ T
  <2>1. PICK e \in S : w = D!SetRcpt(e, "none")
    BY <1>6 DEF DoneOf, RcptSet
  <2>2. w.kind = "rcpt" /\ w.status = "none" /\ w.o = e
    BY <2>1, SetIs
  <2>3. e \notin T
    BY <1>6, <2>1 DEF DoneOf, RcptSet
  <2> QED BY <2>2, <2>3
<1>9. WritesOf(r) = RcptSet({}, "on") \cup RcptSet({}, "off") \cup RcptSet(S, "none")
  BY <1>6 DEF RcptSet
<1>10. {} \cup {} \cup S \subseteq r.op.addr
  BY <1>3
<1>11. WellWritten(r) /\ CreatesFirst(r) /\ Supposes(r)
  BY <1>6, <1>7, <1>8, <1>9, <1>10, RcptPlans
<1> QED BY <1>4, <1>8, <1>11

\* All that the cluster had.
OldWrites == {D!SetObj(o, OldCluster.obj[o]) : o \in D!Objects} \cup {D!SetMember(TRUE)} \cup RcptSet(D!Recipients, "on")

\* One write for each row.
LEMMA OldWritesAre ==
    /\ \A o \in D!Objects : D!Of(OldWrites, "obj", o) = {D!SetObj(o, OldCluster.obj[o])}
    /\ D!Of(OldWrites, "member", Mailbox) = {D!SetMember(TRUE)}
    /\ \A e \in D!Recipients : D!Of(OldWrites, "rcpt", e) = {D!SetRcpt(e, "on")}
    /\ \A w \in OldWrites : w.kind = "obj" => w.val.exists
    /\ \A w, v \in OldWrites : w.kind = v.kind /\ w.o = v.o => w = v
    /\ \A w \in OldWrites : Reach(w) \subseteq DirRows
<1>1. \A w \in OldWrites : \/ \E o \in D!Objects : w = D!SetObj(o, OldCluster.obj[o]) /\ w.kind = "obj" /\ w.o = o /\ w.val = OldCluster.obj[o]
                           \/ w = D!SetMember(TRUE) /\ w.kind = "member" /\ w.o = Mailbox
                           \/ \E e \in D!Recipients : w = D!SetRcpt(e, "on") /\ w.kind = "rcpt" /\ w.o = e
  <2> SUFFICES ASSUME NEW w \in OldWrites
               PROVE  \/ \E o \in D!Objects : w = D!SetObj(o, OldCluster.obj[o]) /\ w.kind = "obj" /\ w.o = o /\ w.val = OldCluster.obj[o]
                      \/ w = D!SetMember(TRUE) /\ w.kind = "member" /\ w.o = Mailbox
                      \/ \E e \in D!Recipients : w = D!SetRcpt(e, "on") /\ w.kind = "rcpt" /\ w.o = e
    OBVIOUS
  <2>1. CASE \E o \in D!Objects : w = D!SetObj(o, OldCluster.obj[o])
    <3>1. PICK o \in D!Objects : w = D!SetObj(o, OldCluster.obj[o])
      BY <2>1
    <3>2. w.kind = "obj" /\ w.o = o /\ w.val = OldCluster.obj[o]
      BY <3>1, SetIs
    <3> QED BY <3>1, <3>2
  <2>2. CASE w = D!SetMember(TRUE)
    BY <2>2, SetIs
  <2>3. CASE \E e \in D!Recipients : w = D!SetRcpt(e, "on")
    <3>1. PICK e \in D!Recipients : w = D!SetRcpt(e, "on")
      BY <2>3
    <3>2. w.kind = "rcpt" /\ w.o = e
      BY <3>1, SetIs
    <3> QED BY <3>1, <3>2
  <2> QED BY <2>1, <2>2, <2>3 DEF OldWrites, RcptSet
<1>2. ASSUME NEW o \in D!Objects PROVE D!Of(OldWrites, "obj", o) = {D!SetObj(o, OldCluster.obj[o])}
  <2> DEFINE x == D!SetObj(o, OldCluster.obj[o])
  <2>0. x \in OldWrites
    BY DEF OldWrites
  <2>1. x \in OldWrites /\ x.kind = "obj" /\ x.o = o
    BY <2>0, SetIs
  <2>2. \A w \in OldWrites : w.kind = "obj" /\ w.o = o => w = x
    BY <1>1
  <2> HIDE DEF x
  <2>3. D!Of(OldWrites, "obj", o) = {x}
    BY <2>1, <2>2 DEF D!Of
  <2> QED BY <2>3 DEF x
<1>3. D!Of(OldWrites, "member", Mailbox) = {D!SetMember(TRUE)}
  <2> DEFINE x == D!SetMember(TRUE)
  <2>1. x \in OldWrites /\ x.kind = "member" /\ x.o = Mailbox
    BY SetIs DEF OldWrites
  <2>2. \A w \in OldWrites : w.kind = "member" => w = x
    BY <1>1
  <2> HIDE DEF x
  <2>3. D!Of(OldWrites, "member", Mailbox) = {x}
    BY <2>1, <2>2 DEF D!Of
  <2> QED BY <2>3 DEF x
<1>4. ASSUME NEW e \in D!Recipients PROVE D!Of(OldWrites, "rcpt", e) = {D!SetRcpt(e, "on")}
  <2> DEFINE x == D!SetRcpt(e, "on")
  <2>0. x \in OldWrites
    BY DEF OldWrites, RcptSet
  <2>1. x \in OldWrites /\ x.kind = "rcpt" /\ x.o = e
    BY <2>0, SetIs
  <2>2. \A w \in OldWrites : w.kind = "rcpt" /\ w.o = e => w = x
    BY <1>1
  <2> HIDE DEF x
  <2>3. D!Of(OldWrites, "rcpt", e) = {x}
    BY <2>1, <2>2 DEF D!Of
  <2> QED BY <2>3 DEF x
<1>5. \A w \in OldWrites : w.kind = "obj" => w.val.exists
  <2>1. \A o \in D!Objects : OldCluster.obj[o].exists
    BY DEF OldCluster, D!Present
  <2> QED BY <1>1, <2>1
<1>6. \A w, v \in OldWrites : w.kind = v.kind /\ w.o = v.o => w = v
  <2>1. \A w \in OldWrites : \/ w.kind = "obj" /\ w = D!SetObj(w.o, OldCluster.obj[w.o])
                             \/ w.kind = "member" /\ w = D!SetMember(TRUE)
                             \/ w.kind = "rcpt" /\ w = D!SetRcpt(w.o, "on")
    BY <1>1
  <2> SUFFICES ASSUME NEW w \in OldWrites, NEW v \in OldWrites, w.kind = v.kind, w.o = v.o PROVE w = v
    OBVIOUS
  <2>2. CASE w.kind = "obj"
    <3>1. w = D!SetObj(w.o, OldCluster.obj[w.o]) /\ v = D!SetObj(v.o, OldCluster.obj[v.o])
      BY <2>1, <2>2
    <3> QED BY <3>1
  <2>3. CASE w.kind = "member"
    <3>1. w = D!SetMember(TRUE) /\ v = D!SetMember(TRUE)
      BY <2>1, <2>3
    <3> QED BY <3>1
  <2>4. CASE w.kind = "rcpt"
    <3>1. w = D!SetRcpt(w.o, "on") /\ v = D!SetRcpt(v.o, "on")
      BY <2>1, <2>4
    <3> QED BY <3>1
  <2> QED BY <2>1, <2>2, <2>3, <2>4
<1>7. \A w \in OldWrites : Reach(w) \subseteq DirRows
  <2> SUFFICES ASSUME NEW w \in OldWrites PROVE Reach(w) \subseteq DirRows
    OBVIOUS
  <2>1. CASE \E o \in D!Objects : w = D!SetObj(o, OldCluster.obj[o])
    <3>1. PICK o \in D!Objects : w = D!SetObj(o, OldCluster.obj[o])
      BY <2>1
    <3>2. Reach(w) = {<<"obj", o>>} \cup (IF o = Mailbox THEN {<<"member", Mailbox>>} ELSE {})
                     \cup (IF o = List THEN {<<"rcpt", e>> : e \in D!Recipients} ELSE {})
      BY <3>1, ReachIs
    <3> QED BY <3>2, RowsDiffer
  <2>2. CASE w = D!SetMember(TRUE)
    <3>1. Reach(w) = {<<"member", Mailbox>>}
      BY <2>2, ReachIs
    <3> QED BY <3>1, RowsDiffer
  <2>3. CASE \E e \in D!Recipients : w = D!SetRcpt(e, "on")
    <3>1. PICK e \in D!Recipients : w = D!SetRcpt(e, "on")
      BY <2>3
    <3>2. Reach(w) = {<<"rcpt", e>>}
      BY <3>1, ReachIs
    <3> QED BY <3>2, RowsDiffer
  <2> QED BY <1>1, <2>1, <2>2, <2>3
<1> QED BY <1>2, <1>3, <1>4, <1>5, <1>6, <1>7

\* They make the directory of the cluster.
LEMMA OldWritesMake ==
    ASSUME NEW s
    PROVE  D!Write(s, OldWrites) = OldCluster
<1>1. \A x : D!The({x}) = x
  BY DEF D!The
<1>2. ASSUME NEW o \in D!Objects
      PROVE  (IF D!Of(OldWrites, "obj", o) = {} THEN s.obj[o] ELSE D!The(D!Of(OldWrites, "obj", o)).val) = OldCluster.obj[o]
  <2> DEFINE x == D!SetObj(o, OldCluster.obj[o])
  <2>1. x.val = OldCluster.obj[o]
    BY SetIs
  <2>2. D!Of(OldWrites, "obj", o) = {x}
    BY OldWritesAre
  <2> HIDE DEF x
  <2> QED BY <1>1, <2>1, <2>2
<1>3. D!Of(OldWrites, "member", Mailbox) # {} /\ D!The(D!Of(OldWrites, "member", Mailbox)).status = "on"
  <2> DEFINE x == D!SetMember(TRUE)
  <2>1. x.status = "on"
    BY SetIs
  <2>2. D!Of(OldWrites, "member", Mailbox) = {x}
    BY OldWritesAre
  <2> HIDE DEF x
  <2> QED BY <1>1, <2>1, <2>2
<1>4. ASSUME NEW e \in D!Recipients
      PROVE  D!Of(OldWrites, "rcpt", e) # {} /\ D!The(D!Of(OldWrites, "rcpt", e)).status = "on"
  <2> DEFINE x == D!SetRcpt(e, "on")
  <2>1. x.status = "on"
    BY SetIs
  <2>2. D!Of(OldWrites, "rcpt", e) = {x}
    BY OldWritesAre
  <2> HIDE DEF x
  <2> QED BY <1>1, <2>1, <2>2
<1> DEFINE f == [o \in D!Objects |-> IF D!Of(OldWrites, "obj", o) = {} THEN s.obj[o] ELSE D!The(D!Of(OldWrites, "obj", o)).val]
           m == IF D!Of(OldWrites, "member", Mailbox) = {} THEN s.member /\ ~D!Gone(OldWrites, Mailbox)
                ELSE D!The(D!Of(OldWrites, "member", Mailbox)).status = "on"
           g == [e \in D!Recipients |-> IF D!Of(OldWrites, "rcpt", e) # {} THEN D!The(D!Of(OldWrites, "rcpt", e)).status
                                        ELSE IF D!Gone(OldWrites, List) THEN "none" ELSE s.rcpt[e]]
<1>5. f = [o \in D!Objects |-> OldCluster.obj[o]] /\ [o \in D!Objects |-> OldCluster.obj[o]] = OldCluster.obj
  <2>1. f = [o \in D!Objects |-> OldCluster.obj[o]]
    BY <1>2
  <2>2. [o \in D!Objects |-> OldCluster.obj[o]] = OldCluster.obj
    BY DEF OldCluster
  <2> QED BY <2>1, <2>2
<1>6. m = TRUE
  BY <1>3
<1>7. g = [e \in D!Recipients |-> "on"]
  BY <1>4
<1>8. D!Write(s, OldWrites) = [obj |-> f, member |-> m, rcpt |-> g]
  BY DEF D!Write
<1> HIDE DEF f, m, g
<1>9. OldCluster = [obj |-> OldCluster.obj, member |-> TRUE, rcpt |-> [e \in D!Recipients |-> "on"]]
  BY DEF OldCluster
<1> QED BY <1>5, <1>6, <1>7, <1>8, <1>9

\* An adoption writes all that the cluster has, or nothing.
LEMMA AdoptPlans ==
    ASSUME NEW r, NEW seen, r.op \in D!Ops, r.op.kind = "adopt", ~D!Outdated(r.op, seen), ~r.pushed,
           r.writes = D!Writes(r.op, seen), r.todo = D!Pushes(r.op, r.writes, seen),
           legacy = {} \/ (legacy = D!Objects /\ db = D!Empty /\ cluster = OldCluster)
    PROVE  /\ WellWritten(r) /\ CreatesFirst(r) /\ AdoptsAll(r) /\ Supposes(r)
           /\ legacy = {} => DoneOf(r) = {}
<1> DEFINE Rec == D!Recorded(seen)
           Locks == D!Locks(r.op)
<1>1. r.todo = <<>> /\ seen = cluster
  BY DEF D!Pushes, D!Outdated
<1>2. TodoOf(r) = {} /\ Lists(r.todo, TodoOf(r))
  BY <1>1, ListsNone DEF TodoOf, Lists
<1>3. r.writes = D!Adopt(seen)
  BY DEF D!Writes
<1>4. CreatesFirst(r) /\ Supposes(r)
  BY DEF CreatesFirst, Supposes
<1>5. CASE legacy = {}
  <2>1. Rec = {}
    BY <1>5 DEF D!Recorded
  <2>2. D!AdoptMember(seen) = <<>> /\ D!AdoptRecipients(seen) = <<>>
    BY <2>1 DEF D!AdoptMember, D!AdoptRecipients
  <2>3. {D!SetObj(o, seen.obj[o]) : o \in Rec} = {}
    BY <2>1
  <2>4. D!AdoptObjects(seen) = D!SetToSeq({})
    BY <2>3 DEF D!AdoptObjects
  <2>5. Lists(D!AdoptObjects(seen), {})
    BY <2>4, ListsSet, FS_EmptySet
  <2>6. Lists(D!AdoptObjects(seen) \o <<>>, {} \cup {})
    BY <2>5, ListsNone, ListsJoin
  <2>7. Lists((D!AdoptObjects(seen) \o <<>>) \o <<>>, ({} \cup {}) \cup {})
    BY <2>6, ListsNone, ListsJoin
  <2>8. WritesOf(r) = {}
    BY <1>3, <2>2, <2>7 DEF D!Adopt, Lists, WritesOf
  <2> QED BY <1>1, <1>2, <1>4, <1>5, <2>8 DEF WellWritten, AdoptsAll, DoneOf
<1>6. CASE legacy = D!Objects /\ db = D!Empty /\ cluster = OldCluster
  <2> DEFINE OS == {D!SetObj(o, OldCluster.obj[o]) : o \in D!Objects}
  <2>1. legacy # {}
    BY <1>6, RowsDiffer
  <2>2. Rec = D!Objects
    <3>1. \A o \in D!Objects : ~db.obj[o].exists
      BY <1>6 DEF D!Empty, D!Absent
    <3>2. \A o \in D!Objects : D!HeldBy(db, o) = {}
      BY <3>1 DEF D!HeldBy
    <3>3. \A o \in D!Objects : D!Available(db, D!HeldBy(seen, o), o)
      BY <3>2 DEF D!Available
    <3> QED BY <1>6, <3>1, <3>3 DEF D!Recorded
  <2>3. D!AdoptMember(seen) = <<D!SetMember(TRUE)>>
    <3>1. seen.member = TRUE
      BY <1>1, <1>6 DEF OldCluster
    <3> QED BY <2>2, <3>1, RowsDiffer DEF D!AdoptMember
  <2>4. D!AdoptRecipients(seen) = D!Rcpts(D!Recipients, "on")
    <3>1. {e \in D!Recipients : seen.rcpt[e] = "on"} = D!Recipients
      BY <1>1, <1>6 DEF OldCluster
    <3> QED BY <2>2, <3>1, RowsDiffer DEF D!AdoptRecipients
  <2>5. D!AdoptObjects(seen) = D!SetToSeq(OS)
    <3>1. D!AdoptObjects(seen) = D!SetToSeq({D!SetObj(o, seen.obj[o]) : o \in Rec})
      BY DEF D!AdoptObjects
    <3> HIDE DEF Rec
    <3> QED BY <1>1, <1>6, <2>2, <3>1
  <2>6. IsFiniteSet(OS)
    <3> DEFINE x(o) == D!SetObj(o, OldCluster.obj[o])
    <3>1. OS = {x(Mailbox)} \cup {x(Group)} \cup {x(List)}
      BY DEF D!Objects
    <3>2. IsFiniteSet({x(Mailbox)} \cup {x(Group)} \cup {x(List)})
      BY FS_Singleton, FS_Union
    <3> QED BY <3>1, <3>2
  <2>7. Lists(D!AdoptObjects(seen), OS)
    BY <2>5, <2>6, ListsSet
  <2>8. \A x \in OS : x.kind = "obj"
    BY SetIs
  <2>9. \A x \in RcptSet(D!Recipients, "on") : x.kind = "rcpt"
    BY SetIs DEF RcptSet
  <2>10. D!SetMember(TRUE).kind = "member"
    BY SetIs
  <2> HIDE DEF OS
  <2>11. OS \cap {D!SetMember(TRUE)} = {} /\ (OS \cup {D!SetMember(TRUE)}) \cap RcptSet(D!Recipients, "on") = {}
    BY <2>8, <2>9, <2>10
  <2>12. Lists(<<D!SetMember(TRUE)>>, {D!SetMember(TRUE)}) /\ Lists(D!Rcpts(D!Recipients, "on"), RcptSet(D!Recipients, "on"))
    BY ListsOne, ListsRcpts
  <2>13. Lists(D!AdoptObjects(seen) \o <<D!SetMember(TRUE)>>, OS \cup {D!SetMember(TRUE)})
    BY <2>7, <2>11, <2>12, ListsJoin
  <2>14. Lists((D!AdoptObjects(seen) \o <<D!SetMember(TRUE)>>) \o D!Rcpts(D!Recipients, "on"),
               (OS \cup {D!SetMember(TRUE)}) \cup RcptSet(D!Recipients, "on"))
    BY <2>11, <2>12, <2>13, ListsJoin
  <2>15. WritesOf(r) = OldWrites
    <3>1. OldWrites = (OS \cup {D!SetMember(TRUE)}) \cup RcptSet(D!Recipients, "on")
      BY DEF OldWrites, OS
    <3>2. Lists(r.writes, OldWrites)
      BY <1>3, <2>3, <2>4, <2>14, <3>1 DEF D!Adopt
    <3> QED BY <3>2 DEF Lists, WritesOf
  <2>16. DirRows \subseteq Locks
    <3>1. Locks = {<<"obj", o>> : o \in legacy} \cup {<<"member", Mailbox>>} \cup {<<"rcpt", e>> : e \in D!Recipients}
      BY LocksAre
    <3> QED BY <1>6, <3>1 DEF DirRows
  <2>17. WellWritten(r)
    BY <1>2, <2>15, <2>16, OldWritesAre DEF WellWritten
  <2>18. AdoptsAll(r)
    BY <1>1, <1>6, <2>1, <2>15, OldWritesMake DEF AdoptsAll
  <2> QED BY <1>4, <2>1, <2>17, <2>18
<1> QED BY <1>5, <1>6

\* A request that begins, on rows that the cluster has.
LEMMA Plans ==
    ASSUME NEW r, NEW seen, r.op \in D!Ops, ~D!Refused(r.op), ~D!Outdated(r.op, seen), ~r.pushed,
           r.writes = D!Writes(r.op, seen), r.todo = D!Pushes(r.op, r.writes, seen),
           legacy = {} \/ (legacy = D!Objects /\ db = D!Empty /\ cluster = OldCluster)
    PROVE  /\ WellWritten(r) /\ CreatesFirst(r) /\ AdoptsAll(r) /\ Supposes(r)
           /\ legacy = {} => \A x \in DirRows : SameRow(cluster, db, x) => SameRow(cluster, D!Write(db, DoneOf(r)), x)
<1>1. DoneOf(r) = {} => \A x \in DirRows : SameRow(cluster, db, x) => SameRow(cluster, D!Write(db, DoneOf(r)), x)
  BY WriteAway, EqualSame
<1>2. r.op.kind # "adopt" => AdoptsAll(r)
  BY DEF AdoptsAll
<1>3. r.op.kind \in {"create", "delete", "alias", "member", "add", "remove", "toggle", "adopt"}
  BY LocksAre
<1>4. CASE r.op.kind = "create"
  BY <1>1, <1>2, <1>4, CreatePlans
<1>5. CASE r.op.kind = "delete"
  BY <1>1, <1>2, <1>5, DeletePlans
<1>6. CASE r.op.kind = "alias"
  BY <1>1, <1>2, <1>6, AliasPlans
<1>7. CASE r.op.kind = "member"
  BY <1>1, <1>2, <1>7, MemberPlans
<1>8. CASE r.op.kind \in {"add", "toggle"}
  BY <1>1, <1>2, <1>8, AddPlans
<1>9. CASE r.op.kind = "remove"
  <2>1. \A w \in DoneOf(r) : w.kind = "rcpt" /\ w.status = "none" /\ w.o \in D!Recipients /\ db.rcpt[w.o] # "on"
    BY <1>9, RemovePlans
  <2>2. ASSUME NEW x \in DirRows, SameRow(cluster, db, x) PROVE SameRow(cluster, D!Write(db, DoneOf(r)), x)
    <3> DEFINE N == DoneOf(r)
               t == D!Write(db, N)
    <3>1. \A o : ~D!Gone(N, o) /\ D!Of(N, "obj", o) = {} /\ D!Of(N, "member", o) = {}
      BY <2>1 DEF D!Gone, D!Of
    <3>2. CASE x[1] = "obj"
      <4>1. t.obj[x[2]] = db.obj[x[2]]
        BY <3>1, <3>2, RowsDiffer, WriteObj
      <4> QED BY <2>2, <3>2, <4>1 DEF SameRow
    <3>3. CASE x[1] = "member"
      <4>1. t.member <=> db.member
        BY <3>1, <3>3, RowsDiffer, WriteMember
      <4> QED BY <2>2, <3>3, <4>1 DEF SameRow
    <3>4. CASE x[1] = "rcpt"
      <4> DEFINE e == x[2]
                 O == D!Of(N, "rcpt", e)
      <4>1. e \in D!Recipients
        BY <3>4, RowsDiffer
      <4>2. t.rcpt[e] = IF O # {} THEN D!The(O).status ELSE db.rcpt[e]
        BY <3>1, <4>1, WriteRcpt
      <4>3. O # {} => D!The(O) \in N /\ D!The(O).o = e
        BY DEF D!The, D!Of
      <4> HIDE DEF O, t
      <4>4. O # {} => t.rcpt[e] # "on" /\ db.rcpt[e] # "on"
        BY <2>1, <4>2, <4>3
      <4>5. t.rcpt[e] = "on" <=> db.rcpt[e] = "on"
        BY <4>2, <4>4
      <4> QED BY <2>2, <3>4, <4>5 DEF SameRow, t
    <3> QED BY <3>2, <3>3, <3>4, RowsDiffer
  <2> QED BY <1>2, <1>9, <2>2, RemovePlans
<1>10. CASE r.op.kind = "adopt"
  BY <1>1, <1>10, AdoptPlans
<1> QED BY <1>3, <1>4, <1>5, <1>6, <1>7, <1>8, <1>9, <1>10

\* The locks depend on what is not adopted only.
LEMMA LocksKept ==
    ASSUME legacy' = legacy, NEW op
    PROVE  D!Locks(op)' = D!Locks(op)
  BY DEF D!Locks

\* So does what a request may write.
LEMMA WrittenKept ==
    ASSUME legacy' = legacy, NEW r
    PROVE  WellWritten(r)' <=> WellWritten(r)
  BY LocksKept DEF WellWritten

\* A request whose rows stay as they were goes on as it began.
LEMMA OtherPlans ==
    ASSUME NEW r, legacy = {}, legacy' = {},
           WellWritten(r), CreatesFirst(r), AdoptsAll(r), Supposes(r),
           \A x \in D!Locks(r.op) : x \in DirRows => EqualRow(db', db, x),
           (\E e \in D!Recipients : <<"rcpt", e>> \in D!Locks(r.op)) => (db.obj[List].exists => db'.obj[List].exists)
    PROVE  WellWritten(r)' /\ CreatesFirst(r)' /\ AdoptsAll(r)' /\ Supposes(r)'
<1>1. D!Locks(r.op)' = D!Locks(r.op)
  BY LocksKept
<1>2. WellWritten(r)'
  BY WrittenKept
<1>3. ASSUME NEW w \in WritesOf(r), w.kind = "obj" PROVE db'.obj[w.o] = db.obj[w.o]
  <2>1. <<"obj", w.o>> \in Reach(w)
    BY <1>3 DEF Reach
  <2>2. <<"obj", w.o>> \in D!Locks(r.op) /\ <<"obj", w.o>> \in DirRows
    BY <2>1 DEF WellWritten
  <2>3. EqualRow(db', db, <<"obj", w.o>>)
    BY <2>2
  <2> QED BY <2>3 DEF EqualRow
<1>4. CreatesFirst(r)'
  <2> SUFFICES ASSUME r.op.kind = "create" PROVE CreatesFirst(r)'
    BY DEF CreatesFirst
  <2>1. PICK w \in WritesOf(r) : w.kind = "obj" /\ w.o = r.op.o
    BY DEF CreatesFirst, D!Of
  <2>2. db'.obj[r.op.o] = db.obj[r.op.o]
    BY <1>3, <2>1
  <2> QED BY <2>2 DEF CreatesFirst
<1>5. AdoptsAll(r)'
  BY DEF AdoptsAll
<1>6. Supposes(r)'
  <2> SUFFICES ASSUME r.op.kind # "adopt", NEW w \in WritesOf(r)
               PROVE  /\ w.kind = "member" /\ w.status = "on" => db'.obj[Mailbox].exists /\ <<"obj", Mailbox>> \in D!Locks(r.op)
                      /\ w.kind = "rcpt" /\ w.status # "none" /\ w \in DoneOf(r) =>
                            db'.obj[List].exists \/ D!Of(WritesOf(r), "obj", List) # {}
                      /\ w.kind = "rcpt" /\ <<"obj", List>> \in D!Locks(r.op) => D!Of(WritesOf(r), "obj", List) # {}
                      /\ w.kind = "obj" /\ ~LetsGo(r.op) => w.val.exists /\ D!HeldBy(db', w.o) \subseteq {w.o} \cup w.val.aliases
    BY <1>1 DEF Supposes
  <2>1. /\ w.kind = "member" /\ w.status = "on" => db.obj[Mailbox].exists /\ <<"obj", Mailbox>> \in D!Locks(r.op)
        /\ w.kind = "rcpt" /\ w.status # "none" /\ w \in DoneOf(r) =>
              db.obj[List].exists \/ D!Of(WritesOf(r), "obj", List) # {}
        /\ w.kind = "rcpt" /\ <<"obj", List>> \in D!Locks(r.op) => D!Of(WritesOf(r), "obj", List) # {}
        /\ w.kind = "obj" /\ ~LetsGo(r.op) => w.val.exists /\ D!HeldBy(db, w.o) \subseteq {w.o} \cup w.val.aliases
    BY DEF Supposes
  <2>2. <<"obj", Mailbox>> \in D!Locks(r.op) => db'.obj[Mailbox] = db.obj[Mailbox]
    <3>1. <<"obj", Mailbox>> \in D!Locks(r.op) => EqualRow(db', db, <<"obj", Mailbox>>)
      BY RowsDiffer
    <3> QED BY <3>1 DEF EqualRow
  <2>3. w.kind = "rcpt" => (db.obj[List].exists => db'.obj[List].exists)
    <3> SUFFICES ASSUME w.kind = "rcpt" PROVE \E e \in D!Recipients : <<"rcpt", e>> \in D!Locks(r.op)
      OBVIOUS
    <3>1. <<"rcpt", w.o>> \in D!Locks(r.op) /\ <<"rcpt", w.o>> \in DirRows
      BY DEF WellWritten, Reach
    <3>2. w.o \in D!Recipients
      <4>1. <<"rcpt", w.o>>[1] = "rcpt" /\ <<"rcpt", w.o>>[2] = w.o
        OBVIOUS
      <4> QED BY <3>1, <4>1, RowsDiffer
    <3> QED BY <3>1, <3>2
  <2>4. w.kind = "obj" => D!HeldBy(db', w.o) = D!HeldBy(db, w.o)
    BY <1>3 DEF D!HeldBy
  <2> HIDE DEF D!HeldBy
  <2> QED BY <2>1, <2>2, <2>3, <2>4
<1> QED BY <1>2, <1>4, <1>5, <1>6

\* A request ends with its rows the same on both sides.
LEMMA Settles ==
    ASSUME DirSound, legacy = {}, legacy' = {}, DOMAIN request = Requests, NEW p \in Requests, Pushing(p),
           request' = [request EXCEPT ![p] = D!Idle],
           \A x \in DirRows : x \notin D!Locks(request[p].op) => EqualRow(db', db, x) /\ EqualRow(cluster', cluster, x),
           \A x \in D!Locks(request[p].op) : SameRow(cluster', db', x),
           RowsSound', ClusterHeldOnce',
           db.obj[List].exists => db'.obj[List].exists \/ \A e \in D!Recipients : <<"rcpt", e>> \in D!Locks(request[p].op)
    PROVE  DirSound'
<1> USE DEF Pushing
<1> DEFINE Locks(q) == D!Locks(request[q].op)
<1>1. D!Idle.at = "idle" /\ request'[p] = D!Idle /\ \A q \in Requests \ {p} : request'[q] = request[q]
  BY DEF D!Idle
<1>2. \A op : D!Locks(op)' = D!Locks(op)
  BY LocksKept
<1>3. ASSUME NEW q \in Requests, request'[q].at = "pushing"
      PROVE  q # p /\ request'[q] = request[q] /\ Pushing(q) /\ Locks(q) \cap Locks(p) = {} /\ Locks(q) \subseteq DirRows
  <2>1. q # p /\ request'[q] = request[q]
    BY <1>1, <1>3
  <2>2. request[q].op \in D!Ops
    BY <1>3, <2>1 DEF DirSound, Asking
  <2>3. Locks(q) \subseteq DirRows
    BY <2>2, LocksRows
  <2> QED BY <1>3, <2>1, <2>3 DEF DirSound, Excluding
<1>4. Asking'
  BY <1>1 DEF DirSound, Asking
<1>5. Planning'
  <2> SUFFICES ASSUME NEW q \in Requests, request'[q].at = "pushing"
               PROVE  /\ WellWritten(request[q])' /\ CreatesFirst(request[q])'
                      /\ AdoptsAll(request[q])' /\ Supposes(request[q])'
    BY DEF Planning
  <2>1. q # p /\ request'[q] = request[q] /\ Pushing(q) /\ Locks(q) \cap Locks(p) = {} /\ Locks(q) \subseteq DirRows
    BY <1>3
  <2>2. WellWritten(request[q]) /\ CreatesFirst(request[q]) /\ AdoptsAll(request[q]) /\ Supposes(request[q])
    BY <2>1 DEF DirSound, Planning
  <2>3. \A x \in Locks(q) : x \in DirRows => EqualRow(db', db, x)
    BY <2>1
  <2>4. (\E e \in D!Recipients : <<"rcpt", e>> \in Locks(q)) => (db.obj[List].exists => db'.obj[List].exists)
    BY <2>1
  <2> QED BY <2>1, <2>2, <2>3, <2>4, OtherPlans
<1>6. Excluding'
  BY <1>2, <1>3 DEF DirSound, Excluding
<1>7. RowsFollow'
  <2>1. ASSUME NEW x \in DirRows, Free(x)' PROVE SameRow(cluster', db', x)
    <3>1. CASE x \in Locks(p)
      BY <3>1
    <3>2. CASE x \notin Locks(p)
      <4>1. Free(x)
        <5> SUFFICES ASSUME NEW q \in Requests, Pushing(q) PROVE x \notin Locks(q)
          BY DEF Free
        <5>1. CASE q = p
          BY <3>2, <5>1
        <5>2. CASE q # p
          BY <1>1, <1>2, <2>1, <5>2 DEF Free
        <5> QED BY <5>1, <5>2
      <4>2. SameRow(cluster, db, x)
        BY <4>1 DEF DirSound, RowsFollow
      <4>3. EqualRow(db', db, x) /\ EqualRow(cluster', cluster, x)
        BY <3>2
      <4> QED BY <4>2, <4>3, EqualSame
    <3> QED BY <3>1, <3>2
  <2>2. ASSUME NEW q \in Requests, request'[q].at = "pushing", NEW x \in Locks(q)
        PROVE  /\ SameRow(cluster', D!Write(db', DoneOf(request[q])), x)
               /\ ~request[q].pushed => SameRow(cluster', db', x)
    <3> DEFINE N == DoneOf(request[q])
    <3>1. Pushing(q) /\ x \in DirRows /\ x \notin Locks(p)
      BY <1>3, <2>2
    <3>2. EqualRow(db', db, x) /\ EqualRow(cluster', cluster, x)
      BY <3>1
    <3>3. SameRow(cluster, D!Write(db, N), x) /\ (~request[q].pushed => SameRow(cluster, db, x))
      BY <3>1 DEF DirSound, RowsFollow
    <3>4. EqualRow(D!Write(db', N), D!Write(db, N), x)
      BY <3>1, <3>2, WriteByRow
    <3> HIDE DEF N
    <3>5. SameRow(cluster', D!Write(db', N), x)
      BY <3>2, <3>3, <3>4, EqualSame
    <3>6. ~request[q].pushed => SameRow(cluster', db', x)
      BY <3>2, <3>3, EqualSame
    <3> QED BY <3>5, <3>6 DEF N
  <2> HIDE DEF Locks
  <2>3. ASSUME NEW q \in Requests, request'[q].at = "pushing", NEW x \in D!Locks(request[q].op)'
        PROVE  /\ SameRow(cluster', D!Write(db', DoneOf(request'[q])), x)
               /\ ~request'[q].pushed => SameRow(cluster', db', x)
    <3>1. request'[q] = request[q]
      BY <1>3, <2>3
    <3>2. x \in Locks(q)
      BY <1>2, <2>3, <3>1 DEF Locks
    <3> QED BY <2>2, <2>3, <3>1, <3>2
  <2> QED BY <2>1, <2>3 DEF RowsFollow
<1> QED BY <1>4, <1>5, <1>6, <1>7 DEF DirSound

\* What is under way holds as long as the rows stay.
LEMMA PlansKept ==
    ASSUME NEW r, db' = db, legacy' = legacy, legacy = {} \/ cluster' = cluster,
           WellWritten(r), CreatesFirst(r), AdoptsAll(r), Supposes(r)
    PROVE  WellWritten(r)' /\ CreatesFirst(r)' /\ AdoptsAll(r)' /\ Supposes(r)'
<1>1. D!Locks(r.op)' = D!Locks(r.op)
  BY LocksKept
<1>2. WellWritten(r)'
  BY WrittenKept
<1>3. CreatesFirst(r)'
  BY DEF CreatesFirst
<1>4. AdoptsAll(r)'
  BY DEF AdoptsAll
<1>5. Supposes(r)'
  BY <1>1 DEF Supposes
<1> QED BY <1>2, <1>3, <1>4, <1>5

\* A request that is not pushing, before or after.
LEMMA Moves ==
    ASSUME DirSound, db' = db, cluster' = cluster, legacy' = legacy, DOMAIN request = Requests, NEW p \in Requests, ~Pushing(p),
           NEW r, request' = [request EXCEPT ![p] = r], r.at # "pushing",
           r.at # "idle" => r.op \in D!Ops /\ ~r.pushed /\ (legacy # {} => r.op.kind \in {"create", "adopt"})
    PROVE  DirSound'
<1> USE DEF Pushing
<1>1. request'[p] = r /\ \A q \in Requests \ {p} : request'[q] = request[q]
  OBVIOUS
<1>2. \A op : D!Locks(op)' = D!Locks(op)
  BY LocksKept
<1>3. \A q \in Requests : /\ request'[q].at = "pushing" => q # p /\ request'[q] = request[q] /\ Pushing(q)
                          /\ Pushing(q) => request'[q] = request[q]
  BY <1>1
<1>4. Asking'
  BY <1>1 DEF DirSound, Asking
<1>5. Planning'
  <2> SUFFICES ASSUME NEW q \in Requests, request'[q].at = "pushing"
               PROVE  /\ WellWritten(request[q])' /\ CreatesFirst(request[q])'
                      /\ AdoptsAll(request[q])' /\ Supposes(request[q])'
    BY DEF Planning
  <2>1. request'[q] = request[q] /\ Pushing(q)
    BY <1>3
  <2>2. WellWritten(request[q]) /\ CreatesFirst(request[q]) /\ AdoptsAll(request[q]) /\ Supposes(request[q])
    BY <2>1 DEF DirSound, Planning
  <2> QED BY <2>1, <2>2, PlansKept
<1>6. Excluding'
  BY <1>2, <1>3 DEF DirSound, Excluding
<1>7. RowsSound' /\ ClusterHeldOnce'
  BY DEF DirSound, RowsSound, ClusterHeldOnce
<1>8. legacy = {} => RowsFollow'
  <2> SUFFICES ASSUME legacy = {} PROVE RowsFollow'
    OBVIOUS
  <2>1. ASSUME NEW x \in DirRows, Free(x)' PROVE SameRow(cluster', db', x)
    <3>1. Free(x)
      BY <1>2, <1>3, <2>1 DEF Free
    <3> QED BY <3>1 DEF DirSound, RowsFollow
  <2>2. ASSUME NEW q \in Requests, request'[q].at = "pushing", NEW x \in D!Locks(request[q].op)'
        PROVE  /\ SameRow(cluster', D!Write(db', DoneOf(request'[q])), x)
               /\ ~request'[q].pushed => SameRow(cluster', db', x)
    <3>1. request'[q] = request[q] /\ Pushing(q) /\ x \in D!Locks(request[q].op)
      BY <1>2, <1>3, <2>2
    <3> QED BY <3>1 DEF DirSound, RowsFollow
  <2> QED BY <2>1, <2>2 DEF RowsFollow
<1>9. legacy # {} => NothingAdopted'
  <2> SUFFICES ASSUME legacy # {} PROVE NothingAdopted'
    OBVIOUS
  <2>1. NothingAdopted
    BY DEF DirSound
  <2>2. ASSUME NEW q \in Requests, request'[q].at # "idle"
        PROVE  request'[q].op.kind \in {"create", "adopt"} /\ ~request'[q].pushed
    <3>1. CASE q = p
      BY <1>1, <2>2, <3>1
    <3>2. CASE q # p
      BY <1>1, <2>1, <2>2, <3>2 DEF NothingAdopted
    <3> QED BY <3>1, <3>2
  <2> QED BY <2>1, <2>2 DEF NothingAdopted
<1> QED BY <1>4, <1>5, <1>6, <1>7, <1>8, <1>9 DEF DirSound

\* A request asks.
LEMMA AskSound ==
    ASSUME DirSound, DOMAIN request = Requests, NEW p \in Requests, NEW op \in D!Ops, D!Ask(p, op)
    PROVE  DirSound'
<1> DEFINE r == [D!Idle EXCEPT !.at = "asked", !.op = op, !.seen = IF op.kind = "adopt" THEN cluster ELSE db]
<1>1. /\ request[p] = D!Idle /\ request' = [request EXCEPT ![p] = r] /\ D!Checked(op)
      /\ db' = db /\ cluster' = cluster /\ legacy' = legacy
  BY DEF D!Ask
<1>2. ~Pushing(p)
  BY <1>1 DEF Pushing, D!Idle
<1>3. r.at = "asked" /\ r.op = op /\ ~r.pushed
  BY DEF D!Idle
<1> HIDE DEF r
<1>4. legacy # {} => op.kind \in {"create", "adopt"}
  <2> SUFFICES ASSUME legacy # {} PROVE op.kind \in {"create", "adopt"}
    OBVIOUS
  <2>1. db = D!Empty
    BY DEF DirSound, NothingAdopted
  <2>2. \A o \in D!Objects : ~db.obj[o].exists
    BY <2>1 DEF D!Empty, D!Absent
  <2>3. op.o \in D!Objects /\ op.kind \in {"create", "delete", "alias", "member", "add", "remove", "toggle", "adopt"}
    BY LocksAre
  <2> QED BY <1>1, <2>2, <2>3, RowsDiffer DEF D!Checked
<1> QED BY <1>1, <1>2, <1>3, <1>4, Moves

\* It takes its locks: the rows were free, so the cluster has them.
LEMMA BeginSound ==
    ASSUME DirSound, DOMAIN request = Requests, NEW p \in Requests, D!Begin(p), ~broken'
    PROVE  DirSound'
<1> USE DEF Pushing
<1> DEFINE op == request[p].op
           seen == request[p].seen
           writes == D!Writes(op, seen)
           r == [request[p] EXCEPT !.at = "pushing", !.seen = D!Empty, !.writes = writes, !.todo = D!Pushes(op, writes, seen)]
<1>1. /\ request[p].at = "asked" /\ D!Unlocked(p)
      /\ request' = [request EXCEPT ![p] = IF D!Refused(op) THEN D!Idle ELSE r]
      /\ db' = db /\ cluster' = cluster /\ legacy' = legacy
      /\ D!Refused(op) \/ ~D!Outdated(op, seen)
  BY DEF D!Begin
<1>2. op \in D!Ops /\ ~request[p].pushed /\ ~Pushing(p)
  BY <1>1 DEF DirSound, Asking
<1>3. CASE D!Refused(op)
  <2>1. request' = [request EXCEPT ![p] = D!Idle]
    BY <1>1, <1>3
  <2>2. D!Idle.at = "idle"
    BY DEF D!Idle
  <2> QED BY <1>1, <1>2, <2>1, <2>2, Moves
<1>4. CASE ~D!Refused(op)
  <2>1. request' = [request EXCEPT ![p] = r]
    BY <1>1, <1>4
  <2>2. r.at = "pushing" /\ r.op = op /\ r.writes = D!Writes(r.op, seen) /\ r.todo = D!Pushes(r.op, r.writes, seen)
    OBVIOUS
  <2>3. r.pushed = request[p].pushed
    OBVIOUS
  <2> HIDE DEF r
  <2>4. request'[p] = r /\ \A q \in Requests \ {p} : request'[q] = request[q]
    BY <2>1
  <2>5. legacy = {} \/ NothingAdopted
    BY DEF DirSound
  <2>6. legacy = {} \/ (legacy = D!Objects /\ db = D!Empty /\ cluster = OldCluster)
    BY <2>5 DEF NothingAdopted
  <2>7. r.op \in D!Ops /\ ~D!Refused(r.op) /\ ~D!Outdated(r.op, seen) /\ ~r.pushed
    BY <1>1, <1>2, <1>4, <2>2, <2>3
  <2>8. /\ WellWritten(r) /\ CreatesFirst(r) /\ AdoptsAll(r) /\ Supposes(r)
        /\ legacy = {} => \A x \in DirRows : SameRow(cluster, db, x) => SameRow(cluster, D!Write(db, DoneOf(r)), x)
    BY <2>2, <2>6, <2>7, Plans
  <2>9. \A x : D!Locks(x)' = D!Locks(x)
    BY <1>1, LocksKept
  <2>10. \A q \in Requests \ {p} : Pushing(q) => D!Locks(op) \cap D!Locks(request[q].op) = {}
    BY <1>1 DEF D!Unlocked
  <2> HIDE DEF op, seen, writes
  <2>11. Asking'
    BY <2>4, <2>7 DEF DirSound, Asking
  <2>12. Planning'
    <3> SUFFICES ASSUME NEW q \in Requests, request'[q].at = "pushing"
                 PROVE  /\ WellWritten(request[q])' /\ CreatesFirst(request[q])'
                        /\ AdoptsAll(request[q])' /\ Supposes(request[q])'
      BY DEF Planning
    <3>1. CASE q = p
      BY <1>1, <2>4, <2>8, <3>1, PlansKept
    <3>2. CASE q # p
      <4>1. request'[q] = request[q] /\ Pushing(q)
        BY <2>4, <3>2
      <4>2. WellWritten(request[q]) /\ CreatesFirst(request[q]) /\ AdoptsAll(request[q]) /\ Supposes(request[q])
        BY <4>1 DEF DirSound, Planning
      <4> QED BY <1>1, <4>1, <4>2, PlansKept
    <3> QED BY <3>1, <3>2
  <2>13. Excluding'
    <3> SUFFICES ASSUME NEW a \in Requests, NEW b \in Requests, a # b, request'[a].at = "pushing", request'[b].at = "pushing"
                 PROVE  D!Locks(request'[a].op) \cap D!Locks(request'[b].op) = {}
      BY <2>9 DEF Excluding
    <3>1. CASE a # p /\ b # p
      BY <2>4, <3>1 DEF DirSound, Excluding
    <3>2. CASE a = p
      BY <2>2, <2>4, <2>10, <3>2
    <3>3. CASE b = p
      BY <2>2, <2>4, <2>10, <3>3
    <3> QED BY <3>1, <3>2, <3>3
  <2>14. RowsSound' /\ ClusterHeldOnce'
    BY <1>1 DEF DirSound, RowsSound, ClusterHeldOnce
  <2>15. legacy = {} => RowsFollow'
    <3> SUFFICES ASSUME legacy = {} PROVE RowsFollow'
      OBVIOUS
    <3>0. RowsFollow
      BY DEF DirSound
    <3>1. ASSUME NEW x \in DirRows, Free(x)' PROVE SameRow(cluster', db', x)
      <4>1. Free(x)
        BY <1>2, <2>4, <2>9, <3>1 DEF Free
      <4> QED BY <1>1, <3>0, <4>1 DEF RowsFollow
    <3>2. ASSUME NEW q \in Requests, request'[q].at = "pushing", NEW x \in D!Locks(request[q].op)'
          PROVE  /\ SameRow(cluster', D!Write(db', DoneOf(request'[q])), x)
                 /\ ~request'[q].pushed => SameRow(cluster', db', x)
      <4>1. CASE q # p
        <5>1. request'[q] = request[q] /\ Pushing(q) /\ x \in D!Locks(request[q].op)
          BY <2>4, <2>9, <3>2, <4>1
        <5> QED BY <1>1, <3>0, <5>1 DEF RowsFollow
      <4>2. CASE q = p
        <5>1. x \in D!Locks(op)
          BY <2>2, <2>4, <2>9, <3>2, <4>2
        <5>2. x \in DirRows
          BY <1>2, <5>1, LocksRows
        <5>3. Free(x)
          BY <1>2, <2>10, <5>1 DEF Free
        <5>4. SameRow(cluster, db, x)
          BY <3>0, <5>2, <5>3 DEF RowsFollow
        <5> QED BY <1>1, <2>4, <2>8, <4>2, <5>2, <5>4
      <4> QED BY <4>1, <4>2
    <3> QED BY <3>1, <3>2 DEF RowsFollow
  <2>16. legacy # {} => NothingAdopted'
    <3> SUFFICES ASSUME legacy # {} PROVE NothingAdopted'
      OBVIOUS
    <3>1. NothingAdopted
      BY DEF DirSound
    <3>2. ASSUME NEW q \in Requests, request'[q].at # "idle"
          PROVE  request'[q].op.kind \in {"create", "adopt"} /\ ~request'[q].pushed
      <4>1. CASE q = p
        BY <1>1, <1>2, <2>2, <2>3, <2>4, <3>1, <4>1 DEF NothingAdopted, op
      <4>2. CASE q # p
        BY <2>4, <3>1, <3>2, <4>2 DEF NothingAdopted
      <4> QED BY <4>1, <4>2
    <3> QED BY <1>1, <3>1, <3>2 DEF NothingAdopted
  <2> QED BY <1>1, <2>11, <2>12, <2>13, <2>14, <2>15, <2>16 DEF DirSound
<1> QED BY <1>3, <1>4

\* Before the adoption the cluster refuses what a request pushes.
LEMMA NothingAccepted ==
    ASSUME DirSound, legacy # {}, NEW p \in Requests, D!Waits(p)
    PROVE  ~request[p].pushed /\ request[p].op.kind = "create" /\ ~D!Accepts(Head(request[p].todo))
<1> DEFINE r == request[p]
           h == Head(r.todo)
<1>1. Pushing(p) /\ r.todo # <<>> /\ r.at = "pushing"
  BY DEF D!Waits, Pushing
<1>2. WellWritten(r) /\ CreatesFirst(r) /\ AdoptsAll(r)
  BY <1>1 DEF DirSound, Planning
<1>3. NothingAdopted
  BY DEF DirSound
<1>4. r.op.kind \in {"create", "adopt"} /\ ~r.pushed
  BY <1>1, <1>3 DEF NothingAdopted
<1>5. r.op.kind = "create"
  BY <1>1, <1>2, <1>4 DEF AdoptsAll
<1>6. h \in WritesOf(r) /\ h = r.todo[1]
  <2>1. Lists(r.todo, TodoOf(r)) /\ TodoOf(r) \subseteq WritesOf(r)
    BY <1>2 DEF WellWritten
  <2>2. h \in TodoOf(r)
    BY <1>1, <2>1, ListsTail
  <2>3. r.todo \in Seq(TodoOf(r))
    BY <2>1 DEF Lists
  <2> QED BY <1>1, <2>1, <2>2, <2>3
<1>7. h.kind = "obj" /\ h.o = r.op.o /\ h.val.exists
  BY <1>2, <1>4, <1>5, <1>6 DEF CreatesFirst
<1>8. r.op.o \in D!Objects
  BY <1>1, LocksAre DEF DirSound, Asking
<1>9. cluster.obj[h.o].exists /\ ~db.obj[h.o].exists
  BY <1>3, <1>7, <1>8 DEF NothingAdopted, OldCluster, D!Empty, D!Absent, D!Present
<1>10. ~D!Accepts(h)
  BY <1>7, <1>9 DEF D!Accepts
<1> QED BY <1>4, <1>5, <1>10

\* It pushes: the cluster has one more of its writes.
LEMMA PushSound ==
    ASSUME DirSound, DOMAIN request = Requests, NEW p \in Requests, D!Push(p)
    PROVE  DirSound'
<1> USE DEF Pushing
<1> DEFINE r == request[p]
           h == Head(r.todo)
           W == WritesOf(r)
           s == request'[p]
<1>1. /\ D!Waits(p) /\ D!Accepts(h) /\ cluster' = D!Sent(cluster, h) /\ db' = db /\ legacy' = legacy
      /\ request' = [request EXCEPT ![p].todo = Tail(@), ![p].pushed = TRUE]
  BY DEF D!Push
<1>2. legacy = {} /\ legacy' = {}
  BY <1>1, NothingAccepted
<1>3. Pushing(p) /\ r.todo # <<>> /\ r.at = "pushing"
  BY <1>1 DEF D!Waits
<1>4. WellWritten(r) /\ CreatesFirst(r) /\ AdoptsAll(r) /\ Supposes(r) /\ r.op \in D!Ops
  BY <1>3 DEF DirSound, Planning, Asking
<1>5. /\ s.todo = Tail(r.todo) /\ s.pushed = TRUE /\ s.op = r.op /\ s.writes = r.writes /\ s.at = r.at
      /\ \A q \in Requests \ {p} : request'[q] = request[q]
  BY <1>1
<1>6. Lists(r.todo, TodoOf(r)) /\ TodoOf(r) \subseteq W
  BY <1>4 DEF WellWritten
<1>7. h \in TodoOf(r) /\ h \in W /\ Lists(s.todo, TodoOf(r) \ {h})
  BY <1>3, <1>5, <1>6, ListsTail
<1>8. WritesOf(s) = W /\ TodoOf(s) = TodoOf(r) \ {h} /\ DoneOf(s) = DoneOf(r) \cup {h} /\ h \notin DoneOf(r) /\ DoneOf(r) \subseteq W
  <2>1. WritesOf(s) = W
    BY <1>5 DEF WritesOf
  <2>2. TodoOf(s) = TodoOf(r) \ {h}
    BY <1>7 DEF TodoOf, Lists
  <2> HIDE DEF r, s, h, W
  <2> QED BY <1>6, <1>7, <2>1, <2>2 DEF DoneOf, W
<1>9. \A x : D!Locks(x)' = D!Locks(x)
  BY <1>1, LocksKept
<1>10. Reach(h) \subseteq D!Locks(r.op) /\ D!Locks(r.op) \subseteq DirRows
  BY <1>2, <1>4, <1>7, LocksRows DEF WellWritten
<1>11. \A q \in Requests : (request'[q].at = "pushing" <=> Pushing(q)) /\ request'[q].op = request[q].op
  BY <1>5
<1> HIDE DEF s, h, W
<1>12. WellWritten(s)
  BY <1>4, <1>5, <1>6, <1>7, <1>8 DEF WellWritten, W
<1>13. CreatesFirst(s)
  <2> SUFFICES ASSUME r.op.kind = "create" PROVE \A i \in 1 .. Len(s.todo) : s.todo[i].kind # "obj"
    BY <1>4, <1>5, <1>8 DEF CreatesFirst, W
  <2> SUFFICES ASSUME NEW i \in 1 .. Len(s.todo), s.todo[i].kind = "obj" PROVE FALSE
    OBVIOUS
  <2>1. r.todo \in Seq(TodoOf(r))
    BY <1>6 DEF Lists
  <2>2. Len(r.todo) \in Nat /\ Len(r.todo) >= 1
    BY <1>3, <2>1
  <2>3. Len(s.todo) = Len(r.todo) - 1 /\ s.todo[i] = r.todo[i + 1]
    BY <1>3, <1>5, <2>1
  <2>4. i + 1 \in 1 .. Len(r.todo) /\ i + 1 # 1
    BY <2>2, <2>3
  <2>5. \A j \in 1 .. Len(r.todo) : r.todo[j].kind = "obj" => j = 1
    BY <1>4 DEF CreatesFirst
  <2> QED BY <2>3, <2>4, <2>5
<1>14. AdoptsAll(s)
  BY <1>3, <1>4, <1>5 DEF AdoptsAll
<1>15. Supposes(s)
  <2>1. h.kind = "rcpt" => db.obj[List].exists \/ D!Of(W, "obj", List) # {}
    <3> SUFFICES ASSUME h.kind = "rcpt" PROVE db.obj[List].exists \/ D!Of(W, "obj", List) # {}
      OBVIOUS
    <3>1. r.op.kind # "adopt"
      BY <1>3, <1>4 DEF AdoptsAll
    <3>2. CASE <<"obj", List>> \in D!Locks(r.op)
      BY <1>4, <1>7, <3>1, <3>2 DEF Supposes, W
    <3>3. CASE <<"obj", List>> \notin D!Locks(r.op)
      <4>1. cluster.obj[List].exists
        BY <1>1 DEF D!Accepts
      <4>2. <<"rcpt", h.o>> \in D!Locks(r.op) /\ <<"rcpt", h.o>> \in DirRows
        BY <1>10 DEF Reach
      <4>3. h.o \in D!Recipients
        <5>1. <<"rcpt", h.o>>[1] = "rcpt" /\ <<"rcpt", h.o>>[2] = h.o
          OBVIOUS
        <5> QED BY <4>2, <5>1, RowsDiffer
      <4>4. Free(<<"obj", List>>)
        <5> SUFFICES ASSUME NEW q \in Requests, Pushing(q), <<"obj", List>> \in D!Locks(request[q].op) PROVE FALSE
          BY DEF Free
        <5>1. q # p
          BY <3>3
        <5>2. request[q].op \in D!Ops
          BY DEF DirSound, Asking
        <5>3. <<"rcpt", h.o>> \in D!Locks(request[q].op)
          BY <1>2, <4>3, <5>2, LocksRows
        <5> QED BY <1>3, <4>2, <5>1, <5>3 DEF DirSound, Excluding
      <4>5. SameRow(cluster, db, <<"obj", List>>)
        BY <1>2, <4>4, RowsDiffer DEF DirSound, RowsFollow
      <4> QED BY <4>1, <4>5 DEF SameRow
    <3> QED BY <3>2, <3>3
  <2> HIDE DEF r
  <2> QED BY <1>4, <1>5, <1>8, <2>1 DEF Supposes, W
<1>16. Asking'
  BY <1>3, <1>5, <1>11 DEF DirSound, Asking, s
<1>17. Planning'
  <2> SUFFICES ASSUME NEW q \in Requests, request'[q].at = "pushing"
               PROVE  /\ WellWritten(request[q])' /\ CreatesFirst(request[q])'
                      /\ AdoptsAll(request[q])' /\ Supposes(request[q])'
    BY DEF Planning
  <2>1. WellWritten(request'[q]) /\ CreatesFirst(request'[q]) /\ AdoptsAll(request'[q]) /\ Supposes(request'[q])
    <3>1. CASE q = p
      BY <1>12, <1>13, <1>14, <1>15, <3>1 DEF s
    <3>2. CASE q # p
      BY <1>5, <3>2 DEF DirSound, Planning
    <3> QED BY <3>1, <3>2
  <2> QED BY <1>1, <1>2, <2>1, PlansKept
<1>18. Excluding'
  BY <1>9, <1>11 DEF DirSound, Excluding
<1>19. RowsSound' /\ ClusterHeldOnce'
  <2>1. ClusterHeldOnce'
    BY <1>1, SentHeldOnce DEF DirSound, ClusterHeldOnce
  <2>2. cluster'.member \in BOOLEAN
    BY <1>1, SentRows
  <2> QED BY <1>1, <2>1, <2>2 DEF DirSound, RowsSound
<1>20. RowsFollow'
  <2>0. RowsFollow
    BY <1>2 DEF DirSound
  <2>1. ASSUME NEW x \in DirRows, x \notin D!Locks(r.op) PROVE EqualRow(cluster', cluster, x)
    BY <1>1, <1>10, <2>1, SentAway
  <2>2. ASSUME NEW x \in DirRows, Free(x)' PROVE SameRow(cluster', db', x)
    <3>1. Free(x)
      BY <1>9, <1>11, <2>2 DEF Free
    <3>2. SameRow(cluster, db, x) /\ x \notin D!Locks(r.op)
      BY <1>3, <2>0, <3>1 DEF RowsFollow, Free
    <3> QED BY <1>1, <2>1, <3>2, EqualSame
  <2>3. ASSUME NEW q \in Requests, request'[q].at = "pushing", NEW x \in D!Locks(request[q].op)'
        PROVE  /\ SameRow(cluster', D!Write(db', DoneOf(request'[q])), x)
               /\ ~request'[q].pushed => SameRow(cluster', db', x)
    <3>1. Pushing(q) /\ x \in D!Locks(request[q].op)
      BY <1>9, <1>11, <2>3
    <3>2. CASE q = p
      <4>1. x \in DirRows
        BY <1>10, <3>1, <3>2
      <4>2. SameRow(cluster, D!Write(db, DoneOf(r)), x)
        BY <2>0, <3>1, <3>2 DEF RowsFollow
      <4>3. /\ \A u, v \in W : u.kind = v.kind /\ u.o = v.o => u = v
            /\ \A u \in W : u.kind = "obj" => u.val.exists \/ (u.o # Group => W = {u})
        BY <1>4 DEF WellWritten, W
      <4> HIDE DEF r
      <4>4. SameRow(D!Sent(cluster, h), D!Write(db, DoneOf(r) \cup {h}), x)
        BY <1>7, <1>8, <4>1, <4>2, <4>3, PushedOn
      <4> QED BY <1>1, <1>5, <1>8, <3>2, <4>4 DEF s
    <3>3. CASE q # p
      <4>1. x \in DirRows /\ x \notin D!Locks(r.op)
        <5>1. request[q].op \in D!Ops
          BY <3>1 DEF DirSound, Asking
        <5>2. x \in DirRows
          BY <1>2, <3>1, <5>1, LocksRows
        <5> QED BY <1>3, <3>1, <3>3, <5>2 DEF DirSound, Excluding
      <4>2. EqualRow(cluster', cluster, x) /\ request'[q] = request[q]
        BY <1>5, <2>1, <3>3, <4>1
      <4>3. SameRow(cluster, D!Write(db, DoneOf(request[q])), x) /\ (~request[q].pushed => SameRow(cluster, db, x))
        BY <2>0, <3>1 DEF RowsFollow
      <4> QED BY <1>1, <4>2, <4>3, EqualSame
    <3> QED BY <3>2, <3>3
  <2> QED BY <2>2, <2>3 DEF RowsFollow
<1> QED BY <1>2, <1>16, <1>17, <1>18, <1>19, <1>20 DEF DirSound

\* A request that ends with nothing pushed.
LEMMA NothingPushed ==
    ASSUME DirSound, DOMAIN request = Requests, NEW p \in Requests, Pushing(p), ~request[p].pushed,
           db' = db, cluster' = cluster, legacy' = legacy, request' = [request EXCEPT ![p] = D!Idle]
    PROVE  DirSound'
<1>1. CASE legacy = {}
  <2>1. \A x : EqualRow(db, db, x) /\ EqualRow(cluster, cluster, x)
    BY DEF EqualRow
  <2>2. \A x \in D!Locks(request[p].op) : SameRow(cluster, db, x)
    BY <1>1 DEF DirSound, RowsFollow
  <2>3. RowsSound' /\ ClusterHeldOnce'
    BY DEF DirSound, RowsSound, ClusterHeldOnce
  <2> QED BY <1>1, <2>1, <2>2, <2>3, Settles
<1>2. CASE legacy # {}
  <2> USE DEF Pushing
  <2>1. D!Idle.at = "idle" /\ request'[p] = D!Idle /\ \A q \in Requests \ {p} : request'[q] = request[q]
    BY DEF D!Idle
  <2>2. \A op : D!Locks(op)' = D!Locks(op)
    BY LocksKept
  <2>3. \A q \in Requests : request'[q].at # "idle" => q # p /\ request'[q] = request[q]
    BY <2>1
  <2>4. Asking'
    BY <2>1, <2>3 DEF DirSound, Asking
  <2>5. Planning'
    <3> SUFFICES ASSUME NEW q \in Requests, request'[q].at = "pushing"
                 PROVE  /\ WellWritten(request[q])' /\ CreatesFirst(request[q])'
                        /\ AdoptsAll(request[q])' /\ Supposes(request[q])'
      BY DEF Planning
    <3>1. request'[q] = request[q] /\ Pushing(q)
      BY <2>3
    <3>2. WellWritten(request[q]) /\ CreatesFirst(request[q]) /\ AdoptsAll(request[q]) /\ Supposes(request[q])
      BY <3>1 DEF DirSound, Planning
    <3> QED BY <3>1, <3>2, PlansKept
  <2>6. Excluding'
    BY <2>2, <2>3 DEF DirSound, Excluding
  <2>7. RowsSound' /\ ClusterHeldOnce'
    BY DEF DirSound, RowsSound, ClusterHeldOnce
  <2>8. NothingAdopted'
    BY <1>2, <2>3 DEF DirSound, NothingAdopted
  <2> QED BY <1>2, <2>4, <2>5, <2>6, <2>7, <2>8 DEF DirSound
<1> QED BY <1>1, <1>2

\* Its worker dies.
LEMMA CrashSound ==
    ASSUME DirSound, DOMAIN request = Requests, NEW p \in Requests, D!Crash(p), ~broken'
    PROVE  DirSound'
  BY NothingPushed DEF D!Crash, Pushing

\* The object of a failed creation is destroyed, and what goes with it.
LEMMA UndoSound ==
    ASSUME DirSound, DOMAIN request = Requests, NEW p \in Requests, D!Waits(p), NEW effect \in BOOLEAN,
           request[p].pushed, request[p].op.kind = "create", request[p].op.o \in {Mailbox, List},
           effect => D!Accepts(Head(request[p].todo)) /\ request[p].op.o = List,
           NEW now, now = (IF effect THEN D!Sent(cluster, Head(request[p].todo)) ELSE cluster),
           cluster' = D!Sent(now, D!SetObj(request[p].op.o, D!Absent)),
           db' = db, legacy' = legacy, request' = [request EXCEPT ![p] = D!Idle]
    PROVE  DirSound'
<1> DEFINE r == request[p]
           h == Head(r.todo)
           o == r.op.o
           w == D!SetObj(o, D!Absent)
           W == WritesOf(r)
           Locks == D!Locks(r.op)
<1>1. Pushing(p) /\ r.todo # <<>> /\ r.at = "pushing"
  BY DEF D!Waits, Pushing
<1>2. WellWritten(r) /\ CreatesFirst(r) /\ r.op \in D!Ops
  BY <1>1 DEF DirSound, Planning, Asking
<1>3. legacy = {} /\ RowsFollow /\ RowsSound /\ ClusterHeldOnce
  BY <1>1 DEF DirSound, NothingAdopted
<1>4. Lists(r.todo, TodoOf(r)) /\ TodoOf(r) \subseteq W
  BY <1>2 DEF WellWritten
<1>5. h \in TodoOf(r) /\ h \in W /\ h = r.todo[1] /\ 1 \in 1 .. Len(r.todo)
  <2>1. h \in TodoOf(r) /\ r.todo \in Seq(TodoOf(r))
    BY <1>1, <1>4, ListsTail DEF Lists
  <2> QED BY <1>1, <1>4, <2>1
<1>6. h.kind # "obj"
  BY <1>2, <1>5 DEF CreatesFirst
<1>7. w.kind = "obj" /\ w.o = o /\ w.val = D!Absent /\ ~w.val.exists
  BY SetIs
<1>8. ~db.obj[o].exists /\ db.obj[o] = D!Absent
  BY <1>2, <1>3, RowsDiffer DEF CreatesFirst, RowsSound
<1>9. PICK v \in W : v.kind = "obj" /\ v.o = o
  BY <1>2 DEF CreatesFirst, D!Of
<1>10. Reach(w) = Reach(v)
  BY <1>7, <1>9 DEF Reach
<1>11. Reach(w) \subseteq Locks /\ Reach(h) \subseteq Locks /\ Locks \subseteq DirRows
  BY <1>2, <1>3, <1>5, <1>9, <1>10, LocksRows DEF WellWritten
<1> HIDE DEF w, h, W
<1>12. ASSUME NEW x \in DirRows, x \notin Locks PROVE EqualRow(cluster', cluster, x)
  <2>1. EqualRow(now, cluster, x)
    <3>1. EqualRow(D!Sent(cluster, h), cluster, x)
      BY <1>11, <1>12, SentAway
    <3> QED BY <3>1 DEF EqualRow, h
  <2>2. EqualRow(cluster', now, x)
    BY <1>11, <1>12, SentAway DEF w
  <2> QED BY <2>1, <2>2 DEF EqualRow
<1>13. /\ \A y \in D!Objects : cluster'.obj[y] = IF o = y THEN D!Absent ELSE now.obj[y]
       /\ cluster'.member \in BOOLEAN
       /\ cluster'.member <=> now.member /\ ~(o = Mailbox)
       /\ \A e \in D!Recipients : cluster'.rcpt[e] = IF o = List THEN "none" ELSE now.rcpt[e]
  <2> DEFINE c == D!Sent(now, w)
  <2>1. cluster' = c
    BY DEF w
  <2>2. /\ \A y \in D!Objects : c.obj[y] = IF w.kind = "obj" /\ w.o = y THEN w.val ELSE now.obj[y]
        /\ c.member \in BOOLEAN
        /\ c.member <=> IF w.kind = "member" /\ w.o = Mailbox THEN w.status = "on"
                        ELSE now.member /\ ~(w.kind = "obj" /\ w.o = Mailbox /\ ~w.val.exists)
        /\ \A e \in D!Recipients :
              c.rcpt[e] = IF w.kind = "rcpt" /\ w.o = e THEN SentAs(w).status
                          ELSE IF w.kind = "obj" /\ w.o = List /\ ~w.val.exists THEN "none" ELSE now.rcpt[e]
    BY SentRows
  <2> HIDE DEF c, o
  <2> QED BY <1>7, <2>1, <2>2
<1>14. ASSUME NEW x \in Locks PROVE SameRow(cluster', db', x)
  <2>0. x \in DirRows /\ o \in D!Objects
    BY <1>11, RowsDiffer
  <2>1. Locks = {<<"obj", o>>}
              \cup (IF o = Group \/ o = Mailbox THEN {<<"member", Mailbox>>} ELSE {})
              \cup (IF o = Group /\ r.op.on THEN {<<"obj", Mailbox>>} ELSE {})
              \cup (IF o = Mailbox /\ r.op.on THEN {<<"rcpt", Mailbox>>} ELSE {})
              \cup (IF o = List THEN {<<"rcpt", e>> : e \in D!Recipients} ELSE {})
    BY <1>2, LocksAre
  <2>2. o # Group
    BY RowsDiffer
  <2>3. \/ x = <<"obj", o>>
        \/ x = <<"member", Mailbox>> /\ o = Mailbox
        \/ x = <<"rcpt", Mailbox>> /\ o = Mailbox
        \/ o = List /\ \E e \in D!Recipients : x = <<"rcpt", e>>
    <3> HIDE DEF o, Locks
    <3> QED BY <1>14, <2>1, <2>2
  <2>4. CASE x = <<"obj", o>>
    <3>1. x[1] = "obj" /\ x[2] = o
      BY <2>4
    <3>2. cluster'.obj[o] = db'.obj[o]
      BY <1>8, <1>13, <2>0
    <3> HIDE DEF o
    <3> QED BY <3>1, <3>2 DEF SameRow
  <2>5. CASE x = <<"member", Mailbox>> /\ o = Mailbox
    <3>1. x[1] = "member"
      BY <2>5
    <3>2. ~cluster'.member /\ ~db'.member
      BY <1>3, <1>8, <1>13, <2>5 DEF RowsSound
    <3> QED BY <3>1, <3>2 DEF SameRow
  <2>6. CASE x = <<"rcpt", Mailbox>> /\ o = Mailbox
    <3>1. x[1] = "rcpt" /\ x[2] = Mailbox /\ Mailbox \in D!Recipients
      BY <2>6 DEF D!Recipients
    <3>2. now = cluster
      BY <2>6, RowsDiffer
    <3>3. cluster'.rcpt[Mailbox] = cluster.rcpt[Mailbox]
      BY <1>13, <2>6, <3>1, <3>2, RowsDiffer
    <3>4. ASSUME NEW u \in DoneOf(r) PROVE x \notin Reach(u)
      <4>1. u \in W /\ u # h
        BY <1>5 DEF DoneOf, W
      <4>2. CASE u.kind = "obj"
        <5>1. u.o = Mailbox
          BY <1>2, <2>6, <4>1, <4>2 DEF CreatesFirst, W
        <5>2. Reach(u) = {<<"obj", Mailbox>>} \cup {<<"member", Mailbox>>}
          BY <4>2, <5>1, RowsDiffer DEF Reach
        <5>3. x # <<"obj", Mailbox>> /\ x # <<"member", Mailbox>>
          BY <2>6
        <5> QED BY <5>2, <5>3
      <4>3. CASE u.kind # "obj"
        <5>1. u.kind = "rcpt" /\ u.o = Mailbox /\ h.kind = "rcpt" /\ h.o = Mailbox
          BY <1>2, <1>5, <1>6, <2>6, <4>1, <4>3 DEF CreatesFirst, W
        <5> QED BY <1>2, <1>5, <4>1, <5>1 DEF WellWritten, W
      <4> QED BY <4>2, <4>3
    <3>5. EqualRow(D!Write(db, DoneOf(r)), db, x)
      BY <2>0, <3>4, WriteAway
    <3>6. SameRow(cluster, D!Write(db, DoneOf(r)), x)
      BY <1>1, <1>3, <1>14 DEF RowsFollow
    <3>7. SameRow(cluster, db, x)
      BY <3>5, <3>6 DEF SameRow, EqualRow
    <3> QED BY <3>1, <3>3, <3>7 DEF SameRow
  <2>7. CASE o = List /\ \E e \in D!Recipients : x = <<"rcpt", e>>
    <3>1. PICK e \in D!Recipients : x = <<"rcpt", e>>
      BY <2>7
    <3>2. x[1] = "rcpt" /\ x[2] = e
      BY <3>1
    <3>3. cluster'.rcpt[e] = "none"
      BY <1>13, <2>7
    <3>4. db.rcpt[e] = "none"
      BY <1>3, <1>8, <2>7 DEF RowsSound
    <3> QED BY <3>2, <3>3, <3>4 DEF SameRow
  <2> QED BY <2>3, <2>4, <2>5, <2>6, <2>7
<1>15. ClusterHeldOnce'
  <2>1. \A a, b \in D!Objects : a # b => D!HeldBy(now, a) \cap D!HeldBy(now, b) = {}
    <3>1. CASE effect
      BY <1>3, <3>1, SentHeldOnce DEF h
    <3>2. CASE ~effect
      BY <1>3, <3>2 DEF ClusterHeldOnce
    <3> QED BY <3>1, <3>2
  <2>2. o \in D!Objects
    BY RowsDiffer
  <2> QED BY <2>1, <2>2, DroppedHeldOnce DEF ClusterHeldOnce
<1>16. RowsSound'
  BY <1>3, <1>13 DEF RowsSound
<1>17. \A x : EqualRow(db', db, x)
  BY DEF EqualRow
<1> QED BY <1>1, <1>3, <1>12, <1>14, <1>15, <1>16, <1>17, Settles

\* A push fails.
LEMMA FailSound ==
    ASSUME DirSound, DOMAIN request = Requests, NEW p \in Requests, NEW effect \in BOOLEAN, D!Fail(p, effect), ~broken'
    PROVE  DirSound'
<1> DEFINE r == request[p]
           h == Head(r.todo)
           now == IF effect THEN D!Sent(cluster, h) ELSE cluster
           undo == D!Undone(r.op) /\ r.pushed
<1>1. /\ D!Waits(p) /\ (effect => D!Accepts(h)) /\ ~D!Remains(p, h, effect)
      /\ cluster' = IF undo THEN D!Sent(now, D!SetObj(r.op.o, D!Absent)) ELSE now
      /\ request' = [request EXCEPT ![p] = D!Idle] /\ db' = db /\ legacy' = legacy
  BY DEF D!Fail
<1>2. Pushing(p) /\ r.todo # <<>> /\ r.at = "pushing"
  BY <1>1 DEF D!Waits, Pushing
<1>3. CASE ~r.pushed
  <2>1. WellWritten(r) /\ CreatesFirst(r)
    BY <1>2 DEF DirSound, Planning
  <2>2. r.op.kind = "create" => h.kind = "obj"
    <3>1. r.todo \in Seq(TodoOf(r))
      BY <2>1 DEF WellWritten, Lists
    <3>2. h = r.todo[1]
      BY <1>2, <3>1
    <3> QED BY <1>3, <2>1, <3>2 DEF CreatesFirst
  <2>3. ~effect
    BY <1>1, <2>2 DEF D!Remains
  <2>4. cluster' = cluster
    BY <1>1, <1>3, <2>3
  <2> QED BY <1>1, <1>2, <1>3, <2>4, NothingPushed
<1>4. CASE r.pushed
  <2>1. r.op.kind = "create" /\ r.op.o # Group
    BY <1>1, <1>4 DEF D!Remains
  <2>2. r.op.o \in {Mailbox, List}
    BY <1>2, <2>1, LocksAre, RowsDiffer DEF DirSound, Asking
  <2>3. undo
    BY <1>4, <2>1, <2>2 DEF D!Undone
  <2>4. effect => r.op.o = List
    BY <1>1, <2>1, <2>2 DEF D!Remains
  <2> HIDE DEF undo
  <2>5. cluster' = D!Sent(now, D!SetObj(r.op.o, D!Absent))
    BY <1>1, <2>3
  <2> QED BY <1>1, <1>4, <2>1, <2>2, <2>4, <2>5, UndoSound
<1> QED BY <1>3, <1>4

\* What the rows are once a request has written them.
LEMMA WrittenSound ==
    ASSUME NEW r, legacy = {}, WellWritten(r), AdoptsAll(r), Supposes(r), DoneOf(r) = WritesOf(r), RowsSound,
           NEW d, d = D!Write(db, WritesOf(r))
    PROVE  /\ d.member \in BOOLEAN
           /\ \A o \in D!Objects : d.obj[o].exists \/ d.obj[o] = D!Absent
           /\ d.member => d.obj[Mailbox].exists
           /\ d.obj[List].exists \/ \A e \in D!Recipients : d.rcpt[e] = "none"
           /\ db.obj[List].exists => d.obj[List].exists \/ \A e \in D!Recipients : <<"rcpt", e>> \in D!Locks(r.op)
<1> DEFINE W == WritesOf(r)
           Of(kind, o) == D!Of(W, kind, o)
<1>1. \A kind, o : Of(kind, o) # {} => D!The(Of(kind, o)) \in W /\ D!The(Of(kind, o)).kind = kind /\ D!The(Of(kind, o)).o = o
  BY DEF D!The, D!Of
<1>2. \A kind, o : \A w \in W : w.kind = kind /\ w.o = o => Of(kind, o) # {} /\ D!The(Of(kind, o)) = w
  <2> SUFFICES ASSUME NEW w \in W PROVE Of(w.kind, w.o) # {} /\ D!The(Of(w.kind, w.o)) = w
    OBVIOUS
  <2>1. Of(w.kind, w.o) # {}
    BY DEF D!Of
  <2> QED BY <1>1, <2>1 DEF WellWritten
<1>3. \A o : D!Gone(W, o) <=> Of("obj", o) # {} /\ ~D!The(Of("obj", o)).val.exists
  <2> SUFFICES ASSUME NEW o PROVE D!Gone(W, o) <=> Of("obj", o) # {} /\ ~D!The(Of("obj", o)).val.exists
    OBVIOUS
  <2>1. \A w \in Of("obj", o) : w \in W /\ w.kind = "obj" /\ w.o = o
    BY DEF D!Of
  <2>2. Of("obj", o) # {} => D!The(Of("obj", o)) \in Of("obj", o)
    BY DEF D!The
  <2> HIDE DEF Of
  <2>3. D!Gone(W, o) <=> \E w \in Of("obj", o) : ~w.val.exists
    BY DEF D!Gone, Of
  <2> QED BY <1>2, <2>1, <2>2, <2>3
<1>4. /\ \A o \in D!Objects : d.obj[o] = IF Of("obj", o) = {} THEN db.obj[o] ELSE D!The(Of("obj", o)).val
      /\ d.member \in BOOLEAN
      /\ d.member <=> IF Of("member", Mailbox) = {} THEN db.member /\ ~D!Gone(W, Mailbox)
                      ELSE D!The(Of("member", Mailbox)).status = "on"
      /\ \A e \in D!Recipients : d.rcpt[e] = IF Of("rcpt", e) # {} THEN D!The(Of("rcpt", e)).status
                                             ELSE IF D!Gone(W, List) THEN "none" ELSE db.rcpt[e]
  BY WriteObj, WriteMember, WriteRcpt
<1>5. /\ \A w \in W : w.kind = "obj" => w.val.exists \/ (w.val = D!Absent /\ (w.o # Group => W = {w}))
      /\ r.op.kind = "adopt" => W = {}
  BY DEF WellWritten, AdoptsAll
<1>6. \A w \in W :
        /\ w.kind = "member" /\ w.status = "on" => db.obj[Mailbox].exists
        /\ w.kind = "rcpt" /\ w.status # "none" => db.obj[List].exists \/ Of("obj", List) # {}
  BY <1>5 DEF Supposes
<1>7. \A w \in W : w.kind = "obj" /\ w.o = List => \A e \in D!Recipients : <<"rcpt", e>> \in D!Locks(r.op)
  <2> SUFFICES ASSUME NEW w \in W, w.kind = "obj", w.o = List, NEW e \in D!Recipients
               PROVE  <<"rcpt", e>> \in D!Locks(r.op)
    OBVIOUS
  <2>1. <<"rcpt", e>> \in Reach(w)
    BY DEF Reach
  <2> QED BY <2>1 DEF WellWritten
<1> HIDE DEF W, Of
<1>8. ASSUME NEW o \in D!Objects PROVE d.obj[o].exists \/ d.obj[o] = D!Absent
  BY <1>1, <1>4, <1>5 DEF RowsSound
<1>9. ASSUME d.member PROVE d.obj[Mailbox].exists
  <2> DEFINE w == D!The(Of("obj", Mailbox))
             m == D!The(Of("member", Mailbox))
  <2>1. CASE Of("obj", Mailbox) # {} /\ ~w.val.exists
    <3>1. W = {w} /\ w.kind = "obj"
      BY <1>1, <1>5, <2>1, RowsDiffer
    <3>2. Of("member", Mailbox) = {}
      BY <1>1, <3>1
    <3>3. D!Gone(W, Mailbox)
      BY <1>3, <2>1
    <3> QED BY <1>4, <1>9, <3>2, <3>3
  <2>2. CASE Of("obj", Mailbox) # {} /\ w.val.exists
    BY <1>4, <2>2, RowsDiffer
  <2>3. CASE Of("obj", Mailbox) = {}
    <3>1. d.obj[Mailbox] = db.obj[Mailbox]
      BY <1>4, <2>3, RowsDiffer
    <3>2. CASE Of("member", Mailbox) = {}
      BY <1>4, <1>9, <3>1, <3>2 DEF RowsSound
    <3>3. CASE Of("member", Mailbox) # {}
      <4>1. m \in W /\ m.kind = "member" /\ m.status = "on"
        BY <1>1, <1>4, <1>9, <3>3
      <4> QED BY <1>6, <3>1, <4>1
    <3> QED BY <3>2, <3>3
  <2> QED BY <2>1, <2>2, <2>3
<1>10. ASSUME ~d.obj[List].exists, NEW e \in D!Recipients PROVE d.rcpt[e] = "none"
  <2> DEFINE w == D!The(Of("obj", List))
             m == D!The(Of("rcpt", e))
  <2>1. CASE Of("obj", List) # {}
    <3>1. ~w.val.exists
      BY <1>4, <1>10, <2>1, RowsDiffer
    <3>2. W = {w} /\ w.kind = "obj"
      BY <1>1, <1>5, <2>1, <3>1, RowsDiffer
    <3>3. Of("rcpt", e) = {}
      BY <1>1, <3>2
    <3>4. D!Gone(W, List)
      BY <1>3, <2>1, <3>1
    <3> QED BY <1>4, <3>3, <3>4
  <2>2. CASE Of("obj", List) = {}
    <3>1. ~db.obj[List].exists /\ db.rcpt[e] = "none" /\ ~D!Gone(W, List)
      BY <1>3, <1>4, <1>10, <2>2, RowsDiffer DEF RowsSound
    <3>2. Of("rcpt", e) # {} => m \in W /\ m.kind = "rcpt"
      BY <1>1
    <3>3. Of("rcpt", e) # {} => m.status = "none"
      BY <1>6, <2>2, <3>1, <3>2
    <3> QED BY <1>4, <3>1, <3>3
  <2> QED BY <2>1, <2>2
<1>11. ASSUME db.obj[List].exists, ~d.obj[List].exists, NEW e \in D!Recipients PROVE <<"rcpt", e>> \in D!Locks(r.op)
  <2>1. Of("obj", List) # {}
    BY <1>4, <1>11, RowsDiffer
  <2> QED BY <1>1, <1>7, <2>1
<1> QED BY <1>4, <1>8, <1>9, <1>10, <1>11

\* It commits all that it pushed, or adopts.
LEMMA CommitSound ==
    ASSUME DirSound, DOMAIN request = Requests, NEW p \in Requests, D!Commit(p)
    PROVE  DirSound'
<1> DEFINE r == request[p]
           W == WritesOf(r)
<1>1. /\ Pushing(p) /\ r.at = "pushing" /\ r.todo = <<>> /\ db' = D!Write(db, W) /\ cluster' = cluster
      /\ legacy' = (IF r.op.kind = "adopt" THEN {o \in legacy : ~db'.obj[o].exists} ELSE legacy)
      /\ request' = [request EXCEPT ![p] = D!Idle]
  BY DEF D!Commit, Pushing, WritesOf
<1>2. WellWritten(r) /\ CreatesFirst(r) /\ AdoptsAll(r) /\ Supposes(r) /\ r.op \in D!Ops
  BY <1>1 DEF DirSound, Planning, Asking
<1>3. DoneOf(r) = W
  <2>1. D!ToSet(<<>>) = {}
    BY DEF D!ToSet
  <2> QED BY <1>1, <2>1 DEF DoneOf, TodoOf
<1> HIDE DEF W
<1>4. CASE legacy = {}
  <2>1. legacy' = {} /\ RowsFollow /\ RowsSound /\ ClusterHeldOnce
    BY <1>1, <1>4 DEF DirSound
  <2>2. ASSUME NEW x \in DirRows, x \notin D!Locks(r.op) PROVE EqualRow(db', db, x)
    <3>1. \A w \in W : x \notin Reach(w)
      BY <1>2, <2>2 DEF WellWritten, W
    <3> QED BY <1>1, <3>1, WriteAway
  <2>3. ASSUME NEW x \in D!Locks(r.op) PROVE SameRow(cluster', db', x)
    BY <1>1, <1>3, <2>1, <2>3 DEF RowsFollow
  <2>4. /\ db'.member \in BOOLEAN
        /\ \A o \in D!Objects : db'.obj[o].exists \/ db'.obj[o] = D!Absent
        /\ db'.member => db'.obj[Mailbox].exists
        /\ db'.obj[List].exists \/ \A e \in D!Recipients : db'.rcpt[e] = "none"
        /\ db.obj[List].exists => db'.obj[List].exists \/ \A e \in D!Recipients : <<"rcpt", e>> \in D!Locks(r.op)
    <3>1. PICK d : d = D!Write(db, W)
      OBVIOUS
    <3>2. db' = d
      BY <1>1, <3>1
    <3>3. /\ d.member \in BOOLEAN
          /\ \A o \in D!Objects : d.obj[o].exists \/ d.obj[o] = D!Absent
          /\ d.member => d.obj[Mailbox].exists
          /\ d.obj[List].exists \/ \A e \in D!Recipients : d.rcpt[e] = "none"
          /\ db.obj[List].exists => d.obj[List].exists \/ \A e \in D!Recipients : <<"rcpt", e>> \in D!Locks(r.op)
      BY <1>2, <1>3, <1>4, <2>1, <3>1, WrittenSound DEF W
    <3> QED BY <3>2, <3>3
  <2>5. RowsSound' /\ ClusterHeldOnce'
    BY <1>1, <2>1, <2>4 DEF RowsSound, ClusterHeldOnce
  <2>6. \A x : EqualRow(cluster', cluster, x)
    BY <1>1 DEF EqualRow
  <2> QED BY <1>1, <1>4, <2>1, <2>2, <2>3, <2>4, <2>5, <2>6, Settles
<1>5. CASE legacy # {}
  <2>1. NothingAdopted
    BY <1>5 DEF DirSound
  <2>2. r.op.kind = "adopt"
    BY <1>1, <1>2, <2>1 DEF NothingAdopted, CreatesFirst
  <2>3. db' = cluster /\ db' = OldCluster
    BY <1>1, <1>2, <1>5, <2>1, <2>2 DEF AdoptsAll, NothingAdopted, W
  <2>4. \A o \in D!Objects : db'.obj[o].exists
    BY <2>3 DEF OldCluster, D!Present
  <2>5. legacy' = {}
    BY <1>1, <2>1, <2>2, <2>4 DEF NothingAdopted
  <2>6. DirRows \subseteq D!Locks(r.op)
    <3>1. D!Locks(r.op) = {<<"obj", o>> : o \in legacy} \cup {<<"member", Mailbox>>} \cup {<<"rcpt", e>> : e \in D!Recipients}
      BY <1>2, <2>2, LocksAre
    <3> QED BY <2>1, <3>1 DEF DirRows, NothingAdopted
  <2>7. D!Idle.at = "idle" /\ request'[p] = D!Idle /\ \A q \in Requests \ {p} : request'[q] = request[q]
    BY <1>1 DEF D!Idle
  <2>8. ASSUME NEW q \in Requests PROVE request'[q].at # "pushing"
    <3>1. CASE q = p
      BY <2>7, <3>1
    <3>2. CASE q # p
      <4> SUFFICES ASSUME Pushing(q) PROVE FALSE
        BY <2>7, <3>2 DEF Pushing
      <4>1. request[q].op \in D!Ops /\ request[q].op.kind \in {"create", "adopt"}
        BY <2>1 DEF DirSound, Asking, NothingAdopted, Pushing
      <4>2. \E x : x \in D!Locks(request[q].op)
        <5>1. CASE request[q].op.kind = "create"
          <6>1. <<"obj", request[q].op.o>> \in D!Locks(request[q].op)
            BY <4>1, <5>1, LocksAre
          <6> QED BY <6>1
        <5>2. CASE request[q].op.kind = "adopt"
          <6>1. <<"member", Mailbox>> \in D!Locks(request[q].op)
            BY <4>1, <5>2, LocksAre
          <6> QED BY <6>1
        <5> QED BY <4>1, <5>1, <5>2
      <4>3. D!Locks(request[q].op) \subseteq DirRows
        BY <2>1, <4>1, LocksRows DEF NothingAdopted
      <4> QED BY <1>1, <2>6, <3>2, <4>2, <4>3 DEF DirSound, Excluding
    <3> QED BY <3>1, <3>2
  <2>9. Asking'
    BY <2>7 DEF DirSound, Asking
  <2>10. Planning' /\ Excluding'
    BY <2>8 DEF Planning, Excluding, Pushing
  <2>11. RowsFollow'
    <3>1. \A x : SameRow(cluster', db', x)
      BY <1>1, <2>3 DEF SameRow
    <3> QED BY <2>8, <3>1 DEF RowsFollow, Pushing
  <2>12. RowsSound' /\ ClusterHeldOnce'
    <3>1. db'.member = TRUE /\ cluster'.member = TRUE
      BY <1>1, <2>3 DEF OldCluster
    <3>2. RowsSound'
      BY <2>4, <3>1, RowsDiffer DEF RowsSound
    <3> QED BY <1>1, <3>2 DEF DirSound, ClusterHeldOnce
  <2> QED BY <2>5, <2>9, <2>10, <2>11, <2>12 DEF DirSound
<1> QED BY <1>4, <1>5

\* At the start.
LEMMA DirInit == D!Init => DirInv
<1> SUFFICES ASSUME D!Init PROVE DirSound /\ DOMAIN request = Requests /\ broken = FALSE
  BY DEF DirInv
<1>1. /\ db = D!Empty /\ request = [p \in Requests |-> D!Idle] /\ broken = FALSE
      /\ (cluster = OldCluster /\ legacy = D!Objects) \/ (cluster = D!Empty /\ legacy = {})
  BY DEF D!Init, OldCluster
<1>2. \A p \in Requests : request[p].at = "idle"
  BY <1>1 DEF D!Idle
<1>3. Asking /\ Planning /\ Excluding
  BY <1>2 DEF Asking, Planning, Excluding, Pushing
<1>4. RowsSound
  <2>1. cluster.member \in BOOLEAN
    <3>1. OldCluster.member = TRUE
      BY DEF OldCluster
    <3>2. D!Empty.member = FALSE
      BY DEF D!Empty
    <3> QED BY <1>1, <3>1, <3>2
  <2>2. /\ db.member = FALSE /\ \A o \in D!Objects : db.obj[o] = D!Absent
        /\ \A e \in D!Recipients : db.rcpt[e] = "none"
    BY <1>1 DEF D!Empty
  <2> QED BY <2>1, <2>2 DEF RowsSound
<1>5. ClusterHeldOnce
  <2>1. CASE cluster = D!Empty
    <3>1. \A o \in D!Objects : D!HeldBy(cluster, o) = {}
      BY <2>1 DEF D!HeldBy, D!Empty, D!Absent
    <3> QED BY <3>1 DEF ClusterHeldOnce
  <2>2. CASE cluster = OldCluster
    <3>1. \A o \in D!Objects : D!HeldBy(cluster, o) = {o} \cup (IF o = Group THEN {Alias} ELSE {})
      BY <2>2 DEF D!HeldBy, OldCluster, D!Present
    <3>2. \A o \in D!Objects : o # Alias
      BY DirectoryConstants DEF D!Objects
    <3> QED BY <3>1, <3>2 DEF ClusterHeldOnce
  <2> QED BY <1>1, <2>1, <2>2
<1>6. legacy = {} => RowsFollow
  <2> SUFFICES ASSUME legacy = {} PROVE RowsFollow
    OBVIOUS
  <2>1. cluster = db
    BY <1>1, RowsDiffer
  <2> QED BY <1>2, <2>1 DEF RowsFollow, SameRow, Pushing
<1>7. legacy # {} => NothingAdopted
  BY <1>1, <1>2 DEF NothingAdopted
<1> QED BY <1>1, <1>3, <1>4, <1>5, <1>6, <1>7 DEF DirSound

\* While another part moves.
LEMMA DirUnchanged ==
    ASSUME DirInv, UNCHANGED directory
    PROVE  DirInv'
<1>1. /\ db' = db /\ cluster' = cluster /\ legacy' = legacy /\ request' = request /\ broken' = broken
  BY DEF directory
<1> SUFFICES ASSUME DirSound PROVE DirSound'
  BY <1>1 DEF DirInv
<1>2. \A op : D!Locks(op)' = D!Locks(op)
  BY <1>1, LocksKept
<1>3. Asking' /\ Excluding' /\ RowsSound' /\ ClusterHeldOnce'
  BY <1>1, <1>2 DEF DirSound, Asking, Excluding, RowsSound, ClusterHeldOnce, Pushing
<1>4. Planning'
  <2> SUFFICES ASSUME NEW q \in Requests, request'[q].at = "pushing"
               PROVE  /\ WellWritten(request[q])' /\ CreatesFirst(request[q])'
                      /\ AdoptsAll(request[q])' /\ Supposes(request[q])'
    BY DEF Planning, Pushing
  <2>1. WellWritten(request[q]) /\ CreatesFirst(request[q]) /\ AdoptsAll(request[q]) /\ Supposes(request[q])
    BY <1>1 DEF DirSound, Planning, Pushing
  <2> QED BY <1>1, <2>1, PlansKept
<1>5. IF legacy = {} THEN RowsFollow' ELSE NothingAdopted'
  BY <1>1, <1>2 DEF DirSound, RowsFollow, NothingAdopted, Free, Pushing
<1> QED BY <1>1, <1>3, <1>4, <1>5 DEF DirSound

\* Every step of the directory.
LEMMA DirStep ==
    ASSUME DirInv, D!Next
    PROVE  DirInv'
<1>1. PICK p \in Requests :
        \/ \E op \in D!Ops : D!Ask(p, op)
        \/ D!Begin(p) \/ D!Push(p) \/ D!Crash(p) \/ D!Commit(p)
        \/ \E effect \in BOOLEAN : D!Fail(p, effect)
  BY DEF D!Next
<1>2. DOMAIN request' = Requests /\ broken' \in BOOLEAN /\ (broken => broken')
  BY <1>1 DEF DirInv, D!Ask, D!Begin, D!Push, D!Crash, D!Commit, D!Fail
<1>3. ASSUME ~broken' PROVE DirSound'
  <2>1. DirSound /\ DOMAIN request = Requests
    BY <1>2, <1>3 DEF DirInv
  <2>2. CASE \E op \in D!Ops : D!Ask(p, op)
    BY <2>1, <2>2, AskSound
  <2>3. CASE D!Begin(p)
    BY <1>3, <2>1, <2>3, BeginSound
  <2>4. CASE D!Push(p)
    BY <2>1, <2>4, PushSound
  <2>5. CASE D!Crash(p)
    BY <1>3, <2>1, <2>5, CrashSound
  <2>6. CASE D!Commit(p)
    BY <2>1, <2>6, CommitSound
  <2>7. CASE \E effect \in BOOLEAN : D!Fail(p, effect)
    BY <1>3, <2>1, <2>7, FailSound
  <2> QED BY <1>1, <2>2, <2>3, <2>4, <2>5, <2>6, <2>7
<1> QED BY <1>2, <1>3 DEF DirInv

\* In every state.
LEMMA DirAlways == MCSpec => []DirInv
<1>1. MCInit => DirInv
  BY DirInit DEF MCInit
<1>2. DirInv /\ [MCNext]_<<part, vars, credentials, directory>> => DirInv'
  <2> SUFFICES ASSUME DirInv, [MCNext]_<<part, vars, credentials, directory>> PROVE DirInv'
    OBVIOUS
  <2>1. CASE D!Next
    BY <2>1, DirStep
  <2>2. CASE UNCHANGED directory
    BY <2>2, DirUnchanged
  <2> QED BY <2>1, <2>2 DEF MCNext
<1> QED BY <1>1, <1>2, PTL DEF MCSpec

\* The cluster has each address that the rows have, unless a request lets one go.
LEMMA RowsHeld ==
    ASSUME DirSound, \A p \in Requests : ~D!Releases(p), NEW o \in D!Objects
    PROVE  D!HeldBy(db, o) \subseteq D!HeldBy(cluster, o)
<1>1. CASE legacy # {}
  <2>1. ~db.obj[o].exists
    BY <1>1 DEF DirSound, NothingAdopted, D!Empty, D!Absent
  <2> QED BY <2>1 DEF D!HeldBy
<1>2. CASE legacy = {}
  <2> DEFINE x == <<"obj", o>>
  <2>0. RowsFollow /\ x \in DirRows /\ x[1] = "obj" /\ x[2] = o
    BY <1>2, RowsDiffer DEF DirSound
  <2> HIDE DEF x
  <2>1. CASE Free(x)
    <3>1. cluster.obj[o] = db.obj[o]
      BY <2>0, <2>1 DEF RowsFollow, SameRow
    <3> QED BY <3>1 DEF D!HeldBy
  <2>2. CASE ~Free(x)
    <3>1. PICK p \in Requests : Pushing(p) /\ x \in D!Locks(request[p].op)
      BY <2>2 DEF Free
    <3> DEFINE r == request[p]
               N == DoneOf(r)
               w == D!The(D!Of(N, "obj", o))
    <3>2. AdoptsAll(r) /\ Supposes(r) /\ ~LetsGo(r.op)
      BY <3>1 DEF DirSound, Planning, D!Releases, LetsGo
    <3>3. cluster.obj[o] = D!Write(db, N).obj[o]
      BY <2>0, <3>1 DEF RowsFollow, SameRow
    <3>4. cluster.obj[o] = IF D!Of(N, "obj", o) = {} THEN db.obj[o] ELSE w.val
      BY <3>3, WriteObj
    <3>5. CASE D!Of(N, "obj", o) = {}
      BY <3>4, <3>5 DEF D!HeldBy
    <3>6. CASE D!Of(N, "obj", o) # {}
      <4>1. w \in WritesOf(r) /\ w.kind = "obj" /\ w.o = o
        BY <3>6 DEF D!The, D!Of, DoneOf
      <4>2. r.op.kind # "adopt"
        BY <1>2, <3>2, <4>1 DEF AdoptsAll
      <4> HIDE DEF w
      <4>3. w.val.exists /\ D!HeldBy(db, o) \subseteq {o} \cup w.val.aliases
        BY <3>2, <4>1, <4>2 DEF Supposes
      <4>4. D!HeldBy(cluster, o) = {o} \cup w.val.aliases
        BY <3>4, <3>6, <4>3 DEF D!HeldBy
      <4> QED BY <4>3, <4>4
    <3> QED BY <3>5, <3>6
  <2> QED BY <2>1, <2>2
<1> QED BY <1>1, <1>2

\* While no request lets an address go it belongs to one object at most in the committed rows, whatever
\* requests check it at the same time, though assert_address_available reads without a lock: the cluster
\* refuses the second, and its request rolls back; for any number of requests, edits and faults.
THEOREM AddressesAreHeldOnce == MCSpec => []AddressHeldOnce
<1>1. DirInv => AddressHeldOnce
  <2> SUFFICES ASSUME DirInv, ~broken, \A p \in Requests : ~D!Releases(p), NEW o \in D!Objects, NEW other \in D!Objects, o # other
               PROVE  D!HeldBy(db, o) \cap D!HeldBy(db, other) = {}
    BY DEF AddressHeldOnce, D!AddressHeldOnce
  <2>1. DirSound
    BY DEF DirInv
  <2>2. D!HeldBy(db, o) \subseteq D!HeldBy(cluster, o) /\ D!HeldBy(db, other) \subseteq D!HeldBy(cluster, other)
    BY <2>1, RowsHeld
  <2>3. D!HeldBy(cluster, o) \cap D!HeldBy(cluster, other) = {}
    BY <2>1 DEF DirSound, ClusterHeldOnce
  <2> QED BY <2>2, <2>3
<1> QED BY <1>1, DirAlways, PTL

\* With nothing under way the cluster has the rows' objects, aliases, membership and enabled recipients,
\* over concurrent requests that share rows, failed creations that are undone, calls that fail with or
\* without effect, dead workers and adoption (sync.py, push_recipient_changes, adopt.py), unless a request
\* rolled back with pushes done or had read what changed before its locks; for any number of requests.
THEOREM DirectoryIsFollowed == MCSpec => []DirectoryFollows
<1>1. DirInv => DirectoryFollows
  <2> SUFFICES ASSUME DirInv, \A p \in Requests : request[p] = D!Idle, ~broken
               PROVE  /\ \A o \in D!Objects \ legacy : cluster.obj[o] = db.obj[o]
                      /\ legacy = {} => cluster.member = db.member
                      /\ List \notin legacy => \A e \in D!Recipients : cluster.rcpt[e] = "on" <=> db.rcpt[e] = "on"
    BY DEF DirectoryFollows, D!DirectoryFollows
  <2>1. DirSound
    BY DEF DirInv
  <2>2. CASE legacy # {}
    BY <2>1, <2>2, RowsDiffer DEF DirSound, NothingAdopted
  <2>3. CASE legacy = {}
    <3>1. \A x \in DirRows : SameRow(cluster, db, x)
      BY <2>1, <2>3 DEF DirSound, RowsFollow, Free, Pushing, D!Idle
    <3>2. ASSUME NEW o \in D!Objects PROVE cluster.obj[o] = db.obj[o]
      <4>1. SameRow(cluster, db, <<"obj", o>>)
        BY <3>1, RowsDiffer
      <4> QED BY <4>1 DEF SameRow
    <3>3. cluster.member = db.member
      BY <2>1, <3>1, RowsDiffer DEF SameRow, DirSound, RowsSound
    <3>4. ASSUME NEW e \in D!Recipients PROVE cluster.rcpt[e] = "on" <=> db.rcpt[e] = "on"
      <4>1. SameRow(cluster, db, <<"rcpt", e>>)
        BY <3>1, RowsDiffer
      <4> QED BY <4>1 DEF SameRow
    <3> QED BY <3>2, <3>3, <3>4
  <2> QED BY <2>2, <2>3
<1> QED BY <1>1, DirAlways, PTL
=============================================================================
