--------------------------- MODULE SendingLimits ---------------------------
(***************************************************************************)
(* The sending limits: mail/sending_limits.py with Mail Send Usage         *)
(* (mail_send_usage.py) and the Mail Account saves that clear the cache.   *)
(*                                                                         *)
(* Many web workers count recipients at once in Redis, where only the Lua  *)
(* script is atomic; one flush job copies the counters to the database;    *)
(* Redis loses keys; a day ends while all of this runs.  The refused       *)
(* counter takes the same path as the sent counter and is left out; so is  *)
(* the cluster name: an account of another cluster is, to a node, no       *)
(* account.                                                                *)
(***************************************************************************)
EXTENDS Naturals, FiniteSets

CONSTANTS
    Accounts,       \* addresses
    Limits,         \* limits an account may be given: records [daily, monthly]
    NoAccount,      \* the limits of an address that is no Mail Account
    None,           \* a missing Redis key
    Workers,        \* requests of Stalwart being served at once
    MonthLength,    \* days in a month
    MaxDay,         \* bound: the last UTC day
    MaxSaves,       \* bound: saves and deletions of accounts
    MaxLosses       \* bound: how often Redis loses counters, or misses a clear

ASSUME ConstantsAssumption ==
    /\ \A l \in Limits : l.daily \in Nat \ {0} /\ l.monthly \in Nat \ {0}
    /\ NoAccount \notin Limits
    /\ None \notin Limits /\ None # NoAccount
    /\ MonthLength \in Nat \ {0}
    /\ MaxDay \in Nat \ {0}
    /\ MaxSaves \in Nat
    /\ MaxLosses \in Nat

VARIABLES
    today,      \* the UTC day
    account,    \* committed Mail Account rows: limits, or NoAccount
    saves,      \* how many saves there were
    clearing,   \* accounts whose save is committed and whose after-commit clear is to run
    cache,      \* Redis: sending_limits:limit:<account>
    live,       \* Redis: the counter keys that exist
    counter,    \* Redis: their sent counts; 0 for a key that does not exist
    touched,    \* Redis: the touched set
    flushing,   \* Redis: the touched set that a flush took
    losses,     \* how often Redis lost counters, or missed a clear
    usage,      \* Mail Send Usage: sent; 0 for a period without a row
    stored,     \* Mail Send Usage: send_limit; 0 for a period without a row
    worker,     \* the requests
    flusher,    \* the flush job
    accepted,   \* history: recipients the check let through
    held,       \* history: the limits the account had while a day was current
    trashed     \* history: addresses whose account was deleted

vars == <<today, account, saves, clearing, cache, live, counter, touched, flushing, losses,
          usage, stored, worker, flusher, accepted, held, trashed>>

database == <<account, saves, clearing, usage, stored, held, trashed>>
redis == <<cache, live, counter, touched, flushing, losses>>

----------------------------------------------------------------------------
(* Periods and types *)

Days == 1 .. MaxDay
MonthOf(day) == (day - 1) \div MonthLength
Months == 0 .. (MaxDay - 1) \div MonthLength

DayKey(a, day) == <<a, "d", day>>
MonthKey(a, day) == <<a, "m", MonthOf(day)>>

\* A counter key, and a member of the touched set: <account>|<period>.
Keys == (Accounts \X {"d"} \X Days) \cup (Accounts \X {"m"} \X Months)

\* periods_at, for one account.
PeriodsAt(a, day) == {DayKey(a, day), MonthKey(a, day)}

\* reportable_periods: today, yesterday and their months.
Reportable(a) == PeriodsAt(a, today) \cup PeriodsAt(a, IF today > 1 THEN today - 1 ELSE today)

LimitOf(l, k) == IF k[2] = "d" THEN l.daily ELSE l.monthly

WorkerState ==
    [at: {"idle", "load", "fill", "stamp", "check", "seed", "recheck"}, account: Accounts \cup {None},
     limits: Limits \cup {NoAccount}, day: Days, seed: [Keys -> Nat]]

FlusherState ==
    [at: {"idle", "read", "match", "upsert", "clear"}, rows: SUBSET Keys, sent: [Keys -> Nat],
     limits: [Accounts -> Limits \cup {NoAccount}]]

NoCounts == [k \in Keys |-> 0]

Idle == [at |-> "idle", account |-> None, limits |-> NoAccount, day |-> 1, seed |-> NoCounts]

NoFlush == [at |-> "idle", rows |-> {}, sent |-> NoCounts,
            limits |-> [a \in Accounts |-> NoAccount]]

TypeOK ==
    /\ today \in Days
    /\ account \in [Accounts -> Limits \cup {NoAccount}]
    /\ saves \in 0 .. MaxSaves
    /\ clearing \subseteq Accounts
    /\ cache \in [Accounts -> Limits \cup {NoAccount, None}]
    /\ live \subseteq Keys
    /\ counter \in [Keys -> Nat]
    /\ touched \subseteq Keys
    /\ flushing \subseteq Keys
    /\ losses \in 0 .. MaxLosses
    /\ usage \in [Keys -> Nat]
    /\ stored \in [Keys -> Nat]
    /\ worker \in [Workers -> WorkerState]
    /\ flusher \in FlusherState
    /\ accepted \in [Keys -> Nat]
    /\ held \in [Accounts -> [Days -> SUBSET Limits]]
    /\ trashed \subseteq Accounts

Init ==
    /\ today = 1
    /\ account \in [Accounts -> Limits]
    /\ saves = 0
    /\ clearing = {}
    /\ cache = [a \in Accounts |-> None]
    /\ live = {}
    /\ counter = NoCounts
    /\ touched = {}
    /\ flushing = {}
    /\ losses = 0
    /\ usage = NoCounts
    /\ stored = NoCounts
    /\ worker = [w \in Workers |-> Idle]
    /\ flusher = NoFlush
    /\ accepted = NoCounts
    /\ held = [a \in Accounts |-> [d \in Days |-> IF d = 1 THEN {account[a]} ELSE {}]]
    /\ trashed = {}

----------------------------------------------------------------------------
(* count_recipient: one recipient *)

\* limits.cluster != cluster: the recipient goes out uncounted; else the day is stamped.
AfterLimits(a, limits) ==
    IF limits = NoAccount THEN Idle
    ELSE [Idle EXCEPT !.at = "stamp", !.account = a, !.limits = limits]

\* get_limits with the hash in the cache.
LimitsCached(w, a) ==
    /\ worker[w].at = "idle"
    /\ cache[a] # None
    /\ worker' = [worker EXCEPT ![w] = AfterLimits(a, cache[a])]
    /\ UNCHANGED <<today, database, redis, flusher, accepted>>

LimitsMissing(w, a) ==
    /\ worker[w].at = "idle"
    /\ cache[a] = None
    /\ worker' = [worker EXCEPT ![w] = [Idle EXCEPT !.at = "load", !.account = a]]
    /\ UNCHANGED <<today, database, redis, flusher, accepted>>

LoadLimits(w) ==
    /\ worker[w].at = "load"
    /\ worker' = [worker EXCEPT ![w].at = "fill", ![w].limits = account[worker[w].account]]
    /\ UNCHANGED <<today, database, redis, flusher, accepted>>

FillCache(w) ==
    LET a == worker[w].account IN
    /\ worker[w].at = "fill"
    /\ cache' = [cache EXCEPT ![a] = worker[w].limits]
    /\ worker' = [worker EXCEPT ![w] = AfterLimits(a, worker[w].limits)]
    /\ UNCHANGED <<today, database, live, counter, touched, flushing, losses, flusher, accepted>>

\* now is read once, before the script runs.
Stamp(w) ==
    /\ worker[w].at = "stamp"
    /\ worker' = [worker EXCEPT ![w].at = "check", ![w].day = today]
    /\ UNCHANGED <<today, database, redis, flusher, accepted>>

KeysOf(w) == PeriodsAt(worker[w].account, worker[w].day)

\* The verdict of the script: this recipient too is within both limits.
Fits(w, sent) ==
    LET a == worker[w].account
        d == worker[w].day
    IN  /\ sent[DayKey(a, d)] + 1 <= worker[w].limits.daily
        /\ sent[MonthKey(a, d)] + 1 <= worker[w].limits.monthly

\* The script from the verdict on, with the sent counts it found or seeded.
CountRecipient(w, sent) ==
    /\ counter' = [k \in Keys |-> IF k \in KeysOf(w) /\ Fits(w, sent) THEN sent[k] + 1 ELSE sent[k]]
    /\ accepted' = [k \in Keys |->
                      IF k \in KeysOf(w) /\ Fits(w, sent) THEN accepted[k] + 1 ELSE accepted[k]]
    /\ live' = live \cup KeysOf(w)
    /\ touched' = touched \cup KeysOf(w)
    /\ worker' = [worker EXCEPT ![w] = Idle]
    /\ UNCHANGED <<today, database, cache, flushing, losses, flusher>>

Check(w) ==
    /\ worker[w].at = "check"
    /\ KeysOf(w) \subseteq live
    /\ CountRecipient(w, counter)

\* A counter is missing: the script asks for the seed.
CheckAsksForSeed(w) ==
    /\ worker[w].at = "check"
    /\ ~(KeysOf(w) \subseteq live)
    /\ worker' = [worker EXCEPT ![w].at = "seed"]
    /\ UNCHANGED <<today, database, redis, flusher, accepted>>

\* get_seed: both periods, in one query.
GetSeed(w) ==
    /\ worker[w].at = "seed"
    /\ worker' = [worker EXCEPT ![w].at = "recheck",
                    ![w].seed = [k \in Keys |-> IF k \in KeysOf(w) THEN usage[k] ELSE 0]]
    /\ UNCHANGED <<today, database, redis, flusher, accepted>>

\* Mutant of Seeded: HSET for HSETNX.
SeededOver(w) == [k \in Keys |-> IF k \in KeysOf(w) THEN worker[w].seed[k] ELSE counter[k]]

\* Mutant of Seeded: the seed is added (HINCRBY for HSETNX).
SeededTwice(w) ==
    [k \in Keys |-> IF k \in KeysOf(w) THEN counter[k] + worker[w].seed[k] ELSE counter[k]]

\* HSETNX: only a counter that is still missing takes the seed.
Seeded(w) == [k \in Keys |-> IF k \in KeysOf(w) \ live THEN worker[w].seed[k] ELSE counter[k]]

CheckSeeded(w) ==
    /\ worker[w].at = "recheck"
    /\ CountRecipient(w, Seeded(w))

\* A fault or a timeout: 500, and Stalwart accepts the recipient uncounted.
WorkerFails(w) ==
    /\ worker[w].at # "idle"
    /\ worker' = [worker EXCEPT ![w] = Idle]
    /\ UNCHANGED <<today, database, redis, flusher, accepted>>

Worker(w) ==
    \/ \E a \in Accounts : LimitsCached(w, a) \/ LimitsMissing(w, a)
    \/ LoadLimits(w) \/ FillCache(w) \/ Stamp(w) \/ Check(w) \/ CheckAsksForSeed(w)
    \/ GetSeed(w) \/ CheckSeeded(w) \/ WorkerFails(w)

----------------------------------------------------------------------------
(* flush_usage, every minute *)

\* Mutant of FlushTake: a set left by a failed run is in the way for good.
FlushTakeOnce ==
    /\ flusher.at = "idle"
    /\ flushing = {} /\ touched # {}
    /\ flushing' = touched
    /\ touched' = {}
    /\ flusher' = [NoFlush EXCEPT !.at = "read"]
    /\ UNCHANGED <<today, database, cache, live, counter, losses, worker, accepted>>

\* A set a failed run left is flushed first, and touched waits for the next run.
FlushTake ==
    /\ flusher.at = "idle"
    /\ \/ flushing # {} /\ UNCHANGED <<flushing, touched>>
       \/ flushing = {} /\ touched # {} /\ flushing' = touched /\ touched' = {}
    /\ flusher' = [NoFlush EXCEPT !.at = "read"]
    /\ UNCHANGED <<today, database, cache, live, counter, losses, worker, accepted>>

\* get_usage_rows: periods that may still be stored, and counters that still exist.
FlushRead ==
    LET rows == {k \in flushing \cap live : k \in Reportable(k[1])} IN
    /\ flusher.at = "read"
    /\ flusher' = [flusher EXCEPT !.at = "match", !.rows = rows,
                     !.sent = [k \in Keys |-> IF k \in rows THEN counter[k] ELSE 0]]
    /\ UNCHANGED <<today, database, redis, worker, accepted>>

\* limits_by_account: an account deleted meanwhile is skipped.
FlushMatch ==
    /\ flusher.at = "match"
    /\ flusher' = [flusher EXCEPT !.at = "upsert", !.limits = account,
                     !.rows = {k \in @ : account[k[1]] # NoAccount}]
    /\ UNCHANGED <<today, database, redis, worker, accepted>>

\* GREATEST: the higher count is kept.
Upserted ==
    [k \in Keys |-> IF k \in flusher.rows /\ flusher.sent[k] > usage[k] THEN flusher.sent[k]
                    ELSE usage[k]]

\* Mutant of UpsertedLimit: every flush writes the account's limit as it is now.
UpsertedLimitNow ==
    [k \in Keys |-> IF k \in flusher.rows THEN LimitOf(flusher.limits[k[1]], k) ELSE stored[k]]

\* A new row takes the account's limit; a row that exists, only while its period is current.
UpsertedLimit ==
    [k \in Keys |-> IF k \in flusher.rows /\ (stored[k] = 0 \/ k \in PeriodsAt(k[1], today))
                    THEN LimitOf(flusher.limits[k[1]], k) ELSE stored[k]]

FlushUpsert ==
    /\ flusher.at = "upsert"
    /\ usage' = Upserted
    /\ stored' = UpsertedLimit
    /\ flusher' = [NoFlush EXCEPT !.at = "clear"]
    /\ UNCHANGED <<today, account, saves, clearing, held, trashed, redis, worker, accepted>>

FlushClear ==
    /\ flusher.at = "clear"
    /\ flushing' = {}
    /\ flusher' = NoFlush
    /\ UNCHANGED <<today, database, cache, live, counter, touched, losses, worker, accepted>>

\* The run fails or its worker dies: the flushing set stays.
FlushFails ==
    /\ flusher.at # "idle"
    /\ flusher' = NoFlush
    /\ UNCHANGED <<today, database, redis, worker, accepted>>

Flush == FlushTake \/ FlushRead \/ FlushMatch \/ FlushUpsert \/ FlushClear \/ FlushFails

----------------------------------------------------------------------------
(* Mail Account saves; the clock; Redis *)

\* An insert, or a save that changes a limit: the commit.
SaveAccount(a, l) ==
    /\ saves < MaxSaves
    /\ l # account[a]
    /\ account' = [account EXCEPT ![a] = l]
    /\ held' = [held EXCEPT ![a][today] = @ \cup {l}]
    /\ saves' = saves + 1
    /\ clearing' = clearing \cup {a}
    /\ UNCHANGED <<today, usage, stored, trashed, redis, worker, flusher, accepted>>

\* on_trash: delete_usage in the same transaction; the counters stay in Redis.
TrashAccount(a) ==
    /\ saves < MaxSaves
    /\ account[a] # NoAccount
    /\ account' = [account EXCEPT ![a] = NoAccount]
    /\ usage' = [k \in Keys |-> IF k[1] = a THEN 0 ELSE usage[k]]
    /\ stored' = [k \in Keys |-> IF k[1] = a THEN 0 ELSE stored[k]]
    /\ saves' = saves + 1
    /\ clearing' = clearing \cup {a}
    /\ trashed' = trashed \cup {a}
    /\ UNCHANGED <<today, held, redis, worker, flusher, accepted>>

\* clear_limits_after_commit: the hook runs, or its process is gone before it does.
ClearLimits(a) ==
    /\ a \in clearing
    /\ clearing' = clearing \ {a}
    /\ cache' = [cache EXCEPT ![a] = None]
    /\ UNCHANGED <<today, account, saves, usage, stored, held, trashed, live, counter, touched, flushing,
                   losses, worker, flusher, accepted>>

MissClear(a) ==
    /\ a \in clearing /\ losses < MaxLosses
    /\ clearing' = clearing \ {a}
    /\ losses' = losses + 1
    /\ UNCHANGED <<today, account, saves, usage, stored, held, trashed, cache, live, counter, touched,
                   flushing, worker, flusher, accepted>>

\* LIMIT_TTL passed, or the hash was evicted.
ExpireLimits(a) ==
    /\ cache[a] # None
    /\ cache' = [cache EXCEPT ![a] = None]
    /\ UNCHANGED <<today, database, live, counter, touched, flushing, losses, worker, flusher, accepted>>

\* Redis evicts or loses counters.
LoseCounters(lost) ==
    /\ losses < MaxLosses
    /\ losses' = losses + 1
    /\ live' = live \ lost
    /\ counter' = [k \in Keys |-> IF k \in lost THEN 0 ELSE counter[k]]
    /\ UNCHANGED <<today, database, cache, touched, flushing, worker, flusher, accepted>>

\* Midnight. A request does not last a day.
NewDay ==
    /\ today < MaxDay
    /\ \A w \in Workers : worker[w].at \in {"check", "seed", "recheck"} => worker[w].day = today
    /\ today' = today + 1
    /\ held' = [a \in Accounts |->
                  [held[a] EXCEPT ![today + 1] = @ \cup ({account[a]} \cap Limits)]]
    /\ UNCHANGED <<account, saves, clearing, usage, stored, trashed, redis, worker, flusher, accepted>>

Next ==
    \/ \E w \in Workers : Worker(w)
    \/ Flush
    \/ \E a \in Accounts :
         \/ \E l \in Limits : SaveAccount(a, l)
         \/ TrashAccount(a) \/ ClearLimits(a) \/ MissClear(a) \/ ExpireLimits(a)
    \/ \E lost \in SUBSET live : lost # {} /\ LoseCounters(lost)
    \/ NewDay

Spec == Init /\ [][Next]_vars

----------------------------------------------------------------------------
(* Properties *)

\* The highest limit an account had on any day so far.
EverHeld(a) == UNION {held[a][d] : d \in Days}

\* As long as Redis keeps its counters, no account sends more in a day or a month than a limit it
\* had at some time allows, however many workers check and seed at once
\* (count_recipient, "checks and counts it in one atomic step").
SentWithinLimit ==
    losses = 0 =>
        \A k \in Keys : accepted[k] > 0 => \E l \in EverHeld(k[1]) : accepted[k] <= LimitOf(l, k)

\* Nothing is counted that was not sent, in Redis or in Mail Send Usage, through lost keys, late
\* seeds, repeated flushes and re-created accounts: no account is refused or reported for more
\* than it sent.
NeverOvercounted ==
    \A k \in Keys : counter[k] <= accepted[k] /\ usage[k] <= accepted[k]

\* A day or month that is over keeps the limit it was stored with: neither a late flush after a
\* limit change nor one that failed half-way and runs again rewrites it (upsert_usage, "a past one
\* keeps the limit it was stored with").
PastLimitIsKept ==
    [][\A k \in Keys :
         stored[k] # 0 /\ k \notin PeriodsAt(k[1], today) =>
             stored'[k] = stored[k] \/ account'[k[1]] = NoAccount]_vars

(* Liveness *)

\* The scheduler starts the flush every minute and a run goes on or fails; it does not fail for ever.
Fairness ==
    /\ WF_vars(FlushTake \/ FlushRead \/ FlushMatch \/ FlushUpsert \/ FlushClear)
    /\ <>[][~FlushFails]_vars

FairSpec == Spec /\ Fairness

\* A count that is to be flushed reaches Mail Send Usage, however often the flush fails, unless
\* its account is deleted or its day is two days ago by then.
CountsAreStored ==
    \A k \in Keys : \A n \in 1 .. 2 :
        (k \in touched \cup flushing /\ counter[k] = n) ~>
            (usage[k] >= n \/ account[k[1]] = NoAccount \/ k \notin Reportable(k[1]))
=============================================================================
