----------------------------- MODULE Telemetry -----------------------------
(***************************************************************************)
(* The telemetry pipeline: the servers' pushes and the scan shipper, which *)
(* send again what was not acknowledged, the API that stages a batch as a  *)
(* file for each table, the loader that copies the files into the          *)
(* warehouse under its lock, computes each counter's change and deletes    *)
(* the files, and the retention (api/telemetry, telemetry/push.py,         *)
(* outbound_scans.py, spool.py, warehouse.py, ship_outbound_scans.py).     *)
(*                                                                         *)
(* A push carries one counter, as its running total; its other rows are    *)
(* not told apart.  An hour of the system is one tick: the previous point  *)
(* is looked up within Day ticks and rows are kept for Retention ticks.    *)
(***************************************************************************)
EXTENDS Integers, FiniteSetsExt, SequencesExt, Selections

CONSTANTS
    Hosts,       \* Stalwart nodes and gateways
    Kinds,       \* what they push: a subset of DOMAIN TablesOf
    ChunkFiles,  \* BATCH_FILES: files loaded under one lock
    Backlog,     \* files the shipper keeps while Suite Cloud refuses them
    Day,         \* how far back the loader looks for a previous point
    Retention,   \* telemetry_retention_days
    MaxClock,    \* bound: ticks
    MaxPushes,   \* bound: pushes
    MaxLosses    \* bound: requests, loads and processes that fail

TablesOf ==
    [metrics |-> <<"metrics">>, events |-> <<"events">>,
     scans |-> <<"outbound_scans", "outbound_scan_symbols">>]

ASSUME TelemetryConstants ==
    /\ Kinds \subseteq DOMAIN TablesOf
    /\ {ChunkFiles, Backlog} \subseteq Nat \ {0}
    /\ {Day, Retention, MaxClock, MaxPushes, MaxLosses} \subseteq Nat

TABLES == <<"events", "metrics", "outbound_scans", "outbound_scan_symbols">>

VARIABLES
    clock,
    counter,   \* of each host: its running total since it started, and all it ever counted
    made,      \* the pushes made so far
    outbox,    \* the pushes a server still wants to send
    acked,     \* the pushes that were answered with success
    spool,     \* of each table: its staged files, oldest write first
    damaged,   \* the staged files that do not read whole
    rejected,  \* the batches moved aside
    stored,    \* the warehouse: rows, one for each batch of a table
    loader,    \* the load_staged_batches job
    late,      \* history: a push was loaded after a later one of its host
    losses     \* failures so far

telemetryVars == <<clock, counter, made, outbox, acked, spool, damaged, rejected, stored, loader, late, losses>>

\* fills: the tables its parsed rows go to, since a row that does not parse is skipped; ever: history,
\* all that the host had counted.
Push == [host: Hosts, kind: Kinds, at: 0..MaxClock, total: Nat, ever: Nat, fills: SUBSET ToSet(TABLES)]

Batch == [push: Push, table: ToSet(TABLES)]

NULL == -1  \* as in SQL

\* copy: how many rows of its batch the table already had.
Row == [push: Push, table: ToSet(TABLES), change: {NULL} \cup Nat, copy: Nat]

Loader == [at: {"idle", "list", "insert", "delete"}, table: DOMAIN TABLES, files: SUBSET Push]

Idle == [at |-> "idle", table |-> 1, files |-> {}]

BatchOf(p, t) == [push |-> p, table |-> t]

Staged(t) == ToSet(spool[t])

Held(t) == {r \in stored : r.table = t}

HeldPushes(t) == {r.push : r \in Held(t)}

----------------------------------------------------------------------------
(* The servers *)

\* Stalwart pushes a counter once it is above zero and then every time.
Produce(h, k, counts, fills) ==
    /\ Cardinality(made) < MaxPushes
    /\ ~\E p \in made : p.host = h /\ p.kind = k /\ p.at = clock
    /\ k # "metrics" => counts = 0
    /\ counter' = [counter EXCEPT ![h].total = @ + counts, ![h].ever = @ + counts]
    /\ LET now == IF k = "metrics" THEN counter'[h] ELSE [total |-> 0, ever |-> 0]
           p == [host |-> h, kind |-> k, at |-> clock, total |-> now.total, ever |-> now.ever, fills |-> fills]
       IN  /\ made' = made \cup {p}
           /\ outbox' = outbox \cup {p}
    /\ UNCHANGED <<clock, acked, spool, damaged, rejected, stored, loader, late, losses>>

\* get_scan_rows: scans may match no rule.
ScanRows == {ToSet(TablesOf.scans), {"outbound_scans"}}

\* get_event_rows, get_metric_rows: a push of which no row parses is answered and stages nothing.
RowsOf(k) == IF k = "scans" THEN ScanRows ELSE {ToSet(TablesOf[k])}

\* Stalwart restarts: its counters start again, and what it has not sent is lost.
Restart(h) ==
    /\ counter[h].total > 0
    /\ counter' = [counter EXCEPT ![h].total = 0]
    /\ outbox' = {p \in outbox : p.host = h => p.kind = "scans"}
    /\ UNCHANGED <<clock, made, acked, spool, damaged, rejected, stored, loader, late, losses>>

Pending(h) == {p \in outbox : p.host = h /\ p.kind = "scans"}

Oldest(P) == CHOOSE p \in P : \A q \in P : p.at <= q.at

\* Stalwart's own discard needs no step: nothing makes it send a push that waits.
TrimBacklog(h) ==
    /\ Cardinality(Pending(h)) > Backlog
    /\ outbox' = outbox \ {Oldest(Pending(h))}
    /\ UNCHANGED <<clock, counter, made, acked, spool, damaged, rejected, stored, loader, late, losses>>

----------------------------------------------------------------------------
(* The API *)

\* Spool.write: a batch is seen once it is renamed, and replaces its earlier file.
Write(p, t) == Append(Select(spool[t], Staged(t) \ {p}), p)

\* The tables of a push are written one after the other; a request that fails has written some.
StageSome(p, n) ==
    LET written == {TablesOf[p.kind][i] : i \in 1..n} \cap p.fills
    IN  /\ spool' = [t \in DOMAIN spool |-> IF t \in written THEN Write(p, t) ELSE spool[t]]
        /\ damaged' = damaged \ {BatchOf(p, t) : t \in written}

\* The shipper sends its files in order; Stalwart's streams are independent.
Sendable(p) == p.kind = "scans" => p = Oldest(Pending(p.host))

\* webhook, otlp and outbound_scans, answered; the sender then forgets the push.
Accept(p) ==
    /\ Sendable(p)
    /\ StageSome(p, Len(TablesOf[p.kind]))
    /\ outbox' = outbox \ {p}
    /\ acked' = acked \cup {p}
    /\ UNCHANGED <<clock, counter, made, rejected, stored, loader, late, losses>>

\* Refused, out of disk, or staged and the answer lost: the sender keeps the push.
Unanswered(p) ==
    /\ Sendable(p) /\ losses < MaxLosses
    /\ losses' = losses + 1
    /\ \E n \in 0..Len(TablesOf[p.kind]) : StageSome(p, n)
    /\ UNCHANGED <<clock, counter, made, outbox, acked, rejected, stored, loader, late>>

----------------------------------------------------------------------------
(* The change of a running total *)

Before(P, p) == {q \in P : q.host = p.host /\ q.at < p.at}

Newest(P) == CHOOSE p \in P : \A q \in P : q.at <= p.at

Points(P) == {p \in P : p.total > 0}

\* get_change, over the points and the pushes the statement selects.
GetChange(p, points, pushes) ==
    LET earlier == Before(points, p) IN
    IF p.total = 0 \/ (earlier = {} /\ Before(pushes, p) = {})
    THEN NULL
    ELSE IF earlier = {} \/ p.total < Newest(earlier).total
         THEN p.total
         ELSE p.total - Newest(earlier).total

\* Not the code: a change is taken within the files of one load only.
StoredPointsNone(incoming) == {}

\* get_metrics_insert, its CTE stored: the newest point up to a series' first incoming one, and those between.
StoredPoints(incoming) ==
    LET since == Min({p.at : p \in incoming}) - Day
        Series(h) == {p \in Points(incoming) : p.host = h}
        FirstAt(h) == Min({p.at : p \in Series(h)})
        LastAt(h) == Max({p.at : p \in Series(h)})
        Known(h) == {q \in Points(HeldPushes("metrics")) : q.host = h /\ since <= q.at /\ q.at < LastAt(h)}
        UpTo(h) == {q \in Known(h) : q.at <= FirstAt(h)}
    IN  UNION {{q \in Known(h) : q.at > FirstAt(h) \/ q = Newest(UpTo(h))} :
               h \in {p.host : p \in Points(incoming)}}

\* Its CTE pushes: the incoming ones, and the newest stored one of each host before them.
Pushes(incoming) ==
    LET since == Min({p.at : p \in incoming}) - Day
        Known(h) == {q \in HeldPushes("metrics") :
                     q.host = h /\ since <= q.at /\ \A p \in incoming : p.host = h => q.at < p.at}
    IN  incoming \cup {Newest(Known(h)) : h \in {g \in {p.host : p \in incoming} : Known(g) # {}}}

Change(p, incoming) == GetChange(p, Points(incoming) \cup StoredPoints(incoming), Pushes(incoming))

----------------------------------------------------------------------------
(* The loader *)

Table == TABLES[loader.table]

\* load_pending goes through the tables in order; one without files takes no step.
ListFrom(i, left) ==
    LET full == {j \in i..Len(TABLES) : left[TABLES[j]] # <<>>}
    IN  IF full = {} THEN Idle ELSE [Idle EXCEPT !.at = "list", !.table = Min(full)]

StartLoad ==
    /\ loader.at = "idle"
    /\ loader' = ListFrom(1, spool)
    /\ loader' # Idle
    /\ UNCHANGED <<clock, counter, made, outbox, acked, spool, damaged, rejected, stored, late, losses>>

\* get_pending: the oldest files of the table.
Chunk == {spool[Table][i] : i \in 1..Min({ChunkFiles, Len(spool[Table])})}

\* get_loadable: a file that does not read whole is moved aside.
ListFiles ==
    /\ loader.at = "list"
    /\ LET broken == {p \in Chunk : BatchOf(p, Table) \in damaged}
       IN  /\ spool' = [spool EXCEPT ![Table] = Select(@, Staged(Table) \ broken)]
           /\ rejected' = rejected \cup {BatchOf(p, Table) : p \in broken}
           /\ damaged' = damaged \ {BatchOf(p, Table) : p \in broken}
           /\ loader' = IF Chunk = broken THEN ListFrom(loader.table + 1, spool)
                        ELSE [loader EXCEPT !.at = "insert", !.files = Chunk \ broken]
    /\ UNCHANGED <<clock, counter, made, outbox, acked, stored, late, losses>>

\* Not the code: every listed file is inserted.
IncomingUnchecked == loader.files

\* A batch already in the table is skipped.
Incoming == loader.files \ HeldPushes(Table)

NewRow(p, incoming) ==
    [push |-> p, table |-> Table,
     change |-> IF Table = "metrics" THEN Change(p, incoming) ELSE NULL,
     copy |-> Cardinality({r \in Held(Table) : r.push = p})]

\* load, up to its commit.
Insert ==
    /\ loader.at = "insert"
    /\ stored' = stored \cup {NewRow(p, Incoming) : p \in Incoming}
    /\ late' = (late \/ \E p \in Incoming, q \in HeldPushes("metrics") :
                            Table = "metrics" /\ p.host = q.host /\ p.at < q.at)
    /\ loader' = [loader EXCEPT !.at = "delete"]
    /\ UNCHANGED <<clock, counter, made, outbox, acked, spool, damaged, rejected, losses>>

\* load, after its commit; a short chunk was the table's last.
Delete ==
    /\ loader.at = "delete"
    /\ spool' = [spool EXCEPT ![Table] = Select(@, Staged(Table) \ loader.files)]
    /\ damaged' = damaged \ {BatchOf(p, Table) : p \in loader.files}
    /\ loader' = ListFrom(loader.table + IF Cardinality(loader.files) < ChunkFiles THEN 1 ELSE 0, spool')
    /\ UNCHANGED <<clock, counter, made, outbox, acked, rejected, stored, late, losses>>

\* Not the code: the files go although the insert failed.
LoadDeferredDeletes ==
    /\ loader.at = "insert" /\ losses < MaxLosses
    /\ losses' = losses + 1
    /\ loader' = [loader EXCEPT !.at = "delete"]
    /\ UNCHANGED <<clock, counter, made, outbox, acked, spool, damaged, rejected, stored, late>>

\* The lock timed out or the disk is full: the table keeps its files for the next run.
LoadDeferred ==
    /\ loader.at = "insert" /\ losses < MaxLosses
    /\ losses' = losses + 1
    /\ loader' = ListFrom(loader.table + 1, spool)
    /\ UNCHANGED <<clock, counter, made, outbox, acked, spool, damaged, rejected, stored, late>>

LoaderDies ==
    /\ loader.at # "idle" /\ losses < MaxLosses
    /\ losses' = losses + 1
    /\ loader' = Idle
    /\ UNCHANGED <<clock, counter, made, outbox, acked, spool, damaged, rejected, stored, late>>

Damage(b) ==
    /\ b.push \in Staged(b.table) /\ b \notin damaged
    /\ loader.at # "insert" \/ b.push \notin loader.files
    /\ losses < MaxLosses
    /\ losses' = losses + 1
    /\ damaged' = damaged \cup {b}
    /\ UNCHANGED <<clock, counter, made, outbox, acked, spool, rejected, stored, loader, late>>

Expired(p) == p.at < clock - Retention

PruneExpired ==
    /\ \E r \in stored : Expired(r.push)
    /\ stored' = {r \in stored : ~Expired(r.push)}
    /\ UNCHANGED <<clock, counter, made, outbox, acked, spool, damaged, rejected, loader, late, losses>>

Tick ==
    /\ clock < MaxClock
    /\ clock' = clock + 1
    /\ UNCHANGED <<counter, made, outbox, acked, spool, damaged, rejected, stored, loader, late, losses>>

----------------------------------------------------------------------------
TelemetryInit ==
    /\ clock = 0 /\ losses = 0 /\ late = FALSE
    /\ counter = [h \in Hosts |-> [total |-> 0, ever |-> 0]]
    /\ made = {} /\ outbox = {} /\ acked = {} /\ damaged = {} /\ rejected = {}
    /\ spool = [t \in ToSet(TABLES) |-> <<>>]
    /\ stored = {}
    /\ loader = Idle

Load == StartLoad \/ ListFiles \/ Insert \/ Delete

TelemetryNext ==
    \/ \E h \in Hosts, k \in Kinds, n \in 0..1 : \E fills \in RowsOf(k) : Produce(h, k, n, fills)
    \/ \E h \in Hosts : Restart(h) \/ TrimBacklog(h)
    \/ \E p \in outbox : Accept(p) \/ Unanswered(p)
    \/ Load \/ LoadDeferred \/ LoaderDies
    \/ \E p \in made : \E t \in p.fills : Damage(BatchOf(p, t))
    \/ PruneExpired
    \/ Tick

TelemetrySpec == TelemetryInit /\ [][TelemetryNext]_telemetryVars

\* The scheduler starts the loader every five minutes, and a load that started goes on.
FairTelemetry == TelemetrySpec /\ WF_telemetryVars(Load)

----------------------------------------------------------------------------
TelemetryTypeOK ==
    /\ counter \in [Hosts -> [total: Nat, ever: Nat]]
    /\ outbox \subseteq made /\ acked \subseteq made /\ made \subseteq Push
    /\ \A t \in DOMAIN spool : Staged(t) \subseteq Push
    /\ damaged \cup rejected \subseteq Batch
    /\ stored \subseteq Row
    /\ loader \in Loader

\* What the files and rows stand for: batches that wait, rows by batch and copy, batches past the retention.
Waiting == UNION {{BatchOf(p, t) : p \in {q \in Staged(t) \ HeldPushes(t) : ~Expired(q)}} : t \in ToSet(TABLES)}

Copies == {[batch |-> BatchOf(r.push, r.table), copy |-> r.copy] : r \in stored}

Old == UNION {{BatchOf(p, t) : t \in p.fills} : p \in {q \in made : Expired(q)}}

Log == INSTANCE BatchLog WITH
    Batches <- Batch, waiting <- Waiting, held <- Copies, aside <- rejected, old <- Old

\* The files, the rows and the crashes between them implement a log that holds every batch once:
\* what is sent again, or left behind by a load that died after its commit, is skipped, and a file
\* goes only when its rows are in (Warehouse.load, Spool).
LoggedOnce == Log!Spec

\* The batches that were acknowledged and are not in yet; a damaged file is set aside.
Owed ==
    {b \in UNION {{BatchOf(p, t) : t \in p.fills} : p \in {q \in acked : ~Expired(q)}} :
     b.push \notin HeldPushes(b.table) /\ b \notin rejected}

\* What was answered with success reaches the warehouse, in every table it has rows for: no loader
\* that dies, defers a table or drains a backlog chunk by chunk loses it (load_pending).
AckedArrives == Owed # {} ~> Owed = {}

\* The sums the charts draw never exceed what the server counted, over chunks, restarts of Stalwart
\* and pushes sent again, as long as no push is loaded after a later one (get_metrics_insert).
ChangesNeverOvercount ==
    late \/ \A h \in Hosts :
        MapThenSumSet(LAMBDA r : r.change, {r \in Held("metrics") : r.push.host = h /\ r.change # NULL})
            <= counter[h].ever
=============================================================================
