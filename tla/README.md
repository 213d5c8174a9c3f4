# quant-lab in TLA+

A verification project for `quant-lab`: TLA+ models of the parts of the program
whose correctness depends on the order of file operations, on machines that see
each other's files late, on caches over files that change, and on what a crash
leaves behind; TLC runs that check them on small instances; and TLAPS proofs of
the properties that matter most, for every value of the constants.

Paths below are relative to the repository. Modules, configurations and
`PROJECT.json` (which maps every definition to the lines it models, and lists
the hazards, runs, mutants and theorems) are in this directory.

## 1. The system

`quant-lab` turns market data of one exchange into read-only research outputs.
It never trades. Its parts, and how far each is modelled:

| part | source | keeps | operations | hard because | here |
|---|---|---|---|---|---|
| decision: acceptance, publication | `src/quant_lab/decision/pipeline.py`, `jobs.py` | `inputs/`, `results/`, `receipts/`, `inbox/`, `current-*.json`, `publication.json`, `advice/` | `publish_input`, `accept_results`, `accept-only`, `cloud-cycle` | nine files per publication, a crash between any two, results in hash order, duplicates | modelled |
| decision: hot retention | `decision/retention.py` | `retention/` | `prune_acknowledged` | deletes on the word of another machine what the next acceptance may need | modelled |
| decision: NAS worker, transport | `decision/worker.py` | `archive/` | `run_worker`, `Transport.pull/push`, `write_archive_ack` | three transfers that are no snapshot, lost and late transfers, timeouts | modelled |
| decision: forward ledger | `decision/ledger.py` | `forward.duckdb` | `register`, `mature`, `summary` | first observation must stay the first | `register` |
| decision: files, signatures | `decision/storage.py`, `export_plane/signatures.py` | - | `atomic_json`, `load_*` | atomic replace | as one step |
| decision: engine, contracts, current inputs | `decision/engine.py`, `contracts*.py`, `current_inputs.py` | - | statistics, validation, REST reads | numeric | no |
| decision: API, status pages | `decision/api.py`, `server_status.py`, `host_metrics.py` | - | read-only views | - | no |
| lake: datasets, lock, compaction | `data/lake.py` | parquet directories, `.name.lock` | write, replace, append, upsert, compact, repair, read | lock takeover, two-rename replacement, unlink before move and move before unlink, readers without the lock | modelled, but for writes in place |
| lake: maintenance jobs | `jobs/compact_market_data.py`, `jobs/small_file_maintenance.py`, `deploy/scripts/compact_lake_hot_datasets.sh` | `trade_activity_1m`, `archive/` | compact, roll up, archive, index, clean up | windows over files that move, killed by timeouts, removes what others stage | modelled for one dataset |
| lake: file index | `data/file_index.py` | index rows | refresh, lookup | the index is older than the files | as the set of files it lists |
| ingest: websocket collector | `ingest/okx_ws_public.py` | subscriptions, buffer | connect, read, flush, report | reconnects, partial flushes, retries over the same buffer | modelled |
| ingest: REST, private read-only, V5 reports | `ingest/okx_public.py`, `okx_readonly_private.py`, `v5_reports.py` | bars, private rows | page backwards, upsert; read and merge | checkpoint in the data; rows read before the lock | the history jobs; the merge |
| strategy telemetry | `strategy_telemetry/` | inbox, raw copies, manifest, sixty silver datasets | pull, ingest, prune | some writes not idempotent; deletes what another job has ingested | pull, ingest, prune |
| risk permissions | `risk/permissions.py`, `risk/publish.py` | `risk_permission`, dependency meta | decide, publish, annotate, expire | two publishers, staleness against telemetry | modelled, but for limits and reasons |
| API caches | `api/main.py`, `api/cache.py` | evaluations, snapshots, responses, estimates | look up, load, keep, serve, ETag | the signature is taken before the rows; threads | the live permission, the advisories, the cost estimates |
| costs | `costs/calibrate.py`, `costs/model.py`, `contracts/models.py` | `cost_bucket_daily`, `cost_health_daily` | calibrate a day, choose a row, judge it, estimate | rows that age beside caches that do not; the dataset is away while it is replaced | the rows of a symbol, the choice, the trust, the caches |
| NAS archive | `deploy/nas_archive/` | batches, receipts | pull, verify, prune | removes from the cloud what a copy elsewhere vouches for | modelled |
| features, backtests, paper, gates, ops, web, CLI | the other packages | datasets | batch computations | numeric, sequential | no |
| deployment | `deploy/` | units, cron | flock, timers, timeouts | what runs at the same time | through its effects |

The decision workflow comes first because it is the live product of this
repository (the other producers are retired or research only, see
`docs/decision-workbench.md`) and because its two halves, on two machines, share
nothing but files. In short:

```
 qyun2 (cloud)                                     NAS
 cloud-cycle, every 5 min, under flock             nas-worker, every 5 min, under flock
   prune_acknowledged   <--- inbox/archive-ack ---   write_archive_ack
   accept_results       <--- inbox/result-*  -----   push result
     publication.json, advice/  (the API reads)
     publication-receipts.json ------------------>   pull, Ledger.register
   publish_input: inputs/, current-input.json --->   pull, build_advice
 accept-only, when inbox/ changes, same flock
```

What must hold:

- a result is published once, at one time that no crash, repair or repetition
  changes, and is replaced only by a later one computed from facts no older;
- a run that was interrupted at any point is finished by the next one;
- retention removes nothing that the next acceptance, the current page or the
  ledger still needs, and leaves a record of what it removes;
- the ledger's observation of a market hour is the first publication that was
  in time, and every publication in time is eventually observed;
- the facts behind every result stay on one of the two machines.

The lake comes second because everything else stands on it: a dataset is a
directory of parquet files, written by several jobs (collector, ingest,
compaction, publishers) under a lock file and read by all the others without
it. What must hold:

- one job at a time changes a dataset, and a lock that a killed job leaves is
  taken over;
- a row that was written stays, once, whatever is killed or fails, until a later
  write replaces it;
- a read that succeeds is the dataset as it was at one moment.

Then what writes to the lake and what is served from it:

- a message or a bundle that arrived reaches all of its datasets, once, and the raw
  copy is removed only afterwards;
- a minute that was rolled up stays whole, and nothing leaves the hot datasets that no
  rollup has seen;
- the history of bars gets filled, and filling it makes no gaps;
- what the API serves from its caches is as new as what the request could have read,
  fresh when it is judged, and not withheld without reason;
- what the NAS asks the cloud to remove it has, intact.

## 2. The modules

| module | what it is |
|---|---|
| `DecisionFiles` | the files the two halves share, the clock, atomic writes |
| `DecisionCloud` | `cloud-cycle` and `accept-only`, one action per file operation; an arbitrary worker |
| `PublicationLog` | what `publication.json` promises, in twelve lines; `DecisionCloud` implements it |
| `DecisionWorker` | `nas-worker`: pull, check, register, compute, archive, push |
| `DecisionExchange` | the two composed; the worker is shown to be one the cloud was checked against |
| `MCDecisionCloud`, `MCDecisionExchange` | instances for TLC |
| `DecisionCloudProofs`, `ExchangeProofs` | theorems about the cloud with any worker, and about the two composed |
| `DatasetLock` | the lock file of a dataset: creation, takeover, removal |
| `DatasetStore` | what jobs and readers do to one dataset; `DatasetLock` under it |
| `MarketRollup` | the hourly script over one high-frequency dataset: merge, roll up, archive, index |
| `MCDatasetStore` | the instance of both for TLC |
| `DatasetProofs` | theorems about the lock, the rows of the dataset and its readers |
| `TelemetryBundles` | bundles from the V5 host into the lake, and the retention of their raw files |
| `WsCollector` | the websocket collector: connection, buffer, flush, final flush |
| `HistoryBackfill` | the jobs that page backwards through the bars of a symbol |
| `VerifiedRemoval` | what both archive jobs promise, in three actions |
| `HighFrequencyArchive`, `RedactedArchive` | the two archive jobs of the NAS; each implements `VerifiedRemoval` |
| `MCIngest` | the instance of these six and of the lock |
| `IngestProofs` | theorems about the bundles, the collector and the history of bars |
| `ArchiveProofs` | theorems about the two archives and about `MarketRollup` |
| `RiskPermission` | the publisher of the risk permission and the handlers that serve it |
| `AdvisoryCache` | the advisories of the API, through two caches and an ETag |
| `CostEstimates` | the calibration of costs, the row a request gets, and its two caches |
| `MCService` | the instance of the three |
| `PermissionProofs`, `AdvisoryProofs`, `CostProofs` | theorems about them |

### The decision workflow

**State.** A directory is a partial function from names to what the model keeps
of the contents: `receipts[r]` is the `published_at` of a receipt (`NoTime` for
a result that was accepted without being published), `inputs[c]` the
`generated_at` of an input, `results[r]` and `details[a]` modification times.
Names are content hashes in the code and numbers here; their order is that of
`sorted(glob(...))` and has nothing to do with time, because a new result takes
any unused number. `inputs[c]` stands for both the generation time and the
modification time of an input file: it is written when it is signed.

**Actions.** `pc` is the next file operation of the run. Each `atomic_json`,
`unlink` and read that something else can interfere with is an action; what the
code computes between two of them is part of the action. `now` is the run's
`now`, read once at the start, as in `cloud_cycle`; files are stamped with
`clock`. The pruning of one result is four actions (record, detail, receipt,
result), a publication six (result, envelope, details, pointer, receipt, inbox),
the repair of an interrupted one three.

**What is abstracted.** A signature verifies exactly what was signed: `Sign` is
the only source of results, and `sound` stands for the checks of
`accept_results` (188-218) that do not depend on times or on what is stored:
worker and producer code versions, the market context and cost of every advice.
The eight advice details of a result are one file, written and removed in one
step, named by the input it was computed from, since `run_worker` reuses the
advice of a result with the same input. The two horizons of an observation are
registered by the same loop under the same conditions and are one entry.
`collect_current_inputs` is any member of `Contents`, or its failure. Status
files are left out: nothing reads them but pages. An archive that fails its own
readback ends the run, as `WorkerStops` does. The ledger's `ValueError` for an
opportunity whose strategy or cost version changed (`ledger.py:84-98`) cannot be raised
by one release, which gives all advice the same versions; what a release does to the
opportunities that are open then is not modelled.

**Failures.** `Crash` ends a run between any two file operations
(`TimeoutStartSec`, reboot). `PruneFails` and `AcceptFails` are an `OSError` in
the two phases that catch one; elsewhere an `OSError` ends the run, which is
`Crash`. `PublishFails` is a failed collection. On the worker, `WorkerStops` is
`timeout 12m`, a full disk, or a transfer that failed twice; `PushResultFails`
leaves nothing, or a file that landed although the attempt was given up, or one
that lands later (`LandLate`), and `PushAckFails` and `LandAckLate` are the same of an
acknowledgement. The kinds a run admits are its `Faults`, their
number `MaxFaults` and `MaxWorkerFaults`.

**Environment.** `DecisionCloud` alone is checked against any worker: any signed
result with any time the clocks allow, sent at any time, again, or never; any
acknowledgement. `DecisionExchange` replaces it by the worker of the code and
checks `CloudSpec`, that every step of the real worker is a step that arbitrary
worker may take: what is checked and proved of the cloud alone carries over.

### The lake

**State.** A dataset is its directory: whether it is there, the files readers
see (`files`) and those in a staging directory that compaction keeps inside the
dataset and readers skip (`hidden`). A file is a name and a set of rows, a row a
key and the number of the write that made it, which tells the write of a row
from an earlier one of the same key. The file of a rewritten dataset always has
the same name; appended and compacted ones carry a time and a pid, here the
number of the write. `orphans` are the backups whose job is gone. A lock file is
who created it (which no program reads), the pid in it and its age class: under
5 s, over it, over 600 s. `committed`, `incidents` and the readers' `moments`
are auxiliary: the rows that finished writes have left, the mishaps that hide or
lose rows, and what the dataset held while a reader was at work.

**Actions.** A job is a process. Its threads queue on a mutex of the process
before they try for the file, so one of them tries at a time. `Begin` is a call
of one of the public functions, with its rows; the lock is `Lock` and `Finish`,
step by step as in `_dataset_lock` and `_lock_is_stale`: create, write the pid,
take the age, read, unlink, each by name. Under the lock every rename, unlink
and write of a file is an action. A rewrite (`upsert`, `replace`, whole
`compact`) stages a directory beside the dataset, moves the dataset to a backup,
moves the staged one in, removes the backup; a failure puts the backup back
except in `compact`, where the code does not. An append writes chunk by chunk
and compacts directly when there are too many files: it stages the outputs, unlinks
the sources and moves the outputs in, in this order; that of the maintenance may take
any of the files, compacted ones too (`Batches`). A repair of partition values
moves its outputs in first. A `merge` (`_publish_dataset` of V5 reports, the same
function of the private rows and of the cost tables) reads before it asks for the
lock and writes what it read with its batch; a `seed` (telemetry, ingest.py 2824) asks
before the lock whether there are rows. A reader lists the files, looks at the
header of each and reads them one by one. A file that has gone before the look is
passed over, one that goes after it fails the read. The listing is one step.

**What is abstracted.** Row order, schemas, partition directories (a file is in
one of them by its name), row limits, permissions, temporary names beside a
chunk that is being written. The streaming and the in-memory upsert make the
same directory by the same two renames and are one; they differ in who retries
the restoration, which `Restore` and `RestoreFails` cover; where a dataset has a key
twice already, which takes a failed repair, the in-memory one would drop the older row
(`lake.py` 814) and the model keeps it, as the streaming one does. Every file has rows,
so that a compaction never finds none (`lake.py` 456). What a merge has read is
the dataset at one moment: a read that passed over a file would differ from what is
there under the lock as well, which is what `overtaken` records.

**Failures.** `Crash` kills a job at any step (the compaction script runs each
dataset under `timeout --kill-after`, units have time limits). `faults` are
system calls that fail; which of them are caught, and what the handler does, is
in the action named after them. A file that is not there any more fails an
unlink or a move without a fault of the system.

**The hourly script** (`MarketRollup`). A trade is the instant it happened at, a file a
set of trades with a time of writing. Compaction, rollup, archiving and the two
passes of the small-file maintenance are steps that may fail and are followed by the
next one all the same. The rollup reads the files that the index lists or that were
written recently, counts each minute of the window and upserts it. `offered` is what
the rollups have had in their window, `cut` the minutes a window began in the middle
of, `late` a pause longer than the lookback: in these the code promises less. That
production's unit has `Lookback` and `HotHours` both at 24 is the assumption
`Lookback <= HotHours`; that its list of datasets to index
(`quant-lab-lake-compaction.service`, line 32) leaves the high-frequency ones out is
an index that is never refreshed. A file is archived when all its minutes are rolled up
and its trades are older than the hot hours; that the later of the two bounds
decides (`compact_market_data.py:535`) is implied, and a name that the archive has already
does not occur, as names carry a time and a pid.

### Into the lake

`TelemetryBundles` has one action per write of an ingestion: raw copy, bronze, the
silver datasets with event keys (counted and merged), those with stable row keys
(upserted), those replaced as a whole, the manifest. Four silver datasets stand for the
sixty, one per way of being written. A run may end before any of them; the next one
scans the newest file of the inbox only. Retention removes inbox files and raw copies by
the manifest, how old they are is left open. Not idempotent is the count: a bundle that
is begun, interrupted, overtaken by the next and then found again (because retention has
removed the newer one from the inbox) is counted twice and takes the snapshots and the
stable rows back to its own. `outOfTurn` is this case, which `CountedOnce` excepts, and
`late` are the bundles begun so: `BundlesKept` compares the version of everything the
lake holds with the bundle's, and allows an older one only if it is that of a `late`
bundle. A truncated newest bundle raises an `EOFError` that nobody catches, and nothing
is ingested until a newer one arrives; `IngestedOrOvertaken` says as much. Manual
ingestion takes no lock and is not modelled.

`WsCollector` is the coroutine with its `finally` block. A message is its dataset; a
flush appends to four datasets in order, clears the buffer after the last, and is
tried once more from the first dataset if it raised. SIGTERM is a kill, as Python
makes no exception of it.

`HistoryBackfill` is one symbol with hourly bars and two processes, which hold what
they fetched in memory until they publish. Every page is older than its cursor, so the
check for a repeated cursor does not end a run.

### Out to the NAS

Both archive jobs run on the NAS under a flock, list what the cloud has, copy it, and ask
over ssh for a removal, which is a process of its own on the cloud: `prunes` and
`removals` outlive the run that asked. What the NAS has of a file is an intact copy
or none; copies are damaged only while no removal is under way, since nothing compares
them again between the comparison and the removal. A damaged high-frequency batch ends every
run (`Damaged`), a day of bundles that changed after it was archived stops the other
job at that day for ever (`Stuck`): the two liveness properties except them and
nothing else. In the high-frequency job a batch is named after the hash of its list, so
that files which arrive late become a batch of their own; one dataset stands for all.
A removal of bundles compares and then removes without a lock: what is packed in
between is `unseen`. A removal that is killed leaves a directory under a name that nothing
lists.

### What is served

Every dataset behind the API is replaced by two renames (`lake.py` 296-298), so that for a
moment it is not there; readers take no lock, and what they raise is swallowed and means no
rows. All three modules have this: a version or a row is *away* between the two steps, a
replacement may fail and put it back, or be killed and leave nothing, and any read may find
nothing although something is there. The signature of an absent dataset is the empty tuple,
0 in the models, and a key that has it can be met again in the next gap.

`RiskPermission`: the publisher reads, takes its `as_of`, replaces the row
(`WithdrawRow`, `PublishRow`) and then the dependency meta (`WithdrawMeta`, `PublishMeta`);
the dataset's lock keeps two replacements apart. A handler is a thread, which reads the
telemetry, takes the two signatures of its key one after the other (`SignRow`, `SignMeta`),
looks the key up, or reads the telemetry again, selects the row (`Select`: the row, or
none) and recomputes, and stores the more conservative of the two under the key it
took first. A signature is the number of the write whose files are there. The context is
what the decision tells apart (the worst gate, whether the costs are good, an alarm, the
newest bar); bars and cost health are read by the API from other datasets than by the
publisher (`barSeen`, `costSeen`). The publisher of the timer runs under a flock, a manual
one does not; a slower one may put an older row over a newer one, and `FreshIsServed` is
about the row that was there. `unfound` are the keys under which a read found no row
although the key had one, or older telemetry than there was. The row is gone for these, and
`NO_FRESH_PERMISSION` is kept under the key until the next publication changes it or the
entry expires: the properties say that this, and a key taken in a gap, is the *only* way to
be served less than what was there. The gates and cost health of a fallback signature
(when the meta is away) are replaced in one step.

`AdvisoryCache`: signatures and rows are read one dataset after the other, the
snapshot is kept under the signature taken first, responses under the snapshot's
digest and the filters, and a response is kept by the client with its ETag. Gold that is
away, empty or cannot be read gives way to the latest report pack, whose signature is taken
only when that of Gold is empty. So rows of an old report pack may be kept under Gold's
signature: `missed` records the read that found nothing and the signature it was made for,
and `NoStaleRows` allows a dataset to be missing from an answer only after such a read.

`CostEstimates` is one symbol. A run of the calibration keeps the rows of other days,
adds those its evidence gives for this one, and writes the dataset by the two renames of
`write_parquet_dataset`, so that for a moment there is none (`Gone`); then it writes the
health dataset. What fills show of fees and slippage is an input (`Evidence`), and so is
how many there were; each size has its evidence, and the row of all sizes that of all
fills together, which may be any when there are several (`ActualFillRows`). A request
takes the signature of both datasets, looks for the rows in `_COST_BUCKET_CACHE` and for
the estimate in `_COST_ESTIMATE_CACHE`, and computes and stores what it does not find;
it ranks the rows by tiers, as `_rank_cost_bucket_rows` does, and ties by the number of
samples are left open. Rows age, estimates do not: one that was made is answered until a
dataset is written. `unread` are the signatures under which a read found nothing
although the signature had said there was something: the rows were being replaced, and
the empty answer is kept under the signature too.

## 3. The runs

Each run asks one question. `Retention = 9` or `AckWindow = 14` where retention
is not the question: larger than `MaxTime`, so that nothing ages.

| run | asks | checks | instance |
|---|---|---|---|
| `accept` | is the public log right, whatever arrives and wherever runs crash? | `FirstTimesKept`, `ServedDetailExists`, `ImplementsLog`, `RepairRestoresPointer` | 2 results, 2 inputs, 3 instants, 1 crash, unsound results, no acknowledgement; 1.9 M states |
| `retain` | does pruning leave what is needed? | `EvidenceKept`, `CurrentDetailKept` | 2 results, 2 inputs, 3 days with a retention of one, one crash or I/O error; 3.4 M states |
| `exchange` | is the worker within what the cloud assumes, and does everything get done? | `CloudSpec`, `ResultReceived`, `AcceptedEventually`, `CommitReported`, `PublicationObserved` | both machines, 2 results, 2 crashes on the cloud (also inside a repair), 1 failure of the worker; 147,341 states |
| `observe` | is the ledger's entry the first, and can retention overtake observation? | `FirstObservationKept`, `PrunedIsObserved`, `FactsKept` | two market hours, 4 days with a retention of one and publications in time on two of them, no failures; 2.1 M states |
| `lake` | does a dataset keep its rows, once, and do readers see one moment of it? does a rolled up minute stay whole, and is nothing archived too early? | `CommittedOnDisk`, `CommittedVisible`, `NoDuplicates`, `ReadIsOneMoment`, `MinuteWhole`, `ArchivedOffered` | 2 jobs, 1 reader, 2 keys, 1 killed job, uses as below; or 7 instants, 2 trades, 1 merge, 1 failure; 1.2 M states |
| `ingest` | does what arrives reach the lake once and what is archived reach the NAS before it is removed? does the lock exclude and get taken over? | `BundlesKept`, `CountedOnce`, `IngestedOrOvertaken`; `DeliveredOnce`; `OneWriter`, `TakenOver`; `HistoryCovered`, `NoGapMade`; `RemovedOnceArchived`, `MovedIsArchived`; `RedactedRemovedOnceArchived`, `PackedIsArchived` | 3 bundles and 3 interruptions; 4 messages and 3 errors; 3 processes; 4 hours and 1 outage; 3 files or 2 bundles, 3 days, 2 removals, 1 mishap; 169,610 states |
| `service` | is what the API serves fresh, not superseded, and all there is? | `ServedFresh`, `NotSuperseded`, `FreshIsServed`; `NoStaleRows`, `ExactlyFreshRows`; `OwnRowFirst`, `BlockedLastResort`, `EstimateCurrent` | 2 requests, 2 publishers, 2 rows, their gaps and failing reads; 2 clients, 3 datasets (Gold, the report packs, one more), 2 versions; 2 requests, 2 calibrations, 4 hours; 646,173 states |
| `repair_crash` | (violated) | `RepairRestoresPointer` | two crashes |
| `io_error` | (violated) | `FirstTimesKept` | one `OSError` in acceptance |
| `clock_skew` | (violated) | `Registrable` | worker clock ahead within the tolerance |
| `cleanup` | (violated) | `FreshPathsAvoided` | one upsert and the cleanup of the script |
| `permission_cached` | (violated) | `CurrentContextServed` | a context that changes between two requests |

A behaviour of `lake`, `ingest` or `service` is about one of the parts the run
composes (`use`, `part`, chosen in the initial state): they share nothing, and the
instance of one does not multiply that of another.

**Why these bounds.** Two results are what every ordering property is about: an older
and a newer one, in either order of names, the later one over the same or other facts. A
third adds names that can be accepted and skipped in the same ways, and is left to the
proofs. Two inputs make one of them old enough to be pruned while the other is current.
Three instants (four in `observe`, for an acknowledgement that has gone stale) make an
age of zero, one and two, so that with `Retention = 1` a file can be fresh, at the
boundary and aged, and a result older than, as old as and newer than another. One
failure reaches every line that a failure can interrupt; two reach a failure inside the
repair of the first. In the larger instances time passes only between runs: a run lasts
seconds, the steps of the clock that matter are hours and days, and the difference
(files stamped later than `now`) is left to the proofs, which do not assume it. In
`observe` the facts of an hour are collected after those of the hour before; two results
over the facts of one hour, published on the second and the third day, are both before
its deadline on the fourth, so that the ledger has a first to keep and a second to
refuse, in either order of their names. `observe` has no failures; that a crash changes
neither is the theorem `FirstObservationStays`. `retain` sends an acknowledgement of
everything the worker holds, and only once something can be old. Each restriction is a
named conjunct of the MC modules.

Three processes show a holder, one that judges the file and one that creates the next,
or two that judge the file of a dead one; one of them belongs to another user. In `lake`
the lock does not lapse, since the properties of the rows hold only until it does and
`ingest` has the lapses: no lock file is created while a job may yet unlink the one
before it (`Undisturbed`), and that of a live job stays fresh (`Brief`). Both are
restrictions of the instance in `MCDatasetStore`, not of the specification. Two jobs are
one that leaves something behind and one that finds it; two keys make an append of two
chunks and an upsert that replaces a part; two writes suffice for a compaction of what
was appended, three for a rewrite of what a failed rewrite has left. `Uses` names what
is combined: every operation after every other with a reader, or with a failure and a
death; appends with a reader and one of the two; rewrites with all three. An append
after two rewrites, with a reader, is the shortest history in which `data.parquet` is
replaced twice under a read. Jobs and keys are interchangeable (`Symmetry`).

Seven instants with minutes of two and a lookback of three give a window that begins
inside a minute, one that begins at its start, and a file that has aged out of it. Three
bundles are one that is interrupted, one that overtakes it and one that comes after. The
fourth message is the first of a second buffer. Four hours with pages of two bars are a
history of two pages, with a gap or without. Two files of one day and one of the next
are a day that grows while it is archived, and a day after it. For the caches two
requests are one that takes a key and one that stores under it later, and two
versions are before and after. Of costs, two calibrations are a row and the one that
takes its place; days of two hours and rows stale after three leave, after four hours,
rows of today, of yesterday and stale ones side by side. `PermissionUses`, `AdvisoryUses`
and `CostUses` name which of time, changes, writers and failures are combined: two requests
with one publisher who replaces a row, one request with each of the others. Reads fail,
and publishers are stopped in a gap, in uses of their own, with one kind of `unfound` or
`missed` at a time; the theorems have all of it together.

Deadlock is checked in every run: a cycle can always be started, a dataset always be
read; jobs that have all been killed stutter (`AllDead`).

**Fairness.** `quant-lab-decision.timer` starts a cycle every five minutes and
`deploy/decision/run_nas_decision.sh` a worker run, both skip when one is under
way; a run that is not stopped takes its next step. So weak fairness of starting
and of the steps of a run, on either machine, and none of failures, of the
clock, of accept-only, of the arrival of a late transfer or of a successful
collection of inputs beyond `Publish` (a failing one ends the run and the next
one starts). Failures are finitely many in the liveness runs: the code promises
nothing if every run is stopped. In the lock, a process that waits takes its next
step (it polls every 50 ms) and files get older; nothing is assumed of asking,
finishing or dying. The telemetry timer starts a sync. Of the history jobs only the
deepening is fair, which a script repeats until it is complete; the renewal's timer is
retired, and the newest page alone does not close an outage longer than a page. The
NAS's schedule, which is not in the repository, starts the archive jobs again, and
`README.md:40` with `docs/V5_REMOTE_TELEMETRY_COLLECTION.md:146` says that it does. A
removal that was asked for goes on or is killed. In `MCIngest` the parts share
formulas, as only one of them has a step.

**What the lock does not exclude.** A waiter takes the age of the lock file, reads it and
unlinks it, three steps that name it by its path. Two waiters that judge the file of a
dead job both unlink: the second one may hit the file the first has created since, and
then two jobs are at work. It does not even take a death. A file that is unlocked after a
waiter found it older than 5 s reads as empty, which at that age is stale; the waiter
unlinks whatever has the name by then. And a job that takes more than 600 s, or 5 s to
write its pid, loses its file to a waiter, unless it is another user's, and then removes
the waiter's. No document of the repository speaks of these; the specification has
them all, without an assumption, and `lapses` records them where they happen: `raced` when
a job unlinks the file of a job at work after it had judged another one
(`outdated`), `slow` when the file of a job at work gets that old. `OneWriter` says that
these are the only ways to two holders, and TLC shows in `ingest` that there is no
third; without `lapses` it finds two holders at once. The properties of a dataset's rows
hold until a lapse, since two jobs at work may do anything to each other's files.

**Findings.** Five runs show disagreements between the code and what it says of
itself. They are small and each is quoted in `PROJECT.json`:

- `repair_crash`: the repair writes the missing receipt before the pointer and
  repairs the pointer only while the receipt is missing. A second crash between
  the two leaves `current-result.json` behind `publication.json` until the next
  publication. The comment promises recovery of exactly these files.
- `io_error`: an `OSError` after `publication.json` was replaced is treated as
  the rejection of a file. The loop goes on with the result before it as
  `previous`, may publish an older one, and the first is then published again
  at another time.
- `clock_skew`: a result from a clock up to five seconds ahead is accepted and
  published before its own `generated_at`. The ledger refuses such a publication
  with an error, on every later run of the worker, for as long as it is reported.
- `cleanup`: the script that compacts the hot datasets ends by removing every
  backup and every staging directory of a compaction, whatever its age and
  without the lock, although `docs/LAKE_OPTIMIZATION.md` says it avoids fresh
  ones. It can take the backup of a write between its two renames.
- `permission_cached`: an evaluation is cached under the telemetry, the permission
  and its dependency meta. Gates, cost health and market bars can get worse under the
  same key, and the cached `ALLOW` is served until the next publication or its expiry,
  although `docs/API_CONTRACT.md` says that a more conservative recomputed context is
  returned.

Not a finding but worth knowing: pruning runs before the repair of an
interrupted publication. After an outage longer than the retention, right after a
crash between envelope and pointer, the details of the *published* result are
prunable; the repair of the same run writes them again. `CurrentDetailKept` is
therefore about the current result and `ServedDetailExists` about the state
after the repair.

Of the lake, `incidents` names what the code does not recover from and no
document denies: a job killed between the two renames of a rewrite (`crash`)
leaves a backup that nothing ever restores, and the next write starts from an
empty dataset; a whole compaction that cannot move its outputs in (`compact`) does
not put the backup back, as the other rewrites do, and neither does a rewrite
whose restoration fails (`restore`); a direct compaction that stops after it has
unlinked a source (`direct`) loses rows, since it removes its staging directory
or leaves it where nobody looks; a repair that stops before it has unlinked the bad
files (`repair`) leaves rows twice; a merge or a seed writes over what came between its
read and its lock (`overtaken`). `CommittedOnDisk` excepts `direct` and `overtaken`,
`CommittedVisible` all but `repair`, `NoDuplicates` only `repair`. In production the
telemetry sync and the compaction share a flock, which the model does not assume.

A read without the lock may return less than the dataset ever held: a file that is
renamed or unlinked between the listing and the look at its header is taken for an
invalid one and skipped with a warning (`lake.py` 1162, 1317). A direct compaction of
two files, one of which was written after the listing, is enough for an empty result.
`ReadIsOneMoment` has the case as a disjunct (`passed`): such a read returns part of
one moment. A rewrite always writes a file of the same name, so a reader that listed
`data.parquet` beside other files may read a newer one under that name (`lake.py` 115-147,
1239-1275): it returns all of the newer moment and some of the older rows (`mixed`), a
row twice among them. The attempt to prove that a read is of one moment or part of one
found this case, which three writes reach and the two of the earlier instance did not.

Retention against observation (`PrunedIsObserved`) also has a condition. If a run is killed
between the commit of a publication and the report of its receipt, and then no run ends
for longer than an acknowledgement leaves before a result is pruned (about five days with
the code's constants), the acknowledgement may cover the result and not the report, and the
receipt goes before the ledger has seen it. The timer starts a run every five minutes, and no
document says what holds after such an outage. `observe` has no crash of the cloud; the
theorem `ObservedBeforePruned` has all of them and states the condition (`ReportedSoon`).

## 4. The proofs

| theorem | says | assumes |
|---|---|---|
| `TypeCorrect` | `Spec => []TypeOK` | nothing: every bound, every failure |
| `SafeAlways` | `Spec => []Safe` | `RepairsFinish` |
| `FirstTimesFinal` | `Spec => []FirstTimesKept` | `RepairsFinish` |
| `EvidenceStays` | `Spec => []EvidenceKept` | `RepairsFinish` |
| `RepairRestores` | `Spec => RepairRestoresPointer` | `RepairsFinish` |
| `PublishedInOrder` | `Spec => ImplementsLog` | `RepairsFinish` |
| `RemovalsRecorded` | `Spec => RemovalRecorded` | nothing |
| `CurrentDetailStays` | `Spec => CurrentDetailKept` | nothing |
| `DetailServed` | `Spec => []ServedDetailExists` | `RepairsFinish` |
| `WorkerKeepsToCloud` | `ExchangeSpec => CloudSpec` | nothing |
| `WorkerTypeCorrect` | type correctness of the worker | nothing |
| `FactsStay` | `ExchangeSpec => []FactsKept` | nothing |
| `ObservedBeforePruned` | `ExchangeSpec /\ []ReportedSoon => []PrunedIsObserved` | `RepairsFinish` |
| `FirstObservationStays` | `ExchangeSpec /\ []ReportedSoon => []FirstObservationKept` | `RepairsFinish` |
| `LockExcludes` | `LockSpec => []OneWriter` | nothing; one job until `lapses` |
| `StoreImplementsLock` | `StoreSpec => LockSpec` | nothing |
| `OneWriterWorks` | `StoreSpec => []OneWriter` | nothing; one job until `lapses` |
| `CommittedStays` | `StoreSpec => []CommittedOnDisk` | nothing; what it says ends with `lapses` |
| `CommittedFound` | `StoreSpec => []CommittedVisible` | nothing; what it says ends with `lapses` |
| `RowsAreOnce` | `StoreSpec => []NoDuplicates` | nothing; what it says ends with `lapses` |
| `ReadsAreWhole` | `StoreSpec => []ReadIsOneMoment` | nothing; what it says ends with `lapses` |
| `MinutesStayWhole` | `MarketSpec => []MinuteWhole` | nothing |
| `OnlyOfferedArchived` | `MarketSpec => []ArchivedOffered` | nothing |
| `BundlesStay` | `BundlesSpec => []BundlesKept` | nothing |
| `EventsCountedOnce` | `BundlesSpec => []CountedOnce` | nothing |
| `MessagesDelivered` | `CollectorSpec => []DeliveredOnce` | nothing |
| `DeepeningJoins` | `BackfillSpec => NoGapMade` | `ReachesStart`, in `NoGapMade` |
| `ArchiveTypeCorrect`, `RedactedTypeCorrect` | type correctness of the two archives | nothing |
| `RemovalVerified` | `ArchiveSpec => RemovedOnceArchived` | nothing |
| `RedactedRemovalVerified` | `RedactedSpec => RedactedRemovedOnceArchived` | nothing |
| `RiskTypeCorrect` | type correctness of `RiskPermission` | nothing |
| `PermissionFresh` | `RiskSpec => []ServedFresh` | nothing |
| `PermissionNotSuperseded` | `RiskSpec => []NotSuperseded` | nothing |
| `FreshPermissionServed` | `RiskSpec => []FreshIsServed` | nothing |
| `AdviceNotStale` | `AdvisorySpec => []NoStaleRows` | nothing |
| `AdviceFresh` | `AdvisorySpec => []ExactlyFreshRows` | nothing |
| `OwnRowAnswers` | `CostSpec => []OwnRowFirst` | nothing |
| `UsableRowAnswers` | `CostSpec => []BlockedLastResort` | nothing |
| `EstimatesCurrent` | `CostSpec => []EstimateCurrent` | nothing |

Every invariant and every safety property of an action that a passing run checks is proved.
Those of the cloud hold for any number of results, inputs, instants and failures, any
interleaving of clock and run, and any worker; those of the dataset for any set of
processes, readers, keys and operations and any failures; the others for any bundles,
messages, bars, trades, files, days, threads, publishers, clients, requests and datasets,
and any number of failures. The specifications are those of the modules, without what the
MC modules restrict: a run of the hourly script may take any time, and the clock passes
during the runs of the decision workflow.
`RepairsFinish` excludes the two
failures the code does not recover from (`recovery_crash`, `accept_io`):
`repair_crash` and `io_error` show that it is needed. The only other assumptions
are those of `DecisionFiles` and `DecisionCloud`: names are positive numbers,
bounds are natural numbers.

**The argument for the cloud.** `TypeOK` is inductive once `Pending` is added: what `subject`
and `publication` hold at the program points that use them. `Safe` is the
inductive invariant:

- `Linked` says how far the files of one publication may be apart. The receipt
  of the published result is the last thing written, so if it is there the
  pointer is right; between a commit and its receipt exactly the run that
  commits, or a crash and the repair, can be. During the loop `previous`, the
  pointer and the publication agree.
- `Later`: what was found to advance still does when it is committed.
- `Latest`: the published result is the last of the history, so nothing in the
  history can be committed again.
- `FirstTimesKept` itself.
- `Safeguarded`: the inputs retention protects cover those in need, including
  those of results that reach `results/` after the names were read. It needs
  that such a result was in `inbox/` then, and that an interrupted publication
  is still there.

Each has one lemma that it survives a step, with one case per action that
disturbs it. `PublishedInOrder` maps a commit to `Publish` and everything else to
a stutter; the removal of inputs does not disturb the mapping because `Served`
reads an input only while `EvidenceKept` says it is there. `Recording` and
`Sharing` are the invariants of the two removal theorems.

**The argument for the two machines.** `WorkerKeepsToCloud` needs that what the worker
hands back was signed before it, by a clock no further ahead than the cloud forgives
(`Faithful`); then everything proved of the cloud with any worker holds. A worker whose
clock is behind stamps times before the model's first instant, which is why `Sign` and
`Acknowledge` range over negative times as well: the first attempt at this theorem
failed there. `FactsStay` is that a prune goes by an acknowledgement of what the archive
holds, and the archive only grows. For `ObservedBeforePruned` the invariant `Passed`
follows what is due for observation along its way. A report lists all that is due up to
its newest entry (`Closed`), and by `ReportedSoon` all that is older than the grace
(`Covers`); so does what the worker has pulled of it and what it is about to register;
when it has registered that, nothing that old is due, and its acknowledgement says so of
its own time; the cloud uses an acknowledgement for at most `AckMaxAge` and prunes after
`Retention`; the grace is what is left between the two. `FirstObservationStays` uses the
same: what is registered from a report is the first in it, and what was in time before
that is not missing from it.

**The argument for the lock.** Two holders would both have created the one file
there is (`HolderCreated`). It stays the holder's as long as only abandoned files
are unlinked: the file names its creator or nobody, and is aged without a pid or
old only if its creator is gone, or a job was slow (`NamesCreator`); an age over 5 s
that a job has taken is that of the file that is there (`LooksAtIt`), and what it is about
to unlink is abandoned, or not there (`BreaksAbandoned`), unless a file was created since,
and then the job is `outdated`. So the first step to two holders is a slow job or an
outdated one that unlinks the file of a job at work, and both are recorded; `lapses` never
shrinks, so that the invariant is needed only while it is empty. `StoreImplementsLock` is
then a matter of the other actions: each of them either takes a step of the protocol or
leaves the lock file and the stages alone.

**The argument for the rows.** One job at a time is at work, so what an action does is a
relation `Works` between the record of that job and the directory, before and after: one
of fifteen, and everything else leaves the files alone. A job that has set rows aside
carries them (`Carries`): the outputs of a direct compaction hold the rows of the
sources it has not yet unlinked, what a rewrite moves in holds what it replaces. So a
committed row is in the dataset, with a job, or in a backup nobody owns (`Kept`), and
after which incidents which of the three is left is what `CommittedOnDisk` and
`CommittedVisible` say. Rows are not doubled because an operation's rows are new until
it begins to write (`OldRows`) and neither what is there nor what a job will leave has a
row in two files (`RowsOnce`). For readers, a name other than `data.parquet` is that of
one file for ever (`NamesInv`); what a reader has is of the files it listed, until it
reads a newer `data.parquet`, and then none of the others is there any more or will be
(`Watching`, `GoneFor`), so that the rest is passed over and the newer file is a moment
the reader has seen.

**The rollup.** Files are written after their trades and archived by their time of writing
(`Written`), so an archived trade is older than every window that is still to come; and
every trade of a file that the last rollup could have seen was in the window of one, as long
as rollups come within the lookback (`Rolled`). A later window therefore has all of a
minute or begins in it.

**Bundles.** A run has done what its earlier steps write, for the bundle it is at
(one conjunct per program point); nothing takes a write back, and the manifest is the last
one: so a listed bundle has all of them, and retention only removes listed ones. The
count needs that an event row names the newest bundle written with it (`LatestWritten`):
a bundle in turn is either that one, and changes nothing, or newer than it.

**The collector.** A flush has written a prefix of the four datasets (`Written(k)`),
what was read is in the prefix or in the buffer (`ReadIsKept`), and what the buffer
holds is in no other dataset as long as no flush has raised (`BufferedIsNew`).

**The history.** A deepening run has fetched all bars of the window from its cursor up to
where it began, which is a stored bar or an hour that had not closed (`Joined`), and the
pages that are left take it from there to the window's start (`Deepening`); so it stops
only at the start, and what it publishes leaves nothing out below where it began.

**The archives.** A removal of a high-frequency day is asked for with a list of which
the NAS has a whole batch (`AskedIsArchived`); it compares the list under the lock of the
script, and while it holds the lock the day does not change (`UnderLock`), so what it
renames is what was compared (`TombstoneArchived`). For the bundles the chain is: a copy
is made once against its list (`CopiedOnce`), a day with a receipt stays as it is
(`KeptIsDone`), a removal is asked for only of a day whose copy was found intact
(`AskedIntact`), and what it removes is in the list it compared, or was packed since
(`ComparedIsListed`).

**The caches.** For the permission: the key of a request names no older row than the one
that stood when it came (`AskedGood`, `KeyGood`), or none; what is selected is no older
than the key, or nothing was found and `unfound` has the key (`SelectedGood`); an answer
is no older than what it was made from, and an entry keeps its key (`Good`), so a hit
says of its request what the first evaluation under the key could. A row that is set
aside is the last that was written and nothing is there beside it (`RowsKept`), so the
one that comes back after a failure is no older. For the advisories: everything kept
under a signature was read after the signature was taken, versions only grow, and what
is loaded of a dataset is no older than its signature, or nothing, and then the
signature has none or `missed` has it (`Found`); a rewrite that fails puts back the last
version written (`LastStands`). A response is valid at a time if none of its rows
expires before, which `ExactlyFreshRows` turns into the equality of two sets.

For costs: a row of the symbol is in a tier before every global one, whether it is demoted
or not (`OwnTiers`), and the first of the ranking is one that fits; the caches are in
order as those of the permission are (`InOrder`, `ReadAfter`), where a version that is
withdrawn counts as there, since a failure puts it back.

**Only model-checked.** Liveness needs fairness, which is beyond the prover, and stays
with TLC: `ResultReceived`, `AcceptedEventually`, `CommitReported`,
`PublicationObserved`, `IngestedOrOvertaken`, `TakenOver`, `HistoryCovered`,
`MovedIsArchived`, `PackedIsArchived`. That `VerifiedRemoval`, `PublicationLog` and
`DatasetLock` are implemented is proved for their safety.

## 5. Not modelled, and what could come next

Not modelled, because it has no transitions of its own or is numeric: the advice engine
and the contracts, the collection of current inputs (REST reads and cost arithmetic),
read-only pages and queries of the API, features, backtests, research, paper strategies,
the extraction of cost samples and cost health, the validation of export manifests, the
dataset registry and the health reports, the CLI. They compute datasets from datasets in
one pass; their writes are those of `DatasetStore`. Within what is modelled: writes of
one file in place, snapshot sidecars, row limits and the in-memory fallback of a
streaming upsert (`data/lake.py`); labels and summaries of the ledger, whose two
horizons are one entry; the redaction and the daily analysis of telemetry, the
rehydration of empty datasets; the reuse of index rows; limits and reasons of a
permission; private fills and bills, of whose cursors nothing is said in the repository.

Next, in this order:

1. The ledger's two horizons as two entries, with their labels.
2. The bundles over `DatasetStore` instead of atomic writes.
3. The rows of a dataset after a lapse of the lock: what two jobs at work can do at most.
4. The coverage of costs: the hourly extraction of samples and its health.

## 6. Running it

```
tlc -workers 2 -config accept.cfg MCDecisionCloud      # and so on, see PROJECT.json
tlc -workers 2 -config lake.cfg MCDatasetStore
tlc -workers 2 -config ingest.cfg MCIngest
tlc -workers 2 -config service.cfg MCService
tlapm DecisionCloudProofs.tla
tlapm DatasetProofs.tla                                # 4 minutes; and the other *Proofs modules
```
