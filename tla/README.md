# Formal models of the Customer 360 CDC platform

TLA+ models of the platform's change-data path, checked with TLC on small
instances and proved with TLAPS for all instances. Every definition is translated
from the repository's code; `PROJECT.json` (`map`) names the lines each one stands
for. Paths below are relative to the repository root.

- [1. The system](#1-the-system)
- [2. The modules](#2-the-modules)
- [3. The runs](#3-the-runs)
- [4. Fairness](#4-fairness)
- [5. The proofs](#5-the-proofs)
- [6. What the runs found](#6-what-the-runs-found)
- [7. What is not modelled](#7-what-is-not-modelled)
- [8. Plan](#8-plan)

To repeat the checks, in this directory:

    tlc -config consumer_group.cfg MCCdcConsumer     # any run of section 3
    tlapm CdcConsumerProofs.tla                      # any module of section 5

## 1. The system

    sources --Debezium/producer--> Kafka --consumer--> PostgreSQL raw + identity
       |                                                    ^            ^
       +--event files--> loader --> cdc_state audit files   |            |
                            |                               |     stewards' decisions
                            v                               |        (API -> repository)
                         resolver --> identity files -------+
                            |
       consent events, deletion requests --> exporter --> gate --> destination sync

| Component | State | Operations | Interacts with |
|---|---|---|---|
| Streaming consumer (`streaming/consumer.py`) | lists `batch` and `rejected`, counters, positions and committed offsets of a Kafka group | receive, flush at 500 messages or at the limit, load, resolve, commit, exit by exception | Kafka (poll, commit, rebalance), landing transaction, resolver |
| Landing transaction (`ingestion/loader.py`) | `raw.raw_cdc_events`, `raw.rejected_events` | one transaction: inserts with `on conflict (event_id) do nothing`, rejected rows | called by the consumer and by file ingestion |
| CDC state of file ingestion (`ingestion/cdc_state.py`) | dictionaries of seen ids, hashes, offsets; newest event, watermark, offset checkpoint and latest state | deduplicate, flag anomalies, checkpoint, materialize | called by `ingest_file`; its files are read by operators and tests |
| Identity resolver (`identity_resolution/resolver.py`) | union-find over records and identifiers; identity map in PostgreSQL | link, group, name customers, weak links, upsert | batch pipelines (all events), consumer (one batch) |
| Stewardship (`identity_resolution/repository.py`, `stewardship.py`, `config.py`) | review queue, merge and unmerge audit | create case, decide (merge, unmerge, reject, ignore) | API workers; shares the identity map with the resolver's upsert |
| Consent and suppression (`privacy/activation_policy.py`), deletion requests (`privacy/deletion_workflow.py`) | consent history, suppression list, `deletion_requests.csv` | append a request, compute suppression | written by the API, read by the exporter |
| Export and gate (`reverse_etl/exporter.py`, `scripts/verify_activation_privacy.py`) | export files, suppression list | compute, write exports, then write the list; compare | Airflow task order |
| Destination sync (`reverse_etl/destinations/simulator.py`) | destination state file, in-memory copy, the destinations | attempt, retry, skip unchanged, write the state once | reads the exports |
| Debezium capture (`connect/debezium/`, `ingestion/debezium_mapper.py`) | log position of the connector; none in the mapping | snapshot, emit, store the position, crash and restart; map | in front of the landing; the view orders its events |
| File ingestion, replay and DLQ (`ingestion/loader.py`, `replay.py`, `dlq_reprocessor.py`) | raw and rejected tables, checkpoints, alerts, three logs, replay and reject files | load a file, select and re-ingest, reset checkpoints, repair rejected records | share tables and paths with each other |
| SCD2 history (`customer360/history.py`) | effective-dated versions | fold the changes of a customer, validate, answer for an instant | built for consents (activation) and for subscriptions (API) |
| Reconciliation (`reverse_etl/reconciliation.py`) | none; reads every activation file | count and name differences for each file and tenant | after resolver, exporter and sync, of whatever run |
| Expectations (`validation/great_expectations_runner.py`) | none; reads the churn export of an earlier run | stop the DAG before its exporter | between resolver and exporter |
| Newest customers (`dbt/models/intermediate/int_latest_customers.sql`) | a view of `raw.raw_cdc_events` | number the events of a record, keep the first | behind the landing |
| API (`api/main.py`) | review queue; a cache of the files it read | serve exports and histories, accept deletions and decisions | reads the files of the other parts, decides cases |
| Contract gate (`contracts/contract_gate.py`, `ingestion/contracts.py`) | the contract file, its copy in each process | compare two contracts; validate a payload | ingestion validates with the copy it read first |
| Review queue as a file (`FileReviewCaseRepository`) | `identity_review_queue.csv` | read, decide, write whole; detection rewrites it | API threads, the detection task |
| Quality checks, observability, fuzzy matching, dbt, Snowflake, Terraform, generators | reports, configuration | read, report | section 7 |

What is hard in it, and what makes each part correct:

- *Two transactions and an acknowledgement.* The consumer stores a batch, resolves it
  in a second transaction and commits its offsets last. Crashes and rebalances fall
  between any two of these. Correct means: nothing acknowledged is unstored or
  unresolved, nothing is stored twice, a late commit of an evicted process does not move
  offsets back, and the backlog drains.
- *Deliveries in any order, repeated under any of three keys.* Correct means: nothing is
  applied twice or dropped without cause, and the derived state is that of the greatest
  event whatever the order.
- *Statements that interleave.* A steward's decision checks, updates and moves rows in
  separate statements while other stewards and the resolver write the same tables.
  Correct means: a case follows its state machine, an approval has its audit row and an
  effect, and mappings point at customers that exist.
- *Merging by evidence.* Union order and path compression must not show in the customers,
  tenants must never mix, and weak evidence must reach a reviewer.
- *Files between tasks.* Exports, suppression list, sync state and audit are written at
  different moments, by commands that may die or be run again in any order; consents,
  deletions, identities and tenants change meanwhile. Correct means:
  a skipped row was really sent, a finished sync is complete, a deletion request takes
  effect, and a file that is not what the customers call for is named.
- *Running again what was done.* An ingest, replays over one path and repairs overlap and die
  between their commits; what they load repeats ids, hashes and offsets. Correct means: what a
  replay log names is stored, and a log that says success or failure tells the truth.
- *The past changes.* Late events, deletions and merges rewrite the history of a customer.
  Correct means: an answer for an instant is that of the changes up to it, and only
  changes before it can alter it.
- *Captured twice.* A connector that crashes emits a change again with a new time, hence a new
  event id. Correct means: the newest event by log position is still the row's.
- *Contracts in force at different times.* A process keeps the contract it read; what was
  stored under one contract is replayed under a later one. Correct means: a gated change
  never makes an accepted payload unacceptable, nor does a chain of them.
- *One file, several writers.* Decisions read and write the whole review queue without a
  lock, and detection writes it too. Correct means: a decision stands unless something
  overlapped it.

`PROJECT.json` lists these as hazards, each at its line, with the properties aimed at it.

## 2. The modules

| Module | Models | Role |
|---|---|---|
| `CdcLanding` | what landing promises, whoever does it | abstract specification |
| `CdcConsumer` | consumer group, landing transaction, restarts, rebalances | detailed, implements `CdcLanding` |
| `CdcState` | the six functions of `ingestion/cdc_state.py` over one list | algorithm as a state machine |
| `ReviewCases` | state machine and row of a review case | operators shared by repositories |
| `CaseLedger` | what a decision promises, whoever keeps the cases | abstract specification |
| `Stewardship` | decisions as transactions, beside the resolver's upsert | detailed, implements `CaseLedger` |
| `IdentityPartition` | an identity graph, however represented | abstract specification |
| `Resolver` | union-find, canonical ids, weak links, upsert | detailed, implements `IdentityPartition` |
| `Activation` | consents, deletions, export, gate, sync over the hourly runs | composition of privacy and activation |
| `EventTime` | the text `_parse_timestamp` writes, and its order | operators shared by readers |
| `Delivery` | customer list, export files, audit, sync state, reconciliation | composition of resolver, exporter, sync, reconciliation |
| `Replay` | ingest, replay and repair jobs over shared tables and files | composition of ingestion jobs |
| `History` | SCD2 versions rebuilt while events arrive | algorithm as a state machine, against a reference |
| `Capture` | connector, mapping, landing in batches, view of the newest customers | composition of capture and reader |
| `ContractGate` | compatibility gate, validation with kept contracts | protocol |
| `ReviewFile` | review queue as a file with several writers | extends `ReviewCases` |
| `ReviewRepositories` | the choice of the repository by `STEWARDSHIP_DSN` | composition of `Stewardship` and `ReviewFile` |
| `MC*` | TLC instances | constants |
| `*Proofs` | theorems | section 5 |

**CdcConsumer.** Variables are the Kafka side (`log`, `committed`, `group`), one process
per consumer (`pc`, `assigned`, `position`, `batch`, `count`) and the tables (`raw`,
`rejected`, `resolved`). `batch` holds both Python lists in arrival order, as places in the
log; a message is its form (event, malformed, undecodable), id and hash. `Receive` is one
turn of the loop, including the flush condition; `Load`, `ResolveBatch` and `Commit` are the
three steps of a flush; `LoadConflict`, `CommitRefused`, `ReceiveUndecodable` and
`DatabaseError` are the ways an exception leaves the loop, all through `Raise`. `Rebalance`
gives the partitions to a new set of members and restarts their positions at the committed
offsets; the batch in memory stays, which is what the code does, having no rebalance
listener. Kafka's coordinator and the crash are external. Under `LandingSpec` the offsets map
to the acknowledged prefix, the ids in `raw` to what has landed and the positive counts in
`rejected` to what is quarantined.

**CdcState.** Each function of the module loops over the same list; a step of the model
hands the next event to all of them, so each reachable state is the result for one list.
Timestamps are pairs of seconds and microseconds compared by `TextBefore`, which is the
order of the text `isoformat()` writes: it leaves out a zero fraction. `OrMinusOne` is the
code's `or -1`, for which the offset 0 is no offset.

**Stewardship.** `Decide`, `Apply`, `Commit` are the statements of
`PostgresReviewCaseRepository.decide`: `select ... for update` with its checks, the update
of the map with its row count and foreign key, the rest up to the commit. `Refuse` and
`Abort` roll back. `LoadIdentity` is `load_identity_to_postgres`, `CreateCase` the upsert
of detection. Row locks follow from the open transactions (`CaseLocked`, `RowsLocked`).
What a transaction has written and not committed is kept in `tx`, so other transactions see
committed rows only. A signer stands for a reviewer with a reason: the code only compares
and stores the two together.

**Resolver.** `parent` is `UnionFind.parent`; `Path` is what `find` walks and compresses, so
`Union` has the effect of `find(left)`, `find(right)` and the assignment. Records and the
identifiers of a record are read in any order. `Group` computes canonical ids and weak
links, `Load` upserts the map. An identifier is known by its place in the order by weight;
canonical ids are the seeds of the code's hashes. Normalization and survivorship are left
out.

**Activation.** The run's stages are the Airflow tasks `build_privacy_filtered_exports`,
`verify_privacy_gate` and `simulate_destination_syncs`, with the exporter's two writes as two steps
(`Export`, `Publish`). `owner` is what the resolver finds at the moment, `listed` what its
task last wrote (the API checks requests against that file). A payload is only known as the
current one, an older one or none, since `_payload_hash` covers `export_timestamp` and is new
in each export. The destination answers a row as `_classify_attempt` does: plain, invalid,
rate limited once, or failing twice. One destination stands for the four.

**Delivery.** `Resolve`, `StartExport` to `WriteSuppression`, `Sync`, `SaveState` and `Reconcile` are
the commands, one at a time but in any order, as `make` targets allow. A file of customers is a
`Listing`: the tenant on the row of each, if it has one, since `resolver.py:664` takes the tenant
from active records and a customer without one is in `tenant_unknown`. `Crash` leaves of the file
being written any part that may have been flushed. `Reconciled` is the function `reconcile` with
its equation and its findings, for the tenants it chooses to look at (`Examined`); `Reconcile` is
the command. Which customers exist, in which tenant, and which are withheld comes from outside
(`Worlds`); how consents decide it is `Activation`'s subject. `GateOpen` is the expectation the
DAG has before its exporter. `audited` exists to state properties.

**Replay.** A job is `Start`, for a replay `WriteReplayFile`, `ResetCheckpoints` and
`ReadReplayFile`, then `Normalize`, `WriteLocal`, `WriteRejected` and `Load`, then `LogReplay` or
`AuditRepairs`: each is one read, one commit or one file write of `ingest_file`, `replay.py` or
`dlq_reprocessor.py`, with `Crash` between any two. What is wrong with a record is in its form,
table and version; `Repaired` is `repair_rejected_event`. `PassesFilter` is the filter by id, hash
and offset, in the order of the list. `Received` and `Normalized` are the two ways the summaries
group a record, before and after the conversion; `Unsummarized` is the sort of the groups, or the
conversion of a version, that raises. `LoadRaises` is the load that meets a known hash under a new
id, and rolls back. `author` tells whose replay file a job read.

**History.** `Begin` reads events and identity map, `Fold` is one turn of `build_scd2_history` for
one customer (first window, same instant, new window), `Finish` publishes. `Arrive` and `Remap`
change the events and the identity map meanwhile. `Errors` is `validate_scd2_invariants`, `PointInTime` is `point_in_time`. The two
callers differ in what an event without payload is (`RowOf`).

**Capture.** `Commit` is the source, `Snapshot`, `Emit`, `StoreOffset`, `Stop`, `Restart` the
connector (external). `Land` is the flush of a batch of any size up to the limit, with its mapping
and its conflict clause, `Acknowledge` its commit, `DieBeforeCommit` the end of the consumer between
the two, after which the batch comes again. `Latest` is what the view chooses from; of events of
one log position any may come first. A row keeps its tenant and its source system.

**ContractGate.** `Findings` is `compare_contracts` for one table, `Passes` the exit code of the
gate under `--fail-on-breaking`, `Conforms` is `validate_payload_contract`. `Read` is the
`lru_cache` of `load_contracts`, `Exit` the end of the process; `Accept` stores a payload under
whatever copy a process has; `Adopt` puts a contract that passed into force.

**ReviewFile.** A rewrite is the read of the file (`Decide`, `Detect`), `OpenToWrite`, which empties it,
`WriteSome` as the buffer fills, and `Close`. Of two writers that have it open at once the
model leaves the rows open. `ReviewRepositories` puts it beside `Stewardship`: `dsn` says which of
the two a deployment has, and only that one takes steps.

## 3. The runs

| Run | Instance | Distinct states | Properties |
|---|---|---|---|
| `consumer_group` | 2 consumers, 2 partitions of 2 messages, 4 kinds of message, batch of 2, 1 fault, identity on | 1,295,391 (up to symmetry) | `CommittedIsStored`, `CommittedIsResolved`, `CommitMonotone`, `LandingSpec` |
| `consumer_liveness` | 2 consumers, 1 partition of 4 messages, 4 kinds of message, batch of 2, limit 4, 1 fault | 381,666 | `BacklogDrains` |
| `cdc_state` | lists of up to 5 of 8 deliveries | 37,449 | `AcceptedOnce`, `DuplicateExplained`, `LatestIsGreatest`, `PositionsCover`, `AnomalyExplained` |
| `stewardship_decisions` | PostgreSQL: 2 workers, 3 cases, 3 records, 2 batches, 1 lost transaction, repeated detection. File: 2 workers, 2 cases, 2 detection runs, 3 decisions, 1 lost writer | 1,564,284 (up to symmetry) | `ApprovalIsAudited`, `MappingExplained`, `DecisionStands`, `LedgerSpec`, `ApprovalTakesEffect` |
| `resolver_batch` | 3 records of 2 tenants with any of 2 strong and 1 weak identifiers | 29,728 (up to symmetry) | `MergeHasEvidence`, `IdIsStrongest`, `WeakEvidenceIsReviewed`, `GraphSpec` |
| `activation_sync` | 3 customers, 2 records, 2 consent times, 1 crash | 197,910 | `SkipIsSound`, `SentOncePerCrash`, `SyncIsComplete`, `DeletionTakesEffect` |
| `history` | 2 records, 2 customers, up to 3 events, both callers | 1,132,434 | `AnswersAreExact`, `ConsentAgrees`, `PastStands` |
| `replay` | an ingest, 2 replays over one path (one resets), a repair; 9 input files, 1 crash | 1,169,130 | `LoggedReplayIsStored`, `LogIsHonest` |
| `capture` | 2 keys, 3 changes, 1 crash of the connector, 2 instants, batches of up to 2, any crashes of the consumer | 190,708 | `LatestIsSource` |
| `contract_gate` | all contracts of 1 field over 3 values, 1 process | 40,327 | `StoredStaysValid`, `GateIsSound` |
| `delivery` | 3 customers, 3 tenants (one the unknown), 2 files, 4 worlds, 1 change, 1 crash | 178,217 | `MismatchIsNamed`, `NoFalseAlarm`, `ReportsSettle` |
| `replay_quarantine` | the jobs of `replay` | violation | `MalformedIsQuarantined` |

Why the bounds are enough to be interesting:

- `consumer_group`: with batches of two a flush may be full, may mix partitions and may be
  interrupted; two members and one fault give every eviction and every late commit; two ids
  of one hash give the index conflict. The order of commits and stores does not depend on
  how long the log is, and the theorems of section 5 remove the bound.
- `consumer_liveness`: a partition longer than a batch per process, so draining is
  not trivial, a limit that can stop a process while the other goes on, and messages on which
  a process dies. One fault keeps the evictions finite: under endless faults nothing drains.
- `cdc_state`: two records, duplicates by each key alone, sequence numbers present and
  absent, whole seconds beside fractions, the offset 0. Five events leave room for an
  anomaly, an event behind it and a repetition. The theorems remove the bound.
- `stewardship_decisions`: two workers and three cases, of which two name the same
  candidate and one names a customer twice, so a second merge finds nothing to move and a
  field conflict has nothing to merge. The theorems remove the bound.
- `resolver_batch`: three records are what transitivity needs; all 4,096 populations, up to
  symmetry, are initial states. The theorems remove the bound.
- `activation_sync`: customers of all four kinds of answer but the plain one (which a
  flaky row is after two attempts), two resolutions that merge and part them, requests and
  consents at any moment.
- `stewardship_decisions`, file: two rows are what it takes for a rewrite of one to touch another;
  two detection runs and three decisions let a decision be read by a second rewrite, undone and
  taken again.
- `history`: of three events one may come late, tie with another, be empty or delete; two of the instants
  are in one second and differ in whether they have a fraction. The theorems remove the bound.
- `replay`: the ingest and the repair may run twice, which gives repeated ids and retries; the
  replays share a path, so one may ingest the other's file, and only one of them resets
  checkpoints. The input files hold a late copy of an id, one hash under two ids beside an offset
  that only the second of them carries, so that who is loaded first decides whether a load is
  rolled back, and every form, table and version of a bad record, alone or where it stops the
  file. The theorems remove the bound.
- `capture`: the instants give changes of one instant and of different ones; one crash is enough
  for a change to be captured twice, and the batch of two for its copies to land together or
  apart. Two keys let a batch mix records. The theorems remove the bound.
- `contract_gate`: nothing in the code relates two fields, and the contracts of one field with every
  type, list, and flag are all there. The theorems remove the bound.
- `delivery`: one tenant of one customer and one of two, so that a tenant may be absent from a file
  that has rows; the worlds withhold the only customer of a tenant, merge one away, move one to
  the unknown tenant, and withhold everybody, which closes the gate. Both blind spots of
  `MismatchIsNamed` and both outcomes of `ReportsSettle` are reached. The theorems remove the bound.

Deadlock is not checked where the system may stop because a bound is used up: the
consumer's log is full and everything is acknowledged, the list is complete, every case
is closed, every job has run, or the source has made its last change.

Named bounds: `MaxLog`, `MaxFaults` (consumer, stewardship, activation, replay, delivery, file),
`MaxEvents`, `MaxTime`, `Redetect`, `MaxRuns`, `MaxCalls`, `MaxChanges`, `MaxRestarts`,
`Instants`, `Flushed` (what a write that dies may
leave). `BatchSize` stands for the literal 500, `MaxMessages` for `--max-messages` (0 is None),
`MaxRetries` for the three attempts of all destinations.

The type invariants are no run's properties: they are proved (section 5).

Each property of a passing run has a mutant: a definition with a plausible bug
(commented `mutant` in the modules), under which the run must fail. The mutants are the
record of what each property would notice: a dropped lock, a lost index, an
off-by-one in the retries, deletion requests that are not read.

## 4. Fairness

`FairSpec` of `CdcConsumer`: a running process keeps polling and finishes its flush (weak
fairness: nothing but its own end disables the step), and the coordinator admits a process that
polls (strong fairness, since another rebalance may come between). No fairness is assumed for
producers, faults, or the restart of a process that ended: nothing in the repository restarts the
consumer but an operator (`docs/runbooks/kafka_lag_incident.md`). `BacklogDrains` therefore speaks
of the case that, from some time on, a set of processes runs on: then the backlog falls below one
batch per process again and again. It does not become empty, because a batch that never fills is
never flushed; and while a message that no process can decode or load is next, none runs on.

`FairSpec` of `Activation`: Airflow carries a run to its end (weak fairness of the pipeline's
steps; a crash is retried or the run is given up) and starts the next one each hour (strong
fairness of `NextRun`, since an operator may run the sync again first). No fairness for
consents, requests, resolutions or crashes. The expectations before the exporter are left out here,
where the exports are one file: they end an hour only when that file has no row, so that nobody who
asked to be deleted is in it. What they hold up with several files is in `Delivery`.

`FairSpec` of `Delivery`: a command that started ends, unless it dies (weak fairness of its steps).
The hourly DAG starts the resolver again and again, and the exporter, the sync and the
reconciliation while the expectations before them hold (strong fairness, since an operator's
commands and other hours come between; `GateOpen` is part of the fair action, so an hour that
the gate ends starts nothing). This assumes that the DAG's other tasks succeed: the privacy gate
does after an export that was completed. No fairness for changes of the events or crashes.
`ReportsSettle` has the closed gate as its second outcome.

All other specifications are safety only.

## 5. The proofs

Each proof module shows an inductive invariant (defined beside the properties or at the
head of the proofs, and checked with TLC before it was proved) and derives the properties
from it. None assumes more than the `ASSUME` of its module, which says what kind of thing
each constant is; TLC evaluates it in every run. Of these assumptions, some are worth naming:
the input files of `Replay` are finite; records and identifiers of `Resolver` are different
nodes, as their prefixes make them in the code; the rows of the file of `ReviewFile` are a
sequence without repetition; instants of `Capture` are natural numbers, and rows of export files
name a tenant (`Delivery`).

| Module | Theorems |
|---|---|
| `CdcConsumerProofs` | `SpecTypeOK`, `NoAcknowledgedMessageIsLost`, `NoAcknowledgedEventIsUnresolved`, `OneRowPerEvent`, `OffsetsOnlyGrow`, `ConsumerImplementsLanding` |
| `CdcStateProofs` | `SpecTypeOK`, `DeliveriesAcceptedOnce`, `DuplicatesExplained`, `StateIsGreatest`, `CheckpointsCover`, `AnomaliesExplained` |
| `StewardshipProofs` | on the tables: `SpecTypeOK`, `ApprovalsAreAudited`, `MappingsAreExplained`, `CustomersExist`, `CasesFollowMachine`, `ApprovalsTakeEffect`, `StewardshipImplementsLedger`; on the file: `DecisionsStand`; of the composition: `DeploymentsKeepTables` |
| `ResolverProofs` | `ResolverTyped`, `MergesHaveEvidence`, `IdsAreStrongest`, `WeakEvidenceReachesReview`, `ResolverImplementsPartition` |
| `ActivationProofs` | `SpecTypeOK`, `ExportFilesAgree`, `SkipsAreSound`, `ResendsNeedCrashes`, `SyncsAreComplete` |
| `HistoryProofs` | of histories: `HistoryTyped`, `HistoryIsValid`, `HistoryIsExact`, `PastIsStable`, `ConsentsAgree`; of `Capture`: `LatestIsTheSource` |
| `ReplayProofs` | of jobs: `ReplayTyped`, `ReplayIsStored`, `ResetHasAlert`, `LogsAreHonest`; of `ContractGate`, under which they validate: `GateTyped`, `ReplayIsAccepted`, `GateSound` |
| `DeliveryProofs` | `DeliveryTyped`, `MismatchesAreNamed`, `ReportsAreExact` |

*Consumer.* That acknowledged messages are stored is not inductive: a commit covers what was
read, so one must know where everything read is. `IndInv` adds that members of the group own
disjoint partitions, that on each of its partitions a member has read at least what is
committed and still holds everything beyond it in memory (`ReadIsHeld`), and that what it
holds past the load is stored and past the identity step is resolved (`FlushedIsStored`,
`FlushedIsResolved`). A process outside the group has no such duties, and its commit is
refused. The refinement maps `Load` to one abstract `Store` of the batch and `Commit` to
`Acknowledge`.

*CDC state.* `TextOrder` shows that the order of timestamps as text is a strict total order
(if not the order of time), so that the tuples of the code order events totally up to their
id. The watermark is the last event in that order (`WatermarkIsLast`), and `WatermarkCovers` follows
in time: an event it is behind can only lie within the full second it stands on.
`LatestIsGreatest` needs `AcceptedOnce` for that id, `AnomalyExplained` needs
`NewestIsLast`: the event later ones are compared with is no anomaly, and none of the
events that are not was committed after it. `RowExplained` is the lemma about the three key
sets.

*Stewardship.* A decision that was legal when its case was read must be legal when it is
committed: `DecisionPending` says so of every open transaction, `MovesHeld` says what it
moves, and both survive the steps of others because of `LocksExclusive`, the row locks.
`CommitWrites` collects what a commit does; the properties follow from it. So does the
refinement: the ledger has the five tables and no transactions, a decision happens in it where it
commits, and what reads and applies it before is a stutter. `CommitDecides` shows that the commit
is the whole decision: the case is still as it was read (`DecisionPending`), the mappings it moves
still are where it found them, and one at least is (`MovesHeld`), and their new customer exists
(`NoDanglingCustomer`). The ledger leaves one liberty: a merge may miss mappings of the candidate
which a resolver run stored after the merge had selected them. `StatusFollowsMachine` is proved
beside it and not run: the ledger implies it.

*Review file.* `DecisionStands` speaks of moments when nobody writes; `FileInv` says why it
holds at them. A call will write back, of the cases it does not change, what was last promised,
unless it may have read an older row (`RowsAreKept`). A writer that has the file to itself leaves
in it what it writes (`AloneWrites`), and of two that have it open each knows
(`TogetherIsMixed`), so that no promise comes of it. `DeploymentsKeepTables` carries the
theorems about the tables over to the composition that the run checks.

*Resolver.* `Path` is a recursive function, and there is no induction over data. `PathStep`
derives its recursive equation in any forest from least closed sets: the ancestors of a node are the
intersection of the sets that contain it and are closed under `parent`. Where an induction along
a path would be natural, the set of counterexamples is shown to be closed and without a root. That each component
has exactly one root (`OneRoot`, `Roots`) and that `Union` joins two of them and no more
(`UnionRoots`) follow from it. The invariant says that the forest is grounded
(`Grounded`), that what is joined is connected by evidence (`JoinsAreEvidence`) and that evidence
already read is joined (`EvidenceIsJoined`): components are then those of the evidence, which no
order of unions can change, so the strongest token of each is well defined (`StrongestIs`,
`CanonicalIds`). The refinement maps `parent` to the classes of nodes with one root; a union is one
`Join` of the abstract graph or a stutter.

*Activation.* `SentOncePerCrash` is not inductive: `SentIsHeld` gives a row one send more than
there were crashes only while the state in use (in memory during a sync, else on disk)
holds it. `PassedIsSent` is completeness of an unfinished sync. `SyncsAreComplete` assumes
`MaxRetries >= 3`, which every destination of `simulator.py:104-109` has.

*History.* `Good` says of a list of windows that they are ordered, chained, each the newest
change of its instant, and that every change folded so far is in it. `ExtendGood` carries it
through the three ways a change is folded, `GoodHasNoErrors` and `GoodAnswers` derive the
validator's verdict and the answers. That windows neither overlap nor leave a gap is part of
`HistoryIsValid`. `PastIsStable` follows, since the answers before and after are both exact.
`ConsentsAgree` needs that the last window stands for the newest change (`LastIsNewest`) and that
the texts of instants in different seconds are ordered as the instants (`TextOfSeconds`).

*Capture.* `CaptureInv` describes the topic: each message tells a change of the log or a row
at the snapshot (`MessagesAreTrue`), none is left out up to the position (`TopicIsComplete`), and
after each message come all the changes after its own (`TopicIsOrdered`), which is what makes a
repetition harmless: the newest is told again too. `LandedIsTopic` holds although a message with
a known id is dropped, because the id fixes the rest (`OneEventPerId`); `BatchIsLanded` shows it of a
batch, in which one id may come twice.

*Replay.* A load leaves every valid record it read in the warehouse, itself or a duplicate of it in
the list, because what the filter drops has a key of one that passed (`LoadStores`, `LoadRepresents`),
and a job goes on to its log only from a load that was committed. The invariant (`Held`) carries what
a replay selected, what is in its file and whose it is, and what it read from one step of a job to the
next; another replay over the same path is the only way they part, and then `author` says so.
`SummariesHold` is the honesty of one load, group by group, `LoadsStep` and `RepairsStep` carry it on.

*Contract gate.* `FieldLemma`: without a breaking finding a field rejects what it accepted only in a
blind spot. A chain follows since `Conforms` speaks of each field alone. `CachesAreOfTheChain`
says of a process with an old contract that what it would still accept is excused too.

*Delivery.* `AuditIsOfFile` strengthens the properties into an inductive invariant: the audit of a
file not written since has a row for each row of it, under the same tenant. `TenantIsNamed` is the
first property of one report: a customer that is shown and not due, or due and not shown, is a
finding in a tenant that is looked at. `DueIsOwn` and `NoneElsewhere` say what files of one view make
of a tenant's customers, `CountsBalance` is the equation of the reconciliation, from cardinalities of
disjoint sets; `NothingFound` and `ReportIsClean` are the findings.

Only model-checked is liveness (`BacklogDrains`, `DeletionTakesEffect`,
`ReportsSettle`): the prover does not handle fairness and `ENABLED`. Every other property of a
passing run is a theorem.

## 6. What the runs found

TLC finds each of these violated. The first is a run of `PROJECT.json`, which quotes both
sides; the others are configurations kept beside it, to be run the same way.

1. `replay_quarantine`: `docs/data_quality_observability.md:14` writes contract failures to the
   rejected events path; `loader.py:102` sorts the groups of a file by their raw keys. A record
   without batch id or table, which is malformed and was set aside, puts `None` beside text there,
   versions of two types do not compare, and `loader.py:121` converts a version in words. Each
   raises, and the whole file is neither stored nor set aside.
2. `consumer_same_hash`: `docs/cdc_design.md:48-50` has duplicates filtered before raw state
   changes; the streaming path inserts with a conflict clause for `event_id` only, so a second
   id with a known hash breaks the unique index and its batch can never be loaded.
3. `cdc_state_text`: `cdc_state.py:199` promises that old events do not replace newer state;
   text order puts a whole second after its own fractions.
4. `stewardship_reload`: `warehouse/sql/02_identity_tables.sql:191-193` wants an audit row for
   each reassignment; the resolver's upsert takes back a steward's decision without one.
5. `resolver_weak`: `docs/master_data_management.md:58` does not merge on weak evidence; two
   records without a strong identifier get one canonical id from the weak one they share.
6. `resolver_stream`: `docs/master_data_management.md:57` merges strong evidence; across two
   streaming batches it is not seen.
7. `activation_merge`: `stewardship.py:177-178` lets suppression survive a merge; deletion
   requests are keyed by a canonical id that the merge replaces, and the newest consent of
   any record wins.

Smaller divergences met while modelling; the models contain the behaviour, no run is
spent on them:

- `deletion_workflow.py:48` records "Suppress activation exports immediately"; the next export
  does, rows already exported are still synced.
- `docs/reverse_etl_design.md:51` skips unchanged payloads; the hash covers
  `export_timestamp`, so only a rerun on the same export skips anything.
- `scripts/run_local_pipeline.py:53-55` and `run_postgres_pipeline.py:59` build exports without
  reading deletion requests. The mutant of `DeletionTakesEffect` is this pipeline.
- `docs/cdc_design.md:61` writes out-of-order records to the anomaly log; an event behind a
  sequence number that was itself flagged as late is compared with the one before it and not
  written (`cdc_state.py:139`).
- `docs/master_data_management.md:99-100`: when detection reopens a case and another reviewer
  approves it again, the audit row keeps the first signer (`repository.py:203, 269`).
- Rejected rows have no conflict clause (`loader.py:166`): a redelivered batch stores its
  malformed messages again.
- Two replays over one path: the second may ingest what the first selected, and log it under its
  own selection (`LoggedReplayIsStored` names the case).
- A file with an event whose given hash is stored under another id is rolled back whole, at every
  run (`loader.py:158`, `01_raw_audit_tables.sql:29-31`).
- The load log groups what was received by raw values and what landed by normalized ones
  (`loader.py:93-97`): records with a schema version as text, or alone with a null batch id, land
  and their group says that none did, with "failed" if another of the group was rejected
  (`LogIsHonest` names the case).
- One record without `event_timestamp` stops every replay, of whatever selection (`replay.py:38`).
- A repaired event takes its id in `raw.raw_cdc_events`; a genuine event of that id that comes later
  is dropped as a duplicate (`dlq_reprocessor.py:50` changes the batch, not the id).
- `rejected_count` of a load is counted under every schema version of the batch.
- A row that moves to another tenant stays in `int_latest_customers` under its old one: the view
  numbers events within a tenant. `Capture` takes tenants as fixed.
- `debezium_mapper.py:145-147` offers the log position as the deterministic order of a row's
  changes; the resolver and the API's timeline order by time, so changes of one instant are
  ordered by a digest or by their place in the file. No code feeds captured events to them in one
  piece; the models do not compare the orders.
- `cdc_envelope.py:81` drops a zero fraction, so the watermark may stay behind an event of its own
  second (`PositionsCover` names the case).
- `docs/activation_reconciliation.md:25-27` has each variance named, "never just a count". A report
  between an export and its sync has a variance without a finding. One tenant without rows
  in a file that has others is not looked at (`reconciliation.py:137`), nor is a customer that
  the suppression list holds under the tenant it had before named when it is exported
  (`reconciliation.py:119, 141`); `MismatchIsNamed` names both. Lifecycle and health exports are
  not reconciled.
- The expectations that come before the DAG's exporter ask for a row in the churn export of an
  earlier run (`customer_360_activation_suite.json:8-14`): an hour in which everybody is withheld, or a
  first run, ends there, and so does each later one until an operator runs the exporter
  (`ReportsSettle` has it as its second outcome).
- `README.md:168` has a deletion request suppress activation immediately; the API serves the
  file it read first for the life of its process (`api/main.py:231`).
- `load_activation_to_postgres` upserts its rows (`exporter.py:243`) and removes none, so a customer
  withheld later stays in the PostgreSQL activation tables.
- The customer history of the API folds all subscriptions of a customer into one line of
  versions (`api/main.py:755`).
- `make contract-gate`, and the DAG unless `CUSTOMER360_CONTRACT_CANDIDATE` is set, compare the
  contract file with itself, and pass.
- `README.md:119` has decisions transactional and audited. With files, the default when
  `STEWARDSHIP_DSN` is not set, they are neither: a detection run reopens every case it
  finds, an approval moves no mapping and writes no audit row.
- `IGNORE_FALSE_POSITIVE` on an approved case closes it and leaves the merge (`config.py:50`).

## 7. What is not modelled

- *Pure conversions*: field-by-field normalization of envelopes and identifiers,
  survivorship and the graph artifacts, fuzzy scores. The models use their outcomes. Hash
  functions are taken to be injective, up to the fields they hash.
- *Options that only select*: a replay's dry run and its selection by time range, tenant or topic.
- *Calls made by tests only*: `create_case` of the file repository, `merge_customers`,
  `unmerge_customer`.
- *Which pairs become conflict cases*: a constant in `Stewardship` and `ReviewFile`.
- *Requests that only read*: authorization, pagination and the operational endpoints of the API.
- *Suppression for a missing identifier*: exported rows always have one here, and a customer all of
  whose records are deleted, which has none, is withheld in each world of `Delivery`.
- *PostgreSQL activation tables* (`exporter.py:229`): written by the exporter with `--dsn`, which the DAG
  does not pass, and by `scripts/run_postgres_pipeline.py:61`, and read by nothing in the modelled parts.
- *The API's file cache* (`api/main.py:231`): what a process read first it serves to its end; there
  is no step of the code a property could be about.
- *The API's timeline*, which sorts a local file by event time.
- *Partial writes* are modelled for the export files, by whole rows, and the review queue; other
  files, the replay file among them, are written whole or not at all.
- *Reports and configuration*: quality checks, observability, schema drift, lineage, the
  dbt marts, the Snowflake pipeline, Terraform, migration comparison, generators. Nothing in the
  modelled parts reads them back, or they have no control flow of their own.
- *Tenants* appear in `Resolver` and `Delivery`; the other modules model one, since their keys
  include the tenant.

## 8. Plan

Done, in this order: `CdcConsumer` with `CdcLanding`, `CdcState`, `Stewardship` with
`ReviewCases` and `CaseLedger`, `Resolver` with `IdentityPartition`, `Activation`, `History`, `Replay`, `Capture`,
`ContractGate`, `Delivery`, `ReviewFile` with `ReviewRepositories`; proofs of every safety
property that a run checks.

Left, in order:

1. That `ReviewFile` does not implement `CaseLedger`, with the step at which it fails.
2. The Snowflake `MERGE` over batches of its stream: whether the order it takes rows in gives the
   view of `Capture`.
3. Survivorship: that a golden record's fields come from the sources the rules prefer, over
   records in any order.
4. The API's authorization per tenant.

Each new passing run takes the place of one that answers a question of less weight, so
that the whole set stays one that can be repeated in minutes.
