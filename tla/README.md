# A TLA+ model of BharatMLStack

BharatMLStack is a set of services that put machine-learning models into production: a control
plane (horizon), a vector-search service (skye), an inference service (inferflow), an online
feature store, an interaction store, an expression engine (numerix), client libraries and a user
interface.  This project models the parts of it in which an order of events decides whether the
result is right, checks them with TLC on small instances, and proves the most important invariants
with TLAPS for every instance.

Paths below are relative to the repository.  `DAG/` stands for
`inferflow/dag-topology-executor/`, `qdrant.go` for `skye/internal/admin/handler/qdrant/qdrant.go`.

## 1. Inventory

| Component | State it keeps | Operations | Interacts with | What makes it hard | What makes it correct |
|---|---|---|---|---|---|
| DAG executor (`DAG/handlers/dag/executor.go`) | in-degree map, channel, `queueOpen`, count of terminal nodes | one call of `executeDag` | the components it runs | one goroutine per component, a bounded channel, an unsynchronised flag, `close` against late sends | dependencies first, each component once, returns exactly when all are done, never panics |
| Topology and validator (`DAG/handlers/dag/initializer.go`, `DAG/pkg/utils/dagvalidator.go`) | none (pure) | `IsValidDag`, `InitializeComponentDag` | executor, horizon's maps | the direction of an edge, graphs without an edge | cycles and only cycles are rejected; what can be run is resolved |
| Registry and cache (`DAG/handlers/dag/registry.go`, `DAG/pkg/cache`) | ristretto cache, TTL timers, a mutex | `getDagTopology` | every request | double-checked locking over a cache that sets late, drops and evicts; timers that delete a newer entry | a request runs the topology of its own configuration; the lock is always released |
| Horizon, onboarding of a DAG (`horizon/internal/inferflow/handler/config_builder.go`) | the configuration in etcd | `GetDagExecutionConfig` | inferflow, through etcd | edges follow from column names | one root, the feature initializer |
| Skye admin, jobs (`qdrant.go`) | variant and partition states in etcd, Qdrant collections | `ProcessModel`, `TriggerIndexing`, `PromoteVariant`, `ProcessMultiVariant` | scheduler, consumers, etcd, Qdrant | every read is of a copy a watch updates later; several writes that may fail half-way; concurrent triggers | what is served exists and is complete; a job completes; the next one can start |
| Skye admin, workflow (`skye/internal/admin/handler/workflow/`) | the messages of a Kafka topic | one handler per variant state | etcd, Qdrant, Kafka | at-least-once delivery, a message that can never succeed | read versions never go back; nobody blocks the topic |
| Skye consumers (`skye/pkg/kafka`, `skye/internal/consumers`) | offsets, batches, goroutines | poll, handle, commit, seek | Qdrant, Scylla, admin (EOF) | commit before handling, overtaking goroutines, seeks, restarts | no event is lost; the EOF comes after the data |
| Skye consumers, real time (`skye/internal/consumers/listener/realtime.go`, `delta_realtime.go`) | offsets, rate limiters | the same, per feature event | Scylla aggregator, Qdrant | a job replacing the collection they write into | no update is lost by the switch |
| Skye serving (`skye/internal/serving`) | caches, circuit breakers | similar candidates, bulk embeddings | Qdrant, Redis | read version changing during a request | answers from one version |
| Circuit breakers (`skye/pkg/circuitbreaker`, `online-feature-store/pkg/circuitbreaker`) | breaker state, manual overrides | allow, report, force open/close | etcd | a flip during requests | an open breaker lets nothing through |
| Horizon jobs and locks (`horizon/internal/skye/jobs`, `horizon/internal/repositories/sql`) | task rows, a named MySQL lock, one Prism step, Airflow runs | create a task, follow up, start the first pending one | Airflow, Prism, skye admin, a connection pool | a lock that belongs to a pooled connection; a crash between a trigger and its record; step parameters shared by all tasks | a run ingests its task's variant; a task in progress names its run; outcomes are true |
| Horizon workflow (`horizon/internal/workflow`) | workflow documents in etcd, a channel, workers | start, enqueue, take, activities with retries | GitHub, ArgoCD, IAM | documents and queue part ways in a crash; whole files are read and written back; a lost answer is tried again; `UpdateDeployable` pushes the same files outside any workflow | no edit undone; a document tells what was done; a workflow that is not lost ends |
| Horizon predator (`horizon/internal/predator/handler`) | request rows, configs in SQL, model folders in a bucket, the validation lock | submit, validate, approve, reject | bucket, deployables, ArgoCD | nothing claims a request; folders, configs and status are written one after the other; a lock that expires under its holder | one config per model; files match their config; outcomes are true; what is valid was tested |
| Online feature store (`online-feature-store/internal/handler/feature`, `internal/data/repositories`, `pkg/p2pcache`, consumers) | Scylla columns, Redis values, in-memory, distributed and p2p caches | retrieve, persist, invalidate | Kafka, etcd | fills in the background against invalidations; read-merge-write of a Redis value; groups that only one cache keeps | answers are complete; a settled write is served; nothing expired is; no group is lost |
| Interaction store (`interaction-store/internal`) | week columns of a user's events on replicas, metadata | persist (read-merge-write), retrieve | Kafka, Scylla | two writers, retries and redelivery; columns reused round and round | an acknowledged event stays until newer ones push it out; a query returns the newest |
| Inferflow handlers, numerix, SDKs, UI, charts | — | — | — | calls and data only | — |

How they meet: horizon writes a DAG into etcd, inferflow's initialiser validates it, the registry
caches the topology, the executor runs it for each request.  A scheduler calls skye's
`ProcessModel`; its response starts a batch job that writes embedding events and one EOF per
partition into Kafka; a consumer applies the events and, at an EOF, calls `TriggerIndexing`; the
last trigger starts the workflow, which indexes the new collection and moves the read version.  In
horizon, approving a variant creates the task that the onboarding job hands to Airflow, whose run writes
the variant's vectors through skye; deployables are onboarded and scaled by the workflow orchestrator;
predator's models go through validation and approval.  The feature store's API and its Kafka consumer
persist the features that its API and inferflow read.

`PROJECT.json` lists every component with its status, the hazards with the line where each bites
and the properties aimed at it, the runs, the theorems, and the source lines of each definition.

## 2. Modules

| Module | Models | State and actions |
|---|---|---|
| `DagTopology` | `initializer.go`, `dagvalidator.go` | operators on a configuration (component → set of components it depends on); Kahn's algorithm as a recursive function |
| `TopologicalExecution` | the promise of the executor | `started`, `finished`, `returned`; `Begin`, `End`, `Return` |
| `DagExecutor` | `executeDag` | `queue`, `closed`, `queueOpen`, `executedCompCount` are the variables of the function; `pc`, `todo`, `hand` the place of each goroutine; `starts`, `finished` are history.  `ReceiveTerminal`, `Spawn` are the loop; `BeginRun`, `EndRun`, `UpdateAndGet`, `EndRelease`, `CheckQueueOpen`, `Send` the goroutine, cut where another one can come in between |
| `DagConfigBuilder` | `GetDagExecutionConfig` | operators on a pipeline (which component reads and writes which column) |
| `DagOnboarding` | horizon → inferflow | `Build`, `InitializeComponentDag` (a topology, an `InvalidDagError`, or the panic over a component that the provider lacks: a reload sets the configuration before it registers the components, `inferflow.go:86-93`); composes the two above |
| `DagRegistry` | `Execute`, `getDagTopology`, `Cache` | a goroutine per request, the mutex, `cached`, `buffered` (ristretto's Set buffer), `timers` |
| `SkyeIndexing` | `ProcessModel`, `TriggerIndexing`, the state machine, the etcd copy | `views` is the configuration as a sequence: its head is what the admin's copy shows, its last element what etcd holds; `call` is `ProcessModel` in progress, `job` its response; `triggers`, `starting`, `topic` are calls, goroutines and workflow messages in flight |
| `SkyeIngestion` | `KafkaListener`, `EmbeddingConsumer`, `QdrantIndexer` | one partition: `setting` (log, mode, batch size, failure topic), `position`, `committed`, `batch`, and `workers`, the batches being handled; `dropped` is history: what was passed over because a seek back or a send to the failure topic failed |
| `InteractionStore` | clicks and orders: `Persist`, `Retrieve` | `store[replica][column]`; a call goes `read` → `write` per bucket → `meta`; `Retrieve` and its parts are operators; `sent`, `acked`, `stale`, `spoiled` are history |
| `PredatorApproval` | requests, their flows, configs and folders | `request`, `row` are the table; `configs`, `files` the rest of the world; `flow[w]` is a goroutine of `processRequest` with the copy of the row it works on (`mem`); `unchecked`, `interrupted`, `overtaken` are history |
| `PredatorValidation` | extends it with the test deployable, the lock and the health checks | `lock`, `expired`; `val[v]` a validation; `temp`, `running` what the test deployable's folder and process hold; `outlived`, `tested` are history |
| `HorizonWorkflow` | the orchestrator, its workers and the activities' git edits | `workflow` the documents, `jobQueue` the channel, `worker[w]` a worker with the document in its memory, `file[f]` who wrote each key, `update[u]` a call of `UpdateDeployable`; `newest`, `edited`, `lost`, `alone` (works on its triggers by itself), `agreed` (who completed last on a trigger) are history |
| `HorizonJobs` | the onboarding job on several pods | `task`, `lock` (connection and depth), `prism`, `dagRuns`, `collection`; `run[s]` is a run of the job; `overlapped`, `hit`, `refused` are history |
| `FeatureStore` | `RetrieveFeatures` and `Persist` of one key | `store` the databases, `mem[p]`, `dist` the caches, `rd[r]`, `wr[w]` the requests and persists; `settled`, `floor` are history |
| `MC*` | the instances of these modules | constants and initial sets |
| `DagProofs`, `DagRegistryProofs`, `SkyeIndexingProofs`, `SkyeIngestionProofs`, `PredatorProofs`, `HorizonWorkflowProofs`, `HorizonJobsProofs`, `FeatureStoreProofs` | theorems | `DagProofs` is about `DagTopology`, `DagExecutor` and `DagOnboarding`, `PredatorProofs` about `PredatorApproval` and `PredatorValidation` |

The modules with processes have a `TypeOK` that gives the domains of their variables.  It is in no run, since each run keeps
to what could be wrong; but for `InteractionStore`, where it was only model-checked
with the constants of the configuration, it is a theorem.

### Decisions of abstraction

* `DagExecutor`: `queueOpen` is a plain Go `bool` shared without synchronisation.  A read made after
  or during the write may see either value (`ObservedQueueOpen`); the test and the send are two
  steps.  A send on a closed channel panics in a goroutine nobody recovers, which ends the process
  (`crashed`).  A component's `Run` returns; its panics are not modelled.
* `DagTopology`: a list of the configuration is a set.  A duplicate in it is counted and discounted
  twice by the validator and has no effect on the adjacency map.
* `DagRegistry`: the key is the configuration; collisions of the 128-bit hash are left out.
* `SkyeIndexing`: variants are enabled, have one Qdrant host and no payload indexing
  (`after_collection_index_payload`), so `handleIndexingInProgress` is one step.  The writes of
  `processVariant` are made in one step of the model; a failing call stops after any number of them
  and the revert may work or fail.  Qdrant answers that 95% of a collection is indexed from some
  point on.
* `SkyeIngestion`: an event is its kind of operation.  Handling an event, a bulk call, the call of `TriggerIndexing`, a commit,
  a seek and each send to the failure topic may fail, within one bound.

* `InteractionStore`: one user; an event is its timestamp.  A column is written to all replicas and
  read from one, which may lag (consistency ONE against QUORUM over two replicas); a read that fails is
  taken for an empty one, as the code does (`scylla.go:103-108`).  Years, weeks and limits are constants.
* `PredatorApproval`, `PredatorValidation`: the rows of a group, which are written together, are one row.
  (In the code the rows of a group are updated one by one and a failure is logged: a group written in part is not modelled.
  `ProcessRequest` takes up a group only if all its rows are valid.)
  A folder is who it was made for and how it was copied: `whole`; `unclosed`, when the copy returned without an error but the
  error of closing the upload of `config.pbtxt` was dropped (`gcs_client.go:276`); or `partly`.  A copy of a copy is no better than
  that one.  In production the `config.pbtxt` comes from a bucket of its own
  (`TransferFolderWithSplitSources`), with the same outcomes.  `ExecuteFunctionalTestRequest` reads a config, calls the
  deployable and writes the config back whole (`predator.go:1317-1322`), so that an edit or a delete in between would be undone; it
  is not modelled, and the properties about configs hold beside approvals and validations only.  The ensemble check of a delete, requests with
  an undecodable payload and several test deployables are left out, and an approval and a validation that
  find nothing to do are not steps.  Statuses are those of the code.
* `HorizonWorkflow`: the workflows are about one application, the hard case.  A file is the last writer
  of each of its keys; IAM binding and restart are calls that succeed or fail.  `Worker.Stop` and the
  `CANCELLED` state it leads to are left out, since nothing calls it.  Steps' timestamps and retry counts are left out.
* `HorizonJobs`: the cron starts a run whether or not the last one ended, since no `SkipIfStillRunning`
  is set; the pool is `database/sql`'s, so any connection may serve any call.  A connection that is
  closed counts as a fault.  `ListDAGRuns` asks for no order, no limit and no further page
  (`airflow_client.go:149-190`): it gets any `PageSize` of the runs (a hundred, Airflow's default), and all of them only as long as they are no more.
* `FeatureStore`: one key, whose values are the numbers of the writes they are from, in the order they
  reach the store.  The two stores are read in one step.  The p2p branch is off (its
  percentage is zero unless etcd sets it), and values that cannot be decoded are left out.  `Former` says which writes, under which group, are of an
  older schema version that lacks a feature of the newest; a request names the groups of which it wants such a feature, and
  `fillMatrix` (`retrieve.go:834-858`) makes what it reads of them a negative value (`Lacking`), which the fill caches.  A call of Redis may be applied
  and its answer lost (`AnswerIsLost`).

### Assumptions on time

* `TriggerIndexing` sleeps five to ten seconds so that the watch can deliver the partition's write.
  The model takes this at its word: a trigger wakes only when everything written before it slept has
  been delivered (`behind = 0`); later writes need not have been.  Without it a variant may be left behind.
* `ProcessModel` starts when no trigger of the last job is sleeping and no goroutine is about to start
  a workflow; a scheduler runs it hours apart.
* A lock of the test deployable may expire at any moment (`Expire`), and a validation may outlive it:
  thirty minutes against fifteen health checks a minute apart and the copies before them.
* The workflow topic has one partition, and its consumer handles a record at a time
  (`cmd/admin/main.go:43`: "processes each record individually (commit per record)").

## 3. Runs

All twelve runs pass.  `dag_*` take seconds, `horizon_workflow` some three minutes, `predator_approval`, `skye_indexing*` and
`feature_store` a minute or two, the others about half a minute to a minute.  Each property has a faulty variant of
one definition (next to it in the module) under which the same run finds it violated.

| Run | Shows | Bounds, and why they are enough |
|---|---|---|
| `dag_executor` | order, single start, exact in-degrees, no send on a closed channel, everything executed, the call returns, refinement of `TopologicalExecution` | every single-rooted acyclic graph of up to four components: fork, join, diamond, chain, and a node with three dependencies |
| `dag_onboarding` | Kahn decides acyclicity; horizon's acyclic maps have one root; executables are resolved | all hand-written maps over four components, with a provider that knows their components or not; all pipelines of a feature, two predators and a numerix over three columns |
| `dag_registry` | own topology, lock released | three requests over three configurations, one of them cyclic: enough for a hit, a miss, a recheck and a failing build at once |
| `skye_indexing` | the served collection exists and, above version 1, is ready; read versions do not regress | three jobs (a version, its successor and the deletion of both predecessors), RESET and DELTA, two partitions (two triggers that may both be the last), one write of lag, and one fault of any kind: a failing write or call of `ProcessModel`, a lost trigger, a lost workflow start, a redelivered message |
| `skye_indexing_live` | the job completes: whichever trigger is last starts every variant | two variants and two partitions, one job, two writes of lag (two triggers may write before either is delivered), no faults |
| `skye_ingestion` | no event passed over but by a second failure (of the seek back, or of the send to the failure topic), EOF after the data in sequence mode, the log is consumed | sequence mode: logs of up to three data events, batches of one, three failures (an event's, its seek's and another) and two restarts; batch mode: up to four of one kind, batches of one or two, a failure topic and two failures (a batch's and its send's) |
| `interaction_store` | an acknowledged event is kept; stored once per attempt; a query of less than a turn within a year returns the newest | two calls at a time and three attempts (a call, its retry and a third party), two replicas, three columns in two buckets, columns and queries capped at two; timestamps in two columns of two buckets, one of them a turn of the columns after another |
| `predator_approval` | one config per model, files match, outcomes are true, an ended request is written only from an old copy | two groups of any type (Promote takes the path of Onboard) over two models, one live; two flows of three starts (two at once and one that takes up an interrupted one); one failed call or crash |
| `predator_validation` | the lock protects its holder; what is valid was tested | two validations of two groups over one model, beside one approval; two locks, one health check, one fault; a lock may expire at any time |
| `horizon_workflow` | no edit lost, documents are true, files agree, workflows end | two workflows of three kinds (several steps with retries, one of which pushes whole files; an edit of two files in one step, tried again; one edit with one try), one `UpdateDeployable`, two workers, a queue of one, so that it is full; two tries (three in the code); one fault |
| `horizon_jobs` | runs ingest their task while they fit on a page, tasks in progress name their run unless it was refused, outcomes are true, a second trigger only after a fault | two pods with two connections each, two tasks, three DAG runs (one twice) and pages of two, a lock taken up to twice by one connection, one fault; both kinds of trigger |
| `feature_store` | answers are complete, settled writes are served, expired ones are not, groups are lost only by a race or an expired neighbour | three groups (in both caches and Redis; in the distributed cache only and Redis; in memory only and Scylla, never expiring), each with an older schema version; a request at a time in either of two pods, three kinds of it: of no new feature, of one that only some values lack, of one that is hidden behind the distributed cache; two persists of overlapping groups by a pod or the consumer, one event: expiry, eviction, open breaker, failed call, lost answer or crash |

`MaxJobs`, `MaxLag`, `MaxCallFailures`, `MaxLosses`, `MaxRedeliveries`, `MaxFaults` bound
`SkyeIndexing`, and `maxFailures`, `maxRestarts` of a setting bound `SkyeIngestion`, in the guards of
the actions that count.  So do `MaxAttempts`, `MaxBatch` (`InteractionStore`); `MaxStarts`, `MaxFaults`,
`Batches`, `Created` (`PredatorApproval`), `MaxLocks`, `MaxHealthChecks` (`PredatorValidation`); `Kinds`, `Updates`,
`MaxRetries`, `MaxFaults` (`HorizonWorkflow`); `PerPod`, `PoolSize`, `NumTasks`, `MaxDepth`, `PageSize`, `MaxRuns`, `MaxFaults`
(`HorizonJobs`); `MaxWrites`, `MaxEvents`, `Requests`, `Former` (`FeatureStore`).  Where calls are bounded a run of the model may
stop, and the six later configurations say `CHECK_DEADLOCK FALSE`.

### Where the code disagrees with what is said of it

The models contain each of these; the constants that make TLC show it are named.

1. `functionalities.md:38-48` (`docs-src/docs/inferflow/v1.0.0/`) gives a map from a component to those
   after it and says `feature_initializer` runs first.  `getComponentAdjacencyMap` (`initializer.go:91`)
   reads a list as what the key depends on: run on that map, `DagExecutor` starts the reranker and ends
   with the feature initializer.
2. `configuration.md:146` and `inferflow/README.md:17` promise components without parents in the plural.
   The count of terminal nodes (`executor.go:42`) is one short with two of them, so that the call returns
   early: `AllExecuted` fails for `DagConfigs` with two roots.
3. `docs/skye/v1.0.0/architecture.md:306-308` says models do not get stuck during restarts.  The first step
   of the workflow is a goroutine (`qdrant.go:93`) and a failing trigger is only logged
   (`embedding.go:204-210`): with `MaxLosses = 1` and `MaxFaults = 1` `WorkflowCompletes` fails, the model stays in
   `DATA_INGESTION_STARTED` and `ProcessModel` refuses it.
4. `architecture.md:321` lists retries of failed jobs.  `revertConfig` (`qdrant.go:552`) leaves the collection
   that was created: the next call computes the same version and its `CreateCollection` fails (with
   `MaxCallFailures` and `MaxFaults` at one).
5. `architecture.md:226` says the EOF ensures that all data is consumed before completion.  In batch mode its
   goroutine may overtake those with the data: `TriggeredAfterData` fails there.
6. `functionalities.md:76` (`docs/skye`) promises re-consumption on failure.  `partitionsMap` (`kafka.go:230`) is keyed by
   the offset too, so a failed batch of two is sought back to any of its offsets: with batches of two in
   sequence mode `CommittedIsHandled` fails.

### What the passing runs keep out

The properties above hold under conditions the code does not enforce.  The models contain the
behaviour outside them; a change of constants shows it.

* `dag_executor` takes single-rooted graphs.  A configuration without any dependency has no root in
  the adjacency map, and the call waits on an empty channel for ever (`executor.go:54`): `CallReturns`
  fails when the configurations include the map with no edges.
* `DagRegistry!Reject` leaves the request with no topology and no error (`registry.go:45-48`); the
  caller's check of the error cannot fire and `executor.go:33` dereferences nil.
* `skye_indexing_live` has no failures.  With `MaxCallFailures` and `MaxFaults` at one, `WorkflowCompletes` fails: a
  variant whose write failed is in the response all the same (`qdrant.go:440`), and the last trigger
  returns at it (`qdrant.go:83`) and starts none of the variants after it.
* Two last triggers may both start a variant's workflow (`qdrant.go:77-94`): `starting` then holds both.
  The trailing one, like a redelivered `INDEXING_COMPLETED` message, marks the variant `COMPLETED`
  after the next job has begun, which may then start once more and fail on the collection that is
  there.  What is served stays right, which is what `skye_indexing` checks.
* `skye_ingestion` does not restart the asynchronous consumer, which commits before it handles
  (`embedding.go:97-135`): with `maxRestarts = 1` in batch mode `CommittedIsHandled` fails.
* `CommittedIsHandled`, `TriggeredAfterDataInSequence`: `dropped`.  A failed seek is only logged (`kafka.go:236-239`), so that
  the next commit covers the failed batch, and in sequence mode the EOF is reported without it; a failed send to the failure
  topic is only logged too (`embedding.go:86-93`), which in batch mode loses the batch.  The properties say that an event
  is lost this way only, by a failure of what should save it after it failed itself.
* `skye_ingestion` does not mix kinds of operations in a batch: the error of a bulk call is overwritten by the
  outcome of the next (`qdrant_indexer.go:36`), and a failed delete before a successful upsert is lost.

The later properties name the ways out that the code leaves open, in a premise or a disjunct; each is a
weakness of the code that the model has.

* `AckedEventsKept`: `spoiled`.  Two calls for one user overwrite each other's columns, a read that failed
  counts as an empty column, and a replica that lags may be the one read (`persist/click.go:61`,
  `scylla.go:103`).  And one event `TotalWeeks` away from the newest empties the column, also when it
  is the older one (`click.go:168`).
* `RetrieveReturnsNewest`: `ShortRange`.  Over the turn of a year the ISO week starts again at one and the
  columns are out of order (`retrieve/click.go:69`).
* `ServedIsReady`: version 1.  It is the read version from the registration on, and the job that onboards a variant sets
  `onboarded` right after it created the collection (`qdrant.go:413-440`), before any data or EOF: a search reads the collection as it
  fills.  The property is about the versions after it.
* `InProgressHasRun`: `refused`.  `TriggerDAG` returns an answer that is not 200 without an error
  (`airflow_client.go:125-134`), and the job looks at nothing else: the task goes IN_PROGRESS with an empty `dag_run_id`, and as following it
  up fails, it stays there.  Airflow may even have started a run that nobody follows.
* `RunIngestsItsTask`: also `PageSize`.  With more runs than a page holds, a queued one may be off it, and its parameters are overwritten.
* `SettledWriteIsServed`: also `LacksSince`.  A request of a newer schema makes a value that lacks its feature a negative
  entry for all of the group, cached for all other requests (`retrieve.go:844`, `:948-952`).
* `ServedFilesMatch`: also `unclosed`.  Whether the `config.pbtxt` of a copied folder arrived is not known to the code.
* `OneConfigPerModel`, `ServedFilesMatch`: `unchecked`, `Disturbed`.  Two approvals at once both pass the check for an
  existing model (`predator_approval.go:624`); a failed edit deletes the live folder it had overwritten as
  its rollback (`:202`), a failed delete leaves the config of a model whose files are gone (`:585`).
* `ServedFilesMatch`: also `DeletedTwice`.  The submission of a delete does not look for active requests
  (`predator.go:247-313`), and its approval not at the config (`predator_approval.go:373-402`): of two deletes of one
  config, the one approved last moves away the files of the model if it was onboarded again between the two.  It takes three requests, more than the run's two groups.
* `TerminalIsFinal`, `OutcomeIsTrue`: `overtaken`.  Validation and approval read rows and write them back whole, so a
  request that ended may come back (`predator_validation.go:339`).
* `LockOfWorkerStands`, `ValidWasTested`: `expired`, `outlived`.
* `FilesAgree`: `alone`, and completion.  The two files of a threshold are two commits (`update_scaling.go:280`): between them, after a
  workflow that failed between them, or beside another editor of the trigger (a workflow or `UpdateDeployable`) they may differ.
  And onboarding and `UpdateDeployable` fill them from different fields of the request (`as_trigger_value` in `common-values.tmpl:78-83`,
  `cpuThreshold` in `values_properties.tmpl:23-27`): the property says who wrote each file, not that the two values are equal.
* `EveryWorkflowEnds`: `lost`.  The queue is in memory, full after a hundred ids, and a workflow in it or at
  work at a crash stays `PENDING` or `RUNNING` (`worker.go:29`).
* `RunIngestsItsTask`, `TriggeredTwiceAfterFault`: `overlapped`, `hit`.  `GET_LOCK` belongs to a session whose connection
  goes back to the pool (`job_locks/repository.go:70`): the same connection takes the lock again beside
  its holder, and a release over another connection leaves it held.
* `SettledWriteIsServed`: a write is settled only if no request overlapped its invalidation, since a request fills
  the caches after its answer with what it read before (`retrieve.go:255`), and if no other pod
  has an older entry, since a persist clears the memory of its own pod only (`persist.go:92`).  Writes that
  Scylla refused are acknowledged (`scylla.go:216`) and settle nothing.
* `GroupsLostOnlyByRaceOrExpiry`: its two disjuncts.  Two merges of one Redis value lose each other's groups
  (`redis.go:128`), and a merge drops the groups next to an expired one
  (`cache_storage_datablock_v2.go:162`).

What the executor does with several roots or none concerns maps written by hand, which `DAG` as a
library admits: horizon's own acyclic maps have exactly one (a theorem).

### Fairness

* `DagExecutor`: weak fairness of the loop and of each goroutine, which Go's scheduler gives; `Run`
  returns because components call services with deadlines.
* `DagRegistry`: weak fairness of each handler and strong fairness of taking the lock: `sync.Mutex`
  hands a lock to a waiter that has starved for a millisecond.  None for the cache or the timers.
* `SkyeIndexing`: the watch, the steps of a call, the triggers, the goroutines, the consumer, and
  Qdrant's optimiser.  Failures and new jobs have none.
* `SkyeIngestion`: polling, the flush timer and the handlers.
* `HorizonWorkflow`: the caller's `select` with its timer, and each worker's goroutine; calls of etcd and
  GitHub return, with an answer or an error.  None for crashes or new workflows.

The other modules state safety only: a flow of predator, a run of the job, a persist may stop for good
where a call fails or a process dies, and nothing in the code takes them up.

## 4. Theorems

Everything is proved from the modules' named assumptions, which TLC evaluates in every run.

| Assumption | Says | Why the code justifies it |
|---|---|---|
| `ComponentsAssumption`, `PipelinesAssumption`, `HandWrittenAssumption`, `RegistryAssumption` | finitely many components, configurations over them, a marker that is no component's name; a pipeline's kinds of components are finite and differ; a configuration written by hand is finite; `Nobody` is no request | a configuration is a map; the marker is a constant of the executor |
| `IndexingAssumption` | a model's ingestion is `RESET` or `DELTA`; a copy of the configuration may lag by some positive number of writes | the two types that `model_state_machine.go` and `qdrant.go` tell apart; a bound |
| `SettingsAssumption` | a log ends in its one EOF; a batch holds at least one event | the job writes the EOF last; configured batch sizes are positive |
| `ApprovalAssumption`, `ValidationAssumption` | finitely many models, those served among them; the types of request that create; at least one health check | rows of a table; `predator_approval.go`'s `switch` on the type; a constant of `predator_validation.go` |
| `WorkflowAssumption`, `KindsAssumption`, `NoFileAssumption` | a queue with room for an id and at least one try; no id of a workflow is one of an `UpdateDeployable`, nor that of the first contents; the kinds are those a worker routes (`orchestrator.go:311-366`); no file is not a file | constants of `worker.go` and `orchestrator.go` |
| `JobsAssumption` | numbers are natural; the trigger is Airflow's or skye's | the two branches of `variant_onboarding_job.go` |
| `FeatureStoreAssumption` | groups are placed in stores and caches; requests and writes name at least one group; which writes are of an older schema | the configuration of an entity |

The bounds (`MaxFaults`, `MaxStarts`, `MaxLocks`, `MaxWrites` and the others of section 3) are any natural numbers
here, as are the numbers of processes, rows, groups and files.  Each inductive invariant held on
TLC's instance before it was proved.

* **`DagProofs`**.  The executor: `IInv` is inductive for every graph, cyclic or not.  `DependenciesFirst`
  and `StartedAtMostOnce` are not inductive: they rest on `InDegreeCounts` (an in-degree is the
  number of dependencies that have not discounted it), on who holds a released component
  (`QueuedOnce`, `HeldOnce`, `ReleasedOwedByNone`: at most one of the channel and the goroutines has
  it, and only once nobody owes it a discount), and on `OwedUntilFinished`.  With one root, the
  further invariant `RInv` counts terminal nodes: those received, those in the channel and those
  still to be sent make up the components, so the count reaches the total exactly when every
  goroutine has sent its last item.  Hence `ClosedMeansQuiescent`, `AllExecuted`, and the step
  simulation `ImplementsTopologicalExecution` onto `TE!AbsSafeSpec`.

  The validator: `ValidIffAcyclic` says that Kahn's algorithm as `dagvalidator.go` runs it accepts a finite
  configuration exactly when every set of its nodes has one that depends on none of them (`Acyclic`).  The run is an iteration, so that its
  invariant `KahnAt` (a degree counts those that list the node and are not yet taken, the queue holds the nodes for which that is zero,
  what lists a taken node is taken, no cycle lies among the taken) is proved of every step by a least counterexample among the
  natural numbers; it ends because each step takes one more of finitely many nodes.  Among nodes that are
  never taken each is listed by another, which is a cycle; and no cycle is taken.

  The onboarding: `ValidatorAlwaysRight` is that of every configuration built or written by hand.
  `GeneratedAlwaysSingleRooted`: each generated component lists something, so in an acyclic map whatever depends on
  nothing is the initializer.  `GeneratedAlwaysExecuted` puts the parts together: when each configuration
  that the executor is given is one that horizon builds and the validator accepts, every component of it is
  executed before the executor returns.
* **`DagRegistryProofs`**.  `OwnTopology` from `IInv`: whatever is cached or buffered under a key was
  built for that key.
* **`SkyeIndexingProofs`**.  `ServingCollectionExists`, `ServedIsReady` and `ReadNeverRegresses` from one invariant.  It orders
  everything by time: along the sequence of the configuration's contents versions never decrease and what one of them has
  the later ones have; each call, job, goroutine and message in flight is about a version that such a content had;
  what the current call chose is new, so that its collection was never one that is served; and a version that is not yet
  indexed keeps the next job from starting (of a version above 1: the first one is served from the start).  A delete is then always of a collection that no content can still
  serve, and the read version is only moved to one that is indexed.
* **`SkyeIngestionProofs`**.  `NoFailureIsPassedOver` and `EofComesAfterData` hold under a condition on the
  setting that section 3 shows to be needed: `OneAtATime` (sequence mode, batches of one) or `OneKind` (batch mode, one kind of event,
  a failure topic, no restart).  `CommittedIsHandled` is not inductive, since it says nothing of what was
  polled and not committed: `NothingPassedOver` follows each event up to the position, through the batch
  and the workers, and `WorkInv` says which of a batch's events have been collected for the indexer and applied.
  `PositionsInv` keeps what is polled between the committed offset and the position, so that a seek goes
  back to something that was not handed out twice.  It and `TypeOK` hold in every setting.
* **`HorizonJobsProofs`**.  `OutcomeIsTrue` is inductive with `RowsInv`, which follows the copies of rows:
  a run of the job writes back what it read when it began, so each copy must name a DAG run of its own task.
  `InProgressHasRun` needs to know of a run of the job that it holds the DAG run it triggered, or none because Airflow refused it.
  `RunIngestsItsTask` needs more, as long as no two runs overlap and Airflow's runs fit on a page: one run of the job is at work
  (`OneAtWork`), the parameters of the shared Prism step are those of whatever DAG run is queued, and they are
  set for another task only with none queued (`PrismInv`).  `TriggeredTwiceAfterFault` rests on `OnceInv`: a
  task that no fault hit is pending with a DAG run only while the run that triggered it is about to record it.
* **`HorizonWorkflowProofs`**.  `NoEditLost` is inductive by itself: a write is accepted only if the file still
  is what the worker read, so that it changes no key but those it edits.  `DocumentIsTrue` needs `WorkerInv`, which says the
  same of the document in a worker's memory, whose write to etcd may fail or land without an answer; and an id must be in one
  place, with its caller, on the queue or with one worker (`OnePlace`), or two workers would write one document.
  `FilesAgree` needs `TriggersInv`: a workflow that is alone at its triggers has written of the files what its place says,
  and nobody else edits a trigger that both files were left agreed on.
* **`FeatureStoreProofs`**.  `AnswersAreComplete` from what a request still lacks at each place (`HandInv`);
  `ExpiredIsNotServed` from the freshness of what it has gathered.  `SettledWriteIsServed` is the hard one:
  `SettledInv` says of every cache, and of every request that answers or may still fill one, that it
  has nothing older than the last settled write, unless a newer schema turned that or a later one into a negative entry; a write settles only if every request was idle when the memory
  of its pod was cleared and none began until the distributed cache was too (`QuietInv`).  `GroupsLostOnlyByRaceOrExpiry` is an action property: `MergeInv` ties what a merge has read of the Redis
  value to the store, as long as nobody overtook it.
* **`PredatorProofs`**.  For the approvals alone, and again with the validations' steps between them:
  `OneConfigPerModel`, `OutcomeIsTrue` and `TerminalIsFinal` rest on what every copy of a row says, in a
  flow's or a validation's memory (`CopyInv`: an active copy has not ended, an Approved one is past the database
  stage; `Recorded`: past that stage the configs are there), on a model with one flow at work (`Alone`)
  and on the place that each flow has reached (`FlowInv`).  `LockOfWorkerStands` needs that lock ids are handed out once and that those at work differ
  (`LockInv`); `ValidWasTested`, that without an outlived lock one validation is at work and the test
  deployable holds what it copied (`TestedInv`).

  For the approvals alone: `ServedFilesMatch`, from `FilesInv` beside that invariant.  It says of every model that its files
  match or which request stands in the way (`Explained`); of each flow that nothing disturbed, what it has done to each of
  its models by the place it is at (`ProgressOn`: the folder is live once it is copied, the config described once it is
  updated, retired once the Delete is past the database); that such a flow's copy has the stage that fits its place
  (`EarlyInv`, from `StageInv`: a row that left its first stage has a flow at work, or one died); and that a config is
  retired only by a Delete that names it (`RetiredInv`).  The last is what `DeletedTwice` comes from: a Delete that finds
  its config retired was preceded by another one of the same config.

What the proofs corrected in the models: a flow whose folder to move back is missing ends without a fault
(`gcs_client.go:157`), which the model had left as a step that could not be taken; and `ServedFilesMatch` without
`DeletedTwice` is false with three requests, more than the run has.

Model-checked only:

* the liveness properties (fairness and ENABLED are outside the prover);
* the three invariants of `InteractionStore`: merges and sorts of sequences, written with folds, whose value for
  every input needs an induction over data.

## 5. What is not modelled, and the plan

What is left to prove is `InteractionStore`, whose folds would have to be recursive functions on the natural numbers, as
Kahn's algorithm is, for an argument by a least counterexample.  `ServedFilesMatch` is proved with a validation
as one step; between the steps of `PredatorValidation` a validation may write back a stage that an approval has moved on
from, and `StageInv` would have to account for it.

Not modelled, with the reason:

* skye's `PromoteVariant`, `ProcessMultiVariant`, forced reset and the rate limiter: further callers of what
  `SkyeIndexing` has.
* skye's real-time consumers (`realtime.go`, `delta_realtime.go`).  Hazards met while reading them: a worker of the delta consumer
  that panics leaves its channel without a reader; the seek of a job that fails later overrides that of an
  earlier one; a redelivered real-time event finds no change, because the aggregator stored the columns
  (`scylla_aggregator.go`) before the delta was produced, and the delta is lost.
* skye's serving: a read path with caches that have a TTL and no invalidation.
* The circuit breakers: the states are the failsafe-go library's; `FeatureStore` lets the breaker be open at
  any call.
* The feature store's p2p cache: behind a percentage, its ring a library's, its copies never invalidated.
  Its Kafka consumer, beyond the eventual persists it makes: batches and worker channels.  Hazard: two
  consumers share a worker's one result channel (`listeners/kafka.go:246`).
* The scale-up job: of the shape of the onboarding job.  It does not unwrap Qdrant's answer
  (`variant_scaleup_job.go:367`), so that its count stays zero.
* Numbers and formats: the TTL of a Redis value that never expires overflows (`redis.go:162`), the length of
  a group in a cache entry is sixteen bits (`cache_storage_datablock_v2.go:282`), a deployable without pods
  counts as healthy (`predator_validation.go:303`), `values.yaml` without an autoscaling section panics a
  worker (`update_scaling.go:323`), a collection without points is never 95% indexed
  (`model_state_machine.go:139`).

Left out for good: numerix (a pure evaluator), the SDKs and protobuf code, the user interface, charts
and scripts; metrics, logging and profiling everywhere; inferflow's matrix arithmetic and calls of
other services, whose concurrency is the executor's.
