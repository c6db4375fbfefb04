------------------------------ MODULE SkyeIndexing ------------------------------
(***************************************************************************)
(* How skye replaces the vectors a model serves: ProcessModel prepares     *)
(* every variant for an ingestion job, the job's consumers announce the    *)
(* end of each partition with TriggerIndexing, and a workflow of Kafka     *)
(* messages then indexes the collection and moves the read version.        *)
(*                                                                         *)
(* The model's configuration lives in etcd.  The admin writes there but    *)
(* reads a copy of its own that a watch brings up to date, so every read   *)
(* may be stale.  What the admin writes, the message log and the commit    *)
(* of its offset are three separate things: a step may do some of them     *)
(* and fail.                                                               *)
(*                                                                         *)
(* One model; variants all enabled, on one Qdrant host, without payload    *)
(* indexing (after_collection_index_payload).                              *)
(***************************************************************************)
EXTENDS Naturals, Sequences, FiniteSets

CONSTANTS
  Variant,
  Partition,         \* of the ingestion topic
  ModelTypes,        \* the types of model to consider
  MaxJobs,           \* bound: calls of ProcessModel
  MaxLag,            \* bound: writes to etcd the watch has yet to deliver
  MaxCallFailures,   \* bound: writes that fail in ProcessModel
  MaxLosses,         \* bound: triggers and workflow starts that fail
  MaxRedeliveries,   \* bound: workflow messages handled but not committed
  MaxFaults          \* bound: all of these together

ASSUME IndexingAssumption ==
  /\ ModelTypes \subseteq {"RESET", "DELTA"}
  /\ MaxLag \in Nat \ {0}

VARIABLES
  modelType,
  views,        \* the configuration: what the copy shows, then each later content of etcd
  collections,  \* collections that exist: <<variant, version>>
  indexed,      \* those with more than 95% of their points indexed
  call,         \* the call of ProcessModel in progress
  job,          \* what its response told the ingestion job
  eofs,         \* partitions whose EOF the job's consumer has reached
  triggers,     \* partition -> how far its call of TriggerIndexing is
  starting,     \* goroutines that are to start a workflow: <<partition, payload>>
  topic,        \* workflow messages not committed
  jobs, callFailures, losses, redeliveries

indexVars == <<collections, indexed>>
callVars  == <<call, job, jobs, callFailures>>
trigVars  == <<eofs, triggers, starting, losses>>
topicVars == <<topic, redeliveries>>
vars == <<modelType, views, indexVars, callVars, trigVars, topicVars>>

State == {"DATA_INGESTION_STARTED", "DATA_INGESTION_COMPLETED", "INDEXING_STARTED",
          "INDEXING_IN_PROGRESS", "INDEXING_COMPLETED_WITH_RESET", "MODEL_VERSION_UPDATED",
          "INDEXING_COMPLETED", "COMPLETED"}

\* The state of the message after the last one.
Ended == ""

\* Bounds on what goes wrong.
Faults       == callFailures + losses + redeliveries
CallMayFail  == callFailures < MaxCallFailures /\ Faults < MaxFaults
MayLose      == losses < MaxLosses /\ Faults < MaxFaults
MayRedeliver == redeliveries < MaxRedeliveries /\ Faults < MaxFaults

Local  == Head(views)
Stored == views[Len(views)]

\* SetValue: etcd has the new content, the watch has one more event to deliver.
Set(conf) == Len(views) <= MaxLag /\ views' = Append(views, conf)

\* The configuration after a sequence of writes <<field, value>> to a variant.
Put(conf, v, writes) ==
  [f \in DOMAIN conf |->
     IF \E i \in DOMAIN writes : writes[i][1] = f
       THEN [conf[f] EXCEPT ![v] = writes[CHOOSE i \in DOMAIN writes : writes[i][1] = f][2]]
       ELSE conf[f]]

NoJob == [versions |-> [v \in Variant |-> 0], emb |-> 0]
Idle  == [at |-> "idle", todo |-> {}, versions |-> NoJob.versions, emb |-> 0]

\* A model and its variants as RegisterModel and RegisterVariant leave them.
Init ==
  /\ modelType \in ModelTypes
  /\ views = <<[partition    |-> [p \in Partition |-> 0],
                emb          |-> 1,
                state        |-> [v \in Variant |-> "COMPLETED"],
                onboarded    |-> [v \in Variant |-> FALSE],
                readVersion  |-> [v \in Variant |-> 1],
                writeVersion |-> [v \in Variant |-> 1],
                embRead      |-> [v \in Variant |-> 1],
                embWrite     |-> [v \in Variant |-> 1]]>>
  /\ collections = {} /\ indexed = {}
  /\ call = Idle /\ job = NoJob
  /\ eofs = {}
  /\ triggers = [p \in Partition |-> [at |-> "none", behind |-> 0]]
  /\ starting = {} /\ topic = <<>>
  /\ jobs = 0 /\ callFailures = 0 /\ losses = 0 /\ redeliveries = 0

\* WatchPrefix: the copy takes one more write.
Deliver ==
  /\ Len(views) > 1
  /\ views' = Tail(views)
  /\ triggers' = [p \in Partition |->
                    IF triggers[p].behind = 0 THEN triggers[p]
                    ELSE [triggers[p] EXCEPT !.behind = @ - 1]]
  /\ UNCHANGED <<modelType, indexVars, callVars, eofs, starting, losses, topicVars>>

-----------------------------------------------------------------------------
(* ProcessModel *)

\* The scheduler calls ProcessModel.  The calls of TriggerIndexing of an earlier
\* job and their goroutines, which last some ten seconds, are over by then.
ProcessModel ==
  /\ call.at = "idle" /\ jobs < MaxJobs /\ starting = {}
  /\ \A p \in Partition : triggers[p].at \in {"none", "returned"}
  /\ jobs' = jobs + 1
  /\ call' = IF \A v \in Variant : Local.state[v] = "COMPLETED"
               THEN [call EXCEPT !.at = "reset"] ELSE call
  /\ UNCHANGED <<modelType, views, indexVars, job, callFailures, trigVars, topicVars>>

\* A write per partition (one that changes nothing is left out), then on.
ResetAllPartitions ==
  /\ call.at = "reset"
  /\ \/ \E p \in Partition :
          /\ Stored.partition[p] = 1 /\ Set([Stored EXCEPT !.partition[p] = 0])
          /\ UNCHANGED call
     \/ /\ \A p \in Partition : Stored.partition[p] = 0
        /\ call' = [call EXCEPT !.at = "version"]
        /\ UNCHANGED views
  /\ UNCHANGED <<modelType, indexVars, job, jobs, callFailures, trigVars, topicVars>>

PrepareEmbeddingStoreVersion ==
  /\ call.at = "version"
  /\ LET emb == IF modelType = "RESET" THEN Local.emb + 1 ELSE Local.emb
     IN  /\ IF modelType = "RESET" THEN Set([Stored EXCEPT !.emb = emb]) ELSE UNCHANGED views
         /\ call' = [call EXCEPT !.at = "variants", !.todo = Variant, !.emb = emb]
  /\ UNCHANGED <<modelType, indexVars, job, jobs, callFailures, trigVars, topicVars>>

\* A write of the steps before the variants fails, and the call returns.
CallFails ==
  /\ call.at \in {"reset", "version"} /\ CallMayFail
  /\ callFailures' = callFailures + 1
  /\ call' = Idle
  /\ UNCHANGED <<modelType, views, indexVars, job, jobs, trigVars, topicVars>>

Onboarding(v) == ~Local.onboarded[v]

\* The version an ingestion job will write.
WriteVersion(v) ==
  IF modelType = "RESET" /\ ~Onboarding(v) THEN Local.readVersion[v] + 1
                                           ELSE Local.readVersion[v]

\* A DELTA job writes on into the collection of an onboarded variant.
Creates(v) == modelType = "RESET" \/ Onboarding(v)

\* What processVariant writes before and after it creates the collection.
WritesBefore(v) == << <<"embWrite", call.emb>> >>
WritesAfter(v) ==
  (IF Onboarding(v) THEN << <<"onboarded", TRUE>> >> ELSE << >>)
    \o << <<"writeVersion", WriteVersion(v)>>, <<"state", "DATA_INGESTION_STARTED">> >>

\* What revertConfig puts back: the configuration processVariant read first.
Reverted(v) == << <<"embWrite", Local.embWrite[v]>>, <<"writeVersion", Local.writeVersion[v]>>,
                  <<"state", Local.state[v]>> >>

Conflict(v) == Creates(v) /\ <<v, WriteVersion(v)>> \in collections

\* The collection processVariant writes: a new one, or an onboarded DELTA's, which
\* stops indexing while it takes more points.
NewCollections(v) == IF Creates(v) THEN collections \cup {<<v, WriteVersion(v)>>} ELSE collections

ProcessVariant(v) ==
  /\ call.at = "variants" /\ v \in call.todo /\ ~Conflict(v)
  /\ Set(Put(Stored, v, WritesBefore(v) \o WritesAfter(v)))
  /\ collections' = NewCollections(v)
  /\ indexed' \in {indexed, indexed \ {<<v, WriteVersion(v)>>}}
  /\ call' = [call EXCEPT !.todo = @ \ {v}, !.versions[v] = WriteVersion(v)]
  /\ UNCHANGED <<modelType, job, jobs, callFailures, trigVars, topicVars>>

\* CreateCollection fails since the collection exists, and the variant is reverted.
ProcessVariantConflicts(v) ==
  /\ call.at = "variants" /\ v \in call.todo /\ Conflict(v)
  /\ Set(Put(Stored, v, Reverted(v)))
  /\ call' = [call EXCEPT !.todo = @ \ {v}]
  /\ UNCHANGED <<modelType, indexVars, job, jobs, callFailures, trigVars, topicVars>>

\* The call of Qdrant or a later write fails and the rest are skipped; revertConfig
\* works, or fails for the same reason.  Only a failure to write the state takes
\* the variant out of the response again.
ProcessVariantFails(v) ==
  /\ call.at = "variants" /\ v \in call.todo /\ ~Conflict(v)
  /\ CallMayFail
  /\ callFailures' = callFailures + 1
  /\ \E reached, reverts \in BOOLEAN, n \in 0..Len(WritesAfter(v)) - 1 :
       LET written  == Put(Stored, v, WritesBefore(v) \o SubSeq(WritesAfter(v), 1, n))
           answered == reached /\ WritesAfter(v)[n + 1][1] = "writeVersion"
       IN  /\ reached \/ n = 0
           /\ Set(IF reverts THEN Put(written, v, Reverted(v)) ELSE written)
           /\ collections' = IF reached THEN NewCollections(v) ELSE collections
           /\ call' = [call EXCEPT !.todo = @ \ {v},
                                   !.versions[v] = IF answered THEN WriteVersion(v) ELSE 0]
  /\ UNCHANGED <<modelType, indexed, job, jobs, trigVars, topicVars>>

\* The response starts the ingestion job, unless no variant is in it.
Respond ==
  /\ call.at = "variants" /\ call.todo = {}
  /\ call' = Idle
  /\ IF call.versions = NoJob.versions THEN UNCHANGED <<job, eofs, triggers>>
     ELSE /\ job' = [versions |-> call.versions, emb |-> call.emb]
          /\ eofs' = {}
          /\ triggers' = [p \in Partition |-> [at |-> "none", behind |-> 0]]
  /\ UNCHANGED <<modelType, views, indexVars, jobs, callFailures, starting, losses, topicVars>>

-----------------------------------------------------------------------------
(* TriggerIndexing *)

\* The consumer of a partition reaches the EOF; the call records it and sleeps,
\* for longer than the watch takes to deliver what was written so far.
ReachEof(p) ==
  /\ job # NoJob /\ call.at = "idle" /\ p \notin eofs
  /\ eofs' = eofs \cup {p}
  /\ Set([Stored EXCEPT !.partition[p] = 1])
  /\ triggers' = [triggers EXCEPT ![p] = [at |-> "sleeping", behind |-> Len(views)]]
  /\ UNCHANGED <<modelType, indexVars, callVars, starting, losses, topicVars>>

\* The call is answered with an error, which the consumer only logs.
LoseTrigger(p) ==
  /\ job # NoJob /\ call.at = "idle" /\ p \notin eofs /\ MayLose
  /\ eofs' = eofs \cup {p}
  /\ losses' = losses + 1
  /\ triggers' = [triggers EXCEPT ![p].at = "returned"]
  /\ UNCHANGED <<modelType, views, indexVars, callVars, starting, topicVars>>

Payload(v, state) ==
  [variant |-> v, version |-> job.versions[v], emb |-> job.emb, state |-> state, counter |-> 0]

InJob == {v \in Variant : job.versions[v] # 0}

\* Faulty variant: one other partition is enough.
OneDone(p) == \E q \in Partition : Local.partition[q] = 1

OthersDone(p) == \A q \in Partition \ {p} : Local.partition[q] = 1

\* The variants a trigger starts: it goes through the job's variants in any order
\* and returns at the first one that is not waiting for its data.
MayStart(started) ==
  LET waiting == {v \in InJob : Local.state[v] = "DATA_INGESTION_STARTED"}
  IN  started \subseteq waiting /\ (waiting = InJob => started = InJob)

Wake(p) ==
  /\ triggers[p].at = "sleeping" /\ triggers[p].behind = 0
  /\ triggers' = [triggers EXCEPT ![p].at = "returned"]
  /\ \E started \in SUBSET (IF OthersDone(p) THEN InJob ELSE {}) :
       /\ OthersDone(p) => MayStart(started)
       /\ starting' = starting \cup
            {<<p, Payload(v, "DATA_INGESTION_STARTED")>> : v \in started}
  /\ UNCHANGED <<modelType, views, indexVars, callVars, eofs, losses, topicVars>>

-----------------------------------------------------------------------------
(* The workflow: what a message makes its handler write, and the message it     *)
(* sends next.                                                                  *)

\* Faulty variant: the count starts again with every message.
CountedAfresh(m) == IF <<m.variant, m.version>> \in indexed THEN 1 ELSE 0

Counted(m) == IF <<m.variant, m.version>> \in indexed THEN m.counter + 1 ELSE m.counter

NextState(m) ==
  CASE m.state = "DATA_INGESTION_STARTED"   -> "DATA_INGESTION_COMPLETED"
    [] m.state = "DATA_INGESTION_COMPLETED" -> "INDEXING_STARTED"
    [] m.state = "INDEXING_STARTED" ->
         IF Counted(m) = 2 THEN "INDEXING_IN_PROGRESS" ELSE "INDEXING_STARTED"
    [] m.state = "INDEXING_IN_PROGRESS" ->
         IF modelType = "RESET" THEN "INDEXING_COMPLETED_WITH_RESET" ELSE "INDEXING_COMPLETED"
    [] m.state = "INDEXING_COMPLETED_WITH_RESET" -> "MODEL_VERSION_UPDATED"
    [] m.state = "MODEL_VERSION_UPDATED" -> "INDEXING_COMPLETED"
    [] m.state = "INDEXING_COMPLETED"    -> "COMPLETED"
    [] m.state = "COMPLETED"             -> Ended

NextMessage(m) ==
  [m EXCEPT !.state = NextState(m),
            !.counter = IF NextState(m) = "INDEXING_STARTED" /\ m.state = "INDEXING_STARTED"
                          THEN Counted(m) ELSE 0]

\* Faulty variant: the read version becomes the one to delete.
WritesPrevious(m) ==
  CASE NextState(m) \in {m.state, Ended} -> << >>
    [] m.state = "INDEXING_COMPLETED_WITH_RESET" ->
         << <<"readVersion", m.version - 1>>, <<"embRead", m.emb>>, <<"state", NextState(m)>> >>
    [] OTHER -> << <<"state", NextState(m)>> >>

Writes(m) ==
  CASE NextState(m) \in {m.state, Ended} -> << >>
    [] m.state = "INDEXING_COMPLETED_WITH_RESET" ->
         << <<"readVersion", m.version>>, <<"embRead", m.emb>>, <<"state", NextState(m)>> >>
    [] OTHER -> << <<"state", NextState(m)>> >>

\* UpdateIndexingThreshold fails for a collection that does not exist.
Possible(m) ==
  m.state \in {"DATA_INGESTION_COMPLETED", "INDEXING_IN_PROGRESS"}
    => <<m.variant, m.version>> \in collections

\* Faulty variant: it deletes the new version.
DeletesNew(m) ==
  IF m.state = "MODEL_VERSION_UPDATED" THEN {<<m.variant, m.version>>} ELSE {}

\* handleModelVersionUpdated deletes the previous version once it has written.
Deletes(m) ==
  IF m.state = "MODEL_VERSION_UPDATED" THEN {<<m.variant, m.version - 1>>} ELSE {}

\* The first n writes of a handler reach etcd.
Write(m, n) ==
  IF n = 0 THEN UNCHANGED views
           ELSE Set(Put(Stored, m.variant, SubSeq(Writes(m), 1, n)))

\* The goroutine TriggerIndexing left behind takes the first step of the workflow.
StartWorkflow(s) ==
  /\ s \in starting
  /\ starting' = starting \ {s}
  /\ Write(s[2], Len(Writes(s[2])))
  /\ topic' = Append(topic, NextMessage(s[2]))
  /\ UNCHANGED <<modelType, indexVars, callVars, eofs, triggers, losses, redeliveries>>

\* It fails, or the admin restarts, before the message is out: nobody hears of it.
LoseStart(s) ==
  /\ s \in starting /\ MayLose
  /\ losses' = losses + 1
  /\ starting' = starting \ {s}
  /\ \E n \in 0..Len(Writes(s[2])) : Write(s[2], n)
  /\ UNCHANGED <<modelType, indexVars, callVars, eofs, triggers, topicVars>>

\* The consumer handles the message at its offset, sends the next one and commits.
Consume ==
  /\ topic # << >>
  /\ LET m == Head(topic)
     IN  IF m.state = Ended
           THEN topic' = Tail(topic) /\ UNCHANGED <<views, collections, indexed>>
           ELSE /\ Possible(m)
                /\ Write(m, Len(Writes(m)))
                /\ collections' = collections \ Deletes(m)
                /\ indexed' = indexed \ Deletes(m)
                /\ topic' = Append(Tail(topic), NextMessage(m))
  /\ UNCHANGED <<modelType, callVars, trigVars, redeliveries>>

\* The handler fails after some of its writes, or everything but the commit is
\* done when the admin restarts: the message will be handled again.
ConsumeAgain ==
  /\ topic # << >> /\ MayRedeliver
  /\ redeliveries' = redeliveries + 1
  /\ LET m == Head(topic)
     IN  /\ m.state # Ended /\ Possible(m)
         /\ \/ \E n \in 0..Len(Writes(m)) : Write(m, n) /\ UNCHANGED <<indexVars, topic>>
            \/ /\ Write(m, Len(Writes(m)))
               /\ collections' = collections \ Deletes(m)
               /\ indexed' = indexed \ Deletes(m)
               /\ topic' \in {topic, Append(topic, NextMessage(m))}
  /\ UNCHANGED <<modelType, callVars, trigVars>>

\* Qdrant gets a collection indexed, complete or not.
Index ==
  \E c \in collections \ indexed :
    /\ indexed' = indexed \cup {c}
    /\ UNCHANGED <<modelType, views, collections, callVars, trigVars, topicVars>>

\* The call of ProcessModel goes on, without a failure of its own.
CallProceeds ==
  \/ ResetAllPartitions \/ PrepareEmbeddingStoreVersion \/ Respond
  \/ \E v \in Variant : ProcessVariant(v) \/ ProcessVariantConflicts(v)

CallStep == CallProceeds \/ CallFails \/ \E v \in Variant : ProcessVariantFails(v)

TriggerStep ==
  \/ \E p \in Partition : ReachEof(p) \/ LoseTrigger(p) \/ Wake(p)
  \/ \E s \in starting : StartWorkflow(s) \/ LoseStart(s)

WorkflowStep == Consume \/ ConsumeAgain

Over ==
  /\ call.at = "idle" /\ jobs = MaxJobs /\ topic = << >> /\ starting = {}
  /\ job # NoJob => eofs = Partition
  /\ UNCHANGED vars

Next == Deliver \/ ProcessModel \/ CallStep \/ TriggerStep \/ WorkflowStep \/ Index \/ Over

Spec == Init /\ [][Next]_vars

\* The watch, the calls, the goroutines and the consumer all make progress, and
\* Qdrant indexes what it holds.  Failures and new jobs need not happen.
FairSpec ==
  /\ Spec
  /\ WF_vars(Deliver) /\ WF_vars(Consume) /\ WF_vars(Index)
  /\ WF_vars(CallProceeds)
  /\ \A p \in Partition : WF_vars(ReachEof(p) \/ Wake(p))
  /\ WF_vars(\E s \in starting : StartWorkflow(s))

-----------------------------------------------------------------------------
Config ==
  [partition : [Partition -> 0..1], emb : Nat,
   state : [Variant -> State], onboarded : [Variant -> BOOLEAN],
   readVersion : [Variant -> Nat], writeVersion : [Variant -> Nat],
   embRead : [Variant -> Nat], embWrite : [Variant -> Nat]]

Message ==
  [variant : Variant, version : Nat, emb : Nat, state : State \cup {Ended}, counter : 0..1]

\* The type invariant of the configuration, the calls and the workflow.
TypeOK ==
  /\ modelType \in ModelTypes
  /\ views \in Seq(Config) /\ Len(views) \in 1..MaxLag + 1
  /\ collections \subseteq Variant \X Nat /\ indexed \subseteq collections
  /\ call \in [at : {"idle", "reset", "version", "variants"}, todo : SUBSET Variant,
               versions : [Variant -> Nat], emb : Nat]
  /\ job \in [versions : [Variant -> Nat], emb : Nat]
  /\ eofs \subseteq Partition
  /\ triggers \in [Partition -> [at : {"none", "sleeping", "returned"}, behind : Nat]]
  /\ starting \subseteq Partition \X Message
  /\ topic \in Seq(Message)

\* What is served exists: an onboarded variant's read version names a collection
\* that was created and not deleted, whatever steps of the workflow ran twice or
\* were overtaken (qdrant.go:326-466, model_state_machine.go:205-245).
ServingCollectionExists ==
  \A v \in Variant :
    Stored.onboarded[v] => <<v, Stored.readVersion[v]>> \in collections

\* A RESET job of a variant that was onboarded before takes its collection, a version
\* above 1, into service only once every partition's EOF was reached and the
\* collection was indexed (qdrant.go:65-75, model_state_machine.go:132-203).  Version 1
\* is out of it: it is the read version from the registration on, and the job that
\* onboards the variant sets onboarded before any data comes (qdrant.go:413-440).
ServedIsReady ==
  \A v \in Variant :
    modelType = "RESET" /\ job.versions[v] > 1 /\ Stored.readVersion[v] = job.versions[v]
      => eofs = Partition /\ <<v, job.versions[v]>> \in indexed

\* A variant never goes back to vectors older than those it serves, whichever
\* duplicate of a message writes the read version last (model_state_machine.go:205-221).
ReadNeverRegresses ==
  [][\A v \in Variant : Stored.readVersion[v] <= Stored'.readVersion[v]]_views

\* A job completes with all its variants: ProcessModel refuses the model until then
\* (qdrant.go:100-109, model_state_machine.go:76-261).
WorkflowCompletes ==
  job # NoJob ~> (topic = << >> /\ \A v \in InJob : Stored.state[v] = "COMPLETED")

=============================================================================
