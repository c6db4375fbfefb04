------------------------------ MODULE SkyeIngestion ------------------------------
(***************************************************************************)
(* How skye's consumers take the events of an ingestion job from Kafka to  *)
(* Qdrant: KafkaListener's batches, commits and seeks, and the embedding   *)
(* consumer that handles a batch, at once ("sequence") or in a goroutine   *)
(* of its own after the commit ("batch").  One partition of the topic; its *)
(* last event is the EOF that makes the consumer call TriggerIndexing.     *)
(***************************************************************************)
EXTENDS Naturals, Sequences, FiniteSets

\* The settings to consider: each has a log, a sequence of operations with "EOF" as the
\* last; the mode of its consumers, "sequence" or "batch"; the listener's batchSize;
\* whether the model has a failureTopic (failure_producer_kafka_id); and two bounds,
\* maxFailures of failed calls of the stores and Qdrant and maxRestarts of the consumer.
CONSTANT Settings

ASSUME SettingsAssumption ==
  \A s \in Settings :
    /\ s.mode \in {"sequence", "batch"}
    /\ s.batchSize \in Nat \ {0}
    /\ s.failureTopic \in BOOLEAN
    /\ s.log \in Seq(STRING)
    /\ \A o \in DOMAIN s.log : s.log[o] = "EOF" <=> o = Len(s.log)
    /\ s.maxFailures \in Nat /\ s.maxRestarts \in Nat

VARIABLES
  setting,
  position,   \* offset of the next event the consumer is given
  committed,  \* offset a consumer starts at
  batch,      \* offsets polled and not processed yet
  workers,    \* batches being handled: [events, at, collected, failed]
  applied,    \* offsets whose operation Qdrant has done
  failures,   \* offsets produced to the failure topic
  dropped,    \* offsets of failed batches that nobody will see again: they were not sent to
              \* the failure topic, and in sequence the consumer was not sought back to them
  triggered,  \* TriggerIndexing was called
  failed, restarts

vars == <<setting, position, committed, batch, workers, applied, failures, dropped, triggered,
          failed, restarts>>

log    == setting.log
mode   == setting.mode
Offset == DOMAIN log

IsData(o) == log[o] # "EOF"

Init ==
  /\ setting \in Settings
  /\ position = 1 /\ committed = 1
  /\ batch = << >>
  /\ workers = {}
  /\ applied = {} /\ failures = {} /\ dropped = {}
  /\ triggered = FALSE
  /\ failed = 0 /\ restarts = 0

\* Calls of other systems that fail, within the bound.
Fail(n) == failed + n <= setting.maxFailures /\ failed' = failed + n

\* Faulty variant: a commit stores nothing.
CommitNothing == committed

\* consumer.Commit: the offset after the last event the consumer was given.
CommitOffset == position

\* A commit that fails is only logged; a later one covers it.
Commit ==
  \/ committed' = CommitOffset /\ Fail(0)
  \/ committed' = committed /\ Fail(1)

\* In "sequence" mode the listener waits for the handler of its batch.
Waiting == mode = "sequence" /\ workers # {}

Poll ==
  /\ ~Waiting /\ position \in Offset /\ Len(batch) < setting.batchSize
  /\ batch' = Append(batch, position)
  /\ position' = position + 1
  /\ UNCHANGED <<setting, committed, workers, applied, failures, dropped, triggered, failed, restarts>>

\* A full batch, or any batch when the flush timer ticks, goes to the handler.
\* Process returns at once, so the offset is committed before anything is done.
ProcessBatch ==
  /\ ~Waiting /\ batch # << >>
  /\ workers' = workers \cup
       {[events |-> batch, at |-> "handling", collected |-> {}, failed |-> FALSE]}
  /\ batch' = << >>
  /\ IF mode = "batch" THEN Commit ELSE UNCHANGED <<committed, failed>>
  /\ UNCHANGED <<setting, position, applied, failures, dropped, triggered, restarts>>

Moves(w, w1) == workers' = (workers \ {w}) \cup {w1}

\* processEmbeddingEvent: the events in order, up to the first that fails.  An EOF
\* calls TriggerIndexing on the spot, and does not fail if that call does; a data event
\* is collected for later.
ProcessEmbeddingEvents(w) ==
  /\ w \in workers /\ w.at = "handling"
  /\ \E n \in 0..Len(w.events) :
       LET handled == {w.events[i] : i \in 1..n}
           fails   == n < Len(w.events)
       IN  /\ Fail(IF fails THEN 1 ELSE 0)
           /\ triggered' \in {triggered, triggered \/ \E o \in handled : ~IsData(o)}
           /\ Moves(w, [w EXCEPT !.at = IF fails /\ mode = "sequence" THEN "ending" ELSE "indexing",
                                 !.collected = {o \in handled : IsData(o)},
                                 !.failed = fails])
  /\ UNCHANGED <<setting, position, committed, batch, applied, failures, dropped, restarts>>

\* Faulty variant: a failed call is only logged.
OutcomesIgnored(kinds, failing) == {FALSE}

\* What indexer.Process can report when some of the bulk calls fail: the outcome of
\* the last one, whichever that is.
Outcomes(kinds, failing) ==
  IF kinds = {} THEN {FALSE} ELSE {error \in BOOLEAN : \E last \in kinds : error = (last \in failing)}

\* QdrantIndexer.Process: one bulk call per kind of operation, in any order; the
\* outcome of a call overwrites that of the one before.
IndexerProcess(w) ==
  /\ w \in workers /\ w.at = "indexing"
  /\ LET kinds == {log[o] : o \in w.collected}
     IN  \E failing \in SUBSET kinds :
           /\ Fail(Cardinality(failing))
           /\ applied' = applied \cup {o \in w.collected : log[o] \notin failing}
           /\ \E error \in Outcomes(kinds, failing) :
                Moves(w, [w EXCEPT !.at = "ending", !.failed = @ \/ error])
  /\ UNCHANGED <<setting, position, committed, batch, failures, dropped, triggered, restarts>>

Events(w) == {w.events[i] : i \in DOMAIN w.events}

\* The deferred function: a failed batch goes to the failure topic, if there is one.
ToProduce(w) == IF w.failed /\ setting.failureTopic THEN Events(w) ELSE {}

\* Each event is sent on its own, and a send that fails is only logged.
Produced(w, unsent) == ToProduce(w) \ unsent

\* What is given up of a batch that nobody will hand out again.
GivenUp(w, unsent) == IF w.failed THEN Events(w) \ Produced(w, unsent) ELSE {}

\* Where SeekPartitions ends up: it is given one offset per message of the batch,
\* in no order, and the last one counts.
SeekTargets(w) == Events(w)

\* The end of a goroutine of Process: nobody looks at its error.
EndProcess(w) ==
  /\ w \in workers /\ w.at = "ending" /\ mode = "batch"
  /\ workers' = workers \ {w}
  /\ \E unsent \in SUBSET ToProduce(w) :
       /\ Fail(Cardinality(unsent))
       /\ failures' = failures \cup Produced(w, unsent)
       /\ dropped' = dropped \cup GivenUp(w, unsent)
  /\ UNCHANGED <<setting, position, committed, batch, applied, triggered, restarts>>

\* ProcessInSequence returns: the listener commits, or seeks back.  A seek that fails
\* is only logged, so that the listener goes on behind the batch.
EndProcessInSequence(w) ==
  /\ w \in workers /\ w.at = "ending" /\ mode = "sequence"
  /\ workers' = workers \ {w}
  /\ \E unsent \in SUBSET ToProduce(w) :
       /\ failures' = failures \cup Produced(w, unsent)
       /\ \/ ~w.failed /\ Commit /\ UNCHANGED <<position, dropped>>
          \/ /\ w.failed /\ Fail(Cardinality(unsent))
             /\ position' \in SeekTargets(w) /\ UNCHANGED <<committed, dropped>>
          \/ /\ w.failed /\ Fail(Cardinality(unsent) + 1)
             /\ dropped' = dropped \cup GivenUp(w, unsent) /\ UNCHANGED <<position, committed>>
  /\ UNCHANGED <<setting, batch, applied, triggered, restarts>>

\* The consumer restarts at the committed offset; whatever it was doing is gone.
Restart ==
  /\ restarts < setting.maxRestarts
  /\ restarts' = restarts + 1
  /\ position' = committed
  /\ batch' = << >> /\ workers' = {}
  /\ UNCHANGED <<setting, committed, applied, failures, dropped, triggered, failed>>

Handle(w) ==
  ProcessEmbeddingEvents(w) \/ IndexerProcess(w) \/ EndProcess(w) \/ EndProcessInSequence(w)

Over == position \notin Offset /\ batch = << >> /\ workers = {} /\ UNCHANGED vars

Next == Poll \/ ProcessBatch \/ (\E w \in workers : Handle(w)) \/ Restart \/ Over

Spec == Init /\ [][Next]_vars

\* The listener polls and its timer ticks; every goroutine is scheduled.
FairSpec ==
  /\ Spec /\ WF_vars(Poll) /\ WF_vars(ProcessBatch)
  /\ WF_vars(\E w \in workers : Handle(w))

-----------------------------------------------------------------------------
Worker ==
  [events : Seq(Offset), at : {"handling", "indexing", "ending"},
   collected : SUBSET Offset, failed : BOOLEAN]

\* The type invariant; the committed offset never passes the consumer's position.
TypeOK ==
  /\ committed \in 1..position /\ position \in 1..Len(log) + 1
  /\ setting \in Settings
  /\ batch \in Seq(Offset) /\ Len(batch) <= setting.batchSize
  /\ workers \subseteq Worker
  /\ mode = "sequence" => Cardinality(workers) <= 1
  /\ applied \subseteq Offset /\ failures \subseteq Offset /\ dropped \subseteq Offset
  /\ triggered \in BOOLEAN
  /\ failed \in 0..setting.maxFailures /\ restarts \in 0..setting.maxRestarts

InHand(o) == \E w \in workers : \E i \in DOMAIN w.events : w.events[i] = o

\* What became of an event that is not in hand: it is in Qdrant, or in the failure topic,
\* or its batch failed and so did the calls that were to save it.
Settled(o) == o \in applied \cup failures \cup dropped

\* Data is lost only where the code gives it up: an event the consumer will not be given
\* again is settled, or a goroutine still has it.  A batch that failed is never just passed
\* over (embedding.go:97-172, kafka.go:221-245).
CommittedIsHandled ==
  \A o \in Offset : o < committed /\ IsData(o) => Settled(o) \/ InHand(o)

\* TriggerIndexing is called once all the data before the EOF is settled
\* (embedding.go:174-250).
TriggeredAfterData == triggered => \A o \in Offset : IsData(o) => Settled(o)

\* The in-sequence consumer keeps that order, through failures, seeks that work or fail,
\* and restarts: an EOF is handled only after the batches before it, and what is missing
\* in Qdrant then was sent to the failure topic, or neither the send nor the seek worked
\* (embedding.go:137-172, kafka.go:236-239).
TriggeredAfterDataInSequence == mode = "sequence" => TriggeredAfterData

\* The whole log is consumed in the end, failures and restarts notwithstanding, and
\* nothing of it is left in hand; all of it is committed if no call failed.
AllConsumed ==
  <>[](/\ position = Len(log) + 1 /\ batch = << >> /\ workers = {}
       /\ failed = 0 => committed = position)

=============================================================================
