---- MODULE MCSkyeIngestion ----
(* Instances of SkyeIngestion for TLC. *)
EXTENDS SkyeIngestion

\* Every log of up to n data events, then the EOF; and those with one kind of event.
LogsUpTo(n) == {Append(data, "EOF") : data \in UNION {[1..k -> {"add", "delete"}] : k \in 0..n}}
OneKind(logs) == {l \in logs : \A i, j \in 1..Len(l) - 1 : l[i] = l[j]}

InSequence ==
  [log : LogsUpTo(3), mode : {"sequence"}, batchSize : {1}, failureTopic : BOOLEAN,
   maxFailures : {3}, maxRestarts : {2}]

\* The bulk calls of a batch of one kind cannot hide each other's failures, and a
\* consumer that is not restarted keeps the batches it has.
InBatches ==
  [log : OneKind(LogsUpTo(4)), mode : {"batch"}, batchSize : {1, 2}, failureTopic : {TRUE},
   maxFailures : {2}, maxRestarts : {0}]

SafeSettings == InSequence \cup InBatches
====
