------------------------- MODULE SkyeIngestionProofs -------------------------
(***************************************************************************)
(* Theorems about SkyeIngestion, for every log, batch size and number of   *)
(* failures and restarts.                                                  *)
(***************************************************************************)
EXTENDS SkyeIngestion, FiniteSetTheorems, SequenceTheorems, TLAPS

(* What the listener has polled and not processed lies between the offset   *)
(* it committed and its position.  In sequence so does the one batch in the *)
(* handler, and nothing is polled beside it.                                *)
Ahead(events) == \A i \in DOMAIN events : committed <= events[i] /\ events[i] < position

PositionsInv ==
  /\ Ahead(batch)
  /\ mode = "sequence" =>
       /\ workers # {} => batch = << >>
       /\ \A v, w \in workers : v = w
       /\ \A w \in workers : Ahead(w.events)

(* The settings under which a failed batch is never just passed over.  In   *)
(* sequence the seek after a failure goes back to any event of the batch,   *)
(* so the batch must be of one.  An asynchronous batch is committed before  *)
(* it is handled and the error of one bulk call may hide another's: its     *)
(* events must be of one kind, and the consumer must not restart.           *)
OneAtATime(s) == s.mode = "sequence" /\ s.batchSize = 1

OneKind(s) ==
  /\ s.mode = "batch" /\ s.maxRestarts = 0
  /\ \A i, j \in DOMAIN s.log : s.log[i] # "EOF" /\ s.log[j] # "EOF" => s.log[i] = s.log[j]

Careful(s) == OneAtATime(s) \/ OneKind(s)

(* A batch that has not failed has collected its data when it goes to the   *)
(* indexer, and Qdrant has it when it ends.                                 *)
WorkInv(w) ==
  /\ OneAtATime(setting) => \A i \in DOMAIN w.events : i = 1
  /\ \A o \in w.collected : IsData(o) /\ \E i \in DOMAIN w.events : w.events[i] = o
  /\ \A i \in DOMAIN w.events :
       IsData(w.events[i]) /\ ~w.failed =>
         /\ w.at = "indexing" => w.events[i] \in w.collected
         /\ w.at = "ending" => w.events[i] \in applied

Polled(o) == \E i \in DOMAIN batch : batch[i] = o

(* Every data event that was polled is settled or somewhere.                *)
NothingPassedOver ==
  \A o \in Offset :
    o < position /\ IsData(o) => Settled(o) \/ InHand(o) \/ Polled(o)

CarefulInv ==
  /\ \A w \in workers : WorkInv(w)
  /\ NothingPassedOver
  /\ TriggeredAfterDataInSequence

IInv == TypeOK /\ PositionsInv /\ (Careful(setting) => CarefulInv)

-----------------------------------------------------------------------------
(* What a setting is, and the pieces of a step.                             *)

LEMMA SettingIs ==
  ASSUME setting \in Settings
  PROVE  /\ log \in Seq(STRING) /\ Len(log) \in Nat /\ Offset = 1..Len(log)
         /\ \A o \in Offset : IsData(o) <=> o # Len(log)
         /\ mode \in {"sequence", "batch"} /\ setting.batchSize \in Nat \ {0}
         /\ setting.failureTopic \in BOOLEAN
         /\ setting.maxFailures \in Nat /\ setting.maxRestarts \in Nat
  BY SettingsAssumption DEF log, mode, Offset, IsData

\* An event of a batch is an offset.
LEMMA EventsAreOffsets ==
  ASSUME NEW S, NEW q \in Seq(S), NEW i \in DOMAIN q
  PROVE  q[i] \in S /\ i \in 1..Len(q)
  OBVIOUS

\* Appending to a sequence.
LEMMA AppendIs ==
  ASSUME NEW S, NEW q \in Seq(S), NEW e \in S
  PROVE  /\ Append(q, e) \in Seq(S) /\ Len(Append(q, e)) = Len(q) + 1
         /\ DOMAIN Append(q, e) = 1..Len(q) + 1 /\ Len(q) \in Nat /\ DOMAIN q = 1..Len(q)
         /\ \A i \in DOMAIN q : Append(q, e)[i] = q[i]
         /\ Append(q, e)[Len(q) + 1] = e
  OBVIOUS

\* The one batch in the handler, or none.
LEMMA AtMostOne ==
  ASSUME NEW S, \A v, w \in S : v = w
  PROVE  IsFiniteSet(S) /\ Cardinality(S) <= 1
<1>1. CASE S = {}
  BY <1>1, FS_EmptySet
<1>2. CASE S # {}
  <2>1. PICK w \in S : TRUE
    BY <1>2
  <2>2. S = {w}
    BY <2>1
  <2>3. QED
    BY <2>2, FS_Singleton, 1 <= 1
<1>3. QED
  BY <1>1, <1>2

\* A batch that is handled stays a batch of the same events, and stays alone.
LEMMA MovesKeepsTypes ==
  ASSUME TypeOK, PositionsInv, NEW w \in workers, NEW w1 \in Worker, Moves(w, w1), w1.events = w.events
  PROVE  /\ workers' \subseteq Worker
         /\ mode = "sequence" => /\ Cardinality(workers') <= 1
                                 /\ workers' # {} => batch = << >>
                                 /\ \A u, v \in workers' : u = v
                                 /\ \A v \in workers' : Ahead(v.events)
<1>1. workers' = (workers \ {w}) \cup {w1} /\ workers \subseteq Worker
  BY DEF Moves, TypeOK
<1>2. ASSUME mode = "sequence"
      PROVE  /\ workers' = {w1} /\ batch = << >> /\ Ahead(w1.events)
  BY <1>1, <1>2 DEF PositionsInv
<1>3. QED
  BY <1>1, <1>2, FS_Singleton, AtMostOne

-----------------------------------------------------------------------------
(* Types and positions.                                                     *)

\* A call that fails stays within the bound.
LEMMA FailIs ==
  ASSUME TypeOK, NEW n \in Nat, Fail(n)
  PROVE  failed' \in 0..setting.maxFailures
<1>1. setting.maxFailures \in Nat /\ failed \in 0..setting.maxFailures
  BY SettingIs DEF TypeOK
<1>2. QED
  BY <1>1 DEF Fail

TypeInv == TypeOK /\ PositionsInv

LEMMA InitTypes == Init => TypeInv
<1>1. SUFFICES ASSUME Init PROVE TypeInv
  OBVIOUS
<1>2. setting \in Settings /\ Len(log) \in Nat /\ setting.maxFailures \in Nat /\ setting.maxRestarts \in Nat
      /\ setting.batchSize \in Nat
  BY <1>1, SettingIs DEF Init
<1>3. TypeOK
  <2>1. Cardinality(workers) <= 1 /\ workers \subseteq Worker
    BY <1>1, FS_EmptySet DEF Init
  <2>2. batch \in Seq(Offset) /\ Len(batch) <= setting.batchSize
    BY <1>1, <1>2 DEF Init
  <2>3. committed \in 1..position /\ position \in 1..Len(log) + 1
    BY <1>1, <1>2 DEF Init
  <2>4. failed \in 0..setting.maxFailures /\ restarts \in 0..setting.maxRestarts
    BY <1>1, <1>2 DEF Init
  <2>5. /\ applied \subseteq Offset /\ failures \subseteq Offset /\ dropped \subseteq Offset
        /\ triggered \in BOOLEAN
    BY <1>1 DEF Init
  <2>6. QED
    BY <1>1, <1>2, <2>1, <2>2, <2>3, <2>4, <2>5 DEF TypeOK
<1>4. PositionsInv
  BY <1>1 DEF Init, PositionsInv, Ahead
<1>5. QED
  BY <1>3, <1>4 DEF TypeInv

LEMMA PollTypes == ASSUME TypeInv, Poll PROVE TypeInv'
<1>1. TypeOK /\ PositionsInv
  BY DEF TypeInv
<1>2. setting \in Settings /\ Offset = 1..Len(log) /\ Len(log) \in Nat /\ setting.batchSize \in Nat
  BY <1>1, SettingIs DEF TypeOK
<1>3. /\ setting' = setting /\ committed' = committed /\ workers' = workers /\ ~Waiting
      /\ position \in Offset /\ position' = position + 1 /\ batch' = Append(batch, position)
      /\ Len(batch) < setting.batchSize
  BY DEF Poll
<1>4. batch \in Seq(Offset)
  BY <1>1 DEF TypeOK
<1>5. TypeOK'
  <2>1. batch' \in Seq(Offset) /\ Len(batch') <= setting.batchSize
    BY <1>2, <1>3, <1>4, AppendIs
  <2>2. committed \in 1..position' /\ position' \in 1..Len(log) + 1
    BY <1>1, <1>2, <1>3 DEF TypeOK
  <2>3. QED
    BY <1>1, <1>3, <2>1, <2>2 DEF TypeOK, Poll, log, mode, Offset, Worker
<1>6. PositionsInv'
  <2>1. committed \in Nat /\ position \in Nat /\ committed <= position
    BY <1>1, <1>2 DEF TypeOK
  <2>2. Ahead(batch)'
    <3>1. \A i \in DOMAIN batch' : committed <= batch'[i] /\ batch'[i] < position'
      <4>1. SUFFICES ASSUME NEW i \in DOMAIN batch'
                     PROVE  committed <= batch'[i] /\ batch'[i] < position'
        OBVIOUS
      <4>2. CASE i \in DOMAIN batch
        <5>1. batch'[i] = batch[i] /\ batch[i] \in Offset
          BY <1>3, <1>4, <4>2, AppendIs
        <5>2. QED
          BY <1>1, <1>2, <1>3, <2>1, <4>2, <5>1 DEF PositionsInv, Ahead
      <4>3. CASE i \notin DOMAIN batch
        <5>1. batch'[i] = position
          BY <1>3, <1>4, <4>1, <4>3, AppendIs
        <5>2. QED
          BY <1>3, <2>1, <5>1
      <4>4. QED
        BY <4>2, <4>3
    <3>2. QED
      BY <1>3, <3>1 DEF Ahead
  <2>3. mode = "sequence" => workers = {}
    BY <1>3 DEF Waiting
  <2>4. QED
    BY <1>3, <2>2, <2>3 DEF PositionsInv, mode
<1>7. QED
  BY <1>5, <1>6 DEF TypeInv

LEMMA ProcessBatchTypes == ASSUME TypeInv, ProcessBatch PROVE TypeInv'
<1>1. TypeOK /\ PositionsInv
  BY DEF TypeInv
<1> DEFINE w1 == [events |-> batch, at |-> "handling", collected |-> {}, failed |-> FALSE]
<1>2. /\ setting' = setting /\ position' = position /\ ~Waiting /\ workers' = workers \cup {w1} /\ batch' = << >>
      /\ committed' \in {committed, position} /\ (mode = "sequence" => committed' = committed)
  BY DEF ProcessBatch, Commit, CommitOffset
<1>9. failed' \in 0..setting.maxFailures
  BY <1>1, FailIs, 0 \in Nat, 1 \in Nat DEF ProcessBatch, Commit, TypeOK
<1>3. w1 \in Worker /\ w1.events = batch
  BY <1>1 DEF TypeOK, Worker
<1>4. mode = "sequence" => workers' = {w1} /\ committed' = committed
  BY <1>2 DEF Waiting
<1>5. committed \in 1..position /\ position \in Nat /\ workers \subseteq Worker /\ setting.batchSize \in Nat
  BY <1>1, SettingIs DEF TypeOK
<1> HIDE DEF w1
<1>6. TypeOK'
  <2>1. committed' \in 1..position
    BY <1>2, <1>5
  <2>2. workers' \subseteq Worker
    BY <1>2, <1>3, <1>5
  <2>3. mode = "sequence" => Cardinality(workers') <= 1
    BY <1>4, FS_Singleton
  <2>4. batch' \in Seq(Offset) /\ Len(batch') <= setting.batchSize
    BY <1>2, <1>5
  <2>5. QED
    BY <1>1, <1>2, <1>9, <2>1, <2>2, <2>3, <2>4 DEF TypeOK, ProcessBatch, log, mode, Offset, Worker
<1>7. PositionsInv'
  <2>1. Ahead(batch)'
    BY <1>2 DEF Ahead
  <2>2. mode = "sequence" => \A i \in DOMAIN batch : committed' <= batch[i] /\ batch[i] < position'
    BY <1>1, <1>2, <1>4 DEF PositionsInv, Ahead
  <2>3. QED
    BY <1>2, <1>3, <1>4, <2>1, <2>2 DEF PositionsInv, Ahead, mode
<1>8. QED
  BY <1>6, <1>7 DEF TypeInv

LEMMA EmbeddingTypes == ASSUME TypeInv, NEW w \in workers, ProcessEmbeddingEvents(w) PROVE TypeInv'
<1>1. TypeOK /\ PositionsInv
  BY DEF TypeInv
<1>2. PICK n \in 0..Len(w.events) :
        LET handled == {w.events[i] : i \in 1..n}
            fails   == n < Len(w.events)
        IN  /\ Fail(IF fails THEN 1 ELSE 0)
            /\ triggered' \in {triggered, triggered \/ \E o \in handled : ~IsData(o)}
            /\ Moves(w, [w EXCEPT !.at = IF fails /\ mode = "sequence" THEN "ending" ELSE "indexing",
                                  !.collected = {o \in handled : IsData(o)},
                                  !.failed = fails])
  BY DEF ProcessEmbeddingEvents
<1> DEFINE handled == {w.events[i] : i \in 1..n}
           w1 == [w EXCEPT !.at = IF n < Len(w.events) /\ mode = "sequence" THEN "ending" ELSE "indexing",
                           !.collected = {o \in handled : IsData(o)},
                           !.failed = n < Len(w.events)]
<1>3. /\ UNCHANGED <<setting, position, committed, batch, applied, failures, dropped, restarts>>
      /\ Moves(w, w1)
      /\ Fail(IF n < Len(w.events) THEN 1 ELSE 0)
      /\ triggered' \in {triggered, triggered \/ \E o \in handled : ~IsData(o)}
  BY <1>2 DEF ProcessEmbeddingEvents
<1>4. w \in Worker /\ w.events \in Seq(Offset)
  BY <1>1 DEF TypeOK, Worker
<1>5. handled \subseteq Offset
  BY <1>4
<1>6. w1 \in Worker /\ w1.events = w.events
  <2>1. {o \in handled : IsData(o)} \in SUBSET Offset /\ (n < Len(w.events)) \in BOOLEAN
    BY <1>5
  <2>2. (IF n < Len(w.events) /\ mode = "sequence" THEN "ending" ELSE "indexing") \in {"handling", "indexing", "ending"}
    OBVIOUS
  <2> HIDE DEF handled
  <2>3. QED
    BY <1>4, <2>1, <2>2 DEF Worker
<1>7. triggered' \in BOOLEAN
  BY <1>1, <1>3 DEF TypeOK
<1>8. failed' \in 0..setting.maxFailures
  BY <1>1, <1>3, FailIs, 0 \in Nat, 1 \in Nat
<1> HIDE DEF handled, w1
<1>9. QED
  BY <1>1, <1>3, <1>6, <1>7, <1>8, MovesKeepsTypes
     DEF TypeInv, TypeOK, PositionsInv, Ahead, log, mode, Offset, Worker

LEMMA IndexerTypes == ASSUME TypeInv, NEW w \in workers, IndexerProcess(w) PROVE TypeInv'
<1>1. TypeOK /\ PositionsInv
  BY DEF TypeInv
<1> DEFINE kinds == {log[o] : o \in w.collected}
<1>2. PICK failing \in SUBSET kinds :
        /\ Fail(Cardinality(failing))
        /\ applied' = applied \cup {o \in w.collected : log[o] \notin failing}
        /\ \E error \in Outcomes(kinds, failing) :
             Moves(w, [w EXCEPT !.at = "ending", !.failed = @ \/ error])
  BY DEF IndexerProcess
<1>3. PICK error \in Outcomes(kinds, failing) : Moves(w, [w EXCEPT !.at = "ending", !.failed = @ \/ error])
  BY <1>2
<1>4. w \in Worker /\ w.collected \subseteq Offset
  BY <1>1 DEF TypeOK, Worker
<1>5. Offset = 1..Len(log) /\ Len(log) \in Nat /\ setting.maxFailures \in Nat
  BY <1>1, SettingIs DEF TypeOK
<1>6. Cardinality(failing) \in Nat
  <2>1. IsFiniteSet(w.collected)
    <3>1. IsFiniteSet(1..Len(log))
      BY <1>5, 1 \in Int, Len(log) \in Int, FS_Interval
    <3>2. QED
      BY <1>4, <1>5, <3>1, FS_Subset
  <2>2. IsFiniteSet(kinds)
    <3> DEFINE kindOf == [o \in w.collected |-> log[o]]
    <3>1. kindOf \in Surjection(w.collected, kinds)
      BY DEF Surjection
    <3>2. QED
      BY <2>1, <3>1, FS_Surjection
  <2>3. QED
    BY <1>2, <2>2, FS_Subset, FS_CardinalityType
<1> DEFINE w1 == [w EXCEPT !.at = "ending", !.failed = @ \/ error]
<1>7. w1 \in Worker /\ w1.events = w.events
  <2>1. (w.failed \/ error) \in BOOLEAN
    OBVIOUS
  <2>2. QED
    BY <1>4, <2>1 DEF Worker
<1>8. failed' \in 0..setting.maxFailures
  BY <1>1, <1>2, <1>6, FailIs
<1>9. applied' \subseteq Offset
  BY <1>1, <1>2, <1>4 DEF TypeOK
<1>10. Moves(w, w1)
  BY <1>3
<1> HIDE DEF w1, kinds
<1>11. UNCHANGED <<setting, position, committed, batch, failures, dropped, triggered, restarts>>
  BY DEF IndexerProcess
<1>12. QED
  BY <1>1, <1>7, <1>8, <1>9, <1>10, <1>11, MovesKeepsTypes
     DEF TypeInv, TypeOK, PositionsInv, Ahead, log, mode, Offset, Worker

\* What a batch that ends leaves.
LEMMA EndIs ==
  ASSUME TypeInv, NEW w \in workers
  PROVE  /\ Events(w) \subseteq Offset /\ ToProduce(w) \subseteq Events(w) /\ SeekTargets(w) \subseteq Offset
         /\ \A unsent : Produced(w, unsent) \subseteq Offset /\ GivenUp(w, unsent) \subseteq Offset
         /\ \A unsent \in SUBSET ToProduce(w) : Cardinality(unsent) \in Nat
         /\ \A v \in workers \ {w} : mode # "sequence"
         /\ mode = "sequence" => Cardinality(workers \ {w}) <= 1
         /\ mode = "sequence" => \A o \in SeekTargets(w) : committed <= o /\ o < position
<1>1. w \in Worker /\ w.events \in Seq(Offset)
  BY DEF TypeInv, TypeOK, Worker
<1>2. Events(w) \subseteq Offset
  BY <1>1 DEF Events
<1>3. \A v \in workers \ {w} : mode # "sequence"
  BY DEF TypeInv, PositionsInv
<1>4. mode = "sequence" => workers \ {w} = {}
  BY <1>3
<1>5. ToProduce(w) \subseteq Events(w) /\ SeekTargets(w) \subseteq Offset
  BY <1>2 DEF ToProduce, SeekTargets
<1>6. mode = "sequence" => \A o \in SeekTargets(w) : committed <= o /\ o < position
  BY DEF TypeInv, PositionsInv, Ahead, SeekTargets, Events
<1>7. \A unsent : Produced(w, unsent) \subseteq Offset /\ GivenUp(w, unsent) \subseteq Offset
  BY <1>2, <1>5 DEF Produced, GivenUp
<1>8. ASSUME NEW unsent \in SUBSET ToProduce(w) PROVE Cardinality(unsent) \in Nat
  <2>1. IsFiniteSet(Offset)
    <3>1. Offset = 1..Len(log) /\ Len(log) \in Int
      BY SettingIs DEF TypeInv, TypeOK
    <3>2. QED
      BY <3>1, 1 \in Int, FS_Interval
  <2>2. unsent \in SUBSET Offset
    BY <1>2, <1>5, <1>8
  <2>3. IsFiniteSet(unsent)
    BY <2>1, <2>2, FS_Subset
  <2>4. QED
    BY <2>3, FS_CardinalityType
<1>9. QED
  BY <1>2, <1>3, <1>4, <1>5, <1>6, <1>7, <1>8, FS_EmptySet

LEMMA EndProcessTypes == ASSUME TypeInv, NEW w \in workers, EndProcess(w) PROVE TypeInv'
<1>1. PICK unsent \in SUBSET ToProduce(w) :
        /\ Fail(Cardinality(unsent))
        /\ failures' = failures \cup Produced(w, unsent)
        /\ dropped' = dropped \cup GivenUp(w, unsent)
  BY DEF EndProcess
<1>2. /\ UNCHANGED <<setting, position, committed, batch, applied, triggered, restarts>>
      /\ workers' = workers \ {w} /\ mode # "sequence"
  BY DEF EndProcess
<1>3. failed' \in 0..setting.maxFailures /\ failures' \subseteq Offset /\ dropped' \subseteq Offset
  BY <1>1, EndIs, FailIs DEF TypeInv, TypeOK
<1>4. workers' \subseteq Worker /\ (mode = "sequence" => Cardinality(workers') <= 1)
  BY <1>2, EndIs DEF TypeInv, TypeOK
<1>5. TypeOK'
  BY <1>2, <1>3, <1>4 DEF TypeInv, TypeOK, log, mode, Offset, Worker
<1>6. PositionsInv'
  BY <1>2 DEF TypeInv, PositionsInv, Ahead, mode
<1>7. QED
  BY <1>5, <1>6 DEF TypeInv

\* The ways in which a batch ends in sequence: committed, sought back or passed over.
LEMMA EndSequenceIs ==
  ASSUME TypeInv, NEW w \in workers, EndProcessInSequence(w)
  PROVE  \E unsent \in SUBSET ToProduce(w) :
           /\ failures' = failures \cup Produced(w, unsent)
           /\ failed' \in 0..setting.maxFailures
           /\ \/ /\ ~w.failed /\ UNCHANGED <<position, dropped>>
                 /\ committed' \in {committed, position}
              \/ /\ position' \in SeekTargets(w) /\ UNCHANGED <<committed, dropped>>
              \/ /\ w.failed /\ UNCHANGED <<position, committed>>
                 /\ dropped' = dropped \cup GivenUp(w, unsent)
<1>1. PICK unsent \in SUBSET ToProduce(w) :
       /\ failures' = failures \cup Produced(w, unsent)
       /\ \/ ~w.failed /\ Commit /\ UNCHANGED <<position, dropped>>
          \/ /\ w.failed /\ Fail(Cardinality(unsent))
             /\ position' \in SeekTargets(w) /\ UNCHANGED <<committed, dropped>>
          \/ /\ w.failed /\ Fail(Cardinality(unsent) + 1)
             /\ dropped' = dropped \cup GivenUp(w, unsent) /\ UNCHANGED <<position, committed>>
  BY DEF EndProcessInSequence
<1>2. Cardinality(unsent) \in Nat /\ Cardinality(unsent) + 1 \in Nat
  <2>1. Cardinality(unsent) \in Nat
    BY EndIs
  <2>2. QED
    BY <2>1
<1>3. failed' \in 0..setting.maxFailures
  BY <1>1, <1>2, FailIs, 0 \in Nat, 1 \in Nat DEF Commit, TypeInv
<1>4. QED
  BY <1>1, <1>3 DEF Commit, CommitOffset

LEMMA EndSequenceTypes == ASSUME TypeInv, NEW w \in workers, EndProcessInSequence(w) PROVE TypeInv'
<1>1. PICK unsent \in SUBSET ToProduce(w) :
           /\ failures' = failures \cup Produced(w, unsent)
           /\ failed' \in 0..setting.maxFailures
           /\ \/ /\ ~w.failed /\ UNCHANGED <<position, dropped>>
                 /\ committed' \in {committed, position}
              \/ /\ position' \in SeekTargets(w) /\ UNCHANGED <<committed, dropped>>
              \/ /\ w.failed /\ UNCHANGED <<position, committed>>
                 /\ dropped' = dropped \cup GivenUp(w, unsent)
  BY EndSequenceIs
<1>2. /\ UNCHANGED <<setting, batch, applied, triggered, restarts>>
      /\ workers' = workers \ {w} /\ mode = "sequence"
  BY DEF EndProcessInSequence
<1>3. workers' = {} /\ batch' = << >>
  BY <1>2, EndIs DEF TypeInv, PositionsInv
<1>4. /\ setting \in Settings /\ Offset = 1..Len(log) /\ Len(log) \in Nat
      /\ committed \in 1..position /\ position \in 1..Len(log) + 1
  BY SettingIs DEF TypeInv, TypeOK
<1>5. committed' \in 1..position' /\ position' \in 1..Len(log) + 1
  <2>1. CASE position' \in SeekTargets(w) /\ committed' = committed
    <3>1. position' \in Offset /\ committed <= position'
      BY <1>2, <2>1, EndIs
    <3>2. QED
      BY <1>4, <2>1, <3>1
  <2>2. CASE committed' \in {committed, position} /\ position' = position
    BY <1>4, <2>2
  <2>3. QED
    BY <1>1, <2>1, <2>2
<1>6. failures' \subseteq Offset /\ dropped' \subseteq Offset
  BY <1>1, EndIs DEF TypeInv, TypeOK
<1>7. batch' \in Seq(Offset) /\ Len(batch') <= setting.batchSize /\ failed' \in 0..setting.maxFailures
  BY <1>1, <1>3, <1>4, SettingIs
<1>8. TypeOK'
  <2>1. workers' \subseteq Worker /\ Cardinality(workers') <= 1
    BY <1>3, FS_EmptySet
  <2>2. Worker' = Worker /\ Offset' = Offset /\ log' = log /\ mode' = mode
    BY <1>2 DEF Worker, Offset, log, mode
  <2>3. /\ applied' \subseteq Offset /\ triggered' \in BOOLEAN /\ setting' \in Settings
        /\ restarts' \in 0..setting.maxRestarts
    BY <1>2 DEF TypeInv, TypeOK
  <2>4. QED
    BY <1>2, <1>5, <1>6, <1>7, <2>1, <2>2, <2>3 DEF TypeOK
<1>9. PositionsInv'
  BY <1>3 DEF PositionsInv, Ahead
<1>10. QED
  BY <1>8, <1>9 DEF TypeInv

LEMMA RestartTypes == ASSUME TypeInv, Restart PROVE TypeInv'
<1>1. /\ UNCHANGED <<setting, committed, applied, failures, dropped, triggered, failed>>
      /\ restarts < setting.maxRestarts /\ restarts' = restarts + 1
      /\ position' = committed /\ batch' = << >> /\ workers' = {}
  BY DEF Restart
<1>2. /\ setting \in Settings /\ Len(log) \in Nat /\ setting.maxRestarts \in Nat /\ setting.batchSize \in Nat
      /\ committed \in 1..position /\ position \in 1..Len(log) + 1
      /\ restarts \in 0..setting.maxRestarts
  BY SettingIs DEF TypeInv, TypeOK
<1>3. committed' \in 1..position' /\ position' \in 1..Len(log) + 1 /\ restarts' \in 0..setting.maxRestarts
  BY <1>1, <1>2
<1>4. batch' \in Seq(Offset) /\ Len(batch') <= setting.batchSize
  BY <1>1, <1>2
<1>5. TypeOK'
  BY <1>1, <1>3, <1>4, FS_EmptySet DEF TypeInv, TypeOK, log, mode, Offset, Worker
<1>6. PositionsInv'
  BY <1>1 DEF PositionsInv, Ahead
<1>7. QED
  BY <1>5, <1>6 DEF TypeInv

LEMMA NextTypes == ASSUME TypeInv, [Next]_vars PROVE TypeInv'
<1>1. CASE Poll
  BY <1>1, PollTypes
<1>2. CASE ProcessBatch
  BY <1>2, ProcessBatchTypes
<1>3. ASSUME NEW w \in workers, Handle(w) PROVE TypeInv'
  BY <1>3, EmbeddingTypes, IndexerTypes, EndProcessTypes, EndSequenceTypes DEF Handle
<1>4. CASE Restart
  BY <1>4, RestartTypes
<1>5. CASE UNCHANGED vars
  BY <1>5 DEF vars, TypeInv, TypeOK, PositionsInv, Ahead, log, mode, Offset, Worker
<1>6. QED
  BY <1>1, <1>2, <1>3, <1>4, <1>5 DEF Next, Over

(* The variables keep their types, and the committed offset never passes    *)
(* the consumer's position, whatever it seeks back to.                      *)
THEOREM TypeCorrect == Spec => []TypeOK
<1>1. TypeInv => TypeOK
  BY DEF TypeInv
<1>2. QED
  BY <1>1, InitTypes, NextTypes, PTL DEF Spec

-----------------------------------------------------------------------------
(* Nothing is dropped.  The setting stays, so only a step's effect on the   *)
(* events in hand is at stake.                                              *)

LEMMA SettingStays == ASSUME [Next]_vars PROVE setting' = setting
  BY DEF Next, Poll, ProcessBatch, Handle, ProcessEmbeddingEvents, IndexerProcess, EndProcess,
         EndProcessInSequence, Restart, Over, vars

\* With one event at a time no batch and no worker has two.
LEMMA AloneInBatch ==
  ASSUME TypeInv, OneAtATime(setting)
  PROVE  /\ mode = "sequence" /\ \A i \in DOMAIN batch : i = 1
<1>1. batch \in Seq(Offset) /\ Len(batch) <= 1
  BY DEF TypeInv, TypeOK, OneAtATime
<1>2. QED
  BY <1>1 DEF OneAtATime, mode

\* A batch whose events and applied operations only grow keeps its part.
LEMMA WorkStays ==
  ASSUME NEW w, WorkInv(w), setting' = setting, applied \subseteq applied'
  PROVE  WorkInv(w)'
  BY DEF WorkInv, IsData, log, OneAtATime

\* An event is dropped by no step that keeps what is in hand.
LEMMA KeepsEvents ==
  ASSUME NothingPassedOver, setting' = setting,
         applied \subseteq applied', failures \subseteq failures', dropped \subseteq dropped',
         position' <= position,
         position \in Int, position' \in Int, Offset \subseteq Int,
         \A o \in Offset : InHand(o) => InHand(o)',
         \A o \in Offset : Polled(o) => Polled(o)' \/ InHand(o)'
  PROVE  NothingPassedOver'
  BY DEF NothingPassedOver, Settled, IsData, Offset, log

\* In hand, a batch that is handled keeps its events.
LEMMA MovesInHand ==
  ASSUME NEW w \in workers, NEW w1, Moves(w, w1), w1.events = w.events, NEW o, InHand(o)
  PROVE  InHand(o)'
  BY DEF Moves, InHand

LEMMA TriggerStays ==
  ASSUME TriggeredAfterDataInSequence, setting' = setting, triggered' = triggered,
         applied \subseteq applied', failures \subseteq failures', dropped \subseteq dropped'
  PROVE  TriggeredAfterDataInSequence'
  BY DEF TriggeredAfterDataInSequence, TriggeredAfterData, Settled, IsData, Offset, log, mode

CarefulStep == IInv /\ Careful(setting) /\ setting' = setting

LEMMA InitIsCareful == Init => CarefulInv
<1>1. SUFFICES ASSUME Init PROVE CarefulInv
  OBVIOUS
<1>2. Offset = 1..Len(log) /\ Len(log) \in Nat
  BY <1>1, SettingIs DEF Init
<1>3. NothingPassedOver
  BY <1>1, <1>2 DEF Init, NothingPassedOver
<1>4. QED
  BY <1>1, <1>3 DEF Init, CarefulInv, TriggeredAfterDataInSequence, TriggeredAfterData

LEMMA PollIsCareful == ASSUME CarefulStep, Poll PROVE CarefulInv'
<1>1. /\ UNCHANGED <<setting, committed, workers, applied, failures, dropped, triggered>>
      /\ position \in Offset /\ position' = position + 1 /\ batch' = Append(batch, position)
  BY DEF Poll
<1>2. CarefulInv /\ batch \in Seq(Offset) /\ Offset = 1..Len(log) /\ Len(log) \in Nat
  BY SettingIs DEF CarefulStep, IInv, TypeOK
<1>3. \A w \in workers' : WorkInv(w)'
  BY <1>1, <1>2, WorkStays DEF CarefulInv
<1>4. \A o \in Offset : Polled(o) \/ o = position => Polled(o)'
  BY <1>1, <1>2, AppendIs, SMTT(20) DEF Polled
<1>5. NothingPassedOver'
  <2>1. SUFFICES ASSUME NEW o \in Offset', o < position', IsData(o)'
                 PROVE  (Settled(o) \/ InHand(o) \/ Polled(o))'
    BY DEF NothingPassedOver
  <2>2. o \in Offset /\ IsData(o)
    BY <1>1, <2>1 DEF Offset, IsData, log
  <2>3. o = position \/ o < position
    BY <1>1, <1>2, <2>1, <2>2
  <2>4. QED
    BY <1>1, <1>2, <1>4, <2>2, <2>3 DEF CarefulInv, NothingPassedOver, Settled, InHand
<1>6. QED
  BY <1>1, <1>2, <1>3, <1>5, TriggerStays DEF CarefulInv

LEMMA ProcessBatchIsCareful == ASSUME CarefulStep, ProcessBatch PROVE CarefulInv'
<1>9. PICK w1 : w1 = [events |-> batch, at |-> "handling", collected |-> {}, failed |-> FALSE]
  OBVIOUS
<1>1. /\ UNCHANGED <<setting, position, applied, failures, dropped, triggered>>
      /\ workers' = workers \cup {w1} /\ batch' = << >>
  BY <1>9 DEF ProcessBatch
<1>2. CarefulInv /\ TypeInv /\ position \in Int /\ Offset \subseteq Int
  BY SettingIs DEF CarefulStep, IInv, TypeInv, TypeOK
<1>0. w1.events = batch /\ w1.at = "handling" /\ w1.collected = {}
  BY <1>9
<1>3. WorkInv(w1)'
  <2>1. WorkInv(w1)
    BY <1>0, <1>2, AloneInBatch DEF WorkInv
  <2>2. QED
    BY <1>1, <2>1, WorkStays
<1>4. \A w \in workers' : WorkInv(w)'
  <2>1. \A w \in workers : WorkInv(w)'
    BY <1>1, <1>2, WorkStays DEF CarefulInv
  <2>2. QED
    BY <1>1, <1>3, <2>1
<1>5. \A o \in Offset : (InHand(o) => InHand(o)') /\ (Polled(o) => InHand(o)')
  BY <1>0, <1>1 DEF InHand, Polled
<1>6. NothingPassedOver'
  BY <1>1, <1>2, <1>5, KeepsEvents DEF CarefulInv
<1>7. QED
  BY <1>1, <1>2, <1>4, <1>6, TriggerStays DEF CarefulInv

LEMMA EmbeddingIsCareful ==
  ASSUME CarefulStep, NEW w \in workers, ProcessEmbeddingEvents(w) PROVE CarefulInv'
<1>1. TypeInv /\ CarefulInv /\ w \in Worker /\ w.events \in Seq(Offset) /\ WorkInv(w)
  BY DEF CarefulStep, IInv, TypeInv, TypeOK, CarefulInv, Worker
<1>2. PICK n \in 0..Len(w.events) :
        LET handled == {w.events[i] : i \in 1..n}
            fails   == n < Len(w.events)
        IN  /\ Fail(IF fails THEN 1 ELSE 0)
            /\ triggered' \in {triggered, triggered \/ \E o \in handled : ~IsData(o)}
            /\ Moves(w, [w EXCEPT !.at = IF fails /\ mode = "sequence" THEN "ending" ELSE "indexing",
                                  !.collected = {o \in handled : IsData(o)},
                                  !.failed = fails])
  BY DEF ProcessEmbeddingEvents
<1> DEFINE handled == {w.events[i] : i \in 1..n}
           w1 == [w EXCEPT !.at = IF n < Len(w.events) /\ mode = "sequence" THEN "ending" ELSE "indexing",
                           !.collected = {o \in handled : IsData(o)},
                           !.failed = n < Len(w.events)]
<1>3. /\ UNCHANGED <<setting, position, committed, batch, applied, failures, dropped>>
      /\ Moves(w, w1)
      /\ triggered' \in {triggered, triggered \/ \E o \in handled : ~IsData(o)}
  BY <1>2 DEF ProcessEmbeddingEvents
<1>4. /\ w1.events = w.events /\ w1.collected = {o \in handled : IsData(o)}
      /\ w1.failed = (n < Len(w.events)) /\ w1.at \in {"ending", "indexing"}
      /\ w1.at = "ending" => n < Len(w.events)
  BY <1>1 DEF Worker
<1>5. handled \subseteq {w.events[i] : i \in DOMAIN w.events}
  BY <1>1
<1>6. ~w1.failed => handled = {w.events[i] : i \in DOMAIN w.events}
  <2>1. DOMAIN w.events = 1..Len(w.events) /\ n \in 0..Len(w.events) /\ Len(w.events) \in Nat
    BY <1>1, <1>2
  <2>2. ~ (n < Len(w.events)) => n = Len(w.events)
    BY <2>1
  <2>3. QED
    BY <1>4, <2>1, <2>2
<1> HIDE DEF w1
<1>7. WorkInv(w1)
  <2>1. \A o \in w1.collected : IsData(o) /\ \E i \in DOMAIN w1.events : w1.events[i] = o
    BY <1>4, <1>5
  <2>2. ASSUME NEW i \in DOMAIN w1.events, IsData(w1.events[i]), ~w1.failed
        PROVE  w1.at # "ending" /\ w1.events[i] \in w1.collected
    BY <1>4, <1>6, <2>2
  <2>3. OneAtATime(setting) => \A i \in DOMAIN w1.events : i = 1
    BY <1>1, <1>4 DEF WorkInv
  <2>4. QED
    BY <2>1, <2>2, <2>3 DEF WorkInv
<1>8. \A v \in workers' : WorkInv(v)'
  <2>1. \A v \in workers \cup {w1} : WorkInv(v)'
    BY <1>1, <1>3, <1>7, WorkStays DEF CarefulInv
  <2>2. QED
    BY <1>3, <2>1 DEF Moves
<1>9. NothingPassedOver'
  <2>1. \A o \in Offset : (InHand(o) => InHand(o)') /\ (Polled(o) => Polled(o)')
    BY <1>3, <1>4, MovesInHand DEF Polled
  <2>2. position \in Int /\ Offset \subseteq Int
    BY <1>1, SettingIs DEF TypeInv, TypeOK
  <2>3. QED
    BY <1>1, <1>3, <2>1, <2>2, KeepsEvents DEF CarefulInv
<1>10. TriggeredAfterDataInSequence'
  <2>1. CASE triggered' = triggered
    BY <1>1, <1>3, <2>1, TriggerStays DEF CarefulInv
  <2>2. CASE triggered' # triggered
    <3>1. PICK i \in DOMAIN w.events : ~IsData(w.events[i])
      <4>1. triggered \in BOOLEAN
        BY <1>1 DEF TypeInv, TypeOK
      <4>2. \E o \in handled : ~IsData(o)
        BY <1>3, <2>2, <4>1
      <4>3. QED
        BY <1>5, <4>2
    <3>2. SUFFICES ASSUME mode = "sequence", NEW o \in Offset, IsData(o) PROVE Settled(o)
      BY <1>3 DEF TriggeredAfterDataInSequence, TriggeredAfterData, Settled, mode, Offset, IsData, log
    <3>3. /\ Offset = 1..Len(log) /\ Len(log) \in Nat /\ w.events[i] \in Offset /\ w.events[i] = Len(log)
          /\ position \in 1..Len(log) + 1
      <4>1. w.events[i] \in Offset
        BY <1>1, <3>1, EventsAreOffsets
      <4>2. setting \in Settings /\ position \in 1..Len(log) + 1
        BY <1>1 DEF TypeInv, TypeOK
      <4>3. w.events[i] = Len(log)
        BY <3>1, <4>1, <4>2, SettingIs
      <4>4. QED
        BY <4>1, <4>2, <4>3, SettingIs
    <3>4. w.events[i] < position /\ batch = << >> /\ \A v \in workers : v = w
      BY <1>1, <3>2 DEF TypeInv, PositionsInv, Ahead
    <3>5. o < position
      BY <3>3, <3>4
    <3>6. OneAtATime(setting)
      BY <3>2 DEF CarefulStep, Careful, OneKind, mode
    <3>7. ~InHand(o)
      <4>1. \A j \in DOMAIN w.events : w.events[j] = w.events[i]
        BY <1>1, <3>6 DEF WorkInv
      <4>2. QED
        BY <3>1, <3>2, <3>4, <4>1 DEF InHand
    <3>8. ~Polled(o)
      BY <3>4 DEF Polled
    <3>9. QED
      BY <1>1, <3>2, <3>5, <3>7, <3>8 DEF CarefulInv, NothingPassedOver
  <2>3. QED
    BY <2>1, <2>2
<1>11. QED
  BY <1>8, <1>9, <1>10 DEF CarefulInv

\* A careful indexer that reports no failure has applied what was collected.
LEMMA OutcomeIsHonest ==
  ASSUME CarefulStep, NEW w \in workers, NEW failing \in SUBSET {log[o] : o \in w.collected},
         FALSE \in Outcomes({log[o] : o \in w.collected}, failing), NEW o \in w.collected
  PROVE  log[o] \notin failing
<1>1. TypeInv /\ w.collected \subseteq Offset /\ w.events \in Seq(Offset) /\ WorkInv(w)
  BY DEF CarefulStep, IInv, TypeInv, TypeOK, CarefulInv, Worker
<1>2. \A p \in w.collected : log[p] = log[o]
  <2>1. CASE OneAtATime(setting)
    BY <1>1, <2>1 DEF WorkInv
  <2>2. CASE OneKind(setting)
    BY <1>1, <2>2 DEF WorkInv, OneKind, IsData, log, Offset
  <2>3. QED
    BY <2>1, <2>2 DEF CarefulStep, Careful
<1>3. {log[p] : p \in w.collected} = {log[o]}
  BY <1>2
<1>4. FALSE = (log[o] \in failing)
  BY <1>3 DEF Outcomes
<1>5. QED
  BY <1>4

LEMMA IndexerIsCareful == ASSUME CarefulStep, NEW w \in workers, IndexerProcess(w) PROVE CarefulInv'
<1>1. TypeInv /\ CarefulInv /\ w \in Worker /\ w.events \in Seq(Offset) /\ WorkInv(w)
  BY DEF CarefulStep, IInv, TypeInv, TypeOK, CarefulInv, Worker
<1> DEFINE kinds == {log[o] : o \in w.collected}
<1>2. PICK failing \in SUBSET kinds :
        /\ Fail(Cardinality(failing))
        /\ applied' = applied \cup {o \in w.collected : log[o] \notin failing}
        /\ \E error \in Outcomes(kinds, failing) :
             Moves(w, [w EXCEPT !.at = "ending", !.failed = @ \/ error])
  BY DEF IndexerProcess
<1>3. PICK error \in Outcomes(kinds, failing) : Moves(w, [w EXCEPT !.at = "ending", !.failed = @ \/ error])
  BY <1>2
<1>4. PICK w1 : w1 = [w EXCEPT !.at = "ending", !.failed = @ \/ error]
  OBVIOUS
<1>5. /\ w1.events = w.events /\ w1.collected = w.collected /\ w1.at = "ending"
      /\ w1.failed = (w.failed \/ error)
  BY <1>1, <1>4 DEF Worker
<1>6. /\ UNCHANGED <<setting, position, batch, failures, dropped, triggered>> /\ w.at = "indexing"
      /\ Moves(w, w1) /\ applied \subseteq applied'
  BY <1>2, <1>3, <1>4 DEF IndexerProcess
<1>7. ~w1.failed => w.collected \subseteq applied'
  <2>1. error \in BOOLEAN
    BY DEF Outcomes
  <2>2. SUFFICES ASSUME ~w1.failed, NEW o \in w.collected PROVE log[o] \notin failing
    BY <1>2
  <2>3. error = FALSE
    BY <1>5, <2>1, <2>2
  <2>4. FALSE \in Outcomes(kinds, failing)
    BY <2>3
  <2>5. QED
    BY <2>2, <2>4, OutcomeIsHonest
<1>8. WorkInv(w1)'
  <2>1. \A i \in DOMAIN w1.events : IsData(w1.events[i]) /\ ~w1.failed => w1.events[i] \in applied'
    BY <1>1, <1>5, <1>6, <1>7 DEF WorkInv
  <2>2. QED
    BY <1>1, <1>5, <1>6, <2>1 DEF WorkInv, IsData, log, OneAtATime
<1>9. \A v \in workers' : WorkInv(v)'
  <2>1. \A v \in workers : WorkInv(v)'
    BY <1>1, <1>6, WorkStays DEF CarefulInv
  <2>2. QED
    BY <1>6, <1>8, <2>1 DEF Moves
<1>10. NothingPassedOver'
  <2>1. \A o \in Offset : (InHand(o) => InHand(o)') /\ (Polled(o) => Polled(o)')
    BY <1>5, <1>6, MovesInHand DEF Polled
  <2>2. position \in Int /\ Offset \subseteq Int
    BY <1>1, SettingIs DEF TypeInv, TypeOK
  <2>3. QED
    BY <1>1, <1>6, <2>1, <2>2, KeepsEvents DEF CarefulInv
<1>11. QED
  BY <1>1, <1>6, <1>9, <1>10, TriggerStays DEF CarefulInv

\* The data events of a batch that ends are settled, unless the consumer seeks back to them.
LEMMA EndedIsSettled ==
  ASSUME CarefulStep, NEW w \in workers, w.at = "ending", NEW unsent,
         NEW i \in DOMAIN w.events, IsData(w.events[i])
  PROVE  w.events[i] \in applied \cup Produced(w, unsent) \cup GivenUp(w, unsent)
<1>1. WorkInv(w)
  BY DEF CarefulStep, IInv, CarefulInv
<1>2. CASE ~w.failed
  BY <1>1, <1>2 DEF WorkInv
<1>3. CASE w.failed
  BY <1>3 DEF GivenUp, Events
<1>4. QED
  BY <1>2, <1>3

\* How a batch ends, in either mode: nothing moves and what it leaves is settled, or
\* the consumer seeks back.
LEMMA EndLeaves ==
  ASSUME CarefulStep, NEW w \in workers, EndProcess(w) \/ EndProcessInSequence(w)
  PROVE  /\ failures \subseteq failures' /\ dropped \subseteq dropped'
         /\ \/ /\ position' = position
               /\ \A i \in DOMAIN w.events : IsData(w.events[i]) => Settled(w.events[i])'
            \/ position' \in SeekTargets(w) /\ mode = "sequence"
<1>1. TypeInv /\ CarefulInv /\ WorkInv(w)
  BY DEF CarefulStep, IInv, TypeInv, CarefulInv
<1>2. CASE EndProcess(w)
  BY <1>2, EndedIsSettled DEF EndProcess, Settled
<1>3. CASE EndProcessInSequence(w)
  <2>1. PICK unsent \in SUBSET ToProduce(w) :
           /\ failures' = failures \cup Produced(w, unsent)
           /\ failed' \in 0..setting.maxFailures
           /\ \/ /\ ~w.failed /\ UNCHANGED <<position, dropped>>
                 /\ committed' \in {committed, position}
              \/ /\ position' \in SeekTargets(w) /\ UNCHANGED <<committed, dropped>>
              \/ /\ w.failed /\ UNCHANGED <<position, committed>>
                 /\ dropped' = dropped \cup GivenUp(w, unsent)
    BY <1>1, <1>3, EndSequenceIs
  <2>2. w.at = "ending" /\ mode = "sequence" /\ applied' = applied
    BY <1>3 DEF EndProcessInSequence
  <2>3. ~w.failed => GivenUp(w, unsent) = {}
    BY DEF GivenUp
  <2>4. QED
    BY <2>1, <2>2, <2>3, EndedIsSettled DEF Settled
<1>4. QED
  BY <1>2, <1>3

LEMMA EndIsCareful ==
  ASSUME CarefulStep, NEW w \in workers, EndProcess(w) \/ EndProcessInSequence(w)
  PROVE  CarefulInv'
<1>1. TypeInv /\ CarefulInv /\ w \in Worker /\ w.events \in Seq(Offset) /\ WorkInv(w)
  BY DEF CarefulStep, IInv, TypeInv, TypeOK, CarefulInv, Worker
<1>2. /\ UNCHANGED <<setting, batch, applied, triggered>> /\ w.at = "ending"
      /\ workers' = workers \ {w}
  BY DEF EndProcess, EndProcessInSequence
<1>3. \A v \in workers' : WorkInv(v)'
  BY <1>1, <1>2, WorkStays DEF CarefulInv
<1>4. /\ position \in Int /\ Offset \subseteq Int /\ SeekTargets(w) \subseteq Offset
      /\ mode = "sequence" => \A o \in SeekTargets(w) : o < position
  <2>1. position \in Int /\ Offset \subseteq Int
    BY <1>1, SettingIs DEF TypeInv, TypeOK
  <2>2. QED
    BY <1>1, <2>1, EndIs
<1>5. NothingPassedOver'
  <2>1. SUFFICES ASSUME NEW o \in Offset, o < position', IsData(o)
                 PROVE  Settled(o)' \/ InHand(o)' \/ Polled(o)'
    BY <1>2 DEF NothingPassedOver, Settled, InHand, Polled, Offset, IsData, log
  <2>2. o < position
    <3>1. o \in Int
      BY <1>4, <2>1
    <3>2. CASE position' \in SeekTargets(w) /\ mode = "sequence"
      <4>1. position' < position /\ position' \in Int
        BY <1>4, <3>2
      <4>2. QED
        BY <1>4, <2>1, <3>1, <4>1
    <3>3. QED
      BY <2>1, <3>2, EndLeaves
  <2>3. Settled(o) \/ InHand(o) \/ Polled(o)
    BY <1>1, <2>1, <2>2 DEF CarefulInv, NothingPassedOver
  <2>4. ASSUME NEW i \in DOMAIN w.events, w.events[i] = o PROVE Settled(o)'
    <3>1. CASE position' = position /\ \A k \in DOMAIN w.events : IsData(w.events[k]) => Settled(w.events[k])'
      BY <2>1, <2>4, <3>1
    <3>2. CASE position' \in SeekTargets(w) /\ mode = "sequence"
      <4>1. PICK j \in DOMAIN w.events : position' = w.events[j]
        BY <3>2 DEF SeekTargets, Events
      <4>2. OneAtATime(setting)
        BY <3>2 DEF CarefulStep, Careful, OneKind, mode
      <4>3. i = j
        BY <1>1, <4>1, <4>2 DEF WorkInv
      <4>4. QED
        BY <1>4, <2>1, <2>4, <4>1, <4>3
    <3>3. QED
      BY <3>1, <3>2, EndLeaves
  <2>5. InHand(o) => Settled(o)' \/ InHand(o)'
    BY <1>2, <2>4 DEF InHand
  <2>6. Settled(o) => Settled(o)'
    BY <1>2, EndLeaves DEF Settled
  <2>7. QED
    BY <1>2, <2>3, <2>5, <2>6 DEF Polled
<1>6. QED
  BY <1>1, <1>2, <1>3, <1>5, TriggerStays, EndLeaves DEF CarefulInv

LEMMA RestartIsCareful == ASSUME CarefulStep, Restart PROVE CarefulInv'
<1>1. TypeInv /\ CarefulInv
  BY DEF CarefulStep, IInv, TypeInv
<1>2. /\ UNCHANGED <<setting, applied, failures, dropped, triggered>> /\ restarts < setting.maxRestarts
      /\ position' = committed /\ batch' = << >> /\ workers' = {}
  BY DEF Restart
<1>3. mode = "sequence"
  <2>1. restarts \in Nat /\ setting.maxRestarts \in Nat
    BY <1>1, SettingIs DEF TypeInv, TypeOK
  <2>2. QED
    BY <1>2, <2>1 DEF CarefulStep, Careful, OneAtATime, OneKind, mode
<1>4. NothingPassedOver'
  <2>1. SUFFICES ASSUME NEW o \in Offset, o < committed, IsData(o) PROVE Settled(o)
    BY <1>2 DEF NothingPassedOver, Settled, Offset, IsData, log
  <2>2. committed \in Int /\ position \in Int /\ committed <= position /\ o \in Int
    BY <1>1, SettingIs DEF TypeInv, TypeOK
  <2>3. ~InHand(o)
    BY <1>1, <1>3, <2>1, <2>2 DEF TypeInv, PositionsInv, Ahead, InHand
  <2>4. ~Polled(o)
    BY <1>1, <2>1, <2>2 DEF TypeInv, PositionsInv, Ahead, Polled
  <2>5. QED
    BY <1>1, <2>1, <2>2, <2>3, <2>4 DEF CarefulInv, NothingPassedOver
<1>5. QED
  BY <1>1, <1>2, <1>4, TriggerStays DEF CarefulInv

LEMMA NextIsCareful == ASSUME CarefulStep, [Next]_vars PROVE CarefulInv'
<1>1. CASE Poll
  BY <1>1, PollIsCareful
<1>2. CASE ProcessBatch
  BY <1>2, ProcessBatchIsCareful
<1>3. ASSUME NEW w \in workers, Handle(w) PROVE CarefulInv'
  BY <1>3, EmbeddingIsCareful, IndexerIsCareful, EndIsCareful DEF Handle
<1>4. CASE Restart
  BY <1>4, RestartIsCareful
<1>5. CASE UNCHANGED vars
  <2>1. CarefulInv
    BY DEF CarefulStep, IInv
  <2>2. UNCHANGED <<setting, position, batch, workers, applied, failures, dropped, triggered>>
    BY <1>5 DEF vars
  <2>3. \A w \in workers' : WorkInv(w)'
    BY <2>1, <2>2, WorkStays DEF CarefulInv
  <2>4. NothingPassedOver'
    BY <2>1, <2>2 DEF CarefulInv, NothingPassedOver, Settled, InHand, Polled, IsData, Offset, log
  <2>5. QED
    BY <2>1, <2>2, <2>3, <2>4, TriggerStays DEF CarefulInv
<1>6. QED
  BY <1>1, <1>2, <1>3, <1>4, <1>5 DEF Next, Over

THEOREM Invariant == Spec => []IInv
<1>1. Init => IInv
  BY InitTypes, InitIsCareful DEF IInv, TypeInv
<1>2. IInv /\ [Next]_vars => IInv'
  <2>1. SUFFICES ASSUME IInv, [Next]_vars PROVE IInv'
    OBVIOUS
  <2>2. TypeInv'
    BY <2>1, NextTypes DEF IInv, TypeInv
  <2>3. setting' = setting
    BY <2>1, SettingStays
  <2>4. Careful(setting)' => CarefulInv'
    BY <2>1, <2>3, NextIsCareful DEF CarefulStep
  <2>5. QED
    BY <2>2, <2>4 DEF IInv, TypeInv
<1>3. QED
  BY <1>1, <1>2, PTL DEF Spec

(* Under a careful setting, whatever else fails, an event behind the        *)
(* committed offset is in Qdrant, in the failure topic or in hand, or its   *)
(* batch failed and so did the calls that were to save it: the send to the  *)
(* failure topic and, in sequence, the seek.  No failure is just passed     *)
(* over (embedding.go:97-172, kafka.go:221-245).                            *)
THEOREM NoFailureIsPassedOver == Spec => [](Careful(setting) => CommittedIsHandled)
<1>1. ASSUME IInv, Careful(setting) PROVE CommittedIsHandled
  <2>1. SUFFICES ASSUME NEW o \in Offset, o < committed, IsData(o) PROVE Settled(o) \/ InHand(o)
    BY DEF CommittedIsHandled
  <2>2. committed \in Int /\ position \in Int /\ committed <= position /\ o \in Int
    BY <1>1, SettingIs DEF IInv, TypeOK
  <2>3. ~Polled(o)
    BY <1>1, <2>1, <2>2 DEF IInv, PositionsInv, Ahead, Polled
  <2>4. QED
    BY <1>1, <2>1, <2>2, <2>3 DEF IInv, CarefulInv, NothingPassedOver
<1>2. QED
  BY <1>1, Invariant, PTL

(* In sequence, with one event at a time, TriggerIndexing is called only    *)
(* once all the data is settled: in Qdrant or in the failure topic, but for *)
(* events that neither the send nor the seek could save.                    *)
THEOREM EofComesAfterData == Spec => [](OneAtATime(setting) => TriggeredAfterDataInSequence)
<1>1. IInv => (OneAtATime(setting) => TriggeredAfterDataInSequence)
  BY DEF IInv, Careful, CarefulInv
<1>2. QED
  BY <1>1, Invariant, PTL
=============================================================================
