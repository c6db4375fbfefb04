-------------------------------- MODULE DagProofs --------------------------------
(***************************************************************************)
(* Theorems about DagExecutor, for every set of components and every set   *)
(* of configurations, and about DagOnboarding, for every pipeline and every *)
(* map written by hand.                                                    *)
(***************************************************************************)
EXTENDS DagExecutor, DagOnboarding, FiniteSetTheorems, SequenceTheorems, WellFoundedInduction, TLAPS

Item == Component \cup {TERMINAL_NODE}

\* What the loop leaves in the channel when it receives (executor.go:54).
LEMMA TailFacts ==
  ASSUME NEW S, NEW q \in Seq(S), q # <<>>
  PROVE  /\ Len(q) \in Nat \ {0}
         /\ Head(q) = q[1] /\ Head(q) \in S
         /\ Tail(q) \in Seq(S)
         /\ Len(Tail(q)) = Len(q) - 1
         /\ \A i \in 1..(Len(q) - 1) : Tail(q)[i] = q[i + 1]
<1>1. Len(q) \in Nat \ {0}
  BY EmptySeq
<1>2. QED
  BY <1>1, HeadTailProperties, ElementOfSeq

\* What a send leaves in the channel (executor.go:82, 91).
LEMMA AppendFacts ==
  ASSUME NEW S, NEW q \in Seq(S), NEW e \in S
  PROVE  /\ Append(q, e) \in Seq(S)
         /\ Len(q) \in Nat
         /\ Len(Append(q, e)) = Len(q) + 1
         /\ \A i \in 1..Len(q) : Append(q, e)[i] = q[i]
         /\ Append(q, e)[Len(q) + 1] = e
BY AppendProperties, LenProperties

\* Every name in the topology is a component.
LEMMA TopologyNames ==
  ASSUME ComponentsAssumption, dagConfig \in DagConfigs
  PROVE  /\ Roots \subseteq Component
         /\ NonZeroInDegree(Adjacency) \subseteq Component
         /\ DOMAIN Adjacency \subseteq Component
         /\ \A c \in Component : Dependents(c) \subseteq Component
         /\ \A c, d \in Component : d \in DependenciesOf(dagConfig, c) <=> c \in Dependents(d)
         /\ \A c \in Component : DependenciesOf(dagConfig, c) \subseteq Component
<1>1. /\ DOMAIN dagConfig \subseteq Component
      /\ \A k \in DOMAIN dagConfig : dagConfig[k] \subseteq Component
  BY DEF ComponentsAssumption
<1>2. Listed(dagConfig) \subseteq Component
  BY <1>1 DEF Listed
<1>3. /\ DOMAIN Adjacency = Listed(dagConfig)
      /\ \A d \in Listed(dagConfig) : Adjacency[d] = {k \in DOMAIN dagConfig : d \in dagConfig[k]}
  BY DEF Adjacency, ComponentAdjacencyMap
<1>4. \A d \in DOMAIN Adjacency : Adjacency[d] \subseteq Component
  BY <1>1, <1>3
<1>5. NonZeroInDegree(Adjacency) \subseteq Component
  BY <1>4 DEF NonZeroInDegree
<1>6. \A c \in Component : Dependents(c) \subseteq Component
  BY <1>4 DEF Dependents
<1>7. \A c, d \in Component : d \in DependenciesOf(dagConfig, c) <=> c \in Dependents(d)
  BY <1>1, <1>3 DEF Dependents, DependenciesOf, Listed
<1>8. \A c \in Component : DependenciesOf(dagConfig, c) \subseteq Component
  BY <1>1 DEF DependenciesOf
<1>9. QED
  BY <1>2, <1>3, <1>5, <1>6, <1>7, <1>8 DEF Roots, ZeroInDegreeComponents

\* A component is listed as a root only if no component has it as a dependent.
LEMMA RootsAreOwedByNone ==
  ASSUME NEW n \in Roots, NEW c \in Component
  PROVE  n \notin Dependents(c)
  BY DEF Roots, ZeroInDegreeComponents, NonZeroInDegree, Dependents

\* getInDegreeMap counts, for a component, those that list it as a dependent.
LEMMA InitialCounts ==
  ASSUME ComponentsAssumption, dagConfig \in DagConfigs,
         NEW n \in NonZeroInDegree(Adjacency)
  PROVE  /\ InDegreeMap(Adjacency)[n] = Cardinality({d \in Component : n \in Dependents(d)})
         /\ InDegreeMap(Adjacency)[n] \in Nat
<1>1. {d \in DOMAIN Adjacency : n \in Adjacency[d]} = {d \in Component : n \in Dependents(d)}
  BY TopologyNames DEF Dependents
<1>2. IsFiniteSet({d \in Component : n \in Dependents(d)})
  BY FS_Subset DEF ComponentsAssumption
<1>3. QED
  BY <1>1, <1>2, FS_CardinalityType DEF InDegreeMap

LEMMA ListingIsQueue ==
  ASSUME ComponentsAssumption, dagConfig \in DagConfigs, NEW q \in Listings(Roots)
  PROVE  /\ q \in Seq(Item)
         /\ \A i \in 1..Len(q) : q[i] \in Roots
         /\ \A i, j \in 1..Len(q) : q[i] = q[j] => i = j
<1>1. IsFiniteSet(Roots) /\ Roots \subseteq Component
  BY TopologyNames, FS_Subset DEF ComponentsAssumption
<1>2. Cardinality(Roots) \in Nat
  BY <1>1, FS_CardinalityType
<1>3. q \in [1..Cardinality(Roots) -> Roots]
  BY DEF Listings
<1>4. q \in Seq(Roots) /\ Len(q) = Cardinality(Roots)
  BY <1>2, <1>3
<1>5. QED
  BY <1>1, <1>3, <1>4, SeqMonotonic DEF Listings, Item

-----------------------------------------------------------------------------
LEMMA InitInvariant ==
  ASSUME ComponentsAssumption, Init
  PROVE  IInv
<1>1. dagConfig \in DagConfigs
  BY DEF Init
<1>2. /\ queue \in Seq(Item)
      /\ \A i \in 1..Len(queue) : queue[i] \in Roots
      /\ \A i, j \in 1..Len(queue) : queue[i] = queue[j] => i = j
  BY <1>1, ListingIsQueue DEF Init
<1>3. DOMAIN inDegreeMap = NonZeroInDegree(Adjacency)
  BY DEF Init, InDegreeMap
<1>4. \A c \in Component : todo[c] = Dependents(c) /\ pc[c] = "idle" /\ starts[c] = 0
  BY DEF Init
<1>5. TypeOK
  <2>1. DOMAIN inDegreeMap \subseteq Component
    BY <1>1, <1>3, TopologyNames
  <2>2. \A n \in DOMAIN inDegreeMap : inDegreeMap[n] \in Nat
    BY <1>1, <1>3, InitialCounts DEF Init
  <2>3. todo \in [Component -> SUBSET Component]
    BY <1>1, TopologyNames DEF Init
  <2>4. QED
    BY <1>1, <1>2, <2>1, <2>2, <2>3 DEF Init, TypeOK, Item
<1>6. InDegreeCounts
  <2>1. SUFFICES ASSUME NEW n \in DOMAIN inDegreeMap
                 PROVE  inDegreeMap[n] = Cardinality({d \in Component : n \in todo[d]})
    BY DEF InDegreeCounts
  <2>2. {d \in Component : n \in todo[d]} = {d \in Component : n \in Dependents(d)}
    BY <1>4
  <2>3. inDegreeMap[n] = InDegreeMap(Adjacency)[n]
    BY DEF Init
  <2>4. QED
    BY <1>1, <1>3, <2>2, <2>3, InitialCounts
<1>7. OwedUntilFinished
  BY <1>4 DEF OwedUntilFinished
<1>8. FinishedWhenReleasing
  BY DEF Init, FinishedWhenReleasing
<1>9. \A c, n \in Component : ~Holds(c, n)
  BY <1>4 DEF Holds
<1>10. ReleasedOwedByNone
  <2>1. SUFFICES ASSUME NEW n \in Component, Queued(n), NEW d \in Component
                 PROVE  n \notin todo[d]
    BY <1>4, <1>9 DEF ReleasedOwedByNone, Released
  <2>2. n \in Roots
    BY <1>2, <2>1 DEF Queued
  <2>3. QED
    BY <1>4, <2>2, RootsAreOwedByNone
<1>11. QueuedOnce /\ HeldOnce /\ IdleUntilSpawned
  BY <1>2, <1>4, <1>9 DEF QueuedOnce, HeldOnce, IdleUntilSpawned
<1>12. QED
  BY <1>5, <1>6, <1>7, <1>8, <1>10, <1>11 DEF IInv

-----------------------------------------------------------------------------
(***************************************************************************)
(* The steps of the caller.                                                *)
(***************************************************************************)
LEMMA ReceiveTerminalStep ==
  ASSUME ComponentsAssumption, IInv, ReceiveTerminal
  PROVE  IInv'
<1> USE DEF IInv
<1>1. /\ queue \in Seq(Item) /\ queue # <<>>
      /\ queue' = Tail(queue)
      /\ UNCHANGED <<dagConfig, inDegreeMap, pc, todo, hand, starts, finished, crashed>>
  BY DEF TypeOK, ReceiveTerminal, Item
<1>2. /\ Len(queue) \in Nat \ {0} /\ queue' \in Seq(Item) /\ Len(queue') = Len(queue) - 1
      /\ \A i \in 1..Len(queue') : queue'[i] = queue[i + 1]
  BY <1>1, TailFacts
<1>3. \A n : Queued(n)' => Queued(n)
  BY <1>2 DEF Queued
<1>4. \A c, n : Holds(c, n)' <=> Holds(c, n)
  BY <1>1 DEF Holds
<1>5. TypeOK'
  <2>1. closed' \in BOOLEAN /\ queueOpen' \in BOOLEAN /\ executedCompCount' \in Nat
        /\ main' \in {"looping", "returned"}
    BY DEF TypeOK, ReceiveTerminal
  <2>2. QED
    BY <1>1, <1>2, <2>1 DEF TypeOK, Item
<1>6. InDegreeCounts'
  BY <1>1 DEF InDegreeCounts
<1>7. OwedUntilFinished' /\ FinishedWhenReleasing'
  BY <1>1 DEF OwedUntilFinished, FinishedWhenReleasing, Dependents, Adjacency
<1>8. ReleasedOwedByNone'
  BY <1>1, <1>3, <1>4 DEF ReleasedOwedByNone, Released
<1>9. QueuedOnce'
  <2>1. \A i \in 1..Len(queue') : i + 1 \in 1..Len(queue)
    BY <1>2
  <2>2. QED
    BY <1>2, <2>1 DEF QueuedOnce
<1>10. HeldOnce'
  BY <1>3, <1>4 DEF HeldOnce
<1>11. IdleUntilSpawned'
  BY <1>1, <1>3, <1>4 DEF IdleUntilSpawned
<1>12. QED
  BY <1>5, <1>6, <1>7, <1>8, <1>9, <1>10, <1>11

LEMMA SpawnStep ==
  ASSUME ComponentsAssumption, IInv, Spawn
  PROVE  IInv'
<1> USE DEF IInv
<1>0. PICK s \in Component : s = Head(queue) /\ s # TERMINAL_NODE
  BY TailFacts DEF TypeOK, Spawn, Item
<1>1. /\ queue \in Seq(Item) /\ queue # <<>>
      /\ queue' = Tail(queue)
      /\ pc' = [pc EXCEPT ![s] = "spawned"]
      /\ starts' = [starts EXCEPT ![s] = @ + 1]
      /\ UNCHANGED <<dagConfig, inDegreeMap, closed, queueOpen, executedCompCount, main,
                     todo, hand, finished, crashed>>
  BY <1>0 DEF TypeOK, Spawn, Item, call
<1>2. /\ Len(queue) \in Nat \ {0} /\ queue' \in Seq(Item) /\ Len(queue') = Len(queue) - 1
      /\ \A i \in 1..Len(queue') : queue'[i] = queue[i + 1] /\ i + 1 \in 1..Len(queue)
      /\ s = queue[1]
  BY <1>0, <1>1, TailFacts DEF Item
<1>3. Queued(s) /\ ~Queued(s)' /\ \A n : Queued(n)' => Queued(n)
  <2>1. Queued(s) /\ \A n : Queued(n)' => Queued(n)
    BY <1>2 DEF Queued
  <2>2. ~Queued(s)'
    <3>1. SUFFICES ASSUME NEW i \in 1..Len(queue'), queue'[i] = s
                   PROVE  FALSE
      BY DEF Queued
    <3>2. i + 1 = 1
      BY <1>0, <1>2, <3>1 DEF QueuedOnce
    <3>3. QED
      BY <1>2, <3>2
  <2>3. QED
    BY <2>1, <2>2
<1>4. pc[s] = "idle" /\ starts[s] = 0
  BY <1>2, <1>3 DEF IdleUntilSpawned
<1>5. \A c, n \in Component : Holds(c, n)' => Holds(c, n)
  BY <1>1, <1>2 DEF Holds, TypeOK
<1>6. \A c \in Component : ~Holds(c, s)
  BY <1>2, <1>3 DEF HeldOnce
<1>7. TypeOK'
  BY <1>1, <1>2 DEF TypeOK, Item
<1>8. InDegreeCounts' /\ OwedUntilFinished'
  BY <1>1 DEF InDegreeCounts, OwedUntilFinished, Dependents, Adjacency
<1>9. FinishedWhenReleasing'
  BY <1>1, <1>2, <1>4 DEF FinishedWhenReleasing, TypeOK
<1>10. ReleasedOwedByNone'
  <2>1. \A n \in Component : Released(n)' => Released(n)
    BY <1>1, <1>2, <1>3, <1>5 DEF Released, TypeOK
  <2>2. QED
    BY <1>1, <2>1 DEF ReleasedOwedByNone
<1>11. QueuedOnce'
  BY <1>2, SMTT(30) DEF QueuedOnce
<1>12. HeldOnce'
  BY <1>3, <1>5 DEF HeldOnce
<1>13. IdleUntilSpawned'
  BY <1>1, <1>2, <1>3, <1>4, <1>5, <1>6 DEF IdleUntilSpawned, TypeOK
<1>14. QED
  BY <1>7, <1>8, <1>9, <1>10, <1>11, <1>12, <1>13

-----------------------------------------------------------------------------
(***************************************************************************)
(* The steps of a goroutine.                                               *)
(***************************************************************************)
LEMMA BeginRunStep ==
  ASSUME ComponentsAssumption, IInv, NEW c \in Component, BeginRun(c)
  PROVE  IInv'
<1> USE DEF IInv
<1>1. /\ pc[c] = "spawned" /\ pc' \in [Component -> {"idle", "spawned", "running", "releasing",
                                        "offering", "sending", "exited"}]
      /\ \A n \in Component \ {c} : pc'[n] = pc[n]
      /\ pc'[c] \in {"running", "exited"}
      /\ UNCHANGED <<dagConfig, inDegreeMap, queue, closed, queueOpen, executedCompCount, main,
                     todo, hand, starts, finished, crashed>>
  BY DEF TypeOK, BeginRun, call
<1>2. \A n : Queued(n)' <=> Queued(n)
  BY <1>1 DEF Queued
<1>3. \A d, n \in Component : Holds(d, n)' <=> Holds(d, n)
  BY <1>1 DEF Holds
<1>4. TypeOK' /\ InDegreeCounts'
  BY <1>1 DEF TypeOK, InDegreeCounts
<1>5. OwedUntilFinished' /\ FinishedWhenReleasing'
  BY <1>1 DEF OwedUntilFinished, Dependents, Adjacency, FinishedWhenReleasing
<1>6. ReleasedOwedByNone'
  BY <1>1, <1>2, <1>3 DEF ReleasedOwedByNone, Released
<1>7. QueuedOnce' /\ HeldOnce' /\ IdleUntilSpawned'
  BY <1>1, <1>2, <1>3 DEF QueuedOnce, HeldOnce, IdleUntilSpawned
<1>8. QED
  BY <1>4, <1>5, <1>6, <1>7

LEMMA EndRunStep ==
  ASSUME ComponentsAssumption, IInv, NEW c \in Component, EndRun(c)
  PROVE  IInv'
<1> USE DEF IInv
<1>1. /\ pc[c] = "running" /\ pc' = [pc EXCEPT ![c] = "releasing"]
      /\ finished' = finished \cup {c}
      /\ inDegreeMap' = [n \in DOMAIN inDegreeMap \ {c} |-> inDegreeMap[n]]
      /\ UNCHANGED <<dagConfig, queue, closed, queueOpen, executedCompCount, main,
                     todo, hand, starts, crashed>>
  BY DEF EndRun, call
<1>2. \A n : Queued(n)' <=> Queued(n)
  BY <1>1 DEF Queued
<1>3. \A d, n \in Component : Holds(d, n)' <=> Holds(d, n)
  BY <1>1 DEF Holds, TypeOK
<1>4. TypeOK' /\ InDegreeCounts'
  <2>1. /\ DOMAIN inDegreeMap' = DOMAIN inDegreeMap \ {c}
        /\ \A n \in DOMAIN inDegreeMap' : inDegreeMap'[n] = inDegreeMap[n]
    BY <1>1
  <2>2. TypeOK'
    BY <1>1, <2>1 DEF TypeOK
  <2>3. InDegreeCounts'
    BY <1>1, <2>1 DEF InDegreeCounts
  <2>4. QED
    BY <2>2, <2>3
<1>5. OwedUntilFinished' /\ FinishedWhenReleasing'
  BY <1>1 DEF OwedUntilFinished, Dependents, Adjacency, FinishedWhenReleasing, TypeOK
<1>6. ReleasedOwedByNone'
  BY <1>1, <1>2, <1>3 DEF ReleasedOwedByNone, Released, TypeOK
<1>7. QueuedOnce' /\ HeldOnce' /\ IdleUntilSpawned'
  BY <1>1, <1>2, <1>3 DEF QueuedOnce, HeldOnce, IdleUntilSpawned, TypeOK
<1>8. QED
  BY <1>4, <1>5, <1>6, <1>7

LEMMA EndReleaseStep ==
  ASSUME ComponentsAssumption, IInv, NEW c \in Component, EndRelease(c)
  PROVE  IInv'
<1> USE DEF IInv
<1>1. /\ pc[c] = "releasing" /\ pc' = [pc EXCEPT ![c] = "offering"]
      /\ hand' = [hand EXCEPT ![c] = TERMINAL_NODE]
      /\ UNCHANGED <<dagConfig, inDegreeMap, queue, closed, queueOpen, executedCompCount, main,
                     todo, starts, finished, crashed>>
  BY DEF EndRelease, call
<1>2. \A n : Queued(n)' <=> Queued(n)
  BY <1>1 DEF Queued
<1>3. \A d, n \in Component : Holds(d, n)' <=> Holds(d, n)
  BY <1>1 DEF Holds, TypeOK, ComponentsAssumption
<1>4. TypeOK' /\ InDegreeCounts'
  BY <1>1 DEF TypeOK, InDegreeCounts
<1>5. OwedUntilFinished' /\ FinishedWhenReleasing'
  BY <1>1 DEF OwedUntilFinished, Dependents, Adjacency, FinishedWhenReleasing, TypeOK
<1>6. ReleasedOwedByNone'
  BY <1>1, <1>2, <1>3 DEF ReleasedOwedByNone, Released, TypeOK
<1>7. QueuedOnce' /\ HeldOnce' /\ IdleUntilSpawned'
  BY <1>1, <1>2, <1>3 DEF QueuedOnce, HeldOnce, IdleUntilSpawned, TypeOK
<1>8. QED
  BY <1>4, <1>5, <1>6, <1>7

LEMMA CheckQueueOpenStep ==
  ASSUME ComponentsAssumption, IInv, NEW c \in Component, CheckQueueOpen(c)
  PROVE  IInv'
<1> USE DEF IInv
<1>1. /\ pc[c] = "offering"
      /\ pc' \in [Component -> {"idle", "spawned", "running", "releasing", "offering",
                                "sending", "exited"}]
      /\ \A n \in Component \ {c} : pc'[n] = pc[n]
      /\ pc'[c] \in {"sending", "exited", "releasing"}
      /\ UNCHANGED <<dagConfig, inDegreeMap, queue, closed, queueOpen, executedCompCount, main,
                     todo, hand, starts, finished, crashed>>
  BY DEF CheckQueueOpen, ObservedQueueOpen, AfterOffer, call, TypeOK
<1>2. \A n : Queued(n)' <=> Queued(n)
  BY <1>1 DEF Queued
<1>3. \A d, n \in Component : Holds(d, n)' => Holds(d, n)
  BY <1>1 DEF Holds, TypeOK
<1>4. TypeOK' /\ InDegreeCounts'
  BY <1>1 DEF TypeOK, InDegreeCounts
<1>5. OwedUntilFinished' /\ FinishedWhenReleasing'
  BY <1>1 DEF OwedUntilFinished, Dependents, Adjacency, FinishedWhenReleasing, TypeOK
<1>6. ReleasedOwedByNone'
  BY <1>1, <1>2, <1>3 DEF ReleasedOwedByNone, Released, TypeOK
<1>7. QueuedOnce' /\ HeldOnce' /\ IdleUntilSpawned'
  BY <1>1, <1>2, <1>3 DEF QueuedOnce, HeldOnce, IdleUntilSpawned, TypeOK
<1>8. QED
  BY <1>4, <1>5, <1>6, <1>7

LEMMA SendStep ==
  ASSUME ComponentsAssumption, IInv, NEW c \in Component, Send(c)
  PROVE  IInv'
<1> USE DEF IInv
<1>1. /\ pc[c] = "sending"
      /\ UNCHANGED <<dagConfig, inDegreeMap, closed, queueOpen, executedCompCount, main,
                     todo, hand, starts, finished>>
  BY DEF Send, call
<1>2. CASE closed
  <2>1. crashed' = TRUE /\ UNCHANGED <<queue, pc>>
    BY <1>2 DEF Send
  <2>2. \A n : Queued(n)' <=> Queued(n)
    BY <2>1 DEF Queued
  <2>3. \A d, n : Holds(d, n)' <=> Holds(d, n)
    BY <1>1, <2>1 DEF Holds
  <2>4. TypeOK' /\ InDegreeCounts'
    BY <1>1, <2>1 DEF TypeOK, InDegreeCounts
  <2>5. OwedUntilFinished' /\ FinishedWhenReleasing'
    BY <1>1, <2>1 DEF OwedUntilFinished, Dependents, Adjacency, FinishedWhenReleasing
  <2>6. ReleasedOwedByNone' /\ QueuedOnce' /\ HeldOnce' /\ IdleUntilSpawned'
    BY <1>1, <2>1, <2>2, <2>3
       DEF ReleasedOwedByNone, Released, QueuedOnce, HeldOnce, IdleUntilSpawned
  <2>7. QED
    BY <2>4, <2>5, <2>6
<1>3. CASE ~closed
  <2>1. /\ queue' = Append(queue, hand[c])
        /\ pc' = [pc EXCEPT ![c] = IF hand[c] = TERMINAL_NODE THEN "exited" ELSE "releasing"]
        /\ UNCHANGED crashed
        /\ queue \in Seq(Item) /\ hand[c] \in Item
    BY <1>3 DEF Send, AfterOffer, TypeOK, Item
  <2>2. /\ queue' \in Seq(Item) /\ Len(queue) \in Nat /\ Len(queue') = Len(queue) + 1
        /\ \A i \in 1..Len(queue) : queue'[i] = queue[i]
        /\ queue'[Len(queue) + 1] = hand[c]
    BY <2>1, AppendFacts
  <2>3. \A n : Queued(n)' <=> Queued(n) \/ n = hand[c]
    BY <2>2 DEF Queued
  <2>4. \A d, n \in Component : Holds(d, n)' <=> Holds(d, n) /\ d # c
    BY <1>1, <2>1 DEF Holds, TypeOK
  <2>5. Holds(c, hand[c])
    BY <1>1 DEF Holds
  <2>6. TypeOK' /\ InDegreeCounts'
    BY <1>1, <2>1, <2>2 DEF TypeOK, InDegreeCounts, Item
  <2>7. OwedUntilFinished' /\ FinishedWhenReleasing'
    BY <1>1, <2>1 DEF OwedUntilFinished, Dependents, Adjacency, FinishedWhenReleasing, TypeOK
  <2>8. ReleasedOwedByNone'
    <3>1. \A n \in Component : Released(n)' => Released(n)
      BY <1>1, <2>1, <2>3, <2>4, <2>5 DEF Released, TypeOK
    <3>2. QED
      BY <1>1, <3>1 DEF ReleasedOwedByNone
  <2>9. QueuedOnce'
    <3>1. SUFFICES ASSUME NEW i \in 1..Len(queue'), NEW j \in 1..Len(queue'),
                          queue'[i] = queue'[j], queue'[i] # TERMINAL_NODE, i < j
                   PROVE  FALSE
      BY <2>2 DEF QueuedOnce
    <3>2. i \in 1..Len(queue) /\ queue'[i] = queue[i]
      BY <2>2, <3>1
    <3>3. j = Len(queue) + 1
      <4>1. j \in 1..Len(queue) => queue'[j] = queue[j]
        BY <2>2
      <4>2. j \notin 1..Len(queue)
        BY <3>1, <3>2, <4>1 DEF QueuedOnce
      <4>3. QED
        BY <2>2, <4>2
    <3>4. queue[i] = hand[c] /\ hand[c] \in Component
      BY <2>1, <2>2, <3>1, <3>2, <3>3 DEF Item
    <3>5. QED
      BY <2>5, <3>2, <3>4 DEF HeldOnce, Queued
  <2>10. HeldOnce'
    <3>1. SUFFICES ASSUME NEW n \in Component, NEW d \in Component, Holds(d, n)'
                   PROVE  ~Queued(n)' /\ \A e \in Component : Holds(e, n)' => d = e
      BY DEF HeldOnce
    <3>2. Holds(d, n) /\ d # c
      BY <2>4, <3>1
    <3>3. n # hand[c]
      BY <2>5, <3>2 DEF HeldOnce
    <3>4. QED
      BY <2>3, <2>4, <3>2, <3>3 DEF HeldOnce
  <2>11. IdleUntilSpawned'
    BY <1>1, <2>1, <2>3, <2>4, <2>5 DEF IdleUntilSpawned, TypeOK
  <2>12. QED
    BY <2>6, <2>7, <2>8, <2>9, <2>10, <2>11
<1>4. QED
  BY <1>2, <1>3

LEMMA UpdateAndGetStep ==
  ASSUME ComponentsAssumption, IInv,
         NEW c \in Component, NEW d \in Component, UpdateAndGet(c, d)
  PROVE  IInv'
<1> USE DEF IInv
<1>1. /\ pc[c] = "releasing" /\ d \in todo[c]
      /\ todo' = [todo EXCEPT ![c] = @ \ {d}]
      /\ UNCHANGED <<dagConfig, queue, closed, queueOpen, executedCompCount, main, starts,
                     finished, crashed>>
  BY DEF UpdateAndGet, call
<1> DEFINE owing(n) == {x \in Component : n \in todo[x]}
<1>2. ASSUME NEW n \in Component
      PROVE  /\ IsFiniteSet(owing(n)) /\ Cardinality(owing(n)) \in Nat
             /\ owing(n)' = IF n = d THEN owing(n) \ {c} ELSE owing(n)
  <2>1. IsFiniteSet(owing(n))
    BY FS_Subset DEF ComponentsAssumption
  <2>2. owing(n)' = IF n = d THEN owing(n) \ {c} ELSE owing(n)
    BY <1>1 DEF TypeOK
  <2>3. QED
    BY <2>1, <2>2, FS_CardinalityType
<1>3. c \in owing(d)
  BY <1>1
<1>13. /\ \A n \in DOMAIN inDegreeMap : n \in Component /\ inDegreeMap[n] = Cardinality(owing(n))
       /\ (\A n \in DOMAIN inDegreeMap' : inDegreeMap'[n] = Cardinality(owing(n)')) => InDegreeCounts'
  BY DEF InDegreeCounts, TypeOK
<1> HIDE DEF owing
<1>14. /\ IsFiniteSet(owing(d)')
       /\ Cardinality(owing(d)') = Cardinality(owing(d)) - 1
       /\ Cardinality(owing(d)') \in Nat
       /\ \A n \in Component \ {d} : Cardinality(owing(n)') = Cardinality(owing(n))
  <2>1. /\ IsFiniteSet(owing(d) \ {c})
        /\ Cardinality(owing(d) \ {c}) = Cardinality(owing(d)) - 1
    BY <1>2, <1>3, FS_RemoveElement
  <2>2. Cardinality(owing(d) \ {c}) \in Nat
    BY <2>1, FS_CardinalityType
  <2>3. owing(d)' = owing(d) \ {c} /\ \A n \in Component \ {d} : owing(n)' = owing(n)
    BY <1>2
  <2>4. QED
    BY <2>1, <2>2, <2>3
\* d has not been released: c still owes it a discount.
<1>4. /\ ~Queued(d) /\ pc[d] = "idle" /\ \A x \in Component : ~Holds(x, d)
  BY <1>1 DEF ReleasedOwedByNone, Released
<1>5. \A n : Queued(n)' <=> Queued(n)
  BY <1>1 DEF Queued
<1>6. \A n, x \in Component : n \notin todo[x] => n \notin todo'[x]
  BY <1>1 DEF TypeOK
<1>7. OwedUntilFinished'
  BY <1>1 DEF OwedUntilFinished, Dependents, Adjacency, FinishedWhenReleasing, TypeOK
<1>8. QueuedOnce'
  BY <1>1 DEF QueuedOnce
<1>9. CASE d \in DOMAIN inDegreeMap /\ ReachedZero(inDegreeMap[d] - 1)
  <2>1. /\ inDegreeMap' = [inDegreeMap EXCEPT ![d] = @ - 1]
        /\ pc' = [pc EXCEPT ![c] = "offering"] /\ hand' = [hand EXCEPT ![c] = d]
    BY <1>9 DEF UpdateAndGet, Discounted
  <2>2. inDegreeMap'[d] = 0 /\ \A x \in Component : d \notin todo'[x]
    <3>1. inDegreeMap[d] = Cardinality(owing(d)) /\ inDegreeMap[d] - 1 = 0
      BY <1>9, <1>13 DEF ReachedZero
    <3>2. owing(d)' = {}
      BY <1>14, <3>1, FS_EmptySet
    <3>3. QED
      BY <1>9, <2>1, <3>1, <3>2 DEF owing
  <2>3. \A n, x \in Component : Holds(x, n)' <=> (x = c /\ n = d) \/ (Holds(x, n) /\ x # c)
    BY <1>1, <2>1 DEF Holds, TypeOK
  <2>4. InDegreeCounts'
    BY <1>9, <1>13, <1>14, <2>1 DEF TypeOK
  <2>5. TypeOK'
    BY <1>1, <1>9, <2>1, <2>2 DEF TypeOK
  <2>6. FinishedWhenReleasing'
    BY <1>1, <2>1 DEF FinishedWhenReleasing, TypeOK
  <2>7. ReleasedOwedByNone'
    <3>1. SUFFICES ASSUME NEW n \in Component, Released(n)', NEW x \in Component
                   PROVE  n \notin todo'[x]
      BY DEF ReleasedOwedByNone
    <3>2. n = d \/ Released(n)
      BY <1>1, <1>5, <2>1, <2>3, <3>1 DEF Released, TypeOK
    <3>3. QED
      BY <1>6, <2>2, <3>2 DEF ReleasedOwedByNone
  <2>8. HeldOnce'
    BY <1>4, <1>5, <2>3 DEF HeldOnce
  <2>9. IdleUntilSpawned'
    BY <1>1, <1>4, <1>5, <2>1, <2>3 DEF IdleUntilSpawned, TypeOK
  <2>10. QED
    BY <1>7, <1>8, <2>4, <2>5, <2>6, <2>7, <2>8, <2>9
<1>10. CASE ~(d \in DOMAIN inDegreeMap /\ ReachedZero(inDegreeMap[d] - 1))
  <2>1. /\ inDegreeMap' = IF d \in DOMAIN inDegreeMap
                            THEN [inDegreeMap EXCEPT ![d] = @ - 1] ELSE inDegreeMap
        /\ UNCHANGED <<pc, hand>>
    BY <1>10 DEF UpdateAndGet, Discounted
  <2>2. \A x, n : Holds(x, n)' <=> Holds(x, n)
    BY <2>1 DEF Holds
  <2>3. InDegreeCounts'
    BY <1>13, <1>14, <2>1 DEF TypeOK
  <2>4. TypeOK'
    <3>1. d \in DOMAIN inDegreeMap => inDegreeMap[d] - 1 \in Nat
      BY <1>13, <1>14
    <3>2. QED
      BY <1>1, <2>1, <3>1 DEF TypeOK
  <2>5. FinishedWhenReleasing'
    BY <1>1, <2>1 DEF FinishedWhenReleasing
  <2>6. ReleasedOwedByNone'
    <3>1. \A n \in Component : Released(n)' => Released(n)
      BY <1>5, <2>1, <2>2 DEF Released
    <3>2. QED
      BY <1>6, <3>1 DEF ReleasedOwedByNone
  <2>7. HeldOnce' /\ IdleUntilSpawned'
    BY <1>1, <1>5, <2>1, <2>2 DEF HeldOnce, IdleUntilSpawned
  <2>8. QED
    BY <1>7, <1>8, <2>3, <2>4, <2>5, <2>6, <2>7
<1>11. QED
  BY <1>9, <1>10

-----------------------------------------------------------------------------
\* Every step of executeDag preserves the inductive invariant.
THEOREM StepInvariant ==
  ASSUME ComponentsAssumption, IInv, [Next]_vars
  PROVE  IInv'
<1>1. CASE Caller
  BY <1>1, ReceiveTerminalStep, SpawnStep DEF Caller
<1>2. ASSUME NEW c \in Component, Goroutine(c)
      PROVE  IInv'
  BY <1>2, BeginRunStep, EndRunStep, UpdateAndGetStep, EndReleaseStep, CheckQueueOpenStep,
     SendStep DEF Goroutine
<1>3. CASE UNCHANGED vars
  BY <1>3 DEF vars, call, IInv, TypeOK, InDegreeCounts, OwedUntilFinished, Dependents,
     Adjacency, FinishedWhenReleasing, ReleasedOwedByNone, Released, QueuedOnce, HeldOnce,
     IdleUntilSpawned, Holds, Queued
<1>4. QED
  BY <1>1, <1>2, <1>3 DEF Next, Over

\* executeDag's state keeps its types; in particular no in-degree goes below zero.
THEOREM TypeCorrect == Spec => []TypeOK
<1>1. Init => IInv
  BY InitInvariant, ComponentsAssumption
<1>2. IInv /\ [Next]_vars => IInv'
  BY StepInvariant, ComponentsAssumption
<1>3. IInv => TypeOK
  BY DEF IInv
<1>4. QED
  BY <1>1, <1>2, <1>3, PTL DEF Spec

\* The in-degree of a component is always the number of dependencies that have
\* still to discount it.
THEOREM DiscountsNeverLost == Spec => []InDegreeCounts
<1>1. Init => IInv
  BY InitInvariant, ComponentsAssumption
<1>2. IInv /\ [Next]_vars => IInv'
  BY StepInvariant, ComponentsAssumption
<1>3. IInv => InDegreeCounts
  BY DEF IInv
<1>4. QED
  BY <1>1, <1>2, <1>3, PTL DEF Spec

\* A component that runs or has run was released, so nobody owes it a discount;
\* a dependency that had not finished would still owe it one.
LEMMA InvariantOrders ==
  ASSUME IInv
  PROVE  DependenciesFirst
<1>1. SUFFICES ASSUME NEW c \in Component, pc[c] = "running" \/ c \in finished,
                      NEW d \in DependenciesOf(dagConfig, c)
               PROVE  d \in finished
  BY DEF DependenciesFirst
<1>2. d \in Component /\ c \in Dependents(d)
  BY <1>1, TopologyNames, ComponentsAssumption DEF IInv, TypeOK
<1>3. Released(c)
  BY <1>1 DEF IInv, FinishedWhenReleasing, Released
<1>4. c \notin todo[d]
  BY <1>2, <1>3 DEF IInv, ReleasedOwedByNone
<1>5. QED
  BY <1>2, <1>4 DEF IInv, OwedUntilFinished

\* A component is run only after all its dependencies have finished, for every
\* configuration (with several roots, too) and every interleaving.
THEOREM DependenciesAlwaysFirst == Spec => []DependenciesFirst
<1>1. Init => IInv
  BY InitInvariant, ComponentsAssumption
<1>2. IInv /\ [Next]_vars => IInv'
  BY StepInvariant, ComponentsAssumption
<1>3. QED
  BY <1>1, <1>2, InvariantOrders, PTL DEF Spec

\* No component is ever given a second goroutine.
THEOREM NeverStartedTwice == Spec => []StartedAtMostOnce
<1>1. Init => IInv
  BY InitInvariant, ComponentsAssumption
<1>2. IInv /\ [Next]_vars => IInv'
  BY StepInvariant, ComponentsAssumption
<1>3. IInv => StartedAtMostOnce
  BY DEF IInv, IdleUntilSpawned, StartedAtMostOnce
<1>4. QED
  BY <1>1, <1>2, <1>3, PTL DEF Spec

-----------------------------------------------------------------------------
(***************************************************************************)
(* One root.  What follows is about a call whose configuration has a       *)
(* single component without dependencies.                                  *)
(***************************************************************************)
LEMMA SingleRootCount ==
  ASSUME ComponentsAssumption, dagConfig \in DagConfigs, SingleRooted(dagConfig)
  PROVE  /\ TotalCompCount = Cardinality(Nodes)
         /\ Nodes = NodesOf(dagConfig) /\ Nodes \subseteq Component
         /\ Nodes \subseteq AbstractComponents(dagConfig)
         /\ Roots \subseteq Nodes
         /\ \A c \in Component : Dependents(c) \subseteq Nodes
<1>1. /\ Nodes = NodesOf(dagConfig) /\ Cardinality(Roots) = 1
      /\ Nodes = Roots \cup NonZeroInDegree(Adjacency)
      /\ Roots \cap NonZeroInDegree(Adjacency) = {}
  BY DEF SingleRooted, Adjacency, Nodes, Roots, ZeroInDegreeComponents
<1>2. /\ NonZeroInDegree(Adjacency) \subseteq Component /\ Nodes \subseteq Component
      /\ IsFiniteSet(Roots) /\ IsFiniteSet(NonZeroInDegree(Adjacency))
  BY <1>1, TopologyNames, FS_Subset DEF ComponentsAssumption
<1>3. PICK r : Roots = {r}
  BY <1>1, <1>2, FS_Singleton
<1>4. Cardinality(Nodes) = Cardinality(NonZeroInDegree(Adjacency)) + 1
  <2>1. Nodes = NonZeroInDegree(Adjacency) \cup {r} /\ r \notin NonZeroInDegree(Adjacency)
    BY <1>1, <1>3
  <2>2. QED
    BY <1>2, <2>1, FS_AddElement
<1>5. NonZeroInDegree(Adjacency) \subseteq DOMAIN dagConfig
  BY DEF NonZeroInDegree, Adjacency, ComponentAdjacencyMap
<1>6. \A c \in Component : Dependents(c) \subseteq Nodes
  BY <1>1 DEF Dependents, NonZeroInDegree
<1>7. QED
  BY <1>1, <1>2, <1>4, <1>5, <1>6 DEF TotalCompCount, AbstractComponents, Roots, Adjacency

LEMMA TerminalsFinite ==
  ASSUME NEW S, NEW q \in Seq(S)
  PROVE  IsFiniteSet(TerminalPositions(q)) /\ Cardinality(TerminalPositions(q)) \in Nat
<1>1. Len(q) \in Nat
  BY LenProperties
<1>2. IsFiniteSet(1..Len(q)) /\ TerminalPositions(q) \subseteq 1..Len(q)
  BY <1>1, FS_Interval DEF TerminalPositions
<1>3. QED
  BY <1>2, FS_Subset, FS_CardinalityType

\* Receiving takes one terminal node out of the channel, or none.
LEMMA TailTerminals ==
  ASSUME NEW S, NEW q \in Seq(S), q # <<>>
  PROVE  Cardinality(TerminalPositions(Tail(q))) =
           IF Head(q) = TERMINAL_NODE THEN Cardinality(TerminalPositions(q)) - 1
           ELSE Cardinality(TerminalPositions(q))
<1> DEFINE A == TerminalPositions(Tail(q))
           B == TerminalPositions(q) \ {1}
           f == [i \in A |-> i + 1]
<1>1. /\ Len(q) \in Nat \ {0} /\ Head(q) = q[1] /\ Len(Tail(q)) = Len(q) - 1
      /\ Tail(q) \in Seq(S)
      /\ \A i \in 1..(Len(q) - 1) : Tail(q)[i] = q[i + 1]
  BY TailFacts
<1>2. \A i \in A : i \in 1..(Len(q) - 1) /\ q[i + 1] = TERMINAL_NODE
  BY <1>1 DEF TerminalPositions
<1>3. f \in [A -> B]
  BY <1>1, <1>2 DEF TerminalPositions
<1>4. \A i, j \in A : f[i] = f[j] => i = j
  BY <1>2
<1>5. \A b \in B : \E i \in A : f[i] = b
  <2>1. SUFFICES ASSUME NEW b \in B
                 PROVE  b - 1 \in A /\ f[b - 1] = b
    OBVIOUS
  <2>2. b \in 2..Len(q) /\ q[b] = TERMINAL_NODE
    BY <1>1 DEF TerminalPositions
  <2>3. b - 1 \in 1..(Len(q) - 1) /\ (b - 1) + 1 = b
    BY <1>1, <2>2
  <2>4. Tail(q)[b - 1] = TERMINAL_NODE
    BY <1>1, <2>2, <2>3
  <2>5. b - 1 \in A
    BY <1>1, <2>3, <2>4 DEF TerminalPositions
  <2>6. QED
    BY <2>3, <2>5
<1>6. ExistsBijection(A, B)
  <2>1. f \in Injection(A, B) /\ f \in Surjection(A, B)
    BY <1>3, <1>4, <1>5 DEF Injection, Surjection, IsInjective
  <2>2. QED
    BY <2>1 DEF ExistsBijection, Bijection
<1>7. IsFiniteSet(A) /\ IsFiniteSet(TerminalPositions(q))
  BY <1>1, TerminalsFinite
<1>8. Cardinality(A) = Cardinality(B)
  BY <1>6, <1>7, FS_Bijection
<1>9. 1 \in TerminalPositions(q) <=> Head(q) = TERMINAL_NODE
  BY <1>1 DEF TerminalPositions
<1>10. QED
  BY <1>7, <1>8, <1>9, FS_RemoveElement

\* A send of a terminal node puts one into the channel, any other send none.
LEMMA AppendTerminals ==
  ASSUME NEW S, NEW q \in Seq(S), NEW e \in S
  PROVE  Cardinality(TerminalPositions(Append(q, e))) =
           IF e = TERMINAL_NODE THEN Cardinality(TerminalPositions(q)) + 1
           ELSE Cardinality(TerminalPositions(q))
<1>1. /\ Len(q) \in Nat /\ Len(Append(q, e)) = Len(q) + 1
      /\ \A i \in 1..Len(q) : Append(q, e)[i] = q[i]
      /\ Append(q, e)[Len(q) + 1] = e
  BY AppendFacts
<1>2. TerminalPositions(Append(q, e)) =
        IF e = TERMINAL_NODE THEN TerminalPositions(q) \cup {Len(q) + 1}
        ELSE TerminalPositions(q)
  BY <1>1 DEF TerminalPositions
<1>3. Len(q) + 1 \notin TerminalPositions(q)
  BY <1>1 DEF TerminalPositions
<1>4. QED
  BY <1>2, <1>3, TerminalsFinite, FS_AddElement

LEMMA InitRooted ==
  ASSUME ComponentsAssumption, Init, SingleRooted(dagConfig)
  PROVE  RInv
<1>1. IInv /\ dagConfig \in DagConfigs
  BY InitInvariant DEF Init
<1>2. \A c, n \in Component : pc[c] = "idle" /\ ~Holds(c, n) /\ todo[c] = Dependents(c)
  BY DEF Init, Holds
<1>3. \A i \in 1..Len(queue) : queue[i] \in Roots
  BY <1>1, ListingIsQueue DEF Init
<1>4. ClosedMeansQuiescent /\ ReturnedMeansDone /\ ExitedAreFinished
  BY <1>2 DEF Init, ClosedMeansQuiescent, ReturnedMeansDone, ExitedAreFinished
<1>5. ReleasedAreNodes
  BY <1>1, <1>2, <1>3, SingleRootCount DEF ReleasedAreNodes, Released, Queued
<1>6. TerminalsAccounted
  <2>1. TerminalPositions(queue) = {} /\ Exited = {}
    BY <1>1, <1>2, <1>3, TopologyNames DEF TerminalPositions, Exited, ComponentsAssumption
  <2>2. executedCompCount = 0
    BY DEF Init
  <2>3. QED
    BY <2>1, <2>2, FS_EmptySet DEF TerminalsAccounted
<1>7. QED
  BY <1>1, <1>4, <1>5, <1>6 DEF RInv

\* Only nodes exit, and nothing outside the topology is ever started.
LEMMA ExitedFacts ==
  ASSUME ComponentsAssumption, RInv, SingleRooted(dagConfig)
  PROVE  /\ Exited \subseteq Nodes
         /\ IsFiniteSet(Exited) /\ Cardinality(Exited) \in Nat
         /\ IsFiniteSet(Nodes) /\ Cardinality(Nodes) \in Nat
         /\ \A c \in Component \ Nodes : pc[c] = "idle"
         /\ executedCompCount \in Nat /\ queue \in Seq(Item)
         /\ dagConfig \in DagConfigs
<1>1. dagConfig \in DagConfigs /\ executedCompCount \in Nat /\ queue \in Seq(Item)
  BY DEF RInv, IInv, TypeOK, Item
<1>2. Nodes \subseteq Component /\ IsFiniteSet(Nodes)
  BY <1>1, SingleRootCount, FS_Subset DEF ComponentsAssumption
<1>3. \A c \in Component : pc[c] # "idle" => c \in Nodes
  BY DEF RInv, ReleasedAreNodes, Released
<1>4. Exited \subseteq Nodes
  BY <1>3 DEF Exited
<1>5. QED
  BY <1>1, <1>2, <1>3, <1>4, FS_Subset, FS_CardinalityType

LEMMA ReceiveTerminalRooted ==
  ASSUME ComponentsAssumption, RInv, SingleRooted(dagConfig), ReceiveTerminal
  PROVE  RInv'
<1>1. IInv'
  BY ReceiveTerminalStep DEF RInv
<1>2. /\ queue \in Seq(Item) /\ queue # <<>> /\ queue' = Tail(queue)
      /\ Head(queue) = TERMINAL_NODE /\ executedCompCount' = executedCompCount + 1
      /\ UNCHANGED <<dagConfig, inDegreeMap, pc, todo, hand, starts, finished, crashed>>
  BY ExitedFacts DEF ReceiveTerminal
<1>3. /\ Cardinality(TerminalPositions(queue')) = Cardinality(TerminalPositions(queue)) - 1
      /\ Cardinality(TerminalPositions(queue')) \in Nat
      /\ Cardinality(TerminalPositions(queue)) \in Nat
  BY <1>1, <1>2, TailTerminals, TerminalsFinite DEF IInv, TypeOK, Item
<1>4. Exited' = Exited /\ Nodes' = Nodes
  BY <1>2 DEF Exited, Nodes, Adjacency
<1>5. TerminalsAccounted'
  BY <1>2, <1>3, <1>4, ExitedFacts DEF TerminalsAccounted, RInv
<1>6. ReleasedAreNodes' /\ ExitedAreFinished'
  <2>1. \A n : Queued(n)' => Queued(n)
    BY <1>2, TailFacts DEF Queued
  <2>2. \A c \in Component : Released(c)' => Released(c)
    BY <1>2, <2>1 DEF Released, Holds
  <2>3. QED
    BY <1>2, <1>4, <2>2 DEF RInv, ReleasedAreNodes, ExitedAreFinished, Dependents, Adjacency
<1>7. CASE executedCompCount + 1 = TotalCompCount
  <2>1. closed' = TRUE /\ main' = "returned"
    BY <1>7 DEF ReceiveTerminal
  <2>2. Cardinality(Exited) >= Cardinality(Nodes)
    BY <1>3, <1>7, ExitedFacts, SingleRootCount DEF TerminalsAccounted, RInv
  <2>3. Exited = Nodes
    BY <2>2, ExitedFacts, FS_Subset
  <2>4. \A c \in Component : pc[c] \in {"idle", "exited"}
    BY <2>3, ExitedFacts DEF Exited
  <2>5. QED
    BY <1>1, <1>2, <1>4, <1>5, <1>6, <2>1, <2>3, <2>4
       DEF RInv, ClosedMeansQuiescent, ReturnedMeansDone
<1>8. CASE executedCompCount + 1 # TotalCompCount
  <2>1. closed' = closed /\ main' = main
    BY <1>8 DEF ReceiveTerminal, RInv, IInv, TypeOK
  <2>2. QED
    BY <1>1, <1>2, <1>4, <1>5, <1>6, <2>1 DEF RInv, ClosedMeansQuiescent, ReturnedMeansDone
<1>9. QED
  BY <1>7, <1>8

LEMMA SpawnRooted ==
  ASSUME ComponentsAssumption, RInv, SingleRooted(dagConfig), Spawn
  PROVE  RInv'
<1>1. IInv' /\ IInv
  BY SpawnStep DEF RInv
<1>2. /\ queue \in Seq(Item) /\ queue # <<>> /\ queue' = Tail(queue)
      /\ Head(queue) # TERMINAL_NODE /\ Head(queue) \in Component
      /\ pc' = [pc EXCEPT ![Head(queue)] = "spawned"]
      /\ UNCHANGED <<dagConfig, inDegreeMap, closed, executedCompCount, main, todo, hand,
                     finished, crashed>>
  BY TailFacts DEF RInv, IInv, TypeOK, Item, Spawn, call
<1>3. Queued(Head(queue)) /\ \A n : Queued(n)' => Queued(n)
  BY <1>2, TailFacts DEF Queued
<1>4. pc[Head(queue)] = "idle"
  BY <1>1, <1>2, <1>3 DEF IInv, IdleUntilSpawned
<1>5. Exited' = Exited /\ Nodes' = Nodes
  BY <1>1, <1>2, <1>4 DEF Exited, Nodes, Adjacency, IInv, TypeOK
<1>6. ~closed
  BY DEF Spawn, RInv, ReturnedMeansDone
<1>7. TerminalsAccounted'
  BY <1>2, <1>5, TailTerminals DEF TerminalsAccounted, RInv
<1>8. ReleasedAreNodes'
  <2>1. \A c \in Component : Released(c)' => Released(c)
    BY <1>1, <1>2, <1>3 DEF Released, Holds, IInv, TypeOK
  <2>2. QED
    BY <1>2, <1>5, <2>1 DEF RInv, ReleasedAreNodes, Dependents, Adjacency
<1>9. ExitedAreFinished'
  BY <1>1, <1>2 DEF RInv, ExitedAreFinished, IInv, TypeOK
<1>10. QED
  BY <1>1, <1>2, <1>6, <1>7, <1>8, <1>9 DEF RInv, ClosedMeansQuiescent, ReturnedMeansDone

\* While a goroutine has a step to take the channel is open.
LEMMA ActiveMeansOpen ==
  ASSUME RInv, NEW c \in Component, pc[c] \notin {"idle", "exited"}
  PROVE  ~closed /\ main = "looping" /\ ~crashed
BY DEF RInv, IInv, TypeOK, ClosedMeansQuiescent, ReturnedMeansDone

\* A goroutine's step that sends nothing and exits only after its Run.
LEMMA QuietStepRooted ==
  ASSUME ComponentsAssumption, RInv, SingleRooted(dagConfig), IInv',
         NEW c \in Component, pc[c] \notin {"idle", "exited"},
         \A n \in Component \ {c} : pc'[n] = pc[n],
         pc'[c] = "exited" => c \in finished',
         finished \subseteq finished',
         \A n \in Component : Released(n)' => Released(n) \/ n \in Nodes,
         \A n \in Component : todo'[n] \subseteq todo[n],
         UNCHANGED <<dagConfig, queue, closed, executedCompCount, main, crashed>>
  PROVE  RInv'
<1>1. ~closed /\ main = "looping" /\ ~crashed
  BY ActiveMeansOpen
<1>2. Nodes' = Nodes /\ \A n : Dependents(n)' = Dependents(n)
  BY DEF Nodes, Adjacency, Dependents
<1>3. Exited \subseteq Exited'
  BY DEF Exited
<1>4. IsFiniteSet(Exited') /\ Cardinality(Exited') \in Nat
  BY FS_Subset, FS_CardinalityType DEF Exited, ComponentsAssumption
<1>5. Cardinality(Exited) <= Cardinality(Exited')
  BY <1>3, <1>4, FS_Subset
<1>6. TerminalsAccounted'
  <2>1. Cardinality(TerminalPositions(queue)) \in Nat
    BY ExitedFacts, TerminalsFinite
  <2>2. executedCompCount + Cardinality(TerminalPositions(queue)) <= Cardinality(Exited)
    BY DEF RInv, TerminalsAccounted
  <2>3. executedCompCount' + Cardinality(TerminalPositions(queue')) <= Cardinality(Exited')
    BY <1>4, <1>5, <2>1, <2>2, ExitedFacts
  <2>4. QED
    BY <2>3 DEF TerminalsAccounted
<1>7. ReleasedAreNodes' /\ ExitedAreFinished'
  BY <1>2 DEF RInv, ReleasedAreNodes, ExitedAreFinished
<1>8. QED
  BY <1>1, <1>6, <1>7 DEF RInv, ClosedMeansQuiescent, ReturnedMeansDone

LEMMA GoroutineRooted ==
  ASSUME ComponentsAssumption, RInv, SingleRooted(dagConfig),
         NEW c \in Component, Goroutine(c)
  PROVE  RInv'
<1>1. IInv /\ IInv'
  BY BeginRunStep, EndRunStep, UpdateAndGetStep, EndReleaseStep, CheckQueueOpenStep, SendStep
     DEF Goroutine, RInv
<1>2. pc \in [Component -> {"idle", "spawned", "running", "releasing", "offering", "sending",
                            "exited"}] /\ queue \in Seq(Item)
  BY <1>1 DEF IInv, TypeOK, Item
<1>3. CASE BeginRun(c)
  <2>1. c \in AbstractComponents(dagConfig)
    BY <1>3, ExitedFacts, SingleRootCount DEF BeginRun
  <2>2. \A n \in Component : Released(n)' => Released(n)
    BY <1>2, <1>3 DEF BeginRun, Released, Queued, Holds
  <2>3. QED
    BY <1>1, <1>2, <1>3, <2>1, <2>2, QuietStepRooted DEF BeginRun, call
<1>4. CASE EndRun(c)
  <2>1. \A n \in Component : Released(n)' => Released(n)
    BY <1>2, <1>4 DEF EndRun, Released, Queued, Holds
  <2>2. QED
    BY <1>1, <1>2, <1>4, <2>1, QuietStepRooted DEF EndRun, call
<1>5. ASSUME NEW d \in Component, UpdateAndGet(c, d)
      PROVE  RInv'
  <2>1. /\ pc[c] = "releasing" /\ d \in todo[c]
        /\ todo' = [todo EXCEPT ![c] = @ \ {d}]
        /\ \A n \in Component \ {c} : pc'[n] = pc[n]
        /\ pc'[c] \in {"releasing", "offering"}
        /\ \/ UNCHANGED <<pc, hand>>
           \/ hand' = [hand EXCEPT ![c] = d]
        /\ UNCHANGED <<dagConfig, queue, closed, executedCompCount, main, finished, crashed>>
    BY <1>2, <1>5 DEF UpdateAndGet, call
  <2>2. d \in Nodes
    BY <2>1, ExitedFacts, SingleRootCount DEF RInv, ReleasedAreNodes
  <2>3. \A n \in Component : Released(n)' => Released(n) \/ n = d
    BY <1>1, <1>2, <2>1 DEF Released, Queued, Holds, IInv, TypeOK
  <2>4. \A n \in Component : todo'[n] \subseteq todo[n]
    BY <1>1, <2>1 DEF IInv, TypeOK
  <2>5. QED
    BY <1>1, <2>1, <2>2, <2>3, <2>4, QuietStepRooted
<1>6. CASE EndRelease(c)
  <2>1. \A n \in Component : Released(n)' => Released(n)
    BY <1>1, <1>2, <1>6 DEF EndRelease, Released, Queued, Holds, IInv, TypeOK, ComponentsAssumption
  <2>2. QED
    BY <1>1, <1>2, <1>6, <2>1, QuietStepRooted DEF EndRelease, call
<1>7. CASE CheckQueueOpen(c)
  <2>1. /\ pc[c] = "offering" /\ c \in finished
        /\ \A n \in Component \ {c} : pc'[n] = pc[n]
        /\ UNCHANGED <<dagConfig, queue, closed, executedCompCount, main, todo, hand, finished,
                       crashed>>
    BY <1>1, <1>2, <1>7 DEF CheckQueueOpen, call, IInv, FinishedWhenReleasing
  <2>2. \A n \in Component : Released(n)' => Released(n)
    BY <1>2, <2>1 DEF Released, Queued, Holds
  <2>3. QED
    BY <1>1, <2>1, <2>2, QuietStepRooted
<1>8. CASE Send(c)
  <2>1. ~closed /\ main = "looping" /\ ~crashed
    BY <1>8, ActiveMeansOpen DEF Send
  <2>2. /\ pc[c] = "sending" /\ c \in finished /\ hand[c] \in Item
        /\ queue' = Append(queue, hand[c])
        /\ pc' = [pc EXCEPT ![c] = IF hand[c] = TERMINAL_NODE THEN "exited" ELSE "releasing"]
        /\ UNCHANGED <<dagConfig, closed, executedCompCount, main, todo, hand, finished, crashed>>
    BY <1>1, <1>8, <2>1 DEF Send, AfterOffer, call, IInv, FinishedWhenReleasing, TypeOK, Item
  <2>3. Nodes' = Nodes /\ \A n : Dependents(n)' = Dependents(n)
    BY <2>2 DEF Nodes, Adjacency, Dependents
  <2>4. Exited' = IF hand[c] = TERMINAL_NODE THEN Exited \cup {c} ELSE Exited
    BY <1>2, <2>2 DEF Exited
  <2>5. Cardinality(Exited') =
          IF hand[c] = TERMINAL_NODE THEN Cardinality(Exited) + 1 ELSE Cardinality(Exited)
    BY <2>2, <2>4, ExitedFacts, FS_AddElement DEF Exited
  <2>6. TerminalsAccounted'
    BY <1>2, <2>2, <2>5, ExitedFacts, AppendTerminals, TerminalsFinite
       DEF RInv, TerminalsAccounted
  <2>7. ReleasedAreNodes' /\ ExitedAreFinished'
    <3>1. \A n \in Component : Released(n)' => Released(n)
      BY <1>2, <2>2, AppendFacts DEF Released, Queued, Holds
    <3>2. QED
      BY <1>2, <2>2, <2>3, <3>1 DEF RInv, ReleasedAreNodes, ExitedAreFinished
  <2>8. QED
    BY <1>1, <2>1, <2>2, <2>6, <2>7 DEF RInv, ClosedMeansQuiescent, ReturnedMeansDone
<1>9. QED
  BY <1>3, <1>4, <1>5, <1>6, <1>7, <1>8 DEF Goroutine

\* Every step of a single-root call preserves its inductive invariant.
LEMMA StepRooted ==
  ASSUME ComponentsAssumption, RInv, SingleRooted(dagConfig), [Next]_vars
  PROVE  RInv' /\ SingleRooted(dagConfig)'
<1>1. CASE Caller
  BY <1>1, ReceiveTerminalRooted, SpawnRooted DEF Caller, ReceiveTerminal, Spawn
<1>2. ASSUME NEW c \in Component, Goroutine(c)
      PROVE  RInv' /\ SingleRooted(dagConfig)'
  <2>1. dagConfig' = dagConfig
    BY <1>2 DEF Goroutine, BeginRun, EndRun, UpdateAndGet, EndRelease, CheckQueueOpen, Send
  <2>2. QED
    BY <1>2, <2>1, GoroutineRooted
<1>3. CASE UNCHANGED vars
  <2>1. IInv'
    BY <1>3, StepInvariant DEF RInv
  <2>2. /\ Exited' = Exited /\ Nodes' = Nodes
        /\ \A n \in Component : Released(n)' <=> Released(n)
        /\ \A n : Dependents(n)' = Dependents(n)
    BY <1>3 DEF vars, call, Exited, Nodes, Adjacency, Released, Queued, Holds, Dependents
  <2>3. QED
    BY <1>3, <2>1, <2>2 DEF vars, call, RInv, ClosedMeansQuiescent, ReleasedAreNodes,
       ExitedAreFinished, TerminalsAccounted, TerminalPositions, ReturnedMeansDone
<1>4. QED
  BY <1>1, <1>2, <1>3 DEF Next, Over

LEMMA RootedInvariant ==
  ASSUME \A cfg \in DagConfigs : SingleRooted(cfg)
  PROVE  Spec => [](RInv /\ SingleRooted(dagConfig))
<1>1. Init => RInv /\ SingleRooted(dagConfig)
  BY InitRooted, ComponentsAssumption DEF Init
<1>2. RInv /\ SingleRooted(dagConfig) /\ [Next]_vars => (RInv /\ SingleRooted(dagConfig))'
  BY StepRooted, ComponentsAssumption
<1>3. QED
  BY <1>1, <1>2, PTL DEF Spec

\* With one root, nothing is sent on a closed channel and no goroutine is left
\* when the caller closes it and returns.
THEOREM ClosedAlwaysQuiescent ==
  ASSUME \A cfg \in DagConfigs : SingleRooted(cfg)
  PROVE  Spec => []ClosedMeansQuiescent
<1>1. RInv => ClosedMeansQuiescent
  BY DEF RInv
<1>2. QED
  BY <1>1, RootedInvariant, PTL

\* With one root, the call returns only after every component has finished.
THEOREM ReturnsOnlyWhenAllExecuted ==
  ASSUME \A cfg \in DagConfigs : SingleRooted(cfg)
  PROVE  Spec => []AllExecuted
<1>1. RInv /\ SingleRooted(dagConfig) => AllExecuted
  <2>1. SUFFICES ASSUME RInv, SingleRooted(dagConfig), main = "returned"
                 PROVE  finished = NodesOf(dagConfig)
    BY DEF AllExecuted
  <2>2. Exited = Nodes /\ Nodes = NodesOf(dagConfig)
    BY <2>1, ExitedFacts, SingleRootCount, ComponentsAssumption DEF RInv, ReturnedMeansDone
  <2>3. Exited \subseteq finished
    BY <2>1 DEF RInv, ExitedAreFinished, Exited
  <2>4. \A c \in finished : c \in Component /\ pc[c] # "idle"
    BY <2>1 DEF RInv, IInv, TypeOK, FinishedWhenReleasing
  <2>5. finished \subseteq Nodes
    BY <2>1, <2>4, ExitedFacts, ComponentsAssumption
  <2>6. QED
    BY <2>2, <2>3, <2>5
<1>2. QED
  BY <1>1, RootedInvariant, PTL

-----------------------------------------------------------------------------
(***************************************************************************)
(* executeDag implements TopologicalExecution (its safety part; that the   *)
(* execution makes progress is left to the model checker).                 *)
(***************************************************************************)
started == {c \in Component : starts[c] > 0}

LEMMA StartedIsSpawned ==
  ASSUME IInv
  PROVE  started = {c \in Component : pc[c] # "idle"}
BY DEF IInv, IdleUntilSpawned, TypeOK, started

\* The abstract module reads a configuration as DagTopology does.
LEMMA SameGraph ==
  /\ TE!NodesOf(dagConfig) = NodesOf(dagConfig)
  /\ \A c : TE!DependenciesOf(dagConfig, c) = DependenciesOf(dagConfig, c)
BY DEF TE!NodesOf, NodesOf, TE!DependenciesOf, DependenciesOf, TE!Listed, Listed

LEMMA SpawnBegins ==
  ASSUME ComponentsAssumption, RInv, SingleRooted(dagConfig), RInv', Spawn
  PROVE  \E c \in TE!NodesOf(dagConfig) : TE!Begin(c)
<1>1. PICK c \in Component : c = Head(queue)
  BY TailFacts DEF RInv, IInv, TypeOK, Spawn, Item
<1>2. Queued(c) /\ pc[c] = "idle" /\ pc' = [pc EXCEPT ![c] = "spawned"]
      /\ UNCHANGED <<dagConfig, finished, main>>
  BY <1>1, TailFacts DEF RInv, IInv, TypeOK, IdleUntilSpawned, Queued, Spawn, call
<1>3. c \in NodesOf(dagConfig)
  BY <1>2, ExitedFacts, SingleRootCount DEF RInv, ReleasedAreNodes, Released
<1>4. DependenciesOf(dagConfig, c) \subseteq finished
  <2>1. \A d \in Component : c \notin todo[d]
    BY <1>2 DEF RInv, IInv, ReleasedOwedByNone, Released
  <2>2. \A d \in DependenciesOf(dagConfig, c) : d \in Component /\ c \in Dependents(d)
    BY TopologyNames DEF RInv, IInv, TypeOK
  <2>3. QED
    BY <2>1, <2>2 DEF RInv, IInv, OwedUntilFinished
<1>5. c \notin started /\ started' = started \cup {c}
  <2>1. started = {x \in Component : pc[x] # "idle"}
    BY StartedIsSpawned DEF RInv
  <2>2. started' = {x \in Component : pc'[x] # "idle"}
    BY DEF RInv, IInv, IdleUntilSpawned, TypeOK, started
  <2>3. QED
    BY <1>2, <2>1, <2>2 DEF RInv, IInv, TypeOK
<1>6. QED
  BY <1>2, <1>3, <1>4, <1>5, SameGraph DEF TE!Begin, started

LEMMA StepImplements ==
  ASSUME ComponentsAssumption, RInv, SingleRooted(dagConfig), RInv', [Next]_vars
  PROVE  [TE!AbsNext]_(TE!absVars)
<1>1. CASE Spawn
  BY <1>1, SpawnBegins DEF TE!AbsNext
<1>2. CASE ReceiveTerminal
  <2>1. UNCHANGED <<dagConfig, starts, finished>> /\ main = "looping"
    BY <1>2 DEF ReceiveTerminal
  <2>2. CASE main' = "returned"
    <3>1. Exited' = Nodes' /\ Exited' = Exited /\ Nodes' = Nodes
      BY <1>2, <2>2 DEF RInv, ReturnedMeansDone, ReceiveTerminal, Exited, Nodes, Adjacency
    <3>2. Exited \subseteq finished /\ finished \subseteq Nodes /\ Nodes = NodesOf(dagConfig)
      <4>1. \A c \in finished : c \in Component /\ pc[c] # "idle"
        BY DEF RInv, IInv, TypeOK, FinishedWhenReleasing
      <4>2. QED
        BY <4>1, ExitedFacts, SingleRootCount DEF RInv, ExitedAreFinished, Exited
    <3>3. TE!Return
      BY <2>1, <2>2, <3>1, <3>2, SameGraph DEF TE!Return
    <3>4. QED
      BY <3>3 DEF TE!AbsNext
  <2>3. CASE main' # "returned"
    BY <2>1, <2>3 DEF TE!absVars
  <2>4. QED
    BY <2>2, <2>3
<1>3. ASSUME NEW c \in Component, EndRun(c)
      PROVE  TE!AbsNext
  <2>1. /\ pc[c] = "running" /\ finished' = finished \cup {c}
        /\ UNCHANGED <<dagConfig, starts, main>>
    BY <1>3 DEF EndRun, call
  <2>2. c \in NodesOf(dagConfig)
    BY <2>1, ExitedFacts, SingleRootCount
  <2>3. starts[c] > 0 /\ c \notin finished
    BY <2>1 DEF RInv, IInv, IdleUntilSpawned, FinishedWhenReleasing
  <2>4. TE!End(c)
    BY <2>1, <2>3 DEF TE!End
  <2>5. QED
    BY <2>2, <2>4, SameGraph DEF TE!AbsNext
<1>4. ASSUME NEW c \in Component, Goroutine(c), ~EndRun(c)
      PROVE  UNCHANGED TE!absVars
  BY <1>4 DEF Goroutine, BeginRun, UpdateAndGet, EndRelease, CheckQueueOpen, Send, call, TE!absVars
<1>5. CASE UNCHANGED vars
  BY <1>5 DEF vars, call, TE!absVars
<1>6. QED
  BY <1>1, <1>2, <1>3, <1>4, <1>5 DEF Next, Caller, Over

\* executeDag runs a single-root configuration as the execution it promises: a
\* component begins only when its dependencies have finished, and the call
\* returns only when all have.
THEOREM ImplementsTopologicalExecution ==
  ASSUME \A cfg \in DagConfigs : SingleRooted(cfg)
  PROVE  Spec => TE!AbsSafeSpec
<1>1. Init => TE!AbsInit
  <2>1. SUFFICES ASSUME Init
                 PROVE  TE!AbsInit
    OBVIOUS
  <2>2. dagConfig \in DagConfigs /\ finished = {} /\ main = "looping"
        /\ \A c \in Component : starts[c] = 0
    BY <2>1 DEF Init
  <2>3. QED
    BY <2>2 DEF TE!AbsInit
<1>2. (RInv /\ SingleRooted(dagConfig)) /\ (RInv /\ SingleRooted(dagConfig))' /\ [Next]_vars
        => [TE!AbsNext]_(TE!absVars)
  BY StepImplements, ComponentsAssumption
<1>3. QED
  BY <1>1, <1>2, RootedInvariant, PTL DEF Spec, TE!AbsSafeSpec

-----------------------------------------------------------------------------
(***************************************************************************)
(* The maps horizon builds have one root, for all pipelines: the           *)
(* hypothesis of the theorems about DagExecutor with one root.             *)
(***************************************************************************)

\* Every component of a pipeline lists something, and lists components of the
\* pipeline or the feature initializer.
LEMMA EveryComponentWaits ==
  ASSUME NEW p \in Pipelines, NEW c \in ComponentsOf(p)
  PROVE  /\ GetDagExecutionConfig(p)[c] # {}
         /\ GetDagExecutionConfig(p)[c] \subseteq ComponentsOf(p) \cup {FEATURE_INITIALIZER}
         /\ DOMAIN GetDagExecutionConfig(p) = ComponentsOf(p)
<1>1. SpecificDependencies(p, c) \subseteq ComponentsOf(p)
  BY PipelinesAssumption DEF SpecificDependencies, ProducersFor, ComponentsOf
<1>2. PredatorDependencies(p, c) \subseteq ComponentsOf(p)
  BY DEF PredatorDependencies, ComponentsOf
<1>3. QED
  BY <1>1, <1>2 DEF GetDagExecutionConfig, OrInitializer

\* Without a cycle, somebody waits for the feature initializer only, so it is
\* listed; it lists nothing itself; and everybody else lists something.
LEMMA AcyclicSingleRooted ==
  ASSUME NEW p \in Pipelines, Acyclic(GetDagExecutionConfig(p))
  PROVE  /\ SingleRooted(GetDagExecutionConfig(p))
         /\ ZeroInDegreeComponents(ComponentAdjacencyMap(GetDagExecutionConfig(p)))
              = {FEATURE_INITIALIZER}
<1> DEFINE cfg == GetDagExecutionConfig(p)
           adj == ComponentAdjacencyMap(cfg)
<1>1. /\ ComponentsOf(p) # {} /\ FEATURE_INITIALIZER \notin ComponentsOf(p)
      /\ DOMAIN cfg = ComponentsOf(p)
      /\ \A c \in DOMAIN cfg : cfg[c] # {}
      /\ \A c \in DOMAIN cfg : cfg[c] \subseteq DOMAIN cfg \cup {FEATURE_INITIALIZER}
  BY EveryComponentWaits, PipelinesAssumption
<1>2. Acyclic(cfg)
  OBVIOUS
<1> HIDE DEF cfg
<1>3. NodesOf(cfg) \subseteq DOMAIN cfg \cup {FEATURE_INITIALIZER}
  BY <1>1 DEF NodesOf, Listed
<1>4. FEATURE_INITIALIZER \in Listed(cfg)
  <2>1. PICK n \in DOMAIN cfg : DependenciesOf(cfg, n) \cap DOMAIN cfg = {}
    <3>1. DOMAIN cfg \in (SUBSET NodesOf(cfg)) \ {{}}
      BY <1>1 DEF NodesOf
    <3>2. QED
      BY <1>2, <3>1 DEF Acyclic
  <2>2. cfg[n] = {FEATURE_INITIALIZER}
    BY <1>1, <2>1 DEF DependenciesOf
  <2>3. QED
    BY <2>2 DEF Listed
<1>5. DOMAIN adj = Listed(cfg)
      /\ \A d \in Listed(cfg) : adj[d] = {k \in DOMAIN cfg : d \in cfg[k]}
  BY DEF ComponentAdjacencyMap
<1>6. NonZeroInDegree(adj) = DOMAIN cfg
  <2>1. NonZeroInDegree(adj) \subseteq DOMAIN cfg
    BY <1>5 DEF NonZeroInDegree
  <2>2. ASSUME NEW k \in DOMAIN cfg
        PROVE  k \in NonZeroInDegree(adj)
    <3>1. PICK d : d \in cfg[k]
      BY <1>1
    <3>2. d \in Listed(cfg)
      BY <3>1 DEF Listed
    <3>3. k \in adj[d]
      BY <1>5, <3>1, <3>2
    <3>4. QED
      BY <1>5, <3>2, <3>3 DEF NonZeroInDegree
  <2>3. QED
    BY <2>1, <2>2
<1>7. ZeroInDegreeComponents(adj) = {FEATURE_INITIALIZER}
  <2>1. ZeroInDegreeComponents(adj) = Listed(cfg) \ DOMAIN cfg
    BY <1>5, <1>6 DEF ZeroInDegreeComponents
  <2>2. Listed(cfg) \subseteq DOMAIN cfg \cup {FEATURE_INITIALIZER}
    BY <1>3 DEF NodesOf
  <2>3. QED
    BY <1>1, <1>4, <2>1, <2>2
<1>8. NodesOf(cfg) = DOMAIN adj \cup NonZeroInDegree(adj)
  BY <1>5, <1>6 DEF NodesOf
<1>9. SingleRooted(cfg)
  BY <1>7, <1>8, FS_Singleton DEF SingleRooted
<1>10. QED
  BY <1>7, <1>9 DEF cfg

\* What the model reaches: a built map is the one its request determines.
BuiltFromRequest ==
  /\ request # <<>> => \E p \in Pipelines : request = <<p>>
  /\ request # <<>> /\ stage # "requested" => dag = GetDagExecutionConfig(request[1])

\* Every map horizon builds that has no cycle has the feature initializer as
\* its one root.
THEOREM GeneratedAlwaysSingleRooted == OnboardingSpec => []GeneratedSingleRooted
<1>1. OnboardingInit => BuiltFromRequest
  BY DEF OnboardingInit, BuiltFromRequest
<1>2. BuiltFromRequest /\ [OnboardingNext]_onboardingVars => BuiltFromRequest'
  BY DEF BuiltFromRequest, OnboardingNext, Build, InitializeComponentDag, OnboardingOver, onboardingVars
<1>3. BuiltFromRequest => GeneratedSingleRooted
  BY AcyclicSingleRooted DEF BuiltFromRequest, GeneratedSingleRooted
<1>4. QED
  BY <1>1, <1>2, <1>3, PTL DEF OnboardingSpec

\* Every component the executor can receive is in the component map.
THEOREM ExecutablesAlwaysResolved == OnboardingSpec => []ExecutableComponentsResolved
<1> DEFINE Inv ==
      stage = "initialized" =>
        LET adj == ComponentAdjacencyMap(dag)
        IN  /\ topology.zeroInDegreeComponents = ZeroInDegreeComponents(adj)
            /\ topology.componentInDegreeMap = InDegreeMap(adj)
            /\ topology.abstractComponents = AbstractComponents(dag)
<1>1. OnboardingInit => Inv
  BY DEF OnboardingInit
<1>2. Inv /\ [OnboardingNext]_onboardingVars => Inv'
  BY DEF OnboardingNext, Build, InitializeComponentDag, OnboardingOver, onboardingVars
<1>3. Inv => ExecutableComponentsResolved
  <2>1. DOMAIN InDegreeMap(ComponentAdjacencyMap(dag)) \subseteq DOMAIN dag
    BY DEF InDegreeMap, NonZeroInDegree, ComponentAdjacencyMap
  <2>2. QED
    BY <2>1 DEF ExecutableComponentsResolved, AbstractComponents
<1>4. QED
  BY <1>1, <1>2, <1>3, PTL DEF OnboardingSpec

-----------------------------------------------------------------------------
(***************************************************************************)
(* Kahn's algorithm decides acyclicity, for every finite map.  KahnAt says *)
(* what its state is when the nodes of T have been taken off the queue:    *)
(* whatever lists a node of T is in T, T has no cycle, a degree counts the *)
(* nodes outside T that list the node, and the queue holds the nodes       *)
(* outside T that no node outside T lists.  The induction over the loop is *)
(* made with sets of naturals, the recursion is unfolded once.             *)
(***************************************************************************)
ListedBy(cfg, n) == {k \in DOMAIN cfg : n \in cfg[k]}

KahnAt(cfg, T, s) ==
  /\ T \subseteq NodesOf(cfg)
  /\ \A n \in T : ListedBy(cfg, n) \subseteq T
  /\ \A S \in (SUBSET T) \ {{}} : \E n \in S : DependenciesOf(cfg, n) \cap S = {}
  /\ s.degree = [n \in NodesOf(cfg) |-> Cardinality(ListedBy(cfg, n) \ T)]
  /\ s.queue = {n \in NodesOf(cfg) \ T : s.degree[n] = 0}

\* A set of naturals with 0 and, with each member below m, the next one.
LEMMA UpTo ==
  ASSUME NEW m \in Nat, NEW S, 0 \in S, \A i \in 0..m : i \in S /\ i < m => i + 1 \in S
  PROVE  \A i \in 0..m : i \in S
<1> DEFINE out == (0..m) \ S
<1>1. SUFFICES ASSUME out # {} PROVE FALSE
  OBVIOUS
<1>2. out \subseteq Nat
  OBVIOUS
<1> HIDE DEF out
<1>3. PICK x \in out : \A y \in out : ~ (<<y, x>> \in OpToRel(<, Nat))
  BY <1>1, <1>2, WFMin, NatLessThanWellFounded, Zenon
<1>4. \A y \in out : ~ (y < x)
  BY <1>2, <1>3, Zenon DEF OpToRel
<1>5. x \in 0..m /\ x \notin S
  BY DEF out
<1>6. x # 0
  BY <1>5
<1>7. x - 1 \in 0..m /\ x - 1 < m /\ x - 1 < x /\ (x - 1) + 1 = x
  BY <1>5, <1>6
<1>8. x - 1 \in S
  BY <1>4, <1>7 DEF out
<1>9. QED
  BY <1>5, <1>7, <1>8

\* Who lists a node is a node, and is finitely many.
LEMMA ListedByIs ==
  ASSUME NEW cfg, IsFiniteSet(NodesOf(cfg)), NEW n, NEW T
  PROVE  /\ ListedBy(cfg, n) \subseteq DOMAIN cfg /\ DOMAIN cfg \subseteq NodesOf(cfg)
         /\ IsFiniteSet(ListedBy(cfg, n) \ T)
         /\ Cardinality(ListedBy(cfg, n) \ T) \in Nat
         /\ Cardinality(ListedBy(cfg, n) \ T) = 0 <=> ListedBy(cfg, n) \subseteq T
<1>1. ListedBy(cfg, n) \subseteq DOMAIN cfg /\ DOMAIN cfg \subseteq NodesOf(cfg)
  BY DEF ListedBy, NodesOf
<1>2. ListedBy(cfg, n) \ T \in SUBSET NodesOf(cfg)
  BY <1>1
<1>3. IsFiniteSet(ListedBy(cfg, n) \ T)
  BY <1>2, FS_Subset
<1>4. Cardinality(ListedBy(cfg, n) \ T) \in Nat
  BY <1>3, FS_CardinalityType
<1>5. Cardinality(ListedBy(cfg, n) \ T) = 0 <=> ListedBy(cfg, n) \ T = {}
  BY <1>3, FS_EmptySet
<1>6. QED
  BY <1>1, <1>3, <1>4, <1>5

LEMMA KahnStarts ==
  ASSUME NEW cfg, IsFiniteSet(NodesOf(cfg))
  PROVE  KahnAt(cfg, {}, KahnInit(cfg))
<1> DEFINE s == KahnInit(cfg)
<1>1. \A n : ListedBy(cfg, n) \ {} = {k \in DOMAIN cfg : n \in cfg[k]}
  BY DEF ListedBy
<1>2. s.degree = [n \in NodesOf(cfg) |-> Cardinality(ListedBy(cfg, n) \ {})]
  BY <1>1 DEF KahnInit
<1>3. s.queue = {n \in NodesOf(cfg) : s.degree[n] = 0}
  BY DEF KahnInit
<1>4. QED
  BY <1>2, <1>3 DEF KahnAt

\* What a node lists has not been taken before the node itself.
LEMMA TakenBefore ==
  ASSUME NEW cfg, NEW T, NEW s, KahnAt(cfg, T, s), NEW u \in NodesOf(cfg) \ T
  PROVE  DependenciesOf(cfg, u) \cap T = {}
BY DEF KahnAt, ListedBy, DependenciesOf

\* The nodes taken have no cycle, and neither have they with u: u depends on
\* none of them, nor on itself.
LEMMA TakenAcyclic ==
  ASSUME NEW cfg, NEW T, NEW s, KahnAt(cfg, T, s), NEW u \in NodesOf(cfg) \ T,
         u \notin DependenciesOf(cfg, u), NEW S \in (SUBSET (T \cup {u})) \ {{}}
  PROVE  \E n \in S : DependenciesOf(cfg, n) \cap S = {}
<1>1. CASE u \in S
  <2>1. DependenciesOf(cfg, u) \cap S = {}
    BY TakenBefore
  <2>2. QED
    BY <1>1, <2>1
<1>2. CASE u \notin S
  <2>1. S \in (SUBSET T) \ {{}}
    BY <1>2
  <2>2. QED
    BY <2>1 DEF KahnAt
<1>3. QED
  BY <1>1, <1>2

LEMMA KahnSteps ==
  ASSUME NEW cfg, IsFiniteSet(NodesOf(cfg)), NEW T, NEW s, KahnAt(cfg, T, s), s.queue # {}
  PROVE  \E u \in NodesOf(cfg) \ T : KahnAt(cfg, T \cup {u}, KahnStep(cfg, s))
<1> DEFINE u == CHOOSE n \in s.queue : TRUE
           U == T \cup {u}
           r == KahnStep(cfg, s)
           degree == [n \in NodesOf(cfg) |->
                        IF n \in DependenciesOf(cfg, u) THEN s.degree[n] - 1 ELSE s.degree[n]]
<1>1. u \in s.queue
  OBVIOUS
<1>2. /\ r.degree = degree
      /\ r.queue = (s.queue \ {u}) \cup {n \in DependenciesOf(cfg, u) : degree[n] = 0}
  BY DEF KahnStep
<1> HIDE DEF u, r
<1>3. /\ T \subseteq NodesOf(cfg) /\ \A n \in T : ListedBy(cfg, n) \subseteq T
      /\ \A n \in NodesOf(cfg) : s.degree[n] = Cardinality(ListedBy(cfg, n) \ T)
      /\ s.queue = {n \in NodesOf(cfg) \ T : s.degree[n] = 0}
  BY DEF KahnAt
<1>4. u \in NodesOf(cfg) \ T /\ ListedBy(cfg, u) \subseteq T
  BY <1>1, <1>3, ListedByIs
<1>5. \A n : n \in DependenciesOf(cfg, u) <=> u \in ListedBy(cfg, n)
  BY DEF DependenciesOf, ListedBy
<1>6. DependenciesOf(cfg, u) \subseteq NodesOf(cfg)
  BY DEF DependenciesOf, NodesOf, Listed
<1>7. u \notin DependenciesOf(cfg, u)
  BY <1>4, <1>5
<1>8. DependenciesOf(cfg, u) \cap T = {}
  BY <1>4, TakenBefore
<1>9. \A n \in NodesOf(cfg) : degree[n] = Cardinality(ListedBy(cfg, n) \ U)
  <2>1. SUFFICES ASSUME NEW n \in NodesOf(cfg)
                 PROVE  degree[n] = Cardinality(ListedBy(cfg, n) \ U)
    OBVIOUS
  <2>2. ListedBy(cfg, n) \ U = (ListedBy(cfg, n) \ T) \ {u}
    OBVIOUS
  <2>3. Cardinality((ListedBy(cfg, n) \ T) \ {u})
          = IF u \in ListedBy(cfg, n) \ T THEN Cardinality(ListedBy(cfg, n) \ T) - 1
                                          ELSE Cardinality(ListedBy(cfg, n) \ T)
    BY ListedByIs, FS_RemoveElement
  <2>4. u \in ListedBy(cfg, n) \ T <=> n \in DependenciesOf(cfg, u)
    BY <1>4, <1>5
  <2>5. degree[n] = IF n \in DependenciesOf(cfg, u) THEN s.degree[n] - 1 ELSE s.degree[n]
    OBVIOUS
  <2> HIDE DEF degree, U
  <2>6. QED
    BY <1>3, <2>2, <2>3, <2>4, <2>5
<1>10. \A n \in NodesOf(cfg) \ DependenciesOf(cfg, u) : degree[n] = s.degree[n]
  OBVIOUS
<1>11. DOMAIN degree = NodesOf(cfg) /\ degree = [n \in NodesOf(cfg) |-> degree[n]]
  OBVIOUS
<1> HIDE DEF degree
<1>12. r.degree = [n \in NodesOf(cfg) |-> Cardinality(ListedBy(cfg, n) \ U)]
  BY <1>2, <1>9, <1>11
<1>13. r.queue = {n \in NodesOf(cfg) \ U : r.degree[n] = 0}
  <2>1. ASSUME NEW n \in r.queue PROVE n \in NodesOf(cfg) \ U /\ degree[n] = 0
    <3>1. CASE n \in s.queue /\ n # u
      <4>1. n \in NodesOf(cfg) \ U /\ s.degree[n] = 0
        BY <1>3, <3>1
      <4>2. ListedBy(cfg, n) \subseteq T
        BY <1>3, <4>1, ListedByIs
      <4>3. n \notin DependenciesOf(cfg, u)
        BY <1>4, <1>5, <4>2
      <4>4. QED
        BY <1>10, <4>1, <4>3
    <3>2. CASE n \in DependenciesOf(cfg, u) /\ degree[n] = 0
      BY <1>6, <1>7, <1>8, <3>2
    <3>3. QED
      BY <1>2, <3>1, <3>2
  <2>2. ASSUME NEW n \in NodesOf(cfg) \ U, degree[n] = 0 PROVE n \in r.queue
    <3>1. n \in NodesOf(cfg) \ T /\ n # u
      OBVIOUS
    <3>2. n \notin DependenciesOf(cfg, u) => n \in s.queue
      BY <1>3, <1>10, <2>2, <3>1
    <3>3. QED
      BY <1>2, <2>2, <3>1, <3>2
  <2>3. QED
    BY <1>2, <2>1, <2>2
<1>14. U \subseteq NodesOf(cfg) /\ \A n \in U : ListedBy(cfg, n) \subseteq U
  BY <1>3, <1>4
<1>15. \A S \in (SUBSET U) \ {{}} : \E n \in S : DependenciesOf(cfg, n) \cap S = {}
  BY <1>4, <1>7, TakenAcyclic
<1>16. KahnAt(cfg, U, r)
  BY <1>12, <1>13, <1>14, <1>15 DEF KahnAt
<1>17. QED
  BY <1>4, <1>16 DEF r

\* A set of nodes each of which is listed by one of the set has a cycle: were
\* it one of the least of its kind, its member that depends on none of them
\* could be left out.
LEMMA NoneListedForever ==
  ASSUME NEW cfg, IsFiniteSet(NodesOf(cfg)), Acyclic(cfg), NEW R \in SUBSET NodesOf(cfg),
         \A n \in R : ListedBy(cfg, n) \cap R # {}
  PROVE  R = {}
<1> DEFINE sets == {X \in (SUBSET R) \ {{}} : \A n \in X : ListedBy(cfg, n) \cap X # {}}
<1>1. SUFFICES ASSUME R # {} PROVE FALSE
  OBVIOUS
<1>2. R \in sets
  BY <1>1
<1>3. sets \subseteq FiniteSubsetsOf(R)
  <2>1. IsFiniteSet(R)
    BY FS_Subset
  <2>2. \A X \in SUBSET R : IsFiniteSet(X)
    BY <2>1, FS_Subset
  <2>3. QED
    BY <2>2 DEF FiniteSubsetsOf
<1>4. PICK X \in sets : \A Y \in sets : ~ (<<Y, X>> \in StrictSubsetOrdering(R))
  BY <1>2, <1>3, WFMin, FS_StrictSubsetOrderingWellFounded, Zenon
<1>5. X \in SUBSET R /\ X # {} /\ \A n \in X : ListedBy(cfg, n) \cap X # {}
  BY <1>4
<1>6. PICK x \in X : DependenciesOf(cfg, x) \cap X = {}
  BY <1>5 DEF Acyclic
<1>7. \A n \in X : x \notin ListedBy(cfg, n)
  BY <1>6 DEF ListedBy, DependenciesOf
<1> DEFINE Y == X \ {x}
<1>8. \A n \in X : ListedBy(cfg, n) \cap Y # {}
  BY <1>5, <1>7
<1>9. Y \in sets
  BY <1>5, <1>6, <1>8
<1>10. Y \in SUBSET R /\ X \in SUBSET R /\ Y \subseteq X /\ Y # X
  BY <1>5, <1>6
<1> HIDE DEF sets, Y
<1>11. <<Y, X>> \in StrictSubsetOrdering(R)
  BY <1>10 DEF StrictSubsetOrdering
<1>12. QED
  BY <1>4, <1>9, <1>11

\* When the queue is empty, the degrees left tell whether there is a cycle.
LEMMA KahnEnds ==
  ASSUME NEW cfg, IsFiniteSet(NodesOf(cfg)), NEW T, NEW s, KahnAt(cfg, T, s), s.queue = {}
  PROVE  (\A n \in NodesOf(cfg) : s.degree[n] = 0) <=> Acyclic(cfg)
<1>1. /\ T \subseteq NodesOf(cfg)
      /\ \A n \in NodesOf(cfg) : s.degree[n] = Cardinality(ListedBy(cfg, n) \ T)
      /\ s.queue = {n \in NodesOf(cfg) \ T : s.degree[n] = 0}
  BY DEF KahnAt
<1>2. ASSUME \A n \in NodesOf(cfg) : s.degree[n] = 0
      PROVE  Acyclic(cfg)
  <2>1. T = NodesOf(cfg)
    BY <1>1, <1>2
  <2>2. QED
    BY <2>1 DEF KahnAt, Acyclic
<1>3. ASSUME Acyclic(cfg), NEW n \in NodesOf(cfg)
      PROVE  s.degree[n] = 0
  <2> DEFINE R == NodesOf(cfg) \ T
  <2>1. \A m \in R : ListedBy(cfg, m) \cap R # {}
    <3>1. SUFFICES ASSUME NEW m \in R PROVE ListedBy(cfg, m) \cap R # {}
      OBVIOUS
    <3>2. s.degree[m] # 0
      BY <1>1
    <3>3. ~ (ListedBy(cfg, m) \subseteq T)
      BY <1>1, <3>2, ListedByIs
    <3>4. ListedBy(cfg, m) \subseteq NodesOf(cfg)
      BY ListedByIs
    <3>5. QED
      BY <3>3, <3>4
  <2>2. R = {}
    BY <1>3, <2>1, NoneListedForever
  <2>3. ListedBy(cfg, n) \subseteq T
    BY <2>2, ListedByIs
  <2>4. QED
    BY <1>1, <2>3, ListedByIs
<1>4. QED
  BY <1>2, <1>3

\* The run of the loop that IsValidDag speaks of exists: a run of m steps goes
\* on by one.
LEMMA KahnRuns ==
  ASSUME NEW cfg, NEW m \in Nat
  PROVE  \E run : run = [i \in 0..m |->
                           IF i = 0 THEN KahnInit(cfg)
                           ELSE IF run[i - 1].queue = {} THEN run[i - 1]
                                ELSE KahnStep(cfg, run[i - 1])]
<1> DEFINE Next1(s) == IF s.queue = {} THEN s ELSE KahnStep(cfg, s)
           IsRun(f, n) == f = [i \in 0..n |-> IF i = 0 THEN KahnInit(cfg) ELSE Next1(f[i - 1])]
           long == {n \in Nat : \E f : IsRun(f, n)}
<1>1. 0 \in long
  <2> DEFINE f == [i \in 0..0 |-> KahnInit(cfg)]
  <2>1. IsRun(f, 0)
    OBVIOUS
  <2>2. QED
    BY <2>1
<1>2. ASSUME NEW n \in 0..m, n \in long PROVE n + 1 \in long
  <2>1. PICK f : IsRun(f, n)
    BY <1>2
  <2> HIDE DEF Next1
  <2>2. \A i \in 0..n : f[i] = IF i = 0 THEN KahnInit(cfg) ELSE Next1(f[i - 1])
    BY <2>1
  <2> DEFINE g == [i \in 0..(n + 1) |-> IF i = n + 1 THEN Next1(f[n]) ELSE f[i]]
  <2>3. \A i \in 0..(n + 1) : g[i] = IF i = 0 THEN KahnInit(cfg) ELSE Next1(g[i - 1])
    <3>1. SUFFICES ASSUME NEW i \in 0..(n + 1)
                   PROVE  g[i] = IF i = 0 THEN KahnInit(cfg) ELSE Next1(g[i - 1])
      OBVIOUS
    <3>2. CASE i = n + 1
      <4>1. i # 0 /\ i - 1 = n /\ n \in 0..(n + 1) /\ n # n + 1
        BY <3>2
      <4>2. g[i] = Next1(f[n]) /\ g[n] = f[n]
        BY <3>2, <4>1
      <4>3. QED
        BY <4>1, <4>2
    <3>3. CASE i # n + 1
      <4>1. i \in 0..n
        BY <3>3
      <4>2. g[i] = f[i]
        BY <3>3
      <4>3. i # 0 => i - 1 \in 0..(n + 1) /\ i - 1 # n + 1
        BY <4>1
      <4>4. i # 0 => g[i - 1] = f[i - 1]
        BY <4>3
      <4>5. QED
        BY <2>2, <4>1, <4>2, <4>4
    <3>4. QED
      BY <3>2, <3>3
  <2>4. DOMAIN g = 0..(n + 1) /\ g = [i \in 0..(n + 1) |-> g[i]]
    OBVIOUS
  <2> HIDE DEF g
  <2>5. g = [i \in 0..(n + 1) |-> IF i = 0 THEN KahnInit(cfg) ELSE Next1(g[i - 1])]
    BY <2>3, <2>4
  <2>6. n + 1 \in Nat
    OBVIOUS
  <2>7. QED
    BY <2>5, <2>6
<1> HIDE DEF long
<1>3. m \in long
  <2>1. \A i \in 0..m : i \in long
    BY <1>1, <1>2, UpTo
  <2>2. QED
    BY <2>1
<1>4. QED
  BY <1>3 DEF long

\* IsValidDag, with the run named.
LEMMA ValidByRun ==
  ASSUME NEW cfg, IsFiniteSet(NodesOf(cfg))
  PROVE  \E run :
           /\ run[0] = KahnInit(cfg)
           /\ \A i \in 0..Cardinality(NodesOf(cfg)) : i # 0 =>
                run[i] = IF run[i - 1].queue = {} THEN run[i - 1] ELSE KahnStep(cfg, run[i - 1])
           /\ IsValidDag(cfg) <=>
                \A n \in NodesOf(cfg) : run[Cardinality(NodesOf(cfg))].degree[n] = 0
<1> DEFINE m == Cardinality(NodesOf(cfg))
           IsRun(f) == f = [i \in 0..m |->
                              IF i = 0 THEN KahnInit(cfg)
                              ELSE IF f[i - 1].queue = {} THEN f[i - 1]
                                   ELSE KahnStep(cfg, f[i - 1])]
           run == CHOOSE f : IsRun(f)
<1>1. m \in Nat
  BY FS_CardinalityType
<1>2. IsValidDag(cfg) <=> \A n \in NodesOf(cfg) : run[m].degree[n] = 0
  BY Zenon DEF IsValidDag
<1> HIDE DEF m
<1>3. IsRun(run)
  <2>1. \E f : IsRun(f)
    BY <1>1, KahnRuns, ZenonT(30)
  <2> HIDE DEF IsRun
  <2>2. QED
    BY <2>1, Zenon
<1> HIDE DEF run
<1>4. \A i \in 0..m : run[i] = IF i = 0 THEN KahnInit(cfg)
                              ELSE IF run[i - 1].queue = {} THEN run[i - 1]
                                   ELSE KahnStep(cfg, run[i - 1])
  BY <1>3
<1>5. run[0] = KahnInit(cfg)
  BY <1>1, <1>4
<1>6. \A i \in 0..m : i # 0 =>
        run[i] = IF run[i - 1].queue = {} THEN run[i - 1] ELSE KahnStep(cfg, run[i - 1])
  BY <1>4
<1>7. QED
  BY <1>2, <1>5, <1>6, Zenon DEF m

\* The validator accepts the maps without a cycle and no others: after i steps
\* i nodes have been taken, or the queue is empty (dagvalidator.go:7-44).
THEOREM ValidIffAcyclic ==
  ASSUME NEW cfg, IsFiniteSet(NodesOf(cfg))
  PROVE  IsValidDag(cfg) <=> Acyclic(cfg)
<1> DEFINE N == NodesOf(cfg)
           m == Cardinality(N)
<1>1. m \in Nat
  BY FS_CardinalityType
<1>2. PICK run :
        /\ run[0] = KahnInit(cfg)
        /\ \A i \in 0..m : i # 0 =>
             run[i] = IF run[i - 1].queue = {} THEN run[i - 1] ELSE KahnStep(cfg, run[i - 1])
        /\ IsValidDag(cfg) <=> \A n \in N : run[m].degree[n] = 0
  BY ValidByRun, Zenon
<1> DEFINE Taken(i) == \E T \in SUBSET N : KahnAt(cfg, T, run[i])
                                             /\ (run[i].queue = {} \/ Cardinality(T) = i)
           good == {i \in 0..m : Taken(i)}
<1>3. 0 \in good
  <2>1. KahnAt(cfg, {}, run[0]) /\ Cardinality({}) = 0
    BY <1>2, KahnStarts, FS_EmptySet
  <2>2. QED
    BY <1>1, <2>1
<1>4. ASSUME NEW i \in 0..m, i \in good, i < m PROVE i + 1 \in good
  <2>1. PICK T \in SUBSET N : KahnAt(cfg, T, run[i]) /\ (run[i].queue = {} \/ Cardinality(T) = i)
    BY <1>4
  <2>2. i + 1 \in 0..m /\ i + 1 # 0 /\ (i + 1) - 1 = i
    BY <1>1, <1>4
  <2>3. run[i + 1] = IF run[i].queue = {} THEN run[i] ELSE KahnStep(cfg, run[i])
    BY <1>2, <2>2
  <2>4. CASE run[i].queue = {}
    <3>1. run[i + 1] = run[i]
      BY <2>3, <2>4
    <3>2. Taken(i + 1)
      BY <2>1, <2>4, <3>1
    <3>3. QED
      BY <2>2, <3>2
  <2>5. CASE run[i].queue # {}
    <3>1. PICK u \in N \ T : KahnAt(cfg, T \cup {u}, KahnStep(cfg, run[i]))
      BY <2>1, <2>5, KahnSteps
    <3>2. T \cup {u} \in SUBSET N
      OBVIOUS
    <3>3. IsFiniteSet(T) /\ Cardinality(T) = i
      BY <2>1, <2>5, FS_Subset
    <3>4. Cardinality(T \cup {u}) = i + 1
      BY <3>1, <3>3, FS_AddElement
    <3>5. run[i + 1] = KahnStep(cfg, run[i])
      BY <2>3, <2>5
    <3>6. Taken(i + 1)
      BY <3>1, <3>2, <3>4, <3>5
    <3>7. QED
      BY <2>2, <3>6
  <2>6. QED
    BY <2>4, <2>5
<1> HIDE DEF good
<1>5. m \in good
  <2>1. \A i \in 0..m : i \in good
    BY <1>1, <1>3, <1>4, UpTo
  <2>2. QED
    BY <1>1, <2>1
<1>6. PICK T \in SUBSET N : KahnAt(cfg, T, run[m]) /\ (run[m].queue = {} \/ Cardinality(T) = m)
  BY <1>5 DEF good
<1>7. Cardinality(T) = m => T = N
  BY FS_Subset
<1>8. run[m].queue = {}
  BY <1>6, <1>7 DEF KahnAt
<1>9. (\A n \in N : run[m].degree[n] = 0) <=> Acyclic(cfg)
  BY <1>6, <1>8, KahnEnds
<1>10. QED
  BY <1>2, <1>9

-----------------------------------------------------------------------------
(***************************************************************************)
(* The two together: what InitializeComponentDag decides of a map, and     *)
(* what the executor makes of the maps horizon builds.                     *)
(***************************************************************************)

\* Go's maps are finite, and so are the maps built from them.
LEMMA BuiltIsFinite ==
  ASSUME NEW p \in Pipelines
  PROVE  IsFiniteSet(NodesOf(GetDagExecutionConfig(p)))
<1> DEFINE cfg == GetDagExecutionConfig(p)
<1>1. /\ DOMAIN cfg \subseteq ComponentsOf(p)
      /\ \A c \in DOMAIN cfg : cfg[c] \subseteq ComponentsOf(p) \cup {FEATURE_INITIALIZER}
  <2>1. DOMAIN cfg = ComponentsOf(p)
    BY DEF GetDagExecutionConfig
  <2>2. QED
    BY <2>1, EveryComponentWaits
<1> HIDE DEF cfg
<1>2. NodesOf(cfg) \in SUBSET (ComponentsOf(p) \cup {FEATURE_INITIALIZER})
  BY <1>1 DEF NodesOf, Listed
<1>3. IsFiniteSet(ComponentsOf(p))
  BY PipelinesAssumption
<1>4. IsFiniteSet(ComponentsOf(p) \cup {FEATURE_INITIALIZER})
  BY <1>3, FS_AddElement
<1>5. QED
  BY <1>2, <1>4, FS_Subset DEF cfg

\* What InitializeComponentDag has decided of a map, whoever wrote it.
DecidedByValidator ==
  /\ BuiltFromRequest
  /\ request = <<>> => stage # "requested" /\ dag \in HandWritten
  /\ stage \in {"initialized", "panicked"} => IsValidDag(dag)
  /\ stage = "rejected" => ~IsValidDag(dag)

LEMMA ValidatorDecides == OnboardingSpec => []DecidedByValidator
<1>1. OnboardingInit => DecidedByValidator
  BY DEF OnboardingInit, DecidedByValidator, BuiltFromRequest
<1>2. DecidedByValidator /\ [OnboardingNext]_onboardingVars => DecidedByValidator'
  <2>1. SUFFICES ASSUME DecidedByValidator, [OnboardingNext]_onboardingVars
                 PROVE  DecidedByValidator'
    OBVIOUS
  <2>2. BuiltFromRequest'
    BY <2>1 DEF DecidedByValidator, BuiltFromRequest, OnboardingNext, Build,
       InitializeComponentDag, OnboardingOver, onboardingVars
  <2>3. CASE Build
    BY <2>1, <2>2, <2>3 DEF DecidedByValidator, Build
  <2>4. CASE InitializeComponentDag
    <3>1. /\ UNCHANGED <<request, dag>> /\ stage = "built"
          /\ \/ IsValidDag(dag) /\ stage' \in {"initialized", "panicked"}
             \/ ~IsValidDag(dag) /\ stage' = "rejected"
      BY <2>4 DEF InitializeComponentDag
    <3>2. QED
      BY <2>1, <2>2, <3>1 DEF DecidedByValidator
  <2>5. CASE UNCHANGED onboardingVars
    BY <2>1, <2>2, <2>5 DEF DecidedByValidator, onboardingVars
  <2>6. QED
    BY <2>1, <2>3, <2>4, <2>5 DEF OnboardingNext, OnboardingOver
<1>3. QED
  BY <1>1, <1>2, PTL DEF OnboardingSpec

\* InitializeComponentDag accepts the maps without a cycle and rejects
\* those with one, whether horizon built them or somebody wrote them by hand.
THEOREM ValidatorAlwaysRight == OnboardingSpec => []KahnDecidesAcyclicity
<1>1. DecidedByValidator => KahnDecidesAcyclicity
  <2>1. SUFFICES ASSUME DecidedByValidator, stage \in {"initialized", "rejected", "panicked"}
                 PROVE  KahnDecidesAcyclicity
    BY DEF KahnDecidesAcyclicity
  <2>2. IsFiniteSet(NodesOf(dag))
    <3>1. CASE request = <<>>
      BY <2>1, <3>1, HandWrittenAssumption DEF DecidedByValidator
    <3>2. CASE request # <<>>
      <4>1. PICK p \in Pipelines : request = <<p>>
        BY <2>1, <3>2 DEF DecidedByValidator, BuiltFromRequest
      <4>2. dag = GetDagExecutionConfig(p)
        BY <2>1, <3>2, <4>1 DEF DecidedByValidator, BuiltFromRequest
      <4>3. QED
        BY <4>2, BuiltIsFinite
    <3>3. QED
      BY <3>1, <3>2
  <2>3. IsValidDag(dag) <=> Acyclic(dag)
    BY <2>2, ValidIffAcyclic
  <2>4. QED
    BY <2>1, <2>3 DEF DecidedByValidator, KahnDecidesAcyclicity
<1>2. QED
  BY <1>1, ValidatorDecides, PTL

\* From the pipeline to the executed call: given maps that horizon built and
\* the validator accepted, executeDag never sends on a closed channel, leaves
\* no goroutine behind, and returns only after every component has finished.
THEOREM GeneratedAlwaysExecuted ==
  ASSUME \A cfg \in DagConfigs :
           IsValidDag(cfg) /\ \E p \in Pipelines : cfg = GetDagExecutionConfig(p)
  PROVE  Spec => [](ClosedMeansQuiescent /\ AllExecuted)
<1>1. \A cfg \in DagConfigs : SingleRooted(cfg)
  <2>1. SUFFICES ASSUME NEW cfg \in DagConfigs PROVE SingleRooted(cfg)
    OBVIOUS
  <2>2. PICK p \in Pipelines : cfg = GetDagExecutionConfig(p)
    OBVIOUS
  <2>3. Acyclic(GetDagExecutionConfig(p))
    BY <2>2, BuiltIsFinite, ValidIffAcyclic
  <2>4. QED
    BY <2>2, <2>3, AcyclicSingleRooted
<1>2. (Spec => []ClosedMeansQuiescent) /\ (Spec => []AllExecuted)
  BY <1>1, ClosedAlwaysQuiescent, ReturnsOnlyWhenAllExecuted
<1>3. QED
  BY <1>2, PTL

=============================================================================
