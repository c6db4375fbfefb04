------------------------------ MODULE DagExecutor ------------------------------
(***************************************************************************)
(* executeDag of inferflow's dag-topology-executor: one call, with the     *)
(* receiving loop of the caller and one goroutine per component.           *)
(*                                                                         *)
(* The channel is a bounded FIFO queue whose capacity is the number of     *)
(* zero-in-degree components.  A goroutine runs its component, discounts   *)
(* the in-degree of each component that depends on it, sends those that    *)
(* reach zero, and sends TERMINAL_NODE last.  The loop spawns a goroutine  *)
(* per component it receives and counts terminal nodes; when the count     *)
(* reaches the total it closes the channel and returns.                    *)
(*                                                                         *)
(* queueOpen is a plain bool read by the goroutines and written by the     *)
(* loop without synchronisation.  A read that races with, or follows, the  *)
(* write may return either value.  A goroutine reads it in one step and    *)
(* sends in another.  A send on a closed channel panics in a goroutine     *)
(* nobody recovers from: the process is gone (crashed).                    *)
(***************************************************************************)
EXTENDS DagTopology, Sequences

CONSTANTS
  Component,      \* component names
  DagConfigs,     \* the configurations a call may be given
  TERMINAL_NODE   \* the marker a goroutine sends when it is done

ASSUME ComponentsAssumption ==
  /\ IsFiniteSet(Component)
  /\ TERMINAL_NODE \notin Component
  /\ \A cfg \in DagConfigs :
       DOMAIN cfg \subseteq Component /\ cfg \in [DOMAIN cfg -> SUBSET Component]

VARIABLES
  dagConfig,          \* the configuration this call was given
  inDegreeMap,        \* the ConcurrentMap of in-degrees still to be discounted
  queue, closed,      \* the channel
  queueOpen,          \* the shared flag
  executedCompCount,  \* terminal nodes received
  main,               \* the caller: "looping" or "returned"
  pc,                 \* where each component's goroutine is
  todo,               \* dependents its loop has still to discount
  hand,               \* what it is about to send
  starts,             \* how often a goroutine was spawned for the component
  finished,           \* components whose Run has returned
  crashed             \* a goroutine panicked

call  == <<queueOpen, executedCompCount, main>>
vars  == <<dagConfig, inDegreeMap, queue, closed, call, pc, todo, hand, starts,
           finished, crashed>>

Adjacency == ComponentAdjacencyMap(dagConfig)
Roots     == ZeroInDegreeComponents(Adjacency)
Nodes     == DOMAIN Adjacency \cup NonZeroInDegree(Adjacency)

Dependents(c) == IF c \in DOMAIN Adjacency THEN Adjacency[c] ELSE {}

\* Faulty variants: the root is not counted; only the roots are.
TotalWithoutRoot == Cardinality(NonZeroInDegree(Adjacency))
\* uint64(inDegreeMap.Size() + 1): the components that have a dependency, and one.
TotalCompCount == Cardinality(NonZeroInDegree(Adjacency)) + 1

Capacity == Cardinality(Roots)

\* UpdateAndGet's write, made under the map's lock; and a faulty variant that
\* does not store the new value.
DiscountedNotStored(map, d) == map
Discounted(map, d) == [map EXCEPT ![d] = @ - 1]

\* Faulty variants of the next test: released by the last but one dependency;
\* released by every dependency.
ReachedOne(value) == value <= 1
ReachedAny(value) == value >= 0

\* The test on the value UpdateAndGet returns: nothing is left to wait for.
ReachedZero(value) == value = 0

\* What an unsynchronised read of queueOpen can return.
ObservedQueueOpen == IF queueOpen THEN {TRUE} ELSE {TRUE, FALSE}

\* The sequences that list each member of S once: the ranges over a Go map.
Listings(S) == {q \in [1..Cardinality(S) -> S] : \A i, j \in DOMAIN q : q[i] = q[j] => i = j}

Init ==
  /\ dagConfig \in DagConfigs
  /\ inDegreeMap = InDegreeMap(Adjacency)
  /\ queue \in Listings(Roots)
  /\ closed = FALSE
  /\ queueOpen = TRUE
  /\ executedCompCount = 0
  /\ main = "looping"
  /\ pc = [c \in Component |-> "idle"]
  /\ todo = [c \in Component |-> Dependents(c)]
  /\ hand = [c \in Component |-> TERMINAL_NODE]
  /\ starts = [c \in Component |-> 0]
  /\ finished = {}
  /\ crashed = FALSE

-----------------------------------------------------------------------------
(***************************************************************************)
(* The caller's loop.                                                      *)
(***************************************************************************)
ReceiveTerminal ==
  /\ main = "looping" /\ ~crashed
  /\ queue # <<>> /\ Head(queue) = TERMINAL_NODE
  /\ queue' = Tail(queue)
  /\ executedCompCount' = executedCompCount + 1
  /\ LET last == executedCompCount + 1 = TotalCompCount
     IN  /\ queueOpen' = (queueOpen /\ ~last)
         /\ closed' = (closed \/ last)
         /\ main' = IF last THEN "returned" ELSE main
  /\ UNCHANGED <<dagConfig, inDegreeMap, pc, todo, hand, starts, finished, crashed>>

\* Receiving a component spawns a goroutine for it.
Spawn ==
  /\ main = "looping" /\ ~crashed
  /\ queue # <<>> /\ Head(queue) # TERMINAL_NODE
  /\ queue' = Tail(queue)
  /\ pc' = [pc EXCEPT ![Head(queue)] = "spawned"]
  /\ starts' = [starts EXCEPT ![Head(queue)] = @ + 1]
  /\ UNCHANGED <<dagConfig, inDegreeMap, closed, call, todo, hand, finished, crashed>>

-----------------------------------------------------------------------------
(***************************************************************************)
(* The goroutine of component c.                                           *)
(***************************************************************************)

\* A component that is not in the componentMap is logged and dropped.
BeginRun(c) ==
  /\ pc[c] = "spawned" /\ ~crashed
  /\ pc' = [pc EXCEPT ![c] =
              IF c \in AbstractComponents(dagConfig) THEN "running" ELSE "exited"]
  /\ UNCHANGED <<dagConfig, inDegreeMap, queue, closed, call, todo, hand, starts,
                 finished, crashed>>

\* Run returns and the component leaves the in-degree map.
EndRun(c) ==
  /\ pc[c] = "running" /\ ~crashed
  /\ pc' = [pc EXCEPT ![c] = "releasing"]
  /\ finished' = finished \cup {c}
  /\ inDegreeMap' = [n \in DOMAIN inDegreeMap \ {c} |-> inDegreeMap[n]]
  /\ UNCHANGED <<dagConfig, queue, closed, call, todo, hand, starts, crashed>>

\* UpdateAndGet on one dependent, in the map's arbitrary order.
UpdateAndGet(c, d) ==
  /\ pc[c] = "releasing" /\ d \in todo[c] /\ ~crashed
  /\ todo' = [todo EXCEPT ![c] = @ \ {d}]
  /\ IF d \in DOMAIN inDegreeMap
       THEN /\ inDegreeMap' = Discounted(inDegreeMap, d)
            /\ IF ReachedZero(inDegreeMap[d] - 1)
                 THEN pc' = [pc EXCEPT ![c] = "offering"] /\ hand' = [hand EXCEPT ![c] = d]
                 ELSE UNCHANGED <<pc, hand>>
       ELSE UNCHANGED <<inDegreeMap, pc, hand>>
  /\ UNCHANGED <<dagConfig, queue, closed, call, starts, finished, crashed>>

\* Faulty variant: the terminal node is offered before all dependents are done.
EndReleaseEarly(c) ==
  /\ pc[c] = "releasing" /\ ~crashed
  /\ pc' = [pc EXCEPT ![c] = "offering"]
  /\ hand' = [hand EXCEPT ![c] = TERMINAL_NODE]
  /\ UNCHANGED <<dagConfig, inDegreeMap, queue, closed, call, todo, starts, finished,
                 crashed>>

\* The dependents are done: what is left to send is the terminal node.
EndRelease(c) ==
  /\ pc[c] = "releasing" /\ todo[c] = {} /\ ~crashed
  /\ pc' = [pc EXCEPT ![c] = "offering"]
  /\ hand' = [hand EXCEPT ![c] = TERMINAL_NODE]
  /\ UNCHANGED <<dagConfig, inDegreeMap, queue, closed, call, todo, starts, finished,
                 crashed>>

\* Where the goroutine goes once the item in its hand is sent or dropped.
AfterOffer(c) == IF hand[c] = TERMINAL_NODE THEN "exited" ELSE "releasing"

\* "if queueOpen": go on to send, or log the error and drop the item.
CheckQueueOpen(c) ==
  /\ pc[c] = "offering" /\ ~crashed
  /\ \E open \in ObservedQueueOpen :
       pc' = [pc EXCEPT ![c] = IF open THEN "sending" ELSE AfterOffer(c)]
  /\ UNCHANGED <<dagConfig, inDegreeMap, queue, closed, call, todo, hand, starts,
                 finished, crashed>>

\* "queue <- item": blocks while the buffer is full, panics once it is closed.
Send(c) ==
  /\ pc[c] = "sending" /\ ~crashed
  /\ closed \/ Len(queue) < Capacity
  /\ IF closed
       THEN crashed' = TRUE /\ UNCHANGED <<queue, pc>>
       ELSE /\ queue' = Append(queue, hand[c])
            /\ pc' = [pc EXCEPT ![c] = AfterOffer(c)]
            /\ UNCHANGED crashed
  /\ UNCHANGED <<dagConfig, inDegreeMap, closed, call, todo, hand, starts, finished>>

Caller == ReceiveTerminal \/ Spawn

Goroutine(c) ==
  \/ BeginRun(c)
  \/ EndRun(c)
  \/ \E d \in Component : UpdateAndGet(c, d)
  \/ EndRelease(c)
  \/ CheckQueueOpen(c)
  \/ Send(c)

\* The call has returned and no goroutine of it is left, or the process died.
Over ==
  /\ crashed \/ (main = "returned" /\ \A c \in Component : pc[c] \in {"idle", "exited"})
  /\ UNCHANGED vars

Next == Caller \/ (\E c \in Component : Goroutine(c)) \/ Over

Spec == Init /\ [][Next]_vars

\* The Go scheduler runs every runnable goroutine, and a component's Run returns.
FairSpec == Spec /\ WF_vars(Caller) /\ \A c \in Component : WF_vars(Goroutine(c))

-----------------------------------------------------------------------------
(***************************************************************************)
(* Properties.                                                             *)
(***************************************************************************)

\* The type invariant of executeDag's state.
TypeOK ==
  /\ dagConfig \in DagConfigs
  /\ DOMAIN inDegreeMap \subseteq Component
  /\ \A n \in DOMAIN inDegreeMap : inDegreeMap[n] \in Nat
  /\ queue \in Seq(Component \cup {TERMINAL_NODE})
  /\ closed \in BOOLEAN /\ queueOpen \in BOOLEAN /\ crashed \in BOOLEAN
  /\ executedCompCount \in Nat
  /\ main \in {"looping", "returned"}
  /\ pc \in [Component -> {"idle", "spawned", "running", "releasing", "offering",
                            "sending", "exited"}]
  /\ todo \in [Component -> SUBSET Component]
  /\ hand \in [Component -> Component \cup {TERMINAL_NODE}]
  /\ starts \in [Component -> Nat]
  /\ finished \subseteq Component

\* A component is run only after every component it depends on has finished:
\* the order the in-degree map, the channel and the goroutines must give
\* together, however they interleave (executor.go:68-95).
DependenciesFirst ==
  \A c \in Component :
    (pc[c] = "running" \/ c \in finished) => DependenciesOf(dagConfig, c) \subseteq finished

\* No component is run twice, although every one of its dependencies' goroutines
\* may be the one that discounts it to zero (executor.go:79-82).
StartedAtMostOnce == \A c \in Component : starts[c] <= 1

\* The in-degree of a component is the number of dependencies whose goroutines
\* have not discounted it yet: no discount is lost or made twice, which is what
\* UpdateAndGet's lock is for (maps.go:39-48).
InDegreeCounts ==
  \A n \in DOMAIN inDegreeMap : inDegreeMap[n] = Cardinality({d \in Component : n \in todo[d]})

\* The channel is closed only when no goroutine can touch it any more, so the
\* unsynchronised queueOpen is never read late, nothing is sent on a closed
\* channel and the caller gets its request back with no component still
\* writing to it (executor.go:62-66, 81, 90).
ClosedMeansQuiescent ==
  /\ ~crashed
  /\ closed => \A c \in Component : pc[c] \in {"idle", "exited"}

\* When the call returns, every component of the configuration has finished:
\* the count of terminal nodes the loop waits for is the number of components
\* (executor.go:42, 62).
AllExecuted == main = "returned" => finished = NodesOf(dagConfig)

\* executeDag returns: the loop gets as many terminal nodes as it waits for, and
\* no goroutine blocks forever on the bounded channel (executor.go:53-97).
CallReturns == <>(main = "returned")

\* executeDag implements the execution it promises: each component once, after
\* its dependencies, and a return exactly when all have finished.
TE == INSTANCE TopologicalExecution
        WITH started <- {c \in Component : starts[c] > 0}, returned <- (main = "returned")

TopologicallyExecuted == TE!AbsSpec

-----------------------------------------------------------------------------
(***************************************************************************)
(* The inductive invariant behind DependenciesFirst and StartedAtMostOnce. *)
(* A component is released once a goroutine has taken it in hand to send   *)
(* it; from then on nobody owes it a discount.                             *)
(***************************************************************************)
Holds(c, n) == pc[c] \in {"offering", "sending"} /\ hand[c] = n

Queued(n) == \E i \in 1..Len(queue) : queue[i] = n

Released(n) == Queued(n) \/ pc[n] # "idle" \/ \E c \in Component : Holds(c, n)

OwedUntilFinished == \A c \in Component \ finished : todo[c] = Dependents(c)

FinishedWhenReleasing ==
  \A c \in Component :
    /\ pc[c] \in {"releasing", "offering", "sending"} => c \in finished
    /\ pc[c] \in {"idle", "spawned", "running"} => c \notin finished

ReleasedOwedByNone ==
  \A n \in Component : Released(n) => \A d \in Component : n \notin todo[d]

QueuedOnce ==
  \A i, j \in 1..Len(queue) : queue[i] = queue[j] /\ queue[i] # TERMINAL_NODE => i = j

HeldOnce ==
  \A n, c \in Component : Holds(c, n) =>
    ~Queued(n) /\ \A d \in Component : Holds(d, n) => c = d

IdleUntilSpawned ==
  \A n \in Component :
    /\ Queued(n) \/ (\E c \in Component : Holds(c, n)) => pc[n] = "idle"
    /\ starts[n] = IF pc[n] = "idle" THEN 0 ELSE 1

\* The inductive invariant: a component is released when its last dependency
\* discounts it, from one goroutine, and spawned once (executor.go:68-95).
IInv ==
  /\ TypeOK
  /\ InDegreeCounts
  /\ OwedUntilFinished
  /\ FinishedWhenReleasing
  /\ ReleasedOwedByNone
  /\ QueuedOnce
  /\ HeldOnce
  /\ IdleUntilSpawned

(***************************************************************************)
(* What has to be added for ClosedMeansQuiescent and AllExecuted, with one *)
(* root: every terminal node, received or still in the channel, is the     *)
(* last send of a goroutine that has exited.                               *)
(***************************************************************************)
TerminalPositions(q) == {i \in 1..Len(q) : q[i] = TERMINAL_NODE}

Exited == {c \in Component : pc[c] = "exited"}

ReleasedAreNodes ==
  \A c \in Component : (Released(c) => c \in Nodes) /\ todo[c] \subseteq Dependents(c)

ExitedAreFinished == \A c \in Component : pc[c] = "exited" => c \in finished

TerminalsAccounted ==
  executedCompCount + Cardinality(TerminalPositions(queue)) <= Cardinality(Exited)

ReturnedMeansDone ==
  /\ main = "returned" <=> closed
  /\ closed => Exited = Nodes

\* The inductive invariant for one root (executor.go:42, 60-66, 90-94).
RInv ==
  /\ IInv
  /\ ClosedMeansQuiescent
  /\ ReleasedAreNodes
  /\ ExitedAreFinished
  /\ TerminalsAccounted
  /\ ReturnedMeansDone

=============================================================================
