------------------------------- MODULE DagRegistry -------------------------------
(***************************************************************************)
(* Execute and getDagTopology of inferflow's dag-topology-executor: how    *)
(* concurrent requests come by the topology they execute.                  *)
(*                                                                         *)
(* A topology is looked up by the hash of its configuration, without the   *)
(* lock and again under it, and built under the lock.  The cache is        *)
(* ristretto's: a Set is buffered and applied later, or dropped, and an    *)
(* entry may be evicted at any time.  Each SetWithTTL also starts a timer  *)
(* that deletes whatever the key holds when it fires.                      *)
(***************************************************************************)
EXTENDS Naturals, Sequences

CONSTANTS
  Request,
  Config,         \* configurations of the models
  ValidConfigs,   \* those InitializeComponentDag accepts
  Nobody

ASSUME RegistryAssumption ==
  /\ Nobody \notin Request
  /\ ValidConfigs \subseteq Config

VARIABLES
  config,     \* what each request was given
  pc,         \* where its goroutine is in Execute
  mutex,      \* the registry's mutex
  builtFor,   \* the topologies built so far: builtFor[i] is the i-th one's configuration
  cached,     \* key -> the topology the cache holds, or 0
  buffered,   \* Sets not applied yet: <<key, topology>>
  timers,     \* TTL timers not fired yet: <<key, topology>>
  using       \* the topology a request executes, or 0

vars == <<config, pc, mutex, builtFor, cached, buffered, timers, using>>

\* Faulty variant: every configuration has the same key.
SameKey(c) == CHOOSE k \in Config : TRUE

\* getMurmurHash: 128 bits of a hash of the sorted JSON; collisions are ignored.
Key(c) == c

Init ==
  /\ config \in [Request -> Config]
  /\ pc = [r \in Request |-> "lookup"]
  /\ mutex = Nobody
  /\ builtFor = <<>>
  /\ cached = [k \in Config |-> 0]
  /\ buffered = {} /\ timers = {}
  /\ using = [r \in Request |-> 0]

Hit(r) == cached[Key(config[r])] # 0

\* getDagTopology returns the cached topology and Execute runs it.
UseCached(r) ==
  /\ Hit(r)
  /\ using' = [using EXCEPT ![r] = cached[Key(config[r])]]
  /\ pc' = [pc EXCEPT ![r] = "executing"]

Lookup(r) ==
  /\ pc[r] = "lookup"
  /\ \/ UseCached(r)
     \/ ~Hit(r) /\ pc' = [pc EXCEPT ![r] = "locking"] /\ UNCHANGED using
  /\ UNCHANGED <<config, mutex, builtFor, cached, buffered, timers>>

Lock(r) ==
  /\ pc[r] = "locking" /\ mutex = Nobody
  /\ mutex' = r
  /\ pc' = [pc EXCEPT ![r] = "rechecking"]
  /\ UNCHANGED <<config, builtFor, cached, buffered, timers, using>>

Recheck(r) ==
  /\ pc[r] = "rechecking"
  /\ \/ UseCached(r) /\ mutex' = Nobody
     \/ ~Hit(r) /\ pc' = [pc EXCEPT ![r] = "building"] /\ UNCHANGED <<using, mutex>>
  /\ UNCHANGED <<config, builtFor, cached, buffered, timers>>

\* InitializeComponentDag succeeds: SetWithTTL, unlock, execute.
Build(r) ==
  /\ pc[r] = "building" /\ config[r] \in ValidConfigs
  /\ LET id == Len(builtFor) + 1
         k  == Key(config[r])
     IN  /\ builtFor' = Append(builtFor, config[r])
         /\ timers' = timers \cup {<<k, id>>}
         /\ buffered' = buffered \cup {<<k, id>>}
         /\ using' = [using EXCEPT ![r] = id]
  /\ pc' = [pc EXCEPT ![r] = "executing"]
  /\ mutex' = Nobody
  /\ UNCHANGED <<config, cached>>

\* Faulty variant: the early return keeps the lock.
RejectHoldingLock(r) ==
  /\ pc[r] = "building" /\ config[r] \notin ValidConfigs
  /\ pc' = [pc EXCEPT ![r] = "nilTopology"]
  /\ UNCHANGED <<config, mutex, builtFor, cached, buffered, timers, using>>

\* InitializeComponentDag fails: getDagTopology logs the error and returns a nil
\* topology without it, and Execute dereferences the nil.
Reject(r) ==
  /\ pc[r] = "building" /\ config[r] \notin ValidConfigs
  /\ pc' = [pc EXCEPT ![r] = "nilTopology"]
  /\ mutex' = Nobody
  /\ UNCHANGED <<config, builtFor, cached, buffered, timers, using>>

\* The request's handler returns, or recovers from the panic.
Finish(r) ==
  /\ pc[r] \in {"executing", "nilTopology"}
  /\ pc' = [pc EXCEPT ![r] = "done"]
  /\ UNCHANGED <<config, mutex, builtFor, cached, buffered, timers, using>>

\* The cache applies or drops a buffered Set, or evicts an entry.
ApplySet ==
  \E s \in buffered :
    /\ buffered' = buffered \ {s}
    /\ cached' = [cached EXCEPT ![s[1]] = s[2]]
    /\ UNCHANGED <<config, pc, mutex, builtFor, timers, using>>

DropSet ==
  \E s \in buffered :
    /\ buffered' = buffered \ {s}
    /\ UNCHANGED <<config, pc, mutex, builtFor, cached, timers, using>>

Evict ==
  \E k \in Config :
    /\ cached[k] # 0
    /\ cached' = [cached EXCEPT ![k] = 0]
    /\ UNCHANGED <<config, pc, mutex, builtFor, buffered, timers, using>>

\* A TTL timer deletes its key, whichever topology is there by now.
TimerFires ==
  \E t \in timers :
    /\ timers' = timers \ {t}
    /\ cached' = [cached EXCEPT ![t[1]] = 0]
    /\ buffered' = {s \in buffered : s[1] # t[1]}
    /\ UNCHANGED <<config, pc, mutex, builtFor, using>>

Handler(r) == Lookup(r) \/ Lock(r) \/ Recheck(r) \/ Build(r) \/ Reject(r) \/ Finish(r)

Over == (\A r \in Request : pc[r] = "done") /\ UNCHANGED vars

Next == (\E r \in Request : Handler(r)) \/ ApplySet \/ DropSet \/ Evict \/ TimerFires \/ Over

Spec == Init /\ [][Next]_vars

\* Go schedules every goroutine, and its mutex is handed to a waiter that starves.
FairSpec == Spec /\ \A r \in Request : WF_vars(Handler(r)) /\ SF_vars(Lock(r))

-----------------------------------------------------------------------------
\* The type invariant of the registry's state.
TypeOK ==
  /\ config \in [Request -> Config]
  /\ pc \in [Request -> {"lookup", "locking", "rechecking", "building", "executing",
                         "nilTopology", "done"}]
  /\ mutex \in Request \cup {Nobody}
  /\ builtFor \in Seq(Config)
  /\ cached \in [Config -> 0..Len(builtFor)]
  /\ buffered \subseteq Config \X (1..Len(builtFor))
  /\ timers \subseteq Config \X (1..Len(builtFor))
  /\ using \in [Request -> 0..Len(builtFor)]

\* A request executes a topology that was built for its own configuration,
\* however its lookups interleave with other models' builds, late Sets,
\* evictions and timers (registry.go:21-52).
OwnTopology ==
  \A r \in Request :
    pc[r] = "executing" => using[r] # 0 /\ builtFor[using[r]] = config[r]

\* Every request gets past the registry: the lock is released on every path,
\* the failing one included (registry.go:33-34, 45-48).
RequestsFinish == \A r \in Request : <>(pc[r] = "done")

\* The inductive invariant behind OwnTopology: whatever sits under a key, or is
\* on its way there, was built for the configuration with that key.
IInv ==
  /\ TypeOK
  /\ OwnTopology
  /\ \A k \in Config : cached[k] # 0 => Key(builtFor[cached[k]]) = k
  /\ \A s \in buffered : Key(builtFor[s[2]]) = s[1]

=============================================================================
