---------------------------- MODULE FeatureStore ----------------------------
(***************************************************************************)
(* The online feature store: requests that read the feature groups of one  *)
(* key through an in-memory cache of the pod, a distributed cache and the  *)
(* databases, and fill the caches after they answered; and persists, which *)
(* write the databases and then remove the key from the caches.            *)
(* Redis keeps the groups of a key in one value, that a persist of some of *)
(* them reads, merges and writes back; Scylla keeps them in columns.       *)
(***************************************************************************)
EXTENDS Integers, Functions

CONSTANTS
    FGs,           \* feature groups of the entity
    Scylla,        \* those in Scylla; the others are in Redis
    InMem, Dist,   \* those the in-memory and the distributed cache keep
    Lifetime,      \* those whose values never expire (a TTL of zero)
    Pods, Readers, Writers,
    Former,        \* <<f, n>>: write n of f is of a schema version without the
                   \* newest features of f
    Requests,      \* which groups are asked for together, in which pod, and
                   \* for which of them a newest feature
    Writes,        \* which are persisted together, by which pod or consumer
    MaxWrites,     \* bound: persists in all
    MaxEvents      \* bound: failed calls, calls the breaker refuses, crashes,
                   \* values that expire and entries that go

ASSUME FeatureStoreAssumption ==
    /\ Scylla \subseteq FGs /\ InMem \subseteq FGs /\ Dist \subseteq FGs
    /\ Lifetime \subseteq FGs /\ Former \subseteq FGs \X (Nat \ {0})
    /\ Requests \subseteq Pods \X (SUBSET FGs \ {{}}) \X SUBSET FGs
    /\ Writes \subseteq (Pods \cup {"consumer"}) \X (SUBSET FGs \ {{}})
    /\ {MaxWrites, MaxEvents} \subseteq Nat

Redis == FGs \ Scylla
Stores(fgs) == {s \in {"redis", "scylla"} :
                  fgs \cap (IF s = "redis" THEN Redis ELSE Scylla) # {}}

(* A value is the number of the write it is from; three stand for no value: *)
(* Negative, the group has none; Masked, it was not asked for because the   *)
(* circuit breaker was open; and Lacking, it lacked a feature that a        *)
(* request asked for.  The code treats all of them as a negative entry.     *)
Negative == 0
Masked == -1
Lacking == -2
NoEntry == <<>>

\* The values of an entry, with those of another one over them.
Over(new, old) ==
    [f \in DOMAIN new \union DOMAIN old |-> IF f \in DOMAIN new THEN new[f] ELSE old[f]]

VARIABLES
    store,     \* store[f]: the write that the database has of f
    clock,     \* the number of the last write
    dead,      \* dead[f]: the last write of f whose value has expired
    mem,       \* mem[p]: the in-memory entry of the key in pod p
    dist,      \* its entry in the distributed cache
    rd,        \* rd[r]: a request
    wr,        \* wr[w]: a persist
    persists, events,
    settled,   \* history: the write of f that was acknowledged and that no
               \* request at work and no other pod could bring an older one of
    floor      \* history: settled and dead when request r began

vars == <<store, clock, dead, mem, dist, rd, wr, persists, events, settled, floor>>
database == <<store, clock, dead>>
caches == <<mem, dist>>
counters == <<persists, events>>
history == <<settled, floor>>

IdleRequest == [pc |-> "idle", pod |-> "none", req |-> {}, newest |-> {}, hand |-> NoEntry,
                missing |-> {}, failed |-> FALSE]
IdlePersist == [pc |-> "idle", pod |-> "none", fgs |-> {}, strong |-> FALSE,
                left |-> {}, base |-> NoEntry, at |-> 0, wrote |-> NoEntry, quiet |-> FALSE]
Zero == [f \in FGs |-> 0]

Init ==
    /\ store = Zero /\ clock = 0 /\ dead = Zero
    /\ mem = [p \in Pods |-> NoEntry] /\ dist = NoEntry
    /\ rd = [r \in Readers |-> IdleRequest]
    /\ wr = [w \in Writers |-> IdlePersist]
    /\ persists = 0 /\ events = 0
    /\ settled = Zero
    /\ floor = [r \in Readers |-> [settled |-> Zero, dead |-> Zero]]

Event == events < MaxEvents /\ events' = events + 1 /\ UNCHANGED persists

Expired(f, v) == v > 0 /\ f \notin Lifetime /\ v <= dead[f]

-----------------------------------------------------------------------------
(* Retrieving.                                                              *)

(* An entry answers only for all of the groups, none of them expired.       *)
\* Faulty variant: the expiry of an entry's groups is not looked at.
HitAnyAge(entry, fgs) == fgs \subseteq DOMAIN entry

Hit(entry, fgs) ==
    /\ fgs \subseteq DOMAIN entry
    /\ \A f \in fgs : ~Expired(f, entry[f])

(* The distributed cache is asked when a group is only there, or when the   *)
(* in-memory cache had no answer; and what is left for the databases.       *)
AsksDist(req, missing) ==
    /\ req \cap Dist # {}
    /\ (req \cap Dist) \ InMem # {} \/ "memory" \in missing

\* Faulty variant: groups that only the in-memory cache keeps are forgotten.
DbFGsOfDist(req, missing) ==
    (req \ (InMem \cup Dist))
    \cup (IF "distributed" \in missing THEN Dist
          ELSE IF "memory" \in missing THEN (req \cap InMem) \ Dist ELSE {})

DbFGs(req, missing) ==
    (req \ (InMem \cup Dist))
    \cup (IF "memory" \in missing THEN (req \cap InMem) \ Dist ELSE {})
    \cup (IF "distributed" \in missing THEN Dist ELSE {})

(* What a request makes of the values it is given: one whose schema version *)
(* lacks a feature that is asked for is turned into a negative value, the   *)
(* defaults of the active version are served, and it may be cached so.      *)
FillMatrix(values, newest) ==
    [f \in DOMAIN values |-> IF f \in newest /\ <<f, values[f]>> \in Former
                             THEN Lacking ELSE values[f]]

(* A request goes on with the databases, or has its answer.                 *)
To(r, next) ==
    rd' = [rd EXCEPT ![r] =
             [next EXCEPT !.pc = IF DbFGs(next.req, next.missing) = {}
                                 THEN "answered" ELSE "db"]]

RetrieveFromInMemoryCache(r) ==
    /\ rd[r].pc = "idle"
    /\ \E q \in Requests :
         LET p == q[1]
             req == q[2]
             cached == req \cap InMem
             hit == cached # {} /\ Hit(mem[p], cached)
             missing == IF cached = {} \/ hit THEN {} ELSE {"memory"}
             next == [IdleRequest EXCEPT !.pc = "dist", !.pod = p, !.req = req, !.newest = q[3],
                        !.hand = IF hit THEN FillMatrix(Restrict(mem[p], cached), q[3])
                                 ELSE NoEntry,
                        !.missing = missing]
         IN  IF AsksDist(req, missing) THEN rd' = [rd EXCEPT ![r] = next] ELSE To(r, next)
    /\ floor' = [floor EXCEPT ![r] = [settled |-> settled, dead |-> dead]]
    /\ wr' = [w \in Writers |-> [wr[w] EXCEPT !.quiet = FALSE]]
    /\ UNCHANGED <<database, caches, counters, settled>>

(* The circuit breaker is open: negative values, and nothing is missing.    *)
BreakerIsOpen(r) ==
    /\ rd[r].pc = "dist" /\ Event
    /\ LET cached == rd[r].req \cap Dist
       IN  To(r, [rd[r] EXCEPT !.hand = Over([f \in cached |-> Masked], rd[r].hand)])
    /\ UNCHANGED <<database, caches, wr, history>>

(* Its values replace those of the in-memory cache for the same groups.     *)
RetrieveFromDistributedCache(r) ==
    /\ rd[r].pc = "dist"
    /\ LET cached == rd[r].req \cap Dist
           values == FillMatrix(Restrict(dist, cached), rd[r].newest)
       IN  IF Hit(dist, cached)
           THEN To(r, [rd[r] EXCEPT !.hand = Over(values, rd[r].hand)])
           ELSE To(r, [rd[r] EXCEPT !.missing = @ \cup {"distributed"}])
    /\ UNCHANGED <<database, caches, wr, counters, history>>

DistributedCacheFails(r) ==
    /\ rd[r].pc = "dist" /\ Event
    /\ rd' = [rd EXCEPT ![r] = [@ EXCEPT !.pc = "answered", !.missing = {}, !.failed = TRUE]]
    /\ UNCHANGED <<database, caches, wr, history>>

(* What the databases have of the groups, and a request with their values.  *)
Read(fgs) == [f \in fgs |-> IF Expired(f, store[f]) THEN Negative ELSE store[f]]

HandWith(r, fgs) == Over(FillMatrix(Read(fgs), rd[r].newest), rd[r].hand)

RetrieveFromDB(r) ==
    /\ rd[r].pc = "db"
    /\ rd' = [rd EXCEPT ![r] =
                [@ EXCEPT !.pc = "answered",
                          !.hand = HandWith(r, DbFGs(rd[r].req, rd[r].missing))]]
    /\ UNCHANGED <<database, caches, wr, counters, history>>

(* A key that Scylla cannot be asked for is skipped; an error of Redis ends *)
(* the request, that answers with what it has and fills no cache.           *)
ScyllaFails(r) ==
    /\ rd[r].pc = "db" /\ Event
    /\ LET fgs == DbFGs(rd[r].req, rd[r].missing)
       IN  /\ fgs \cap Scylla # {}
           /\ rd' = [rd EXCEPT ![r] = [@ EXCEPT !.pc = "answered", !.failed = TRUE,
                                                !.hand = HandWith(r, fgs \ Scylla)]]
    /\ UNCHANGED <<database, caches, wr, history>>

RedisFails(r) ==
    /\ rd[r].pc = "db" /\ Event
    /\ LET fgs == DbFGs(rd[r].req, rd[r].missing)
       IN  /\ fgs \cap Redis # {}
           /\ \E seen \in {{}, fgs \cap Scylla} :
                 rd' = [rd EXCEPT ![r] = [@ EXCEPT !.pc = "answered", !.failed = TRUE,
                                                   !.missing = {}, !.hand = HandWith(r, seen)]]
    /\ UNCHANGED <<database, caches, wr, history>>

(* After the answer, in the background and in any order: the entry of each  *)
(* cache that missed is made of the request's values; an empty one is not.  *)
Entry(r, fgs) == Restrict(rd[r].hand, fgs \cap DOMAIN rd[r].hand)

Filled(r, c) == rd' = [rd EXCEPT ![r].missing = @ \ {c}]

PersistToInMemoryCache(r) ==
    /\ rd[r].pc = "answered" /\ "memory" \in rd[r].missing
    /\ LET entry == Entry(r, rd[r].req \cap InMem)
       IN  mem' = IF entry = NoEntry THEN mem ELSE [mem EXCEPT ![rd[r].pod] = entry]
    /\ Filled(r, "memory")
    /\ UNCHANGED <<database, dist, wr, counters, history>>

PersistToDistributedCache(r) ==
    /\ rd[r].pc = "answered" /\ "distributed" \in rd[r].missing
    /\ LET entry == Entry(r, Dist)
       IN  dist' = IF entry = NoEntry THEN dist ELSE entry
    /\ Filled(r, "distributed")
    /\ UNCHANGED <<database, mem, wr, counters, history>>

Done(r) ==
    /\ rd[r].pc = "answered" /\ rd[r].missing = {}
    /\ rd' = [rd EXCEPT ![r] = IdleRequest]
    /\ floor' = [floor EXCEPT ![r] = [settled |-> Zero, dead |-> Zero]]
    /\ UNCHANGED <<database, caches, wr, counters, settled>>

-----------------------------------------------------------------------------
(* Persisting: the stores, one after the other in any order, ...            *)

Step(w, next) == wr' = [wr EXCEPT ![w] = next]

(* ... then, for a strong persist, the in-memory cache of this pod and the  *)
(* distributed cache, whichever groups of the entity are cached.            *)
AfterStores(next) ==
    IF next.left # {} THEN [next EXCEPT !.pc = "store"]
    ELSE IF next.strong /\ InMem # {} THEN [next EXCEPT !.pc = "memory"]
    ELSE IF next.strong /\ Dist # {} THEN [next EXCEPT !.pc = "dist"]
    ELSE IdlePersist

(* By a pod of the API, or with eventual consistency by the Kafka consumer. *)
Persist(w) ==
    /\ wr[w].pc = "idle" /\ persists < MaxWrites
    /\ \E q \in Writes :
         Step(w, [IdlePersist EXCEPT !.pc = "store", !.pod = q[1], !.fgs = q[2],
                                     !.strong = q[1] # "consumer", !.left = Stores(q[2])])
    /\ persists' = persists + 1
    /\ UNCHANGED <<database, caches, rd, events, history>>

(* What a merge keeps of the value it finds: nothing, if one group expired. *)
Existing ==
    LET row == {f \in Redis : store[f] # 0}
    IN  IF \E f \in row : Expired(f, store[f]) THEN NoEntry ELSE Restrict(store, row)

\* Faulty variant: a persist of one group replaces the value.
ReplaceAll(fgs) == TRUE

CanReplace(fgs) == fgs \cap Redis = FGs

ReadRow(w) ==
    /\ wr[w].pc = "store" /\ "redis" \in wr[w].left
    /\ Step(w, [wr[w] EXCEPT !.pc = "merge", !.at = clock,
                             !.base = IF CanReplace(wr[w].fgs) THEN NoEntry ELSE Existing])
    /\ UNCHANGED <<database, caches, rd, counters, history>>

(* History: a write that takes an older value of a group back to the store  *)
(* ends the promise that had been made for it.                              *)
Lowered(s) == [f \in FGs |-> IF store'[f] < s[f] THEN 0 ELSE s[f]]
Lower ==
    /\ settled' = Lowered(settled)
    /\ floor' = [r \in Readers |-> [floor[r] EXCEPT !.settled = Lowered(@)]]

Numbered(fgs) == [f \in fgs |-> clock + 1]

Merge(w) ==
    /\ wr[w].pc = "merge"
    /\ LET row == Over(Numbered(wr[w].fgs \cap Redis), wr[w].base)
       IN  store' = [f \in FGs |-> IF f \in Scylla THEN store[f]
                                   ELSE IF f \in DOMAIN row THEN row[f] ELSE 0]
    /\ clock' = clock + 1
    /\ Lower
    /\ UNCHANGED <<dead, caches, rd>>

WriteRow(w) ==
    /\ Merge(w)
    /\ Step(w, AfterStores([wr[w] EXCEPT !.left = @ \ {"redis"}, !.base = NoEntry, !.at = 0,
                                         !.wrote = Over(Numbered(wr[w].fgs \cap Redis), @)]))
    /\ UNCHANGED counters

WriteColumns(w) ==
    /\ wr[w].pc = "store" /\ "scylla" \in wr[w].left
    /\ LET new == Numbered(wr[w].fgs \cap Scylla)
       IN  /\ store' = Over(new, store)
           /\ clock' = clock + 1
           /\ Step(w, AfterStores([wr[w] EXCEPT !.left = @ \ {"scylla"}, !.wrote = Over(new, @)]))
    /\ UNCHANGED <<dead, caches, rd, counters, history>>

(* An error of Scylla is logged, and the persist goes on as if it had       *)
(* written; one of Redis ends the persist, written or not.                  *)
WriteIsLost(w) ==
    /\ wr[w].pc = "store" /\ "scylla" \in wr[w].left /\ Event
    /\ Step(w, AfterStores([wr[w] EXCEPT !.left = @ \ {"scylla"}]))
    /\ UNCHANGED <<database, caches, rd, history>>

WriteFails(w) ==
    /\ \/ wr[w].pc = "merge"
       \/ wr[w].pc = "store" /\ "redis" \in wr[w].left /\ ~CanReplace(wr[w].fgs)
    /\ Event
    /\ Step(w, IdlePersist)
    /\ UNCHANGED <<database, caches, rd, history>>

AnswerIsLost(w) ==
    /\ Merge(w) /\ Event
    /\ Step(w, IdlePersist)

AllIdle == \A r \in Readers : rd[r].pc = "idle"

\* Faulty variant: only the distributed cache is invalidated.
KeepInMemoryCache(w) ==
    /\ wr[w].pc = "memory"
    /\ Step(w, [wr[w] EXCEPT !.pc = "dist", !.quiet = AllIdle])
    /\ UNCHANGED <<database, caches, rd, counters, history>>

RemoveFromInMemoryCache(w) ==
    /\ wr[w].pc = "memory"
    /\ mem' = [mem EXCEPT ![wr[w].pod] = NoEntry]
    /\ Step(w, IF Dist = {} THEN IdlePersist
               ELSE [wr[w] EXCEPT !.pc = "dist", !.quiet = AllIdle])
    /\ UNCHANGED <<database, dist, rd, counters, history>>

(* History: from here on the write is settled, if no request was at work    *)
(* while the caches were invalidated, the memory of no other pod has an     *)
(* older value, and it is still what the store has.                         *)
Settles(w, f) ==
    /\ wr[w].quiet /\ f \in DOMAIN wr[w].wrote
    /\ store[f] = wr[w].wrote[f]
    /\ \A p \in Pods \ {wr[w].pod} : f \in DOMAIN mem[p] => mem[p][f] >= store[f]

RemoveFromDistributedCache(w) ==
    /\ wr[w].pc = "dist"
    /\ dist' = NoEntry
    /\ Step(w, IdlePersist)
    /\ settled' = [f \in FGs |-> IF Settles(w, f) THEN store[f] ELSE settled[f]]
    /\ UNCHANGED <<database, mem, rd, counters, floor>>

(* A failed removal is logged, and the persist is acknowledged.             *)
RemovalFails(w) ==
    /\ wr[w].pc = "dist" /\ Event
    /\ Step(w, IdlePersist)
    /\ UNCHANGED <<database, caches, rd, history>>

-----------------------------------------------------------------------------
(* Time, eviction and crashes.                                              *)

Expire(f) ==
    /\ f \notin Lifetime /\ Event
    /\ \E v \in (dead[f] + 1)..store[f] : dead' = [dead EXCEPT ![f] = v]
    /\ UNCHANGED <<store, clock, caches, rd, wr, history>>

(* The time of an entry is up, or its cache needs the room.                 *)
Evict ==
    /\ Event
    /\ \/ \E p \in Pods : mem[p] # NoEntry /\ mem' = [mem EXCEPT ![p] = NoEntry] /\ UNCHANGED dist
       \/ dist # NoEntry /\ dist' = NoEntry /\ UNCHANGED mem
    /\ UNCHANGED <<database, rd, wr, history>>

Crash(p) ==
    /\ Event
    /\ mem' = [mem EXCEPT ![p] = NoEntry]
    /\ rd' = [r \in Readers |-> IF rd[r].pod = p THEN IdleRequest ELSE rd[r]]
    /\ wr' = [w \in Writers |-> IF wr[w].pod = p THEN IdlePersist ELSE wr[w]]
    /\ UNCHANGED <<database, dist, history>>

Request(r) ==
    \/ RetrieveFromInMemoryCache(r)
    \/ BreakerIsOpen(r) \/ RetrieveFromDistributedCache(r) \/ DistributedCacheFails(r)
    \/ RetrieveFromDB(r) \/ ScyllaFails(r) \/ RedisFails(r)
    \/ PersistToInMemoryCache(r) \/ PersistToDistributedCache(r) \/ Done(r)

PersistStep(w) ==
    \/ Persist(w)
    \/ ReadRow(w) \/ WriteRow(w) \/ WriteColumns(w) \/ WriteIsLost(w)
    \/ WriteFails(w) \/ AnswerIsLost(w)
    \/ RemoveFromInMemoryCache(w) \/ RemoveFromDistributedCache(w) \/ RemovalFails(w)

Next ==
    \/ \E r \in Readers : Request(r)
    \/ \E w \in Writers : PersistStep(w)
    \/ \E f \in FGs : Expire(f)
    \/ Evict
    \/ \E p \in Pods : Crash(p)

Spec == Init /\ [][Next]_vars

-----------------------------------------------------------------------------
(* Properties.                                                              *)

(* The types of the state, when n writes were made.  An entry is for some   *)
(* of the groups.                                                           *)
Entries(n) == UNION {[fgs -> Lacking..n] : fgs \in SUBSET FGs}

RequestStates(n) ==
    [pc : {"idle", "dist", "db", "answered"}, pod : Pods \union {"none"}, req : SUBSET FGs,
     newest : SUBSET FGs, hand : Entries(n), missing : SUBSET {"memory", "distributed"}, failed : BOOLEAN]

PersistStates(n) ==
    [pc : {"idle", "store", "merge", "memory", "dist"}, pod : Pods \union {"none", "consumer"},
     fgs : SUBSET FGs, strong : BOOLEAN, left : SUBSET {"redis", "scylla"},
     base : Entries(n), at : 0..n, wrote : Entries(n), quiet : BOOLEAN]

TypeOK ==
    /\ clock \in Nat /\ {store, dead, settled} \subseteq [FGs -> 0..clock]
    /\ mem \in [Pods -> Entries(clock)] /\ dist \in Entries(clock)
    /\ rd \in [Readers -> RequestStates(clock)] /\ wr \in [Writers -> PersistStates(clock)]
    /\ persists \in 0..MaxWrites /\ events \in 0..MaxEvents
    /\ floor \in [Readers -> [settled : [FGs -> 0..clock], dead : [FGs -> 0..clock]]]

(* Whatever mixture of caches hit and missed, an answer in which no call    *)
(* failed has a value, or a known absence, of every group asked for.        *)
AnswersAreComplete ==
    \A r \in Readers :
      rd[r].pc = "answered" /\ ~rd[r].failed => rd[r].req \subseteq DOMAIN rd[r].hand

\* A write of f since s was of a schema version without its newest features.
LacksSince(f, s) == \E n \in s..clock : <<f, n>> \in Former

(* A write that was acknowledged, and settled before the request began, is  *)
(* served, or a later one: not an older value, and not a negative entry,    *)
(* until it expires.  Only an open breaker may hide it, or a request for a  *)
(* feature that the schema version of this write, or of a later one, lacks. *)
SettledWriteIsServed ==
    \A r \in Readers : rd[r].pc = "answered" =>
      \A f \in rd[r].req \cap DOMAIN rd[r].hand :
        \/ rd[r].hand[f] >= floor[r].settled[f]
        \/ rd[r].hand[f] = Masked
        \/ rd[r].hand[f] = Lacking /\ LacksSince(f, floor[r].settled[f])
        \/ f \notin Lifetime /\ floor[r].settled[f] <= dead[f]

(* A value that had expired when the request began is not served, from      *)
(* whichever cache or database it comes.                                    *)
ExpiredIsNotServed ==
    \A r \in Readers : rd[r].pc = "answered" =>
      \A f \in DOMAIN rd[r].hand \ Lifetime :
        rd[r].hand[f] <= 0 \/ rd[r].hand[f] > floor[r].dead[f]

(* A group of the value in Redis goes back to an older write, or is lost,   *)
(* only by a persist of other groups that read the value before another     *)
(* one wrote it, or that found a group in it that had expired.              *)
GroupsLostOnlyByRaceOrExpiry ==
    [][\A f \in Redis : store'[f] < store[f] =>
         \E w \in Writers :
           /\ wr[w].pc = "merge" /\ f \notin wr[w].fgs
           /\ \E g \in Redis : store[g] > wr[w].at \/ Expired(g, store[g])]_vars
=============================================================================
