------------------------- MODULE FeatureStoreProofs -------------------------
(***************************************************************************)
(* Theorems about FeatureStore, for every set of feature groups, every     *)
(* placement of them in stores and caches, and any number of pods,         *)
(* requests, persists and failures.                                        *)
(***************************************************************************)
EXTENDS FeatureStore, TLAPS

(* What a request lacks is missing or will be asked for.                    *)
HandInv(q) ==
    /\ q.pc = "dist" =>
          /\ "distributed" \notin q.missing
          /\ "memory" \in q.missing \/ q.req \intersect InMem \subseteq DOMAIN q.hand
    /\ q.pc = "db" => q.req \subseteq DOMAIN q.hand \union DbFGs(q.req, q.missing)
    /\ q.pc = "answered" /\ ~ q.failed => q.req \subseteq DOMAIN q.hand

(* What it has gathered had not expired when it began.                      *)
FreshEntry(entry, old) == \A f \in DOMAIN entry \ Lifetime : entry[f] <= 0 \/ entry[f] > old[f]

(* A persist goes to the stores of its groups.  A merge that is not         *)
(* overtaken, and that met no expired group, has kept the value of every    *)
(* other group.                                                             *)
Kept == Restrict(store, {f \in Redis : store[f] # 0})

Overtaken(at) == \E g \in Redis : store[g] > at \/ Expired(g, store[g])

MergeInv(q) ==
    /\ q.left \subseteq Stores(q.fgs)
    /\ q.pc = "merge" =>
          /\ q.fgs \intersect Redis # {}
          /\ \A f \in DOMAIN q.base : q.base[f] > 0
          /\ CanReplace(q.fgs) \/ Overtaken(q.at) \/ q.base = Kept

(* No cache, and no request at work, has less of a settled group than the   *)
(* write that settled, except behind an open breaker, or by a request for a *)
(* feature that this write or a later one lacks, or once it expired.        *)
Good(f, v) ==
    \/ v >= settled[f] \/ v = Masked
    \/ v = Lacking /\ LacksSince(f, settled[f])
    \/ f \notin Lifetime /\ settled[f] <= dead[f]
GoodEntry(entry) == \A f \in DOMAIN entry : Good(f, entry[f])

QuietInv(q) == q.quiet => AllIdle /\ (q.pod \in Pods => mem[q.pod] = NoEntry)

SettledInv ==
    /\ \A f \in FGs : settled[f] <= store[f]
    /\ \A p \in Pods : GoodEntry(mem[p])
    /\ GoodEntry(dist)
    /\ \A r \in Readers : rd[r].pc # "idle" => floor[r].settled = settled /\ GoodEntry(rd[r].hand)
    /\ \A w \in Writers : QuietInv(wr[w])

FreshInv ==
    \A r \in Readers :
      /\ \A f \in FGs : floor[r].dead[f] <= dead[f]
      /\ rd[r].pc # "idle" => FreshEntry(rd[r].hand, floor[r].dead)

IInv ==
    /\ TypeOK
    /\ \A r \in Readers : HandInv(rd[r])
    /\ FreshInv
    /\ \A w \in Writers : MergeInv(wr[w])
    /\ SettledInv

-----------------------------------------------------------------------------
(* Entries.                                                                 *)

LEMMA EntryIs ==
  ASSUME NEW n, NEW e \in Entries(n)
  PROVE  DOMAIN e \subseteq FGs /\ e \in [DOMAIN e -> Lacking..n] /\ \A f \in DOMAIN e : e[f] \in Lacking..n
BY DEF Entries

LEMMA MakesEntry ==
  ASSUME NEW n, NEW fgs \in SUBSET FGs, NEW e \in [fgs -> Lacking..n]
  PROVE  e \in Entries(n)
BY DEF Entries

LEMMA NoEntryIs ==
  ASSUME NEW n
  PROVE  NoEntry \in Entries(n) /\ DOMAIN NoEntry = {}
<1>1. DOMAIN NoEntry = {} /\ NoEntry \in [{} -> Lacking..n]
  BY DEF NoEntry
<1>2. QED
  BY <1>1, MakesEntry

LEMMA OverIs ==
  ASSUME NEW new, NEW old
  PROVE  /\ DOMAIN Over(new, old) = DOMAIN new \union DOMAIN old
         /\ \A f \in DOMAIN new : Over(new, old)[f] = new[f]
         /\ \A f \in DOMAIN old \ DOMAIN new : Over(new, old)[f] = old[f]
BY DEF Over

LEMMA OverEntry ==
  ASSUME NEW n, NEW new \in Entries(n), NEW old \in Entries(n)
  PROVE  Over(new, old) \in Entries(n)
<1>1. Over(new, old) \in [DOMAIN new \union DOMAIN old -> Lacking..n]
  BY EntryIs DEF Over
<1>2. QED
  BY <1>1, EntryIs, MakesEntry

LEMMA RestrictIs ==
  ASSUME NEW e, NEW fgs
  PROVE  DOMAIN Restrict(e, fgs) = fgs /\ \A f \in fgs : Restrict(e, fgs)[f] = e[f]
BY DEF Restrict

LEMMA RestrictEntry ==
  ASSUME NEW n, NEW e \in Entries(n), NEW fgs, fgs \subseteq DOMAIN e
  PROVE  Restrict(e, fgs) \in Entries(n)
<1>1. fgs \subseteq FGs /\ Restrict(e, fgs) \in [fgs -> Lacking..n]
  BY EntryIs DEF Restrict
<1>2. QED
  BY <1>1, MakesEntry

LEMMA TypesGrow ==
  ASSUME NEW n \in Nat, NEW m \in Nat, n <= m
  PROVE  /\ 0..n \subseteq 0..m /\ Entries(n) \subseteq Entries(m)
         /\ RequestStates(n) \subseteq RequestStates(m) /\ PersistStates(n) \subseteq PersistStates(m)
<1>1. 0..n \subseteq 0..m /\ Lacking..n \subseteq Lacking..m
  BY DEF Lacking
<1>2. ASSUME NEW e \in Entries(n) PROVE e \in Entries(m)
  <2>1. DOMAIN e \subseteq FGs /\ e \in [DOMAIN e -> Lacking..m]
    BY <1>1, EntryIs
  <2>2. QED
    BY <2>1, MakesEntry
<1>3. RequestStates(n) \subseteq RequestStates(m)
  BY <1>2 DEF RequestStates
<1>4. PersistStates(n) \subseteq PersistStates(m)
  BY <1>1, <1>2 DEF PersistStates
<1>5. QED
  BY <1>1, <1>2, <1>3, <1>4

LEMMA OverKeeps ==
  ASSUME NEW new, NEW old
  PROVE  /\ GoodEntry(new) /\ GoodEntry(old) => GoodEntry(Over(new, old))
         /\ \A b : FreshEntry(new, b) /\ FreshEntry(old, b) => FreshEntry(Over(new, old), b)
<1> DEFINE e == Over(new, old)
<1>1. /\ DOMAIN e = DOMAIN new \union DOMAIN old
      /\ \A f \in DOMAIN new : e[f] = new[f]
      /\ \A f \in DOMAIN old \ DOMAIN new : e[f] = old[f]
  BY OverIs, Zenon
<1> HIDE DEF e
<1>2. GoodEntry(new) /\ GoodEntry(old) => GoodEntry(e)
  BY <1>1 DEF GoodEntry
<1>3. ASSUME NEW b, FreshEntry(new, b), FreshEntry(old, b) PROVE FreshEntry(e, b)
  BY <1>1, <1>3 DEF FreshEntry
<1>4. QED
  BY <1>2, <1>3 DEF e

\* An entry that answers, and what the databases answer.
LEMMA HitIsFresh ==
  ASSUME TypeOK, NEW entry \in Entries(clock), NEW fgs, Hit(entry, fgs), GoodEntry(entry)
  PROVE  LET e == Restrict(entry, fgs)
         IN  e \in Entries(clock) /\ DOMAIN e = fgs /\ GoodEntry(e) /\ FreshEntry(e, dead)
<1>1. Restrict(entry, fgs) \in Entries(clock)
  BY RestrictEntry DEF Hit
<1>2. ASSUME NEW f \in fgs \ Lifetime PROVE entry[f] <= 0 \/ entry[f] > dead[f]
  <2>1. f \in FGs /\ entry[f] \in Lacking..clock /\ ~ Expired(f, entry[f])
    BY <1>2, EntryIs DEF Hit
  <2>2. QED
    BY <2>1 DEF Expired, TypeOK, Masked, Lacking
<1>3. QED
  BY <1>1, <1>2, RestrictIs DEF GoodEntry, FreshEntry, Hit

LEMMA ReadIsFresh ==
  ASSUME TypeOK, SettledInv, NEW fgs \in SUBSET FGs
  PROVE  LET e == Read(fgs)
         IN  e \in Entries(clock) /\ DOMAIN e = fgs /\ GoodEntry(e) /\ FreshEntry(e, dead)
<1>1. \A f \in FGs : store[f] \in 0..clock /\ dead[f] \in 0..clock /\ settled[f] \in 0..clock /\ clock \in Nat
  BY DEF TypeOK
<1>2. Read(fgs) \in [fgs -> Lacking..clock]
  BY <1>1 DEF Read, Negative, Masked, Lacking
<1>3. Read(fgs) \in Entries(clock)
  BY <1>2, MakesEntry
<1>4. ASSUME NEW f \in fgs
      PROVE  Good(f, Read(fgs)[f]) /\ (f \notin Lifetime => Read(fgs)[f] <= 0 \/ Read(fgs)[f] > dead[f])
  <2>1. Read(fgs)[f] = IF Expired(f, store[f]) THEN 0 ELSE store[f]
    BY DEF Read, Negative
  <2>2. settled[f] <= store[f]
    BY DEF SettledInv
  <2>3. QED
    BY <1>1, <2>1, <2>2 DEF Good, LacksSince, Expired
<1>5. QED
  BY <1>2, <1>3, <1>4 DEF GoodEntry, FreshEntry

LEMMA FillIsGood ==
  ASSUME TypeOK, NEW e \in Entries(clock), GoodEntry(e), NEW b, FreshEntry(e, b), NEW newest
  PROVE  LET filled == FillMatrix(e, newest)
         IN  filled \in Entries(clock) /\ DOMAIN filled = DOMAIN e /\ GoodEntry(filled) /\ FreshEntry(filled, b)
<1> DEFINE filled == FillMatrix(e, newest)
<1>1. /\ DOMAIN e \subseteq FGs /\ \A f \in DOMAIN e : e[f] \in Lacking..clock
      /\ clock \in Nat /\ \A f \in FGs : settled[f] \in 0..clock
  BY EntryIs DEF TypeOK
<1>2. /\ DOMAIN filled = DOMAIN e
      /\ \A f \in DOMAIN e : \/ filled[f] = e[f]
                             \/ filled[f] = Lacking /\ <<f, e[f]>> \in Former
  <2>1. filled = [f \in DOMAIN e |-> IF f \in newest /\ <<f, e[f]>> \in Former THEN Lacking ELSE e[f]]
    BY DEF FillMatrix
  <2> HIDE DEF filled
  <2>2. \A f \in DOMAIN e : filled[f] = IF f \in newest /\ <<f, e[f]>> \in Former THEN Lacking ELSE e[f]
    BY <2>1
  <2>3. DOMAIN filled = DOMAIN e
    BY <2>1
  <2>4. ASSUME NEW f \in DOMAIN e
        PROVE  filled[f] = e[f] \/ (filled[f] = Lacking /\ <<f, e[f]>> \in Former)
    BY <2>2
  <2>5. QED
    BY <2>3, <2>4
<1>3. filled \in [DOMAIN e -> Lacking..clock]
  BY <1>1 DEF FillMatrix, Lacking
<1> HIDE DEF filled
<1>4. ASSUME NEW f \in DOMAIN e PROVE Good(f, filled[f])
  <2>1. f \in FGs /\ Good(f, e[f])
    BY <1>1 DEF GoodEntry
  <2>2. CASE filled[f] = e[f]
    BY <2>1, <2>2
  <2>3. CASE filled[f] = Lacking /\ <<f, e[f]>> \in Former
    <3>1. e[f] \in Nat \ {0}
      BY <2>3, FeatureStoreAssumption
    <3>2. e[f] >= settled[f] => e[f] \in settled[f]..clock
      BY <1>1, <2>1, <3>1
    <3>3. QED
      BY <2>1, <2>3, <3>1, <3>2 DEF Good, LacksSince, Masked, Lacking
  <2>4. QED
    BY <1>2, <2>2, <2>3
<1>5. FreshEntry(filled, b)
  <2> SUFFICES ASSUME NEW f \in DOMAIN e \ Lifetime PROVE filled[f] <= 0 \/ filled[f] > b[f]
    BY <1>2 DEF FreshEntry
  <2>1. CASE filled[f] = e[f]
    BY <2>1 DEF FreshEntry
  <2>2. CASE filled[f] = Lacking
    BY <2>2 DEF Lacking
  <2>3. QED
    BY <1>2, <2>1, <2>2
<1>6. QED
  BY <1>1, <1>2, <1>3, <1>4, <1>5, MakesEntry DEF GoodEntry, filled

-----------------------------------------------------------------------------
(* Requests.                                                                *)

\* The positions and answers of a request.
LEMMA Positions ==
  \A pc \in {"idle", "dist", "db", "answered"} : \A n : \A q \in RequestStates(n) :
     [q EXCEPT !.pc = pc] \in RequestStates(n)
BY DEF RequestStates

LEMMA IdleIs ==
  ASSUME NEW n \in Nat
  PROVE  /\ IdleRequest \in RequestStates(n) /\ IdlePersist \in PersistStates(n)
         /\ IdleRequest.pc = "idle" /\ IdlePersist.pc = "idle" /\ ~ IdlePersist.quiet
<1>1. NoEntry \in Entries(n)
  BY NoEntryIs
<1>2. QED
  BY <1>1 DEF IdleRequest, IdlePersist, RequestStates, PersistStates

\* The state a request is left in goes on with the databases or is the answer.
Goes(next) == [next EXCEPT !.pc = IF DbFGs(next.req, next.missing) = {} THEN "answered" ELSE "db"]

LEMMA GoesIs ==
  ASSUME NEW n, NEW next \in RequestStates(n)
  PROVE  LET q == Goes(next)
         IN  /\ q \in RequestStates(n) /\ q.pc \in {"answered", "db"} /\ q.hand = next.hand /\ q.req = next.req
             /\ q.missing = next.missing
             /\ next.req \subseteq DOMAIN next.hand \union DbFGs(next.req, next.missing) => HandInv(q)
<1>1. /\ Goes(next) \in RequestStates(n) /\ Goes(next).hand = next.hand /\ Goes(next).req = next.req
      /\ Goes(next).missing = next.missing
      /\ Goes(next).pc = IF DbFGs(next.req, next.missing) = {} THEN "answered" ELSE "db"
  BY DEF Goes, RequestStates
<1>2. QED
  BY <1>1 DEF HandInv

\* A request that writes no cache.
LEMMA RequestGoes ==
  ASSUME IInv, NEW r \in Readers, NEW next \in RequestStates(clock), rd' = [rd EXCEPT ![r] = next],
         UNCHANGED <<database, caches, wr, history>>, UNCHANGED counters \/ Event,
         rd[r].pc # "idle", HandInv(next), FreshEntry(next.hand, floor[r].dead), GoodEntry(next.hand)
  PROVE  IInv'
<1>1. /\ rd' \in [Readers -> RequestStates(clock)] /\ rd'[r] = next
      /\ \A s \in Readers \ {r} : rd'[s] = rd[s]
  BY DEF IInv, TypeOK
<1>2. UNCHANGED <<store, clock, dead, mem, dist, wr, settled, floor>> /\ persists' \in 0..MaxWrites /\ events' \in 0..MaxEvents
  BY FeatureStoreAssumption DEF database, caches, history, counters, Event, IInv, TypeOK
<1>3. TypeOK'
  BY <1>1, <1>2 DEF IInv, TypeOK
<1>4. \A s \in Readers : HandInv(rd'[s])
  BY <1>1 DEF IInv
<1>5. FreshInv'
  BY <1>1, <1>2 DEF IInv, FreshInv
<1>6. \A w \in Writers : MergeInv(wr[w])'
  BY <1>2 DEF IInv, MergeInv, Overtaken, Expired, Kept
<1>7. \A w \in Writers : ~ wr[w].quiet
  BY DEF IInv, SettledInv, QuietInv, AllIdle
<1>8. SettledInv'
  BY <1>1, <1>2, <1>7 DEF IInv, SettledInv, GoodEntry, Good, LacksSince, QuietInv
<1>9. QED
  BY <1>3, <1>4, <1>5, <1>6, <1>8 DEF IInv

\* What is known of a request at work.
LEMMA AtWork ==
  ASSUME IInv, NEW r \in Readers
  PROVE  /\ TypeOK /\ SettledInv /\ rd[r] \in RequestStates(clock) /\ rd[r].hand \in Entries(clock) /\ rd[r].req \subseteq FGs
         /\ HandInv(rd[r]) /\ (rd[r].pc # "idle" => FreshEntry(rd[r].hand, floor[r].dead) /\ GoodEntry(rd[r].hand))
         /\ \A entry : FreshEntry(entry, dead) /\ entry \in Entries(clock) => FreshEntry(entry, floor[r].dead)
<1>1. TypeOK /\ SettledInv /\ rd[r] \in RequestStates(clock) /\ HandInv(rd[r]) /\ FreshInv
  BY DEF IInv, TypeOK
<1>2. rd[r].hand \in Entries(clock) /\ rd[r].req \subseteq FGs
  BY <1>1 DEF RequestStates
<1>3. ASSUME NEW entry \in Entries(clock), FreshEntry(entry, dead) PROVE FreshEntry(entry, floor[r].dead)
  <2>1. ASSUME NEW f \in FGs PROVE floor[r].dead[f] <= dead[f] /\ floor[r].dead[f] \in Nat /\ dead[f] \in Nat
    <3>1. floor[r].dead[f] <= dead[f] /\ floor[r].dead \in [FGs -> 0..clock] /\ dead \in [FGs -> 0..clock]
      BY <1>1 DEF FreshInv, TypeOK
    <3>2. QED
      BY <3>1
  <2>2. DOMAIN entry \subseteq FGs /\ \A f \in DOMAIN entry : entry[f] \in Lacking..clock
    BY EntryIs
  <2>3. ASSUME NEW f \in DOMAIN entry \ Lifetime PROVE entry[f] <= 0 \/ entry[f] > floor[r].dead[f]
    <3>1. entry[f] <= 0 \/ entry[f] > dead[f]
      BY <1>3 DEF FreshEntry
    <3>2. entry[f] \in Int
      BY <1>1, <2>2 DEF Masked, Lacking, TypeOK
    <3>3. f \in FGs
      BY <2>2
    <3>4. QED
      BY <2>1, <3>1, <3>2, <3>3
  <2>4. QED
    BY <2>3 DEF FreshEntry
<1>4. QED
  BY <1>1, <1>2, <1>3 DEF FreshInv, SettledInv

LEMMA BreakerIsOpenInvariant ==
  ASSUME IInv, NEW r \in Readers, BreakerIsOpen(r)
  PROVE  IInv'
<1> DEFINE masked == [f \in rd[r].req \intersect Dist |-> Masked]
           next == [rd[r] EXCEPT !.hand = Over(masked, rd[r].hand)]
<1>1. /\ rd[r].pc = "dist" /\ Event /\ UNCHANGED <<database, caches, wr, history>> /\ rd' = [rd EXCEPT ![r] = Goes(next)]
  BY DEF BreakerIsOpen, To, Goes
<1>2. /\ TypeOK /\ rd[r] \in RequestStates(clock) /\ rd[r].hand \in Entries(clock) /\ rd[r].req \subseteq FGs
      /\ HandInv(rd[r]) /\ FreshEntry(rd[r].hand, floor[r].dead) /\ GoodEntry(rd[r].hand)
  BY <1>1, AtWork
<1>3. masked \in Entries(clock) /\ GoodEntry(masked) /\ FreshEntry(masked, floor[r].dead)
        /\ DOMAIN masked = rd[r].req \intersect Dist
  <2>1. rd[r].req \intersect Dist \in SUBSET FGs /\ masked \in [rd[r].req \intersect Dist -> Lacking..clock]
    BY <1>2 DEF TypeOK, Masked, Lacking
  <2>2. QED
    BY <2>1, MakesEntry DEF GoodEntry, Good, LacksSince, FreshEntry, Masked, Lacking
<1> HIDE DEF masked
<1>4. /\ next \in RequestStates(clock) /\ next.hand = Over(masked, rd[r].hand) /\ next.req = rd[r].req
      /\ next.missing = rd[r].missing
  BY <1>2, <1>3, OverEntry DEF RequestStates
<1> HIDE DEF next
<1>5. DOMAIN next.hand = (rd[r].req \intersect Dist) \union DOMAIN rd[r].hand
  <2>1. DOMAIN Over(masked, rd[r].hand) = DOMAIN masked \union DOMAIN rd[r].hand
    BY OverIs
  <2>2. QED
    BY <1>3, <1>4, <2>1
<1>6. next.req \subseteq DOMAIN next.hand \union DbFGs(next.req, next.missing)
  BY <1>1, <1>2, <1>4, <1>5 DEF HandInv, DbFGs
<1>7. GoodEntry(next.hand) /\ FreshEntry(next.hand, floor[r].dead)
  BY <1>2, <1>3, <1>4, OverKeeps
<1>8. QED
  BY <1>1, <1>4, <1>6, <1>7, GoesIs, RequestGoes

LEMMA DistributedCacheInvariant ==
  ASSUME IInv, NEW r \in Readers, RetrieveFromDistributedCache(r)
  PROVE  IInv'
<1> DEFINE fgs == rd[r].req \intersect Dist
           kept == Restrict(dist, fgs)
           found == FillMatrix(kept, rd[r].newest)
           hit == [rd[r] EXCEPT !.hand = Over(found, rd[r].hand)]
           miss == [rd[r] EXCEPT !.missing = @ \union {"distributed"}]
<1>1. /\ rd[r].pc = "dist" /\ UNCHANGED <<database, caches, wr, counters, history>>
      /\ rd' = [rd EXCEPT ![r] = Goes(IF Hit(dist, fgs) THEN hit ELSE miss)]
  BY DEF RetrieveFromDistributedCache, To, Goes
<1>2. /\ TypeOK /\ SettledInv /\ rd[r] \in RequestStates(clock) /\ rd[r].hand \in Entries(clock) /\ rd[r].req \subseteq FGs
      /\ HandInv(rd[r]) /\ FreshEntry(rd[r].hand, floor[r].dead) /\ GoodEntry(rd[r].hand)
      /\ dist \in Entries(clock) /\ GoodEntry(dist)
  BY <1>1, AtWork DEF TypeOK, SettledInv
<1>3. CASE Hit(dist, fgs)
  <2>1. found \in Entries(clock) /\ GoodEntry(found) /\ FreshEntry(found, floor[r].dead) /\ DOMAIN found = fgs
    <3>1. kept \in Entries(clock) /\ GoodEntry(kept) /\ FreshEntry(kept, floor[r].dead) /\ DOMAIN kept = fgs
      BY <1>2, <1>3, HitIsFresh, AtWork
    <3> HIDE DEF kept
    <3>2. QED
      BY <1>2, <3>1, FillIsGood
  <2> HIDE DEF found
  <2>2. /\ hit \in RequestStates(clock) /\ hit.hand = Over(found, rd[r].hand) /\ hit.req = rd[r].req
        /\ hit.missing = rd[r].missing
    BY <1>2, <2>1, OverEntry DEF RequestStates
  <2> HIDE DEF hit
  <2>3. hit.req \subseteq DOMAIN hit.hand \union DbFGs(hit.req, hit.missing)
    <3>1. DOMAIN hit.hand = fgs \union DOMAIN rd[r].hand
      <4>1. DOMAIN Over(found, rd[r].hand) = DOMAIN found \union DOMAIN rd[r].hand
        BY OverIs
      <4>2. QED
        BY <2>1, <2>2, <4>1
    <3>2. QED
      BY <1>1, <1>2, <2>2, <3>1 DEF HandInv, DbFGs
  <2>4. GoodEntry(hit.hand) /\ FreshEntry(hit.hand, floor[r].dead)
    BY <1>2, <2>1, <2>2, OverKeeps
  <2>5. rd' = [rd EXCEPT ![r] = Goes(hit)]
    BY <1>1, <1>3
  <2>6. QED
    BY <1>1, <2>2, <2>3, <2>4, <2>5, GoesIs, RequestGoes
<1>4. CASE ~ Hit(dist, fgs)
  <2>1. /\ miss \in RequestStates(clock) /\ miss.hand = rd[r].hand /\ miss.req = rd[r].req
        /\ miss.missing = rd[r].missing \union {"distributed"}
    BY <1>2 DEF RequestStates
  <2>2. rd' = [rd EXCEPT ![r] = Goes(miss)]
    BY <1>1, <1>4
  <2> HIDE DEF miss
  <2>3. miss.req \subseteq DOMAIN miss.hand \union DbFGs(miss.req, miss.missing)
    BY <1>1, <1>2, <2>1 DEF HandInv, DbFGs
  <2>4. QED
    BY <1>1, <1>2, <2>1, <2>2, <2>3, GoesIs, RequestGoes, ZenonT(30)
<1>5. QED
  BY <1>3, <1>4

LEMMA DistributedCacheFailsInvariant ==
  ASSUME IInv, NEW r \in Readers, DistributedCacheFails(r)
  PROVE  IInv'
<1> DEFINE next == [rd[r] EXCEPT !.pc = "answered", !.missing = {}, !.failed = TRUE]
<1>1. /\ rd[r].pc = "dist" /\ Event /\ UNCHANGED <<database, caches, wr, history>> /\ rd' = [rd EXCEPT ![r] = next]
  BY DEF DistributedCacheFails
<1>2. /\ next \in RequestStates(clock) /\ next.hand = rd[r].hand /\ next.pc = "answered" /\ next.failed
  BY AtWork DEF RequestStates
<1> HIDE DEF next
<1>3. HandInv(next)
  BY <1>2 DEF HandInv
<1>4. QED
  BY <1>1, <1>2, <1>3, AtWork, RequestGoes

\* The answer of the databases, of all groups asked for unless a call failed.
LEMMA DatabasesInvariant ==
  ASSUME IInv, NEW r \in Readers, RetrieveFromDB(r) \/ ScyllaFails(r) \/ RedisFails(r)
  PROVE  IInv'
<1> DEFINE fgs == DbFGs(rd[r].req, rd[r].missing)
           all == [rd[r] EXCEPT !.pc = "answered", !.hand = HandWith(r, fgs)]
           some(seen) == [rd[r] EXCEPT !.pc = "answered", !.failed = TRUE, !.hand = HandWith(r, seen)]
           few(seen) == [rd[r] EXCEPT !.pc = "answered", !.failed = TRUE, !.missing = {}, !.hand = HandWith(r, seen)]
<1>1. /\ rd[r].pc = "db" /\ UNCHANGED <<database, caches, wr, history>> /\ (UNCHANGED counters \/ Event)
      /\ \/ rd' = [rd EXCEPT ![r] = all]
         \/ \E seen \in SUBSET fgs : rd' = [rd EXCEPT ![r] = some(seen)] \/ rd' = [rd EXCEPT ![r] = few(seen)]
  <2>1. rd[r].pc = "db" /\ UNCHANGED <<database, caches, wr, history>>
    BY DEF RetrieveFromDB, ScyllaFails, RedisFails
  <2> HIDE DEF fgs
  <2>2. CASE RetrieveFromDB(r)
    BY <2>1, <2>2 DEF RetrieveFromDB, fgs
  <2>3. CASE ScyllaFails(r)
    <3>1. rd' = [rd EXCEPT ![r] = some(fgs \ Scylla)]
      BY <2>3 DEF ScyllaFails, fgs
    <3>2. fgs \ Scylla \in SUBSET fgs /\ Event
      BY <2>3 DEF ScyllaFails
    <3> HIDE DEF some, few
    <3>3. QED
      BY <2>1, <3>1, <3>2
  <2>4. CASE RedisFails(r)
    <3>1. \E seen \in {{}, fgs \intersect Scylla} : rd' = [rd EXCEPT ![r] = few(seen)]
      BY <2>4 DEF RedisFails, fgs
    <3>2. Event /\ \A seen \in {{}, fgs \intersect Scylla} : seen \in SUBSET fgs
      BY <2>4 DEF RedisFails
    <3> HIDE DEF some, few
    <3>3. QED
      BY <2>1, <3>1, <3>2
  <2>5. QED
    BY <2>2, <2>3, <2>4
<1>2. /\ TypeOK /\ SettledInv /\ rd[r] \in RequestStates(clock) /\ rd[r].hand \in Entries(clock) /\ rd[r].req \subseteq FGs
      /\ HandInv(rd[r]) /\ FreshEntry(rd[r].hand, floor[r].dead) /\ GoodEntry(rd[r].hand)
  BY <1>1, AtWork
<1>3. fgs \in SUBSET FGs
  BY <1>2, FeatureStoreAssumption DEF DbFGs
<1>4. ASSUME NEW seen \in SUBSET fgs
      PROVE  LET hand == HandWith(r, seen)
             IN  hand \in Entries(clock) /\ GoodEntry(hand) /\ FreshEntry(hand, floor[r].dead)
                 /\ DOMAIN hand = seen \union DOMAIN rd[r].hand
  <2>1. Read(seen) \in Entries(clock) /\ GoodEntry(Read(seen)) /\ FreshEntry(Read(seen), floor[r].dead)
        /\ DOMAIN Read(seen) = seen
    BY <1>2, <1>3, ReadIsFresh, AtWork
  <2> DEFINE read == FillMatrix(Read(seen), rd[r].newest)
  <2>5. read \in Entries(clock) /\ GoodEntry(read) /\ FreshEntry(read, floor[r].dead) /\ DOMAIN read = seen
    BY <1>2, <2>1, FillIsGood
  <2> HIDE DEF read
  <2>2. Over(read, rd[r].hand) \in Entries(clock) /\ DOMAIN Over(read, rd[r].hand) = seen \union DOMAIN rd[r].hand
    <3>1. DOMAIN Over(read, rd[r].hand) = DOMAIN read \union DOMAIN rd[r].hand
      BY OverIs
    <3>2. Over(read, rd[r].hand) \in Entries(clock)
      BY <1>2, <2>5, OverEntry
    <3>3. QED
      BY <2>5, <3>1, <3>2
  <2>3. GoodEntry(Over(read, rd[r].hand)) /\ FreshEntry(Over(read, rd[r].hand), floor[r].dead)
    BY <1>2, <2>5, OverKeeps, Zenon
  <2>4. QED
    BY <2>2, <2>3 DEF read, HandWith
<1>5. CASE rd' = [rd EXCEPT ![r] = all]
  <2> DEFINE hand == HandWith(r, fgs)
  <2>1. hand \in Entries(clock) /\ GoodEntry(hand) /\ FreshEntry(hand, floor[r].dead) /\ DOMAIN hand = fgs \union DOMAIN rd[r].hand
    BY <1>4
  <2>2. all = [rd[r] EXCEPT !.pc = "answered", !.hand = hand]
    BY <1>2 DEF RequestStates
  <2> HIDE DEF hand
  <2>3. all \in RequestStates(clock) /\ all.hand = hand /\ all.pc = "answered" /\ all.req = rd[r].req
    BY <1>2, <2>1, <2>2 DEF RequestStates
  <2> HIDE DEF all
  <2>4. HandInv(all)
    BY <1>1, <1>2, <2>1, <2>3 DEF HandInv
  <2>5. QED
    BY <1>1, <1>5, <2>1, <2>3, <2>4, RequestGoes
<1>6. ASSUME NEW seen \in SUBSET fgs, rd' = [rd EXCEPT ![r] = some(seen)] \/ rd' = [rd EXCEPT ![r] = few(seen)]
      PROVE  IInv'
  <2> DEFINE hand == HandWith(r, seen)
  <2>1. hand \in Entries(clock) /\ GoodEntry(hand) /\ FreshEntry(hand, floor[r].dead)
    BY <1>4
  <2> HIDE DEF hand
  <2>2. PICK next \in RequestStates(clock) : /\ rd' = [rd EXCEPT ![r] = next]
                                             /\ next.hand = hand /\ next.pc = "answered" /\ next.failed
    <3>1. CASE rd' = [rd EXCEPT ![r] = some(seen)]
      <4>1. some(seen) \in RequestStates(clock) /\ some(seen).hand = hand /\ some(seen).pc = "answered" /\ some(seen).failed
        BY <1>2, <2>1 DEF RequestStates, hand
      <4>2. QED
        BY <3>1, <4>1
    <3>2. CASE rd' = [rd EXCEPT ![r] = few(seen)]
      <4>1. few(seen) \in RequestStates(clock) /\ few(seen).hand = hand /\ few(seen).pc = "answered" /\ few(seen).failed
        BY <1>2, <2>1 DEF RequestStates, hand
      <4>2. QED
        BY <3>2, <4>1
    <3>3. QED
      BY <1>6, <3>1, <3>2
  <2>3. HandInv(next)
    BY <2>2 DEF HandInv
  <2>4. QED
    BY <1>1, <2>1, <2>2, <2>3, RequestGoes
<1>7. QED
  BY <1>1, <1>5, <1>6

LEMMA RetrieveFromInMemoryCacheInvariant ==
  ASSUME IInv, NEW r \in Readers, RetrieveFromInMemoryCache(r)
  PROVE  IInv'
<1>1. PICK q \in Requests :
         LET cached == q[2] \intersect InMem
             hit == cached # {} /\ Hit(mem[q[1]], cached)
             missing == IF cached = {} \/ hit THEN {} ELSE {"memory"}
             next == [IdleRequest EXCEPT !.pc = "dist", !.pod = q[1], !.req = q[2], !.newest = q[3],
                        !.hand = IF hit THEN FillMatrix(Restrict(mem[q[1]], cached), q[3]) ELSE NoEntry,
                        !.missing = missing]
         IN  IF AsksDist(q[2], missing) THEN rd' = [rd EXCEPT ![r] = next] ELSE To(r, next)
  BY DEF RetrieveFromInMemoryCache
<1> DEFINE p == q[1]
           req == q[2]
           cached == req \intersect InMem
           hit == cached # {} /\ Hit(mem[p], cached)
           missing == IF cached = {} \/ hit THEN {} ELSE {"memory"}
           kept == Restrict(mem[p], cached)
           hand == IF hit THEN FillMatrix(kept, q[3]) ELSE NoEntry
           next == [IdleRequest EXCEPT !.pc = "dist", !.pod = p, !.req = req, !.newest = q[3], !.hand = hand,
                      !.missing = missing]
<1>2. /\ rd[r].pc = "idle" /\ UNCHANGED <<store, clock, dead, mem, dist, persists, events, settled>>
      /\ floor' = [floor EXCEPT ![r] = [settled |-> settled, dead |-> dead]]
      /\ wr' = [w \in Writers |-> [wr[w] EXCEPT !.quiet = FALSE]]
      /\ \/ rd' = [rd EXCEPT ![r] = next] /\ AsksDist(req, missing)
         \/ rd' = [rd EXCEPT ![r] = Goes(next)] /\ ~ AsksDist(req, missing)
  <2>1. IF AsksDist(req, missing) THEN rd' = [rd EXCEPT ![r] = next] ELSE rd' = [rd EXCEPT ![r] = Goes(next)]
    BY <1>1, Zenon DEF To, Goes
  <2> HIDE DEF next, missing
  <2>2. QED
    BY <2>1 DEF RetrieveFromInMemoryCache, database, caches, counters
<1>3. TypeOK /\ SettledInv /\ p \in Pods /\ req \in SUBSET FGs /\ q[3] \in SUBSET FGs /\ clock \in Nat
  BY FeatureStoreAssumption DEF IInv, TypeOK
<1>4. hand \in Entries(clock) /\ GoodEntry(hand) /\ FreshEntry(hand, dead) /\ (hit => DOMAIN hand = cached)
  <2>1. mem[p] \in Entries(clock) /\ GoodEntry(mem[p])
    BY <1>3 DEF TypeOK, SettledInv
  <2>2. CASE hit
    <3>1. Hit(mem[p], cached) /\ hand = FillMatrix(kept, q[3])
      BY <2>2
    <3> HIDE DEF cached, hand, p
    <3>2. kept \in Entries(clock) /\ GoodEntry(kept) /\ FreshEntry(kept, dead) /\ DOMAIN kept = cached
      BY <1>3, <2>1, <3>1, HitIsFresh
    <3> HIDE DEF kept
    <3>3. QED
      BY <1>3, <3>1, <3>2, FillIsGood
  <2>3. CASE ~ hit
    <3>1. hand = NoEntry
      BY <2>3
    <3> HIDE DEF hand
    <3>2. QED
      BY <2>3, <3>1, NoEntryIs DEF GoodEntry, FreshEntry
  <2>4. QED
    BY <2>2, <2>3
<1>5. missing \in SUBSET {"memory", "distributed"} /\ "distributed" \notin missing
      /\ ("memory" \notin missing => cached = {} \/ hit)
  OBVIOUS
<1> HIDE DEF hand, missing, hit
<1>6. /\ next \in RequestStates(clock) /\ next.pc = "dist" /\ next.hand = hand /\ next.req = req /\ next.missing = missing
  BY <1>3, <1>4, <1>5, IdleIs DEF RequestStates
<1>7. cached \subseteq DOMAIN hand \/ "memory" \in missing
  BY <1>4, <1>5
<1> HIDE DEF next
<1>8. PICK state \in RequestStates(clock) : rd' = [rd EXCEPT ![r] = state] /\ state.hand = hand /\ HandInv(state)
  <2>1. CASE rd' = [rd EXCEPT ![r] = next]
    <3>1. HandInv(next)
      BY <1>5, <1>6, <1>7 DEF HandInv
    <3>2. QED
      BY <1>6, <2>1, <3>1
  <2>2. CASE rd' = [rd EXCEPT ![r] = Goes(next)] /\ ~ AsksDist(req, missing)
    <3>1. req \subseteq DOMAIN hand \union DbFGs(req, missing)
      BY <1>5, <1>7, <2>2 DEF AsksDist, DbFGs
    <3>2. QED
      BY <1>6, <2>2, <3>1, GoesIs
  <2>3. QED
    BY <1>2, <2>1, <2>2
<1>9. /\ rd' \in [Readers -> RequestStates(clock)] /\ rd'[r] = state
      /\ \A s \in Readers \ {r} : rd'[s] = rd[s]
  BY <1>3, <1>8 DEF TypeOK
<1>10. /\ floor'[r] = [settled |-> settled, dead |-> dead] /\ \A s \in Readers \ {r} : floor'[s] = floor[s]
       /\ floor' \in [Readers -> [settled : [FGs -> 0..clock], dead : [FGs -> 0..clock]]]
  BY <1>2, <1>3 DEF TypeOK
<1>11. /\ wr' \in [Writers -> PersistStates(clock)]
       /\ \A w \in Writers : /\ ~ wr'[w].quiet /\ wr'[w].pc = wr[w].pc /\ wr'[w].fgs = wr[w].fgs
                             /\ wr'[w].base = wr[w].base /\ wr'[w].at = wr[w].at /\ wr'[w].left = wr[w].left
  <2> SUFFICES ASSUME NEW w \in Writers
               PROVE  /\ wr'[w] \in PersistStates(clock) /\ ~ wr'[w].quiet /\ wr'[w].pc = wr[w].pc
                      /\ wr'[w].fgs = wr[w].fgs /\ wr'[w].base = wr[w].base /\ wr'[w].at = wr[w].at
                      /\ wr'[w].left = wr[w].left
    BY <1>2
  <2>1. wr'[w] = [wr[w] EXCEPT !.quiet = FALSE] /\ wr[w] \in PersistStates(clock)
    BY <1>2, <1>3 DEF TypeOK
  <2>2. QED
    BY <2>1 DEF PersistStates
<1>12. TypeOK'
  BY <1>2, <1>3, <1>9, <1>10, <1>11 DEF TypeOK
<1>13. \A s \in Readers : HandInv(rd'[s])
  BY <1>8, <1>9 DEF IInv
<1>14. FreshInv'
  <2>1. \A f \in FGs : dead[f] <= dead[f]
    BY <1>3 DEF TypeOK
  <2>2. FreshEntry(rd'[r].hand, floor'[r].dead)
    BY <1>4, <1>8, <1>9, <1>10
  <2>3. QED
    BY <1>2, <1>9, <1>10, <2>1, <2>2 DEF IInv, FreshInv
<1>15. \A w \in Writers : MergeInv(wr[w])'
  BY <1>2, <1>11, SMTT(20) DEF IInv, MergeInv, Overtaken, Expired, Kept
<1>16. SettledInv'
  <2>1. \A s \in Readers : rd'[s].pc # "idle" => floor'[s].settled = settled /\ GoodEntry(rd'[s].hand)
    BY <1>3, <1>4, <1>8, <1>9, <1>10 DEF SettledInv
  <2>2. QED
    BY <1>2, <1>3, <1>11, <2>1 DEF SettledInv, GoodEntry, Good, LacksSince, QuietInv
<1>17. QED
  BY <1>12, <1>13, <1>14, <1>15, <1>16 DEF IInv

\* A request that was answered fills a cache, or is done.
LEMMA EntryIsGood ==
  ASSUME IInv, NEW r \in Readers, rd[r].pc = "answered", NEW fgs
  PROVE  Entry(r, fgs) \in Entries(clock) /\ GoodEntry(Entry(r, fgs))
<1>1. rd[r].hand \in Entries(clock) /\ GoodEntry(rd[r].hand)
  BY AtWork
<1>2. Entry(r, fgs) \in Entries(clock)
  BY <1>1, RestrictEntry DEF Entry
<1>3. QED
  BY <1>1, <1>2, RestrictIs DEF Entry, GoodEntry

LEMMA FillInvariant ==
  ASSUME IInv, NEW r \in Readers, PersistToInMemoryCache(r) \/ PersistToDistributedCache(r)
  PROVE  IInv'
<1>1. /\ TypeOK /\ SettledInv /\ FreshInv /\ rd[r].pc = "answered" /\ UNCHANGED <<store, clock, dead, wr, persists, events, settled, floor>>
  BY DEF IInv, PersistToInMemoryCache, PersistToDistributedCache, database, counters, history
<1>2. \E c : rd' = [rd EXCEPT ![r].missing = @ \ {c}]
  BY DEF PersistToInMemoryCache, PersistToDistributedCache, Filled
<1>3. /\ rd' \in [Readers -> RequestStates(clock)] /\ \A s \in Readers \ {r} : rd'[s] = rd[s]
      /\ rd'[r].pc = "answered" /\ rd'[r].hand = rd[r].hand /\ rd'[r].req = rd[r].req /\ rd'[r].failed = rd[r].failed
  <2>1. PICK c : rd' = [rd EXCEPT ![r] = [rd[r] EXCEPT !.missing = rd[r].missing \ {c}]]
    BY <1>2
  <2> DEFINE next == [rd[r] EXCEPT !.missing = rd[r].missing \ {c}]
  <2>2. rd[r] \in RequestStates(clock)
    BY <1>1 DEF TypeOK
  <2>3. /\ next \in RequestStates(clock) /\ next.pc = rd[r].pc /\ next.hand = rd[r].hand /\ next.req = rd[r].req
        /\ next.failed = rd[r].failed
    BY <2>2 DEF RequestStates
  <2> HIDE DEF next
  <2>4. QED
    BY <1>1, <2>1, <2>3 DEF TypeOK, next
<1>4. /\ mem' \in [Pods -> Entries(clock)] /\ dist' \in Entries(clock)
      /\ (\A p \in Pods : GoodEntry(mem'[p])) /\ GoodEntry(dist')
  <2>1. CASE PersistToInMemoryCache(r)
    <3> DEFINE entry == Entry(r, rd[r].req \intersect InMem)
    <3>1. (mem' = mem \/ mem' = [mem EXCEPT ![rd[r].pod] = entry]) /\ dist' = dist
      BY <2>1 DEF PersistToInMemoryCache
    <3>2. entry \in Entries(clock) /\ GoodEntry(entry)
      BY <1>1, EntryIsGood
    <3> HIDE DEF entry
    <3>3. QED
      BY <1>1, <3>1, <3>2 DEF TypeOK, SettledInv
  <2>2. CASE PersistToDistributedCache(r)
    <3> DEFINE entry == Entry(r, Dist)
    <3>1. (dist' = dist \/ dist' = entry) /\ mem' = mem
      BY <2>2 DEF PersistToDistributedCache
    <3>2. entry \in Entries(clock) /\ GoodEntry(entry)
      BY <1>1, EntryIsGood
    <3> HIDE DEF entry
    <3>3. QED
      BY <1>1, <3>1, <3>2 DEF TypeOK, SettledInv
  <2>3. QED
    BY <2>1, <2>2
<1>5. TypeOK'
  BY <1>1, <1>3, <1>4 DEF TypeOK
<1>6. \A s \in Readers : HandInv(rd'[s])
  BY <1>1, <1>3 DEF IInv, HandInv
<1>7. FreshInv'
  BY <1>1, <1>3 DEF FreshInv
<1>8. \A w \in Writers : MergeInv(wr[w])'
  BY <1>1 DEF IInv, MergeInv, Overtaken, Expired, Kept
<1>9. \A w \in Writers : ~ wr[w].quiet
  BY <1>1 DEF SettledInv, QuietInv, AllIdle
<1>10. SettledInv'
  BY <1>1, <1>3, <1>4, <1>9 DEF SettledInv, GoodEntry, Good, LacksSince, QuietInv
<1>11. QED
  BY <1>5, <1>6, <1>7, <1>8, <1>10 DEF IInv

\* Requests that end: all of a pod, or one that was answered.
LEMMA RequestsEnd ==
  ASSUME IInv, rd' \in [Readers -> RequestStates(clock)], floor' \in [Readers -> [settled : [FGs -> 0..clock], dead : [FGs -> 0..clock]]],
         UNCHANGED <<store, clock, dead, settled>>,
         \A r \in Readers : \/ rd'[r] = rd[r] /\ floor'[r] = floor[r]
                            \/ rd'[r] = IdleRequest /\ \A f \in FGs : floor'[r].dead[f] <= dead[f]
  PROVE  /\ \A r \in Readers : HandInv(rd'[r])
         /\ FreshInv' /\ \A r \in Readers : rd'[r].pc # "idle" => floor'[r].settled = settled /\ GoodEntry(rd'[r].hand)
         /\ AllIdle => AllIdle'
<1>1. IdleRequest.pc = "idle" /\ SettledInv /\ FreshInv
  BY DEF IdleRequest, IInv
<1>2. ASSUME NEW r \in Readers PROVE HandInv(rd'[r])
  BY <1>1 DEF IInv, HandInv
<1>3. FreshInv'
  BY <1>1 DEF FreshInv
<1>4. QED
  BY <1>1, <1>2, <1>3 DEF SettledInv, AllIdle

LEMMA DoneInvariant ==
  ASSUME IInv, NEW r \in Readers, Done(r)
  PROVE  IInv'
<1>1. /\ TypeOK /\ SettledInv /\ UNCHANGED <<store, clock, dead, mem, dist, wr, persists, events, settled>>
      /\ rd' = [rd EXCEPT ![r] = IdleRequest] /\ floor' = [floor EXCEPT ![r] = [settled |-> Zero, dead |-> Zero]]
  BY DEF IInv, Done, database, caches, counters
<1>2. clock \in Nat /\ Zero \in [FGs -> 0..clock] /\ dead \in [FGs -> 0..clock]
  BY <1>1 DEF TypeOK, Zero
<1>3. \A f \in FGs : Zero[f] <= dead[f]
  BY <1>2 DEF Zero
<1>4. /\ rd' \in [Readers -> RequestStates(clock)]
      /\ floor' \in [Readers -> [settled : [FGs -> 0..clock], dead : [FGs -> 0..clock]]]
      /\ \A s \in Readers : \/ rd'[s] = rd[s] /\ floor'[s] = floor[s]
                            \/ rd'[s] = IdleRequest /\ \A f \in FGs : floor'[s].dead[f] <= dead[f]
  BY <1>1, <1>2, <1>3, IdleIs DEF TypeOK
<1>5. TypeOK'
  BY <1>1, <1>4 DEF TypeOK
<1>6. \A w \in Writers : MergeInv(wr[w])'
  BY <1>1 DEF IInv, MergeInv, Overtaken, Expired, Kept
<1>7. SettledInv'
  BY <1>1, <1>4, RequestsEnd DEF SettledInv, GoodEntry, Good, LacksSince, QuietInv
<1>8. QED
  BY <1>1, <1>4, <1>5, <1>6, <1>7, RequestsEnd DEF IInv

-----------------------------------------------------------------------------
(* Persists.                                                                *)

LEMMA RequestInvariant ==
  ASSUME IInv, NEW r \in Readers, Request(r)
  PROVE  IInv'
BY RetrieveFromInMemoryCacheInvariant, BreakerIsOpenInvariant, DistributedCacheInvariant,
   DistributedCacheFailsInvariant, DatabasesInvariant, FillInvariant, DoneInvariant DEF Request

\* A persist that writes neither a store nor a cache.
LEMMA PersistGoes ==
  ASSUME IInv, NEW w \in Writers, NEW next \in PersistStates(clock), wr' = [wr EXCEPT ![w] = next],
         UNCHANGED <<database, caches, rd, history>>,
         persists' \in 0..MaxWrites, events' \in 0..MaxEvents, MergeInv(next), QuietInv(next)
  PROVE  IInv'
<1>1. /\ wr' \in [Writers -> PersistStates(clock)] /\ wr'[w] = next
      /\ \A v \in Writers \ {w} : wr'[v] = wr[v]
  BY DEF IInv, TypeOK
<1>2. UNCHANGED <<store, clock, dead, mem, dist, rd, settled, floor>>
  BY DEF database, caches, history
<1>3. TypeOK'
  BY <1>1, <1>2 DEF IInv, TypeOK
<1>4. (\A r \in Readers : HandInv(rd'[r])) /\ FreshInv'
  BY <1>2 DEF IInv, FreshInv
<1>5. ASSUME NEW v \in Writers PROVE MergeInv(wr[v])' /\ QuietInv(wr[v])'
  <2>1. PICK q : wr'[v] = q /\ MergeInv(q) /\ QuietInv(q)
    BY <1>1 DEF IInv, SettledInv
  <2>2. MergeInv(q)' /\ QuietInv(q)'
    BY <1>2, <2>1 DEF MergeInv, Overtaken, Expired, Kept, QuietInv, AllIdle
  <2>3. QED
    BY <2>1, <2>2 DEF MergeInv, QuietInv
<1>6. SettledInv'
  BY <1>2, <1>5 DEF IInv, SettledInv, GoodEntry, Good, LacksSince
<1>7. QED
  BY <1>3, <1>4, <1>5, <1>6 DEF IInv

LEMMA WorkOf ==
  ASSUME IInv, NEW w \in Writers
  PROVE  /\ TypeOK /\ wr[w] \in PersistStates(clock) /\ MergeInv(wr[w]) /\ QuietInv(wr[w])
         /\ clock \in Nat /\ persists \in 0..MaxWrites /\ events \in 0..MaxEvents
         /\ wr[w].fgs \subseteq FGs /\ wr[w].base \in Entries(clock) /\ wr[w].wrote \in Entries(clock)
BY DEF IInv, TypeOK, SettledInv, PersistStates

LEMMA EventCounts ==
  ASSUME TypeOK, Event
  PROVE  persists' \in 0..MaxWrites /\ events' \in 0..MaxEvents
BY FeatureStoreAssumption DEF TypeOK, Event

LEMMA IdlePersistGoes == MergeInv(IdlePersist) /\ QuietInv(IdlePersist)
BY DEF MergeInv, QuietInv, IdlePersist

LEMMA AfterStoresIs ==
  ASSUME NEW n \in Nat, NEW next \in PersistStates(n)
  PROVE  /\ AfterStores(next) \in PersistStates(n) /\ AfterStores(next).pc # "merge"
         /\ AfterStores(next).quiet => next.quiet /\ AfterStores(next).pod = next.pod
         /\ next.left \subseteq Stores(next.fgs) => MergeInv(AfterStores(next))
<1>1. \A pc \in {"store", "memory", "dist"} :
         /\ [next EXCEPT !.pc = pc] \in PersistStates(n) /\ [next EXCEPT !.pc = pc].pc = pc
         /\ [next EXCEPT !.pc = pc].quiet = next.quiet /\ [next EXCEPT !.pc = pc].pod = next.pod
         /\ [next EXCEPT !.pc = pc].left = next.left /\ [next EXCEPT !.pc = pc].fgs = next.fgs
  BY DEF PersistStates
<1>2. AfterStores(next) = IdlePersist \/ \E pc \in {"store", "memory", "dist"} : AfterStores(next) = [next EXCEPT !.pc = pc]
  BY DEF AfterStores
<1>3. CASE AfterStores(next) = IdlePersist
  BY <1>3, IdleIs, IdlePersistGoes
<1>4. ASSUME NEW pc \in {"store", "memory", "dist"}, AfterStores(next) = [next EXCEPT !.pc = pc]
      PROVE  /\ AfterStores(next) \in PersistStates(n) /\ AfterStores(next).pc # "merge"
             /\ AfterStores(next).quiet => next.quiet /\ AfterStores(next).pod = next.pod
             /\ next.left \subseteq Stores(next.fgs) => MergeInv(AfterStores(next))
  BY <1>1, <1>4 DEF MergeInv
<1>5. QED
  BY <1>2, <1>3, <1>4

LEMMA PersistInvariant ==
  ASSUME IInv, NEW w \in Writers, Persist(w)
  PROVE  IInv'
<1>1. PICK q \in Writes :
         wr' = [wr EXCEPT ![w] = [IdlePersist EXCEPT !.pc = "store", !.pod = q[1], !.fgs = q[2],
                                     !.strong = q[1] # "consumer", !.left = Stores(q[2])]]
  BY DEF Persist, Step
<1> DEFINE next == [IdlePersist EXCEPT !.pc = "store", !.pod = q[1], !.fgs = q[2],
                       !.strong = q[1] # "consumer", !.left = Stores(q[2])]
<1>2. q[1] \in Pods \union {"consumer"} /\ q[2] \in SUBSET FGs /\ Stores(q[2]) \in SUBSET {"redis", "scylla"}
  BY FeatureStoreAssumption DEF Stores
<1>3. next \in PersistStates(clock) /\ next.pc = "store" /\ ~ next.quiet /\ next.left = Stores(next.fgs)
  BY <1>2, WorkOf, IdleIs DEF PersistStates
<1> HIDE DEF next
<1>4. MergeInv(next) /\ QuietInv(next)
  BY <1>3 DEF MergeInv, QuietInv
<1>5. UNCHANGED <<database, caches, rd, history>> /\ events' = events /\ persists' = persists + 1 /\ persists < MaxWrites
  BY DEF Persist
<1>6. persists' \in 0..MaxWrites /\ events' \in 0..MaxEvents
  BY <1>5, WorkOf, FeatureStoreAssumption
<1>7. wr' = [wr EXCEPT ![w] = next]
  BY <1>1 DEF next
<1>8. QED
  BY <1>3, <1>4, <1>5, <1>6, <1>7, PersistGoes

LEMMA ReadRowInvariant ==
  ASSUME IInv, NEW w \in Writers, ReadRow(w)
  PROVE  IInv'
<1> DEFINE base == IF CanReplace(wr[w].fgs) THEN NoEntry ELSE Existing
           next == [wr[w] EXCEPT !.pc = "merge", !.at = clock, !.base = base]
<1>1. /\ wr[w].pc = "store" /\ "redis" \in wr[w].left /\ wr' = [wr EXCEPT ![w] = next]
      /\ UNCHANGED <<database, caches, rd, counters, history>>
  BY DEF ReadRow, Step
<1>2. /\ TypeOK /\ wr[w] \in PersistStates(clock) /\ QuietInv(wr[w]) /\ clock \in Nat
      /\ wr[w].fgs \intersect Redis # {}
  <2>1. wr[w].left \subseteq Stores(wr[w].fgs)
    BY DEF IInv, MergeInv
  <2>2. QED
    BY <1>1, <2>1, WorkOf DEF Stores
<1>3. base \in Entries(clock) /\ (\A f \in DOMAIN base : base[f] > 0)
      /\ (CanReplace(wr[w].fgs) \/ Overtaken(clock) \/ base = Kept)
  <2>1. CASE base = NoEntry /\ (CanReplace(wr[w].fgs) \/ Overtaken(clock))
    BY <2>1, NoEntryIs
  <2>2. CASE base = Kept
    <3> DEFINE row == {f \in Redis : store[f] # 0}
    <3>1. row \in SUBSET FGs /\ \A f \in row : store[f] \in 1..clock
      BY <1>2 DEF Redis, TypeOK
    <3>2. base = Restrict(store, row)
      BY <2>2 DEF Kept
    <3> HIDE DEF row, base
    <3>3. base \in [row -> Lacking..clock] /\ DOMAIN base = row /\ \A f \in row : base[f] = store[f]
      BY <1>2, <3>1, <3>2 DEF Restrict, Masked, Lacking
    <3>4. QED
      BY <2>2, <3>1, <3>3, MakesEntry
  <2>3. QED
    BY <2>1, <2>2 DEF Existing, Kept, Overtaken
<1> HIDE DEF base
<1>4. /\ next \in PersistStates(clock) /\ next.pc = "merge" /\ next.at = clock /\ next.base = base
      /\ next.quiet = wr[w].quiet /\ next.pod = wr[w].pod /\ next.fgs = wr[w].fgs /\ next.left = wr[w].left
  <2>1. clock \in 0..clock /\ base \in Entries(clock)
    BY <1>2, <1>3
  <2>2. QED
    BY <1>2, <2>1 DEF PersistStates
<1> HIDE DEF next
<1>5. MergeInv(next) /\ QuietInv(next)
  BY <1>2, <1>3, <1>4, WorkOf DEF MergeInv, QuietInv
<1>6. QED
  BY <1>1, <1>4, <1>5, WorkOf, PersistGoes DEF counters

LEMMA WriteIsLostInvariant ==
  ASSUME IInv, NEW w \in Writers, WriteIsLost(w)
  PROVE  IInv'
<1> DEFINE after == [wr[w] EXCEPT !.left = @ \ {"scylla"}]
           next == AfterStores(after)
<1>1. Event /\ wr' = [wr EXCEPT ![w] = next] /\ UNCHANGED <<database, caches, rd, history>>
  BY DEF WriteIsLost, Step
<1>2. /\ after \in PersistStates(clock) /\ after.left = wr[w].left \ {"scylla"} /\ after.fgs = wr[w].fgs
      /\ after.quiet = wr[w].quiet /\ after.pod = wr[w].pod
  BY WorkOf DEF PersistStates
<1>3. after.left \subseteq Stores(after.fgs)
  BY <1>2, WorkOf DEF MergeInv
<1> HIDE DEF after
<1>4. next \in PersistStates(clock) /\ MergeInv(next) /\ (next.quiet => after.quiet /\ next.pod = after.pod)
  BY <1>2, <1>3, WorkOf, AfterStoresIs
<1>5. QuietInv(next)
  BY <1>2, <1>4, WorkOf DEF QuietInv
<1> HIDE DEF next
<1>6. QED
  BY <1>1, <1>4, <1>5, WorkOf, EventCounts, PersistGoes

LEMMA WriteFailsInvariant ==
  ASSUME IInv, NEW w \in Writers, WriteFails(w) \/ RemovalFails(w)
  PROVE  IInv'
<1>1. Event /\ wr' = [wr EXCEPT ![w] = IdlePersist] /\ UNCHANGED <<database, caches, rd, history>>
  BY DEF WriteFails, RemovalFails, Step
<1>2. QED
  BY <1>1, WorkOf, EventCounts, IdleIs, IdlePersistGoes, PersistGoes

\* A write of a store: time goes on, what the caches and the requests have
\* stays, and no promise is kept that the store would break.
LEMMA StoreGoes ==
  ASSUME IInv, NEW w \in Writers, NEW next \in PersistStates(clock + 1), wr' = [wr EXCEPT ![w] = next],
         clock' = clock + 1, UNCHANGED <<dead, caches, rd>>, UNCHANGED counters \/ Event,
         store' \in [FGs -> 0..(clock + 1)], QuietInv(next),
         Lower \/ UNCHANGED history, \A f \in FGs : settled'[f] <= store'[f],
         \A v \in Writers \ {w} : MergeInv(wr[v])', MergeInv(next)'
  PROVE  IInv'
<1>1. /\ TypeOK /\ SettledInv /\ FreshInv /\ clock \in Nat /\ UNCHANGED <<dead, mem, dist, rd>>
      /\ persists' \in 0..MaxWrites /\ events' \in 0..MaxEvents
  BY EventCounts DEF IInv, TypeOK, caches, counters
<1>2. /\ 0..clock \subseteq 0..clock' /\ Entries(clock) \subseteq Entries(clock')
      /\ RequestStates(clock) \subseteq RequestStates(clock') /\ PersistStates(clock) \subseteq PersistStates(clock')
  BY <1>1, TypesGrow
<1>3. /\ settled' \in [FGs -> 0..clock] /\ floor' \in [Readers -> [settled : [FGs -> 0..clock], dead : [FGs -> 0..clock]]]
      /\ \A f \in FGs : settled'[f] = settled[f] \/ settled'[f] = 0
      /\ \A r \in Readers : /\ floor'[r].dead = floor[r].dead
                            /\ floor[r].settled = settled => floor'[r].settled = settled'
  <2>1. CASE UNCHANGED history
    BY <1>1, <2>1 DEF history, TypeOK
  <2>2. CASE Lower
    <3>1. \A s \in [FGs -> 0..clock] : Lowered(s) \in [FGs -> 0..clock] /\ \A f \in FGs : Lowered(s)[f] \in {0, s[f]}
      BY <1>1 DEF Lowered
    <3>2. settled' = Lowered(settled) /\ settled \in [FGs -> 0..clock]
      BY <1>1, <2>2 DEF Lower, TypeOK
    <3>3. ASSUME NEW r \in Readers
          PROVE  /\ floor'[r] \in [settled : [FGs -> 0..clock], dead : [FGs -> 0..clock]]
                 /\ floor'[r].dead = floor[r].dead /\ floor'[r].settled = Lowered(floor[r].settled)
      <4>1. floor'[r] = [floor[r] EXCEPT !.settled = Lowered(floor[r].settled)]
        BY <2>2 DEF Lower
      <4>2. floor[r] \in [settled : [FGs -> 0..clock], dead : [FGs -> 0..clock]]
        BY <1>1 DEF TypeOK
      <4>3. Lowered(floor[r].settled) \in [FGs -> 0..clock]
        BY <3>1, <4>2
      <4> HIDE DEF Lowered
      <4>4. QED
        BY <4>1, <4>2, <4>3
    <3>4. floor' = [r \in Readers |-> floor'[r]]
      BY <2>2 DEF Lower
    <3>5. QED
      BY <3>1, <3>2, <3>3, <3>4
  <2>3. QED
    BY <2>1, <2>2
<1>4. /\ wr' \in [Writers -> PersistStates(clock')] /\ wr'[w] = next
      /\ \A v \in Writers \ {w} : wr'[v] = wr[v]
  BY <1>1, <1>2 DEF TypeOK
<1>5. TypeOK'
  <2>1. mem \in [Pods -> Entries(clock')] /\ dist \in Entries(clock') /\ rd \in [Readers -> RequestStates(clock')]
    BY <1>1, <1>2 DEF TypeOK
  <2>2. dead \in [FGs -> 0..clock'] /\ settled' \in [FGs -> 0..clock']
    BY <1>1, <1>2, <1>3 DEF TypeOK
  <2>3. floor' \in [Readers -> [settled : [FGs -> 0..clock'], dead : [FGs -> 0..clock']]]
    BY <1>2, <1>3
  <2>4. QED
    BY <1>1, <1>4, <2>1, <2>2, <2>3 DEF TypeOK
<1>6. (\A r \in Readers : HandInv(rd'[r])) /\ FreshInv'
  BY <1>1, <1>3 DEF IInv, FreshInv
<1>7. \A v \in Writers : MergeInv(wr[v])'
  BY <1>4 DEF MergeInv
<1>8. ASSUME NEW entry \in Entries(clock), GoodEntry(entry)
      PROVE  \A f \in DOMAIN entry :
                \/ entry[f] >= settled'[f] \/ entry[f] = Masked
                \/ entry[f] = Lacking /\ LacksSince(f, settled[f])'
                \/ f \notin Lifetime /\ settled'[f] <= dead[f]
  <2>1. \A f \in DOMAIN entry : f \in FGs /\ entry[f] \in Lacking..clock
    BY EntryIs
  <2>2. \A f \in DOMAIN entry : Good(f, entry[f])
    BY <1>8 DEF GoodEntry
  <2>3. ASSUME NEW f \in FGs, LacksSince(f, settled[f]) PROVE LacksSince(f, settled[f])'
    <3>1. settled[f] \in 0..clock /\ (settled'[f] = settled[f] \/ settled'[f] = 0) /\ clock' = clock + 1
      BY <1>1, <1>3 DEF TypeOK
    <3>2. PICK n \in settled[f]..clock : <<f, n>> \in Former
      BY <2>3 DEF LacksSince
    <3>3. n \in settled'[f]..clock'
      BY <1>1, <3>1
    <3>4. QED
      BY <3>2, <3>3 DEF LacksSince
  <2>4. ASSUME NEW f \in FGs
        PROVE  settled[f] \in 0..clock /\ (settled'[f] = settled[f] \/ settled'[f] = 0) /\ dead[f] \in 0..clock
    BY <1>1, <1>3 DEF TypeOK
  <2>5. ASSUME NEW f \in DOMAIN entry
        PROVE  \/ entry[f] >= settled'[f] \/ entry[f] = Masked
               \/ entry[f] = Lacking /\ LacksSince(f, settled[f])'
               \/ f \notin Lifetime /\ settled'[f] <= dead[f]
    <3>1. f \in FGs /\ entry[f] \in Int /\ Good(f, entry[f])
      BY <1>1, <2>1, <2>2 DEF Lacking
    <3>2. CASE entry[f] >= settled[f]
      BY <1>1, <2>4, <3>1, <3>2
    <3>3. CASE entry[f] = Lacking /\ LacksSince(f, settled[f])
      BY <2>3, <3>1, <3>3
    <3>4. CASE f \notin Lifetime /\ settled[f] <= dead[f]
      BY <1>1, <2>4, <3>1, <3>4
    <3>5. QED
      BY <3>1, <3>2, <3>3, <3>4 DEF Good
  <2>6. QED
    BY <2>5
<1>9. SettledInv'
  <2>1. \A p \in Pods : mem[p] \in Entries(clock) /\ GoodEntry(mem[p])
    BY <1>1 DEF TypeOK, SettledInv
  <2>2. dist \in Entries(clock) /\ GoodEntry(dist)
    BY <1>1 DEF TypeOK, SettledInv
  <2>3. \A r \in Readers : rd[r].pc # "idle" => rd[r].hand \in Entries(clock) /\ GoodEntry(rd[r].hand) /\ floor'[r].settled = settled'
    BY <1>1, <1>3, AtWork DEF SettledInv
  <2>4. \A v \in Writers : QuietInv(wr[v])'
    BY <1>1, <1>4 DEF SettledInv, QuietInv, AllIdle
  <2>5. QED
    BY <1>1, <1>8, <2>1, <2>2, <2>3, <2>4 DEF SettledInv, GoodEntry, Good
<1>10. QED
  BY <1>5, <1>6, <1>7, <1>9 DEF IInv

\* The groups that a persist writes get the number of the write.
LEMMA NumberedIs ==
  ASSUME clock \in Nat, NEW fgs \in SUBSET FGs
  PROVE  /\ Numbered(fgs) \in Entries(clock + 1) /\ DOMAIN Numbered(fgs) = fgs
         /\ \A f \in fgs : Numbered(fgs)[f] = clock + 1
<1>1. Numbered(fgs) \in [fgs -> Lacking..(clock + 1)]
  BY DEF Numbered, Masked, Lacking
<1>2. QED
  BY <1>1, MakesEntry DEF Numbered

LEMMA MergeStores ==
  ASSUME IInv, NEW w \in Writers, Merge(w)
  PROVE  /\ store' \in [FGs -> 0..(clock + 1)] /\ clock' = clock + 1
         /\ \A f \in FGs : f \in Scylla => store'[f] = store[f]
         /\ \A f \in Redis \intersect wr[w].fgs : store'[f] = clock + 1
         /\ \A f \in Redis \ wr[w].fgs : store'[f] = IF f \in DOMAIN wr[w].base THEN wr[w].base[f] ELSE 0
         /\ \E g \in Redis : store'[g] = clock + 1
<1> DEFINE new == Numbered(wr[w].fgs \intersect Redis)
           row == Over(new, wr[w].base)
<1>1. /\ wr[w].pc = "merge" /\ clock' = clock + 1
      /\ store' = [f \in FGs |-> IF f \in Scylla THEN store[f] ELSE IF f \in DOMAIN row THEN row[f] ELSE 0]
  BY DEF Merge
<1>2. /\ TypeOK /\ clock \in Nat /\ wr[w].base \in Entries(clock) /\ wr[w].fgs \subseteq FGs
      /\ MergeInv(wr[w])
  BY WorkOf
<1>3. DOMAIN new = wr[w].fgs \intersect Redis /\ \A f \in DOMAIN new : new[f] = clock + 1
  BY <1>2, NumberedIs
<1> HIDE DEF new
<1>4. /\ DOMAIN row = DOMAIN new \union DOMAIN wr[w].base
      /\ \A f \in DOMAIN new : row[f] = new[f]
      /\ \A f \in DOMAIN wr[w].base \ DOMAIN new : row[f] = wr[w].base[f]
  BY OverIs, Zenon
<1> HIDE DEF row
<1>5. \A f \in DOMAIN wr[w].base : f \in FGs /\ wr[w].base[f] \in 0..clock
  BY <1>1, <1>2, EntryIs DEF MergeInv, Masked, Lacking
<1>6. \A f \in FGs : store[f] \in 0..clock
  BY <1>2 DEF TypeOK
<1>7. ASSUME NEW f \in FGs
      PROVE  /\ store'[f] \in 0..(clock + 1) /\ (f \in Scylla => store'[f] = store[f])
             /\ (f \in Redis \intersect wr[w].fgs => store'[f] = clock + 1)
             /\ (f \in Redis \ wr[w].fgs => store'[f] = IF f \in DOMAIN wr[w].base THEN wr[w].base[f] ELSE 0)
  <2>1. CASE f \in Scylla
    BY <1>1, <1>2, <1>6, <2>1 DEF Redis
  <2>2. CASE f \notin Scylla /\ f \in wr[w].fgs
    BY <1>1, <1>2, <1>3, <1>4, <2>2 DEF Redis
  <2>3. CASE f \notin Scylla /\ f \notin wr[w].fgs
    BY <1>1, <1>2, <1>3, <1>4, <1>5, <2>3 DEF Redis
  <2>4. QED
    BY <2>1, <2>2, <2>3
<1>8. store' \in [FGs -> 0..(clock + 1)]
  BY <1>1, <1>7
<1>9. \E g \in Redis : store'[g] = clock + 1
  BY <1>1, <1>2, <1>7 DEF MergeInv, Redis
<1>10. QED
  BY <1>1, <1>7, <1>8, <1>9 DEF Redis

\* What a merge leaves to the other persists, and to the promises made.
LEMMA MergeLeaves ==
  ASSUME IInv, NEW w \in Writers, Merge(w), NEW next, wr' = [wr EXCEPT ![w] = next]
  PROVE  /\ \A v \in Writers \ {w} : MergeInv(wr[v])'
         /\ \A f \in FGs : settled'[f] <= store'[f]
<1>1. clock' = clock + 1 /\ UNCHANGED <<dead, caches, rd>> /\ Lower
  BY DEF Merge
<1>2. TypeOK /\ clock \in Nat
  BY WorkOf
<1>3. store' \in [FGs -> 0..(clock + 1)]
  BY MergeStores
<1>4. \A v \in Writers \ {w} : MergeInv(wr[v])'
  <2> SUFFICES ASSUME NEW v \in Writers \ {w} PROVE MergeInv(wr[v])'
    OBVIOUS
  <2>1. wr'[v] = wr[v] /\ wr[v].at \in 0..clock /\ MergeInv(wr[v])
    BY <1>1, <1>2, WorkOf DEF TypeOK, PersistStates
  <2>2. PICK g \in Redis : store'[g] = clock + 1
    BY MergeStores
  <2>3. store'[g] > wr[v].at
    BY <1>2, <2>1, <2>2
  <2>4. QED
    BY <2>1, <2>3 DEF MergeInv, Overtaken
<1>5. \A f \in FGs : settled'[f] <= store'[f]
  <2>1. settled' = Lowered(settled) /\ settled \in [FGs -> 0..clock]
    BY <1>1, <1>2 DEF Lower, TypeOK
  <2>2. QED
    BY <1>2, <1>3, <2>1 DEF Lowered
<1>6. QED
  BY <1>4, <1>5

LEMMA WriteRowInvariant ==
  ASSUME IInv, NEW w \in Writers, WriteRow(w)
  PROVE  IInv'
<1> DEFINE new == Numbered(wr[w].fgs \intersect Redis)
           after == [wr[w] EXCEPT !.left = @ \ {"redis"}, !.base = NoEntry, !.at = 0, !.wrote = Over(new, @)]
           next == AfterStores(after)
<1>1. /\ wr' = [wr EXCEPT ![w] = next] /\ clock' = clock + 1 /\ UNCHANGED <<dead, caches, rd>> /\ Lower
      /\ UNCHANGED counters /\ Merge(w)
  BY DEF WriteRow, Merge, Step
<1>2. /\ TypeOK /\ clock \in Nat /\ wr[w] \in PersistStates(clock) /\ wr[w].fgs \subseteq FGs /\ wr[w].wrote \in Entries(clock)
      /\ MergeInv(wr[w]) /\ QuietInv(wr[w])
  BY WorkOf
<1>3. /\ wr[w] \in PersistStates(clock + 1) /\ wr[w].wrote \in Entries(clock + 1)
      /\ new \in Entries(clock + 1) /\ NoEntry \in Entries(clock + 1) /\ clock + 1 \in Nat
  BY <1>2, TypesGrow, NumberedIs, NoEntryIs
<1>4. Over(new, wr[w].wrote) \in Entries(clock + 1) /\ 0 \in 0..(clock + 1)
  BY <1>3, OverEntry
<1> HIDE DEF new
<1>5. /\ after \in PersistStates(clock + 1) /\ after.left = wr[w].left \ {"redis"} /\ after.fgs = wr[w].fgs
      /\ after.quiet = wr[w].quiet /\ after.pod = wr[w].pod
  BY <1>3, <1>4 DEF PersistStates
<1>6. after.left \subseteq Stores(after.fgs)
  BY <1>2, <1>5 DEF MergeInv
<1> HIDE DEF after
<1>7. /\ next \in PersistStates(clock + 1) /\ MergeInv(next) /\ (next.quiet => after.quiet /\ next.pod = after.pod)
      /\ next.pc # "merge"
  BY <1>3, <1>5, <1>6, AfterStoresIs
<1>8. QuietInv(next)
  BY <1>2, <1>5, <1>7 DEF QuietInv
<1>9. PICK q \in PersistStates(clock + 1) : /\ wr' = [wr EXCEPT ![w] = q] /\ QuietInv(q)
                                             /\ q.left \subseteq Stores(q.fgs) /\ q.pc # "merge"
  BY <1>1, <1>7, <1>8 DEF MergeInv
<1>10. store' \in [FGs -> 0..(clock + 1)]
  BY <1>1, MergeStores
<1>11. /\ \A v \in Writers \ {w} : MergeInv(wr[v])'
       /\ \A f \in FGs : settled'[f] <= store'[f]
  BY <1>1, MergeLeaves
<1>12. MergeInv(q)'
  BY <1>9 DEF MergeInv
<1>13. QED
  BY <1>1, <1>9, <1>10, <1>11, <1>12, StoreGoes

LEMMA AnswerIsLostInvariant ==
  ASSUME IInv, NEW w \in Writers, AnswerIsLost(w)
  PROVE  IInv'
<1>1. /\ wr' = [wr EXCEPT ![w] = IdlePersist] /\ clock' = clock + 1 /\ UNCHANGED <<dead, caches, rd>> /\ Lower
      /\ Event /\ Merge(w)
  BY DEF AnswerIsLost, Merge, Step
<1>2. clock + 1 \in Nat
  BY WorkOf
<1>3. IdlePersist \in PersistStates(clock + 1) /\ QuietInv(IdlePersist) /\ MergeInv(IdlePersist)'
  BY <1>2, IdleIs, IdlePersistGoes DEF QuietInv, MergeInv
<1>4. store' \in [FGs -> 0..(clock + 1)]
  BY <1>1, MergeStores
<1>5. /\ \A v \in Writers \ {w} : MergeInv(wr[v])'
      /\ \A f \in FGs : settled'[f] <= store'[f]
  BY <1>1, MergeLeaves
<1>6. QED
  BY <1>1, <1>3, <1>4, <1>5, StoreGoes

LEMMA WriteColumnsStores ==
  ASSUME IInv, NEW w \in Writers, WriteColumns(w)
  PROVE  /\ store' \in [FGs -> 0..(clock + 1)] /\ clock' = clock + 1
         /\ \A f \in FGs : store'[f] >= store[f]
         /\ \A f \in Redis : store'[f] = store[f]
<1> DEFINE new == Numbered(wr[w].fgs \intersect Scylla)
<1>1. TypeOK /\ clock \in Nat /\ wr[w].fgs \subseteq FGs /\ store' = Over(new, store) /\ clock' = clock + 1
  BY WorkOf DEF WriteColumns
<1>2. DOMAIN new = wr[w].fgs \intersect Scylla /\ (\A f \in DOMAIN new : new[f] = clock + 1)
      /\ DOMAIN store = FGs /\ \A f \in FGs : store[f] \in 0..clock
  BY <1>1, NumberedIs DEF TypeOK
<1> HIDE DEF new
<1>3. /\ \A f \in DOMAIN new : store'[f] = new[f]
      /\ \A f \in DOMAIN store \ DOMAIN new : store'[f] = store[f]
  <2>1. /\ \A f \in DOMAIN new : Over(new, store)[f] = new[f]
        /\ \A f \in DOMAIN store \ DOMAIN new : Over(new, store)[f] = store[f]
    BY OverIs
  <2>2. QED
    BY <1>1, <2>1
<1>4. store' = [f \in FGs |-> store'[f]]
  BY <1>1, <1>2 DEF Over
<1>5. \A f \in FGs : store'[f] \in 0..(clock + 1) /\ store'[f] >= store[f]
  BY <1>1, <1>2, <1>3
<1>6. \A f \in Redis : store'[f] = store[f]
  BY <1>2, <1>3 DEF Redis
<1>7. QED
  BY <1>1, <1>4, <1>5, <1>6

LEMMA WriteColumnsInvariant ==
  ASSUME IInv, NEW w \in Writers, WriteColumns(w)
  PROVE  IInv'
<1> DEFINE new == Numbered(wr[w].fgs \intersect Scylla)
           after == [wr[w] EXCEPT !.left = @ \ {"scylla"}, !.wrote = Over(new, @)]
           next == AfterStores(after)
<1>1. /\ wr' = [wr EXCEPT ![w] = next] /\ clock' = clock + 1 /\ UNCHANGED <<dead, caches, rd, counters, history>>
  BY DEF WriteColumns, Step
<1>2. /\ TypeOK /\ clock \in Nat /\ wr[w] \in PersistStates(clock) /\ wr[w].fgs \subseteq FGs /\ wr[w].wrote \in Entries(clock)
      /\ MergeInv(wr[w]) /\ QuietInv(wr[w])
  BY WorkOf
<1>3. /\ wr[w] \in PersistStates(clock + 1) /\ wr[w].wrote \in Entries(clock + 1)
      /\ new \in Entries(clock + 1) /\ clock + 1 \in Nat
  BY <1>2, TypesGrow, NumberedIs
<1>4. Over(new, wr[w].wrote) \in Entries(clock + 1)
  BY <1>3, OverEntry
<1> HIDE DEF new
<1>5. /\ after \in PersistStates(clock + 1) /\ after.left = wr[w].left \ {"scylla"} /\ after.fgs = wr[w].fgs
      /\ after.quiet = wr[w].quiet /\ after.pod = wr[w].pod
  BY <1>3, <1>4 DEF PersistStates
<1>6. after.left \subseteq Stores(after.fgs)
  BY <1>2, <1>5 DEF MergeInv
<1> HIDE DEF after
<1>7. /\ next \in PersistStates(clock + 1) /\ MergeInv(next) /\ (next.quiet => after.quiet /\ next.pod = after.pod)
      /\ next.pc # "merge"
  BY <1>3, <1>5, <1>6, AfterStoresIs
<1>8. QuietInv(next)
  BY <1>2, <1>5, <1>7 DEF QuietInv
<1>9. PICK q \in PersistStates(clock + 1) : /\ wr' = [wr EXCEPT ![w] = q] /\ QuietInv(q)
                                             /\ q.left \subseteq Stores(q.fgs) /\ q.pc # "merge"
  BY <1>1, <1>7, <1>8 DEF MergeInv
<1>10. store' \in [FGs -> 0..(clock + 1)] /\ (\A f \in FGs : store'[f] >= store[f]) /\ \A f \in Redis : store'[f] = store[f]
  BY WriteColumnsStores
<1>11. \A v \in Writers \ {w} : MergeInv(wr[v])'
  <2> SUFFICES ASSUME NEW v \in Writers \ {w} PROVE MergeInv(wr[v])'
    OBVIOUS
  <2>1. wr'[v] = wr[v] /\ MergeInv(wr[v]) /\ dead' = dead
    BY <1>1, <1>2, WorkOf DEF TypeOK
  <2>2. Kept' = Kept /\ \A at : Overtaken(at) => Overtaken(at)'
    BY <1>10, <2>1 DEF Kept, Overtaken, Expired, Restrict
  <2>3. QED
    BY <2>1, <2>2 DEF MergeInv
<1>12. \A f \in FGs : settled'[f] <= store'[f]
  <2>1. \A f \in FGs : settled[f] <= store[f] /\ settled[f] \in 0..clock /\ store[f] \in 0..clock
    BY <1>2 DEF IInv, SettledInv, TypeOK
  <2>2. QED
    BY <1>1, <1>2, <1>10, <2>1 DEF history
<1>13. MergeInv(q)'
  BY <1>9 DEF MergeInv
<1>14. QED
  BY <1>1, <1>9, <1>10, <1>11, <1>12, <1>13, StoreGoes

LEMMA RemoveFromInMemoryCacheInvariant ==
  ASSUME IInv, NEW w \in Writers, RemoveFromInMemoryCache(w)
  PROVE  IInv'
<1> DEFINE goes == [wr[w] EXCEPT !.pc = "dist", !.quiet = AllIdle]
<1>1. /\ wr' = [wr EXCEPT ![w] = IF Dist = {} THEN IdlePersist ELSE goes] /\ mem' = [mem EXCEPT ![wr[w].pod] = NoEntry]
      /\ UNCHANGED <<store, clock, dead, dist, rd, persists, events, settled, floor>>
  BY DEF RemoveFromInMemoryCache, Step, database, counters, history
<1>2. TypeOK /\ SettledInv /\ FreshInv /\ wr[w] \in PersistStates(clock) /\ MergeInv(wr[w]) /\ clock \in Nat /\ NoEntry \in Entries(clock)
      /\ DOMAIN NoEntry = {}
  BY WorkOf, NoEntryIs DEF IInv
<1>3. AllIdle \in BOOLEAN
  BY DEF AllIdle
<1>4. /\ goes \in PersistStates(clock) /\ goes.pc = "dist" /\ goes.left = wr[w].left /\ goes.fgs = wr[w].fgs
      /\ (goes.quiet => AllIdle) /\ goes.pod = wr[w].pod
  BY <1>2, <1>3 DEF PersistStates
<1> HIDE DEF goes
<1>5. PICK next \in PersistStates(clock) : /\ wr' = [wr EXCEPT ![w] = next] /\ MergeInv(next) /\ next.pc # "merge"
                                           /\ next.quiet => AllIdle /\ next.pod = wr[w].pod
  BY <1>1, <1>2, <1>4, IdleIs, IdlePersistGoes DEF MergeInv
<1>6. /\ wr' \in [Writers -> PersistStates(clock)] /\ wr'[w] = next
      /\ \A v \in Writers \ {w} : wr'[v] = wr[v]
  BY <1>2, <1>5 DEF TypeOK
<1>7. /\ mem' \in [Pods -> Entries(clock)] /\ \A p \in Pods : mem'[p] = IF p = wr[w].pod THEN NoEntry ELSE mem[p]
  BY <1>1, <1>2 DEF TypeOK
<1>8. TypeOK'
  BY <1>1, <1>2, <1>6, <1>7 DEF TypeOK
<1>9. (\A r \in Readers : HandInv(rd'[r])) /\ FreshInv'
  BY <1>1, <1>2 DEF IInv, FreshInv
<1>10. \A v \in Writers : MergeInv(wr[v])'
  BY <1>1, <1>5, <1>6 DEF IInv, MergeInv, Overtaken, Expired, Kept
<1>11. \A v \in Writers : QuietInv(wr[v])'
  BY <1>1, <1>2, <1>5, <1>6, <1>7 DEF SettledInv, QuietInv, AllIdle
<1>12. \A p \in Pods : GoodEntry(mem'[p])
  BY <1>2, <1>7 DEF SettledInv, GoodEntry
<1>13. SettledInv'
  BY <1>1, <1>2, <1>11, <1>12 DEF SettledInv, GoodEntry, Good, LacksSince
<1>14. QED
  BY <1>8, <1>9, <1>10, <1>13 DEF IInv

LEMMA RemoveFromDistributedCacheInvariant ==
  ASSUME IInv, NEW w \in Writers, RemoveFromDistributedCache(w)
  PROVE  IInv'
<1>1. /\ wr' = [wr EXCEPT ![w] = IdlePersist] /\ dist' = NoEntry
      /\ UNCHANGED <<store, clock, dead, mem, rd, persists, events, floor>>
      /\ settled' = [f \in FGs |-> IF Settles(w, f) THEN store[f] ELSE settled[f]]
  BY DEF RemoveFromDistributedCache, Step, database, counters
<1>2. /\ TypeOK /\ SettledInv /\ FreshInv /\ wr[w] \in PersistStates(clock) /\ QuietInv(wr[w]) /\ clock \in Nat
      /\ NoEntry \in Entries(clock) /\ DOMAIN NoEntry = {} /\ IdlePersist \in PersistStates(clock)
      /\ ~ IdlePersist.quiet /\ MergeInv(IdlePersist)
  BY WorkOf, NoEntryIs, IdleIs, IdlePersistGoes DEF IInv
<1>3. /\ wr' \in [Writers -> PersistStates(clock)] /\ wr'[w] = IdlePersist
      /\ \A v \in Writers \ {w} : wr'[v] = wr[v]
  BY <1>1, <1>2 DEF TypeOK
<1>4. /\ settled' \in [FGs -> 0..clock] /\ \A f \in FGs : settled'[f] = IF Settles(w, f) THEN store[f] ELSE settled[f]
      /\ \A f \in FGs : store[f] \in 0..clock /\ settled[f] \in 0..clock /\ settled[f] <= store[f]
  BY <1>1, <1>2 DEF TypeOK, SettledInv
<1>5. TypeOK'
  BY <1>1, <1>2, <1>3, <1>4 DEF TypeOK
<1>6. (\A r \in Readers : HandInv(rd'[r])) /\ FreshInv'
  BY <1>1, <1>2 DEF IInv, FreshInv
<1>7. \A v \in Writers : MergeInv(wr[v])'
  BY <1>1, <1>2, <1>3 DEF IInv, MergeInv, Overtaken, Expired, Kept
<1>8. \A v \in Writers : QuietInv(wr[v])'
  BY <1>1, <1>2, <1>3 DEF SettledInv, QuietInv, AllIdle
<1>9. \A f \in FGs : settled'[f] <= store'[f]
  BY <1>1, <1>4
<1>10. ASSUME NEW p \in Pods, NEW f \in DOMAIN mem[p] PROVE Good(f, mem[p][f])'
  <2>1. f \in FGs /\ Good(f, mem[p][f])
    BY <1>2, EntryIs DEF TypeOK, SettledInv, GoodEntry
  <2>2. CASE ~ Settles(w, f)
    BY <1>1, <1>4, <2>1, <2>2 DEF Good, LacksSince
  <2>3. CASE Settles(w, f)
    <3>1. wr[w].quiet /\ (p # wr[w].pod => mem[p][f] >= store[f])
      BY <2>3 DEF Settles
    <3>2. p # wr[w].pod
      BY <1>2, <3>1 DEF QuietInv
    <3>3. QED
      BY <1>1, <1>4, <2>1, <2>3, <3>1, <3>2 DEF Good, LacksSince
  <2>4. QED
    BY <2>2, <2>3
<1>11. ASSUME NEW r \in Readers, rd[r].pc # "idle" PROVE (floor[r].settled = settled)' /\ GoodEntry(rd[r].hand)'
  <2>1. ~ wr[w].quiet
    BY <1>2, <1>11 DEF QuietInv, AllIdle
  <2>2. \A f \in FGs : settled'[f] = settled[f]
    BY <1>4, <2>1 DEF Settles
  <2>3. settled' = settled
    BY <1>2, <1>4, <2>2 DEF TypeOK
  <2>4. QED
    BY <1>1, <1>2, <1>11, <2>3 DEF SettledInv, GoodEntry, Good, LacksSince
<1>12. SettledInv'
  BY <1>1, <1>2, <1>8, <1>9, <1>10, <1>11 DEF SettledInv, GoodEntry
<1>13. QED
  BY <1>5, <1>6, <1>7, <1>12 DEF IInv

LEMMA PersistStepInvariant ==
  ASSUME IInv, NEW w \in Writers, PersistStep(w)
  PROVE  IInv'
BY PersistInvariant, ReadRowInvariant, WriteRowInvariant, WriteColumnsInvariant, WriteIsLostInvariant,
   WriteFailsInvariant, AnswerIsLostInvariant, RemoveFromInMemoryCacheInvariant, RemoveFromDistributedCacheInvariant DEF PersistStep

-----------------------------------------------------------------------------
(* Time, eviction and crashes.                                              *)

LEMMA ExpireInvariant ==
  ASSUME IInv, NEW f \in FGs, Expire(f)
  PROVE  IInv'
<1>1. /\ TypeOK /\ SettledInv /\ FreshInv /\ UNCHANGED <<store, clock, mem, dist, rd, wr, settled, floor>> /\ Event
      /\ clock \in Nat /\ \A g \in FGs : store[g] \in 0..clock /\ dead[g] \in 0..clock /\ settled[g] \in 0..clock
  BY DEF IInv, Expire, caches, history, TypeOK
<1>2. PICK v \in (dead[f] + 1)..store[f] : dead' = [dead EXCEPT ![f] = v]
  BY DEF Expire
<1>3. dead' \in [FGs -> 0..clock] /\ \A g \in FGs : dead'[g] >= dead[g]
  BY <1>1, <1>2 DEF TypeOK
<1>4. TypeOK'
  BY <1>1, <1>3, EventCounts DEF TypeOK
<1>5. FreshInv'
  <2>1. \A r \in Readers : \A g \in FGs : floor[r].dead[g] <= dead[g] /\ floor[r].dead[g] \in 0..clock
    BY <1>1 DEF FreshInv, TypeOK
  <2>2. \A r \in Readers : \A g \in FGs : floor[r].dead[g] <= dead'[g]
    BY <1>1, <1>3, <2>1
  <2>3. QED
    BY <1>1, <2>2 DEF FreshInv
<1>6. \A w \in Writers : MergeInv(wr[w])'
  <2>1. \A at : Overtaken(at) => Overtaken(at)'
    BY <1>1, <1>3 DEF Overtaken, Expired, Redis
  <2>2. Kept' = Kept
    BY <1>1 DEF Kept
  <2>3. QED
    BY <1>1, <2>1, <2>2 DEF IInv, MergeInv
<1>7. ASSUME NEW entry \in Entries(clock), GoodEntry(entry)
      PROVE  \A g \in DOMAIN entry :
                \/ entry[g] >= settled[g] \/ entry[g] = Masked
                \/ entry[g] = Lacking /\ LacksSince(g, settled[g])
                \/ g \notin Lifetime /\ settled[g] <= dead'[g]
  <2>1. \A g \in DOMAIN entry : g \in FGs
    BY EntryIs
  <2>2. \A g \in DOMAIN entry : Good(g, entry[g])
    BY <1>7 DEF GoodEntry
  <2>3. QED
    BY <1>1, <1>3, <2>1, <2>2 DEF Good
<1>8. SettledInv'
  <2>1. (\A p \in Pods : mem[p] \in Entries(clock) /\ GoodEntry(mem[p])) /\ dist \in Entries(clock) /\ GoodEntry(dist)
    BY <1>1 DEF TypeOK, SettledInv
  <2>2. \A r \in Readers : rd[r].pc # "idle" => rd[r].hand \in Entries(clock) /\ GoodEntry(rd[r].hand) /\ floor[r].settled = settled
    BY <1>1, AtWork DEF SettledInv
  <2>3. QED
    BY <1>1, <1>7, <2>1, <2>2 DEF SettledInv, GoodEntry, Good, LacksSince, QuietInv, AllIdle
<1>9. QED
  BY <1>1, <1>4, <1>5, <1>6, <1>8 DEF IInv

\* Entries that go, and with a pod its requests and persists.
LEMMA GoesAway ==
  ASSUME IInv, mem' \in [Pods -> Entries(clock)], \A p \in Pods : mem'[p] \in {mem[p], NoEntry}, dist' \in {dist, NoEntry},
         rd' \in [Readers -> RequestStates(clock)], wr' \in [Writers -> PersistStates(clock)],
         \A r \in Readers : rd'[r] \in {rd[r], IdleRequest}, \A w \in Writers : wr'[w] \in {wr[w], IdlePersist},
         UNCHANGED <<store, clock, dead, settled, floor>>, Event
  PROVE  IInv'
<1>1. TypeOK /\ SettledInv /\ FreshInv /\ clock \in Nat /\ NoEntry \in Entries(clock) /\ DOMAIN NoEntry = {} /\ IdleRequest.pc = "idle"
      /\ ~ IdlePersist.quiet /\ MergeInv(IdlePersist)
  BY NoEntryIs, IdleIs, IdlePersistGoes DEF IInv, TypeOK
<1>2. TypeOK'
  BY <1>1, EventCounts DEF TypeOK
<1>3. /\ \A r \in Readers : HandInv(rd'[r])
      /\ FreshInv' /\ \A r \in Readers : rd'[r].pc # "idle" => floor'[r].settled = settled /\ GoodEntry(rd'[r].hand)
      /\ AllIdle => AllIdle'
  <2>1. \A r \in Readers : HandInv(rd[r]) /\ (rd'[r] = rd[r] \/ rd'[r].pc = "idle")
    BY <1>1 DEF IInv
  <2>2. \A r \in Readers : HandInv(rd'[r])
    BY <1>1, <2>1 DEF HandInv
  <2>3. FreshInv'
    BY <1>1, <2>1 DEF FreshInv
  <2>4. QED
    BY <1>1, <2>1, <2>2, <2>3 DEF SettledInv, AllIdle
<1>4. \A w \in Writers : MergeInv(wr[w])'
  <2> SUFFICES ASSUME NEW w \in Writers PROVE MergeInv(wr[w])'
    OBVIOUS
  <2>1. PICK q : wr'[w] = q /\ MergeInv(q)
    BY <1>1 DEF IInv
  <2>2. MergeInv(q)'
    BY <2>1 DEF MergeInv, Overtaken, Expired, Kept
  <2>3. QED
    BY <2>1, <2>2 DEF MergeInv
<1>5. \A w \in Writers : QuietInv(wr[w])'
  <2> SUFFICES ASSUME NEW w \in Writers, wr'[w].quiet PROVE QuietInv(wr[w])'
    BY DEF QuietInv
  <2>1. wr'[w] = wr[w] /\ QuietInv(wr[w])
    BY <1>1 DEF SettledInv
  <2>2. AllIdle /\ (wr[w].pod \in Pods => mem[wr[w].pod] = NoEntry)
    BY <2>1 DEF QuietInv
  <2>3. QED
    BY <1>3, <2>1, <2>2 DEF QuietInv
<1>6. (\A p \in Pods : GoodEntry(mem'[p])) /\ GoodEntry(dist')
  BY <1>1 DEF SettledInv, GoodEntry
<1>7. SettledInv'
  BY <1>1, <1>3, <1>5, <1>6 DEF SettledInv, GoodEntry, Good, LacksSince
<1>8. QED
  BY <1>2, <1>3, <1>4, <1>7 DEF IInv

LEMMA EvictInvariant ==
  ASSUME IInv, Evict
  PROVE  IInv'
<1>1. /\ UNCHANGED <<store, clock, dead, rd, wr, settled, floor>> /\ Event
      /\ \/ (\E p \in Pods : mem' = [mem EXCEPT ![p] = NoEntry]) /\ dist' = dist
         \/ dist' = NoEntry /\ mem' = mem
  BY DEF Evict, database, history
<1>2. TypeOK /\ NoEntry \in Entries(clock)
  BY NoEntryIs DEF IInv
<1>3. mem' \in [Pods -> Entries(clock)] /\ \A p \in Pods : mem'[p] \in {mem[p], NoEntry}
  BY <1>1, <1>2 DEF TypeOK
<1>4. QED
  BY <1>1, <1>2, <1>3, GoesAway DEF TypeOK

LEMMA CrashInvariant ==
  ASSUME IInv, NEW p \in Pods, Crash(p)
  PROVE  IInv'
<1>1. /\ UNCHANGED <<store, clock, dead, dist, settled, floor>> /\ Event
      /\ mem' = [mem EXCEPT ![p] = NoEntry]
      /\ rd' = [r \in Readers |-> IF rd[r].pod = p THEN IdleRequest ELSE rd[r]]
      /\ wr' = [w \in Writers |-> IF wr[w].pod = p THEN IdlePersist ELSE wr[w]]
  BY DEF Crash, database, history
<1>2. TypeOK /\ NoEntry \in Entries(clock) /\ IdleRequest \in RequestStates(clock) /\ IdlePersist \in PersistStates(clock)
  BY NoEntryIs, IdleIs DEF IInv, TypeOK
<1>3. mem' \in [Pods -> Entries(clock)] /\ \A o \in Pods : mem'[o] \in {mem[o], NoEntry}
  BY <1>1, <1>2 DEF TypeOK
<1>4. rd' \in [Readers -> RequestStates(clock)] /\ wr' \in [Writers -> PersistStates(clock)]
  BY <1>1, <1>2 DEF TypeOK
<1>5. QED
  BY <1>1, <1>3, <1>4, GoesAway

-----------------------------------------------------------------------------
(* The invariant.                                                           *)

LEMMA InitInvariant == Init => IInv
<1> SUFFICES ASSUME Init PROVE IInv
  OBVIOUS
<1>1. /\ store = Zero /\ clock = 0 /\ dead = Zero /\ mem = [p \in Pods |-> NoEntry] /\ dist = NoEntry
      /\ rd = [r \in Readers |-> IdleRequest] /\ wr = [w \in Writers |-> IdlePersist]
      /\ persists = 0 /\ events = 0 /\ settled = Zero
      /\ floor = [r \in Readers |-> [settled |-> Zero, dead |-> Zero]]
  BY DEF Init
<1>2. /\ NoEntry \in Entries(0) /\ DOMAIN NoEntry = {} /\ IdleRequest \in RequestStates(0) /\ IdlePersist \in PersistStates(0)
      /\ Zero \in [FGs -> 0..0] /\ IdleRequest.pc = "idle" /\ ~ IdlePersist.quiet /\ MergeInv(IdlePersist)
      /\ \A f \in FGs : Zero[f] = 0
  BY NoEntryIs, IdleIs, IdlePersistGoes DEF Zero
<1>3. TypeOK
  BY <1>1, <1>2, FeatureStoreAssumption DEF TypeOK
<1>4. \A r \in Readers : HandInv(rd[r])
  BY <1>1, <1>2 DEF HandInv
<1>5. FreshInv
  BY <1>1, <1>2 DEF FreshInv
<1>6. SettledInv
  BY <1>1, <1>2 DEF SettledInv, GoodEntry, QuietInv
<1>7. QED
  BY <1>1, <1>2, <1>3, <1>4, <1>5, <1>6 DEF IInv

LEMMA StepInvariant == IInv /\ [Next]_vars => IInv'
<1> SUFFICES ASSUME IInv, [Next]_vars PROVE IInv'
  OBVIOUS
<1>1. ASSUME NEW r \in Readers, Request(r) PROVE IInv'
  BY <1>1, RequestInvariant
<1>2. ASSUME NEW w \in Writers, PersistStep(w) PROVE IInv'
  BY <1>2, PersistStepInvariant
<1>3. ASSUME NEW f \in FGs, Expire(f) PROVE IInv'
  BY <1>3, ExpireInvariant
<1>4. CASE Evict
  BY <1>4, EvictInvariant
<1>5. ASSUME NEW p \in Pods, Crash(p) PROVE IInv'
  BY <1>5, CrashInvariant
<1>6. CASE UNCHANGED vars
  <2>1. UNCHANGED <<store, clock, dead, mem, dist, rd, wr, persists, events, settled, floor>>
    BY <1>6 DEF vars
  <2>2. TypeOK' /\ FreshInv' /\ SettledInv'
    BY <2>1 DEF IInv, TypeOK, FreshInv, SettledInv, GoodEntry, Good, LacksSince, QuietInv, AllIdle
  <2>3. (\A r \in Readers : HandInv(rd'[r])) /\ \A w \in Writers : MergeInv(wr[w])'
    BY <2>1 DEF IInv, MergeInv, Overtaken, Expired, Kept
  <2>4. QED
    BY <2>2, <2>3 DEF IInv
<1>7. QED
  BY <1>1, <1>2, <1>3, <1>4, <1>5, <1>6 DEF Next

LEMMA Invariant == Spec => []IInv
BY InitInvariant, StepInvariant, PTL DEF Spec

-----------------------------------------------------------------------------
(* The theorems.                                                            *)

(* The variables have their types, and no entry of a cache or of a request  *)
(* is from a write that was not made.                                       *)
THEOREM TypeCorrect == Spec => []TypeOK
<1>1. IInv => TypeOK
  BY DEF IInv
<1>2. QED
  BY <1>1, Invariant, PTL

(* An answer in which no call failed has every group that was asked for,    *)
(* wherever the groups are kept and whichever caches hit or missed.         *)
THEOREM AnswersHaveAllGroups == Spec => []AnswersAreComplete
<1>1. IInv => AnswersAreComplete
  BY DEF IInv, HandInv, AnswersAreComplete
<1>2. QED
  BY <1>1, Invariant, PTL

(* No cache and no database serves a value that had expired when the        *)
(* request began.                                                           *)
THEOREM NoExpiredValueIsServed == Spec => []ExpiredIsNotServed
<1>1. IInv => ExpiredIsNotServed
  BY DEF IInv, FreshInv, FreshEntry, ExpiredIsNotServed
<1>2. QED
  BY <1>1, Invariant, PTL

(* A settled write is served to every request that begins after it settled, *)
(* until it expires, is hidden by an open breaker or by a request for a     *)
(* feature that its schema version lacks, or is taken back.                 *)
THEOREM SettledWritesAreServed == Spec => []SettledWriteIsServed
<1>1. ASSUME IInv, NEW r \in Readers, rd[r].pc = "answered", NEW f \in rd[r].req \intersect DOMAIN rd[r].hand
      PROVE  \/ rd[r].hand[f] >= floor[r].settled[f] \/ rd[r].hand[f] = Masked
             \/ rd[r].hand[f] = Lacking /\ LacksSince(f, floor[r].settled[f])
             \/ f \notin Lifetime /\ floor[r].settled[f] <= dead[f]
  BY <1>1 DEF IInv, SettledInv, GoodEntry, Good, LacksSince
<1>2. IInv => SettledWriteIsServed
  BY <1>1 DEF SettledWriteIsServed
<1>3. QED
  BY <1>2, Invariant, PTL

\* Only the writes of the stores change them.
LEMMA StoreStays ==
  ASSUME [Next]_vars
  PROVE  \/ store' = store \/ \E w \in Writers : Merge(w) \/ WriteColumns(w)
<1>1. ASSUME NEW r \in Readers, Request(r) PROVE store' = store
  BY <1>1 DEF Request, RetrieveFromInMemoryCache, BreakerIsOpen, RetrieveFromDistributedCache, DistributedCacheFails,
              RetrieveFromDB, ScyllaFails, RedisFails, PersistToInMemoryCache, PersistToDistributedCache, Done, database
<1>2. ASSUME NEW w \in Writers, PersistStep(w) PROVE store' = store \/ Merge(w) \/ WriteColumns(w)
  BY <1>2 DEF PersistStep, Persist, ReadRow, WriteRow, AnswerIsLost, WriteIsLost, WriteFails, RemoveFromInMemoryCache, RemoveFromDistributedCache,
              RemovalFails, database
<1>3. QED
  BY <1>1, <1>2 DEF Next, Expire, Evict, Crash, database, vars

LEMMA StepLosesNoGroup ==
  ASSUME IInv, [Next]_vars, NEW f \in Redis, store'[f] < store[f]
  PROVE  \E w \in Writers : /\ wr[w].pc = "merge" /\ f \notin wr[w].fgs
                            /\ \E g \in Redis : store[g] > wr[w].at \/ Expired(g, store[g])
<1>1. f \in FGs /\ store[f] \in 0..clock /\ clock \in Nat /\ ~ (store[f] < store[f])
  BY DEF IInv, TypeOK, Redis
<1>2. PICK w \in Writers : Merge(w)
  BY <1>1, StoreStays, WriteColumnsStores
<1>3. /\ wr[w].pc = "merge" /\ MergeInv(wr[w])
  BY <1>2, WorkOf DEF Merge
<1>4. f \notin wr[w].fgs
  BY <1>1, <1>2, MergeStores
<1>5. ~ CanReplace(wr[w].fgs)
  BY <1>1, <1>4 DEF CanReplace
<1>6. wr[w].base # Kept
  <2>1. SUFFICES ASSUME wr[w].base = Kept PROVE FALSE
    OBVIOUS
  <2>2. store'[f] = IF f \in DOMAIN wr[w].base THEN wr[w].base[f] ELSE 0
    BY <1>2, <1>4, MergeStores
  <2>3. store'[f] = store[f]
    BY <2>1, <2>2, RestrictIs DEF Kept
  <2>4. QED
    BY <1>1, <2>3
<1>7. Overtaken(wr[w].at)
  BY <1>3, <1>5, <1>6 DEF MergeInv
<1>8. QED
  BY <1>3, <1>4, <1>7 DEF Overtaken

(* A group of the value in Redis goes back to an older write only by a      *)
(* persist of other groups that was overtaken or that met an expired one.   *)
THEOREM GroupsAreLostOnlyByRaceOrExpiry == Spec => GroupsLostOnlyByRaceOrExpiry
<1>1. ASSUME IInv, [Next]_vars
      PROVE  [\A f \in Redis : store'[f] < store[f] =>
                \E w \in Writers :
                  /\ wr[w].pc = "merge" /\ f \notin wr[w].fgs
                  /\ \E g \in Redis : store[g] > wr[w].at \/ Expired(g, store[g])]_vars
  BY <1>1, StepLosesNoGroup
<1>2. QED
  BY <1>1, Invariant, PTL DEF Spec, GroupsLostOnlyByRaceOrExpiry
=============================================================================
