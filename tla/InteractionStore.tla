--------------------------- MODULE InteractionStore ---------------------------
(***************************************************************************)
(* The time-bucketed storage of the interaction store: one user's events,  *)
(* kept in TotalWeeks week columns that are reused round and round.        *)
(* A Persist call reads the columns its events fall into, merges in        *)
(* memory, writes whole columns back and then writes their lengths to the  *)
(* metadata table; nothing serialises two calls for one user.  A Retrieve  *)
(* computes the columns of a time range and filters what it finds there.   *)
(* Columns live on the replicas of the keyspace (scylla-init.cql: factor   *)
(* two), read at consistency ONE and written at QUORUM, here all replicas. *)
(* An event is its timestamp: clicks and orders run the same code.         *)
(***************************************************************************)
EXTENDS Integers, Sequences, SequencesExt, FiniteSetsExt

CONSTANTS
    Calls,           \* Persist calls that may be in flight at once
    Replicas,
    Times,           \* timestamps that events carry
    TimePerWeek,     \* timestamp units in seven days
    WeeksPerYear,    \* ISO weeks of a year
    TotalWeeks, WeeksPerBucket, MaxEventsPerWeek,
    MaxRetrieveLimit,
    QueryTimes,      \* timestamps that queries ask about
    MaxBatch,        \* bound: events of one call
    MaxAttempts      \* bound: Persist calls submitted in all

ASSUME StoreAssumption ==
    /\ Times \subseteq Nat /\ QueryTimes \subseteq Nat
    /\ {TimePerWeek, WeeksPerYear, TotalWeeks, WeeksPerBucket, MaxEventsPerWeek,
        MaxRetrieveLimit} \subseteq Nat \ {0}

VARIABLES
    store,      \* store[r][col]: the events of a column, newest first
    call,       \* call[c]: progress of a Persist call
    sent,       \* sent[t]: how many attempts carried event t
    acked,      \* events of calls that returned success
    stale,      \* stale[c]: columns rewritten since call c read them
    spoiled     \* columns rewritten from a stale or a failed read

vars == <<store, call, sent, acked, stale, spoiled>>

-----------------------------------------------------------------------------
(* Weeks, columns and buckets.                                              *)

IsoWeek(t) == ((t \div TimePerWeek) % WeeksPerYear) + 1
Column(t) == IsoWeek(t) % TotalWeeks
Bucket(col) == col \div WeeksPerBucket
Columns == 0 .. TotalWeeks - 1
DiffInWeeks(t, u) == (IF t < u THEN u - t ELSE t - u) \div TimePerWeek

BatchColumns(batch) == {Column(t) : t \in ToSet(batch)}
ColumnsForBucket(b, batch) == {col \in BatchColumns(batch) : Bucket(col) = b}

(* The merge of one event into a column that is sorted, newest first.  An   *)
(* event TotalWeeks or more away from the newest one empties the column.    *)
MergeAndTrim(existing, t) ==
    LET kept == IF existing # <<>> /\ DiffInWeeks(t, existing[1]) >= TotalWeeks
                THEN <<>> ELSE existing
        merged == SelectSeq(kept, LAMBDA u : u >= t) \o <<t>>
                    \o SelectSeq(kept, LAMBDA u : u < t)
    IN  SubSeq(merged, 1, IF Len(merged) < MaxEventsPerWeek
                          THEN Len(merged) ELSE MaxEventsPerWeek)

\* Faulty variants: the stored column is added again for every event of
\* the batch; only the last event of the batch for a column is kept.
MergeEventsReload(batch, existing) ==
    [col \in DOMAIN existing |->
        LET again(acc, t) == FoldLeft(MergeAndTrim, MergeAndTrim(existing[col], t), acc)
        IN  FoldLeft(again, <<>>, SelectSeq(batch, LAMBDA t : Column(t) = col))]

MergeEventsLast(batch, existing) ==
    [col \in DOMAIN existing |->
        LET own == SelectSeq(batch, LAMBDA t : Column(t) = col)
        IN  MergeAndTrim(existing[col], own[Len(own)])]

MergeEvents(batch, existing) ==
    [col \in DOMAIN existing |->
        FoldLeft(MergeAndTrim, existing[col],
                 SelectSeq(batch, LAMBDA t : Column(t) = col))]

-----------------------------------------------------------------------------
(* Retrieve.                                                                *)

Descending(from, to) == [i \in 1 .. (from - to + 1) |-> from - i + 1]

\* Faulty variant: the turn of the columns is listed in the order of their numbers.
BuildWeeksInOrder(start, end) ==
    LET lower == Column(start)
        upper == Column(end)
    IN  IF lower <= upper THEN Descending(upper, lower)
        ELSE SelectSeq(Descending(TotalWeeks - 1, 0),
                       LAMBDA col : col <= upper \/ col >= lower)

BuildOrderedWeeks(start, end) ==
    LET lower == Column(start)
        upper == Column(end)
        diff == DiffInWeeks(start, end)
    IN  IF lower <= upper /\ diff <= TotalWeeks
        THEN IF lower = upper /\ diff = TotalWeeks
             THEN Descending(TotalWeeks - 1, 0)
             ELSE Descending(upper, lower)
        ELSE Descending(upper, 0) \o Descending(TotalWeeks - 1, lower)

(* The loop over a column stops at the first event before start.            *)
InRange(events, start, end) ==
    LET early == {i \in DOMAIN events : events[i] < start}
        upto == IF early = {} THEN Len(events)
                ELSE (CHOOSE i \in early : \A j \in early : i <= j) - 1
    IN  SelectSeq(SubSeq(events, 1, upto), LAMBDA t : t <= end)

MergeFilterAndLimit(weeks, events, start, end, limit) ==
    LET found == FlattenSeq([i \in DOMAIN weeks |-> InRange(events[weeks[i]], start, end)])
    IN  SubSeq(found, 1, IF Len(found) < limit THEN Len(found) ELSE limit)

ValidTimeRange(start, end) == start <= end /\ DiffInWeeks(start, end) <= TotalWeeks

CapLimit(limit) == IF limit > MaxRetrieveLimit THEN MaxRetrieveLimit ELSE limit

Retrieve(events, start, end, limit) ==
    MergeFilterAndLimit(BuildOrderedWeeks(start, end), events, start, end, CapLimit(limit))

-----------------------------------------------------------------------------
Idle == [pc |-> "idle", batch |-> <<>>, todo |-> {}, final |-> <<>>]

Init ==
    /\ store = [r \in Replicas |-> [col \in Columns |-> <<>>]]
    /\ call = [c \in Calls |-> Idle]
    /\ sent = [t \in Times |-> 0]
    /\ acked = {}
    /\ stale = [c \in Calls |-> {}]
    /\ spoiled = {}

SentIn(S) == MapThenSumSet(LAMBDA t : sent[t], S)

Start(c, batch) ==
    /\ SentIn(Times) + Len(batch) <= MaxAttempts
    /\ call' = [call EXCEPT ![c] = [pc |-> "read", batch |-> batch,
                                    todo |-> {Bucket(col) : col \in BatchColumns(batch)},
                                    final |-> <<>>]]
    /\ sent' = [t \in Times |-> sent[t] + Len(SelectSeq(batch, LAMBDA u : u = t))]
    /\ UNCHANGED <<store, acked, stale, spoiled>>

Persist(c) ==
    /\ call[c].pc \in {"idle", "failed"}
    /\ \E batch \in SeqOf(Times, MaxBatch) : batch # <<>> /\ Start(c, batch)

(* A caller that got an error may send the same events again.               *)
Retry(c) == call[c].pc = "failed" /\ Start(c, call[c].batch)

(* Buckets are visited in the order of a Go map: any order.  The read goes  *)
(* to one replica; a read that fails is logged and returns no columns, the  *)
(* same as for a new user.                                                  *)
RetrieveInteractions(c, b, read, missed) ==
    LET cols == ColumnsForBucket(b, call[c].batch) IN
    /\ call[c].pc = "read"
    /\ call' = [call EXCEPT ![c].pc = "write",
                            ![c].todo = @ \ {b},
                            ![c].final = MergeEvents(call[c].batch,
                                                     [col \in cols |-> read[col]])]
    /\ stale' = [stale EXCEPT ![c] = missed \intersect cols]
    /\ UNCHANGED <<store, sent, acked, spoiled>>

ReadBucket(c) ==
    \E b \in call[c].todo, r \in Replicas : RetrieveInteractions(c, b, store[r], {})

ReadFails(c) ==
    \E b \in call[c].todo :
        RetrieveInteractions(c, b, [col \in Columns |-> <<>>], Columns)

(* One statement writes every column of the bucket, whole.                  *)
UpdateInteractions(c, reached) ==
    LET cols == DOMAIN call[c].final IN
    /\ call[c].pc = "write"
    /\ store' = [r \in Replicas |->
                   IF r \in reached
                   THEN [col \in Columns |-> IF col \in cols THEN call[c].final[col]
                                             ELSE store[r][col]]
                   ELSE store[r]]
    /\ stale' = [d \in Calls |-> IF d # c /\ reached # {} THEN stale[d] \union cols
                                 ELSE stale[d]]
    /\ spoiled' = IF reached # {} THEN spoiled \union (stale[c] \intersect cols)
                  ELSE spoiled

WriteBucket(c) ==
    /\ UpdateInteractions(c, Replicas)
    /\ call' = [call EXCEPT ![c].pc = "meta"]
    /\ UNCHANGED <<sent, acked>>

(* The quorum was not reached: some replicas may have the write.            *)
WriteFails(c) ==
    /\ \E reached \in SUBSET Replicas : UpdateInteractions(c, reached)
    /\ call' = [call EXCEPT ![c].pc = "failed", ![c].todo = {}, ![c].final = <<>>]
    /\ UNCHANGED <<sent, acked>>

(* The lengths go to a table that nothing reads; its values are left out.   *)
UpdateMetadata(c) ==
    /\ call[c].pc = "meta"
    /\ IF call[c].todo = {}
       THEN /\ call' = [call EXCEPT ![c] = Idle]
            /\ acked' = acked \union ToSet(call[c].batch)
       ELSE /\ call' = [call EXCEPT ![c].pc = "read", ![c].final = <<>>]
            /\ acked' = acked
    /\ UNCHANGED <<store, sent, stale, spoiled>>

MetadataFails(c) ==
    /\ call[c].pc = "meta"
    /\ call' = [call EXCEPT ![c].pc = "failed", ![c].todo = {}, ![c].final = <<>>]
    /\ UNCHANGED <<store, sent, acked, stale, spoiled>>

Next ==
    \E c \in Calls :
        \/ Persist(c) \/ Retry(c)
        \/ ReadBucket(c) \/ ReadFails(c)
        \/ WriteBucket(c) \/ WriteFails(c)
        \/ UpdateMetadata(c) \/ MetadataFails(c)

Spec == Init /\ [][Next]_vars

-----------------------------------------------------------------------------
Column_ == UNION {[1 .. n -> Times] : n \in 0 .. MaxEventsPerWeek}

TypeOK ==
    /\ store \in [Replicas -> [Columns -> Column_]]
    /\ \A c \in Calls :
          /\ call[c].pc \in {"idle", "read", "write", "meta", "failed"}
          /\ ToSet(call[c].batch) \subseteq Times
          /\ call[c].todo \subseteq {Bucket(col) : col \in Columns}
          /\ DOMAIN call[c].final \subseteq Columns
    /\ sent \in [Times -> 0 .. MaxAttempts]
    /\ acked \subseteq Times
    /\ stale \in [Calls -> SUBSET Columns]
    /\ spoiled \subseteq Columns

Occurrences(t, events) == Len(SelectSeq(events, LAMBDA u : u = t))

(* An acknowledged event leaves its column only for MaxEventsPerWeek others *)
(* that are not older, or for one TotalWeeks away, unless some call wrote   *)
(* the column back from a read that had failed or that another call's write *)
(* had overtaken: retries, partial writes and batches over several columns  *)
(* and buckets lose nothing (persistToBucket, mergeAndTrimEvents).          *)
AckedEventsKept ==
    \A t \in acked : Column(t) \notin spoiled =>
        \/ \A r \in Replicas : t \in ToSet(store[r][Column(t)])
        \/ SentIn({u \in Times : Column(u) = Column(t) /\ u >= t}) > MaxEventsPerWeek
        \/ \E u \in Times : /\ Column(u) = Column(t) /\ sent[u] > 0
                            /\ DiffInWeeks(t, u) >= TotalWeeks

(* An event is stored at most once per attempt that carried it, whatever    *)
(* fails and whoever overlaps: a retry may double an event, a merge never   *)
(* does (mergeEvents takes the stored column once per batch).               *)
StoredOncePerAttempt ==
    \A r \in Replicas, t \in Times :
        Occurrences(t, store[r][Column(t)]) <= sent[t]

(* Within one ISO year, over at most TotalWeeks weeks, a Retrieve returns   *)
(* the newest events stored in its range, in order, up to its limit, from   *)
(* whichever replicas answer (buildOrderedWeeks, mergeFilterAndLimit).      *)
ShortRange(start, end) ==
    /\ ValidTimeRange(start, end)
    /\ end \div TimePerWeek - start \div TimePerWeek < TotalWeeks
    /\ end \div (TimePerWeek * WeeksPerYear) = start \div (TimePerWeek * WeeksPerYear)

Newest(events, start, end, limit) ==
    LET all == FlattenSeq([i \in 1 .. TotalWeeks |->
                  SelectSeq(events[i - 1], LAMBDA t : start <= t /\ t <= end)])
        sorted == SortSeq(all, LAMBDA t, u : t > u)
    IN  SubSeq(sorted, 1, IF Len(sorted) < limit THEN Len(sorted) ELSE limit)

Answers == {[col \in Columns |-> store[from[Bucket(col)]][col]] :
               from \in [{Bucket(col) : col \in Columns} -> Replicas]}

RetrieveReturnsNewest ==
    \A events \in Answers, start, end \in QueryTimes, limit \in {1, MaxRetrieveLimit + 1} :
        ShortRange(start, end) =>
            Retrieve(events, start, end, limit) = Newest(events, start, end, CapLimit(limit))
=============================================================================
