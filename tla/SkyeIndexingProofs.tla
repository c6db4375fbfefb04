---------------------------- MODULE SkyeIndexingProofs ----------------------------
(***************************************************************************)
(* What skye serves exists, is ready and never regresses, for every number *)
(* of variants, partitions, jobs and faults and every lag of the watch.    *)
(***************************************************************************)
EXTENDS SkyeIndexing, TLAPS

Positions(s) == 1..Len(s)

\* Read versions grow from view to view, and a variant once onboarded stays it;
\* one that is not is at version 1.
ViewsGrow(vs) ==
  \A v \in Variant :
    /\ \A i, j \in Positions(vs) : i <= j =>
         /\ vs[i].readVersion[v] <= vs[j].readVersion[v]
         /\ vs[i].onboarded[v] => vs[j].onboarded[v]
    /\ \A i \in Positions(vs) :
         /\ vs[i].readVersion[v] >= 1
         /\ ~vs[i].onboarded[v] => vs[i].readVersion[v] = 1

\* The newest version that ProcessModel, which sees conf, can have chosen.
Top(conf, v) == IF conf.onboarded[v] THEN conf.readVersion[v] + 1 ELSE 1

(* The messages.  How far one is: one that saw its collection indexed once  *)
(* is further than one that did not.                                        *)
Rank(m) ==
  CASE m.state = "DATA_INGESTION_STARTED"        -> 0
    [] m.state = "DATA_INGESTION_COMPLETED"      -> 1
    [] m.state = "INDEXING_STARTED"              -> 2 + m.counter
    [] m.state = "INDEXING_IN_PROGRESS"          -> 4
    [] m.state = "INDEXING_COMPLETED_WITH_RESET" -> 5
    [] m.state = "MODEL_VERSION_UPDATED"         -> 6
    [] m.state = "INDEXING_COMPLETED"            -> 7
    [] m.state = "COMPLETED"                     -> 8
    [] OTHER                                     -> 9

WellFormed(t) ==
  \A i \in Positions(t) :
    /\ t[i].state # "DATA_INGESTION_STARTED" /\ t[i].version >= 1
    /\ t[i].counter = 1 => t[i].state = "INDEXING_STARTED"

\* A message of an older version is further, or as far and in front.
Ordered(t) ==
  \A i, j \in Positions(t) :
    t[i].variant = t[j].variant /\ t[i].version < t[j].version =>
      /\ Rank(t[j]) <= Rank(t[i])
      /\ j < i => Rank(t[j]) < Rank(t[i])

\* A message that got past the count saw its version indexed, which stays so until
\* a later one is read; only at the end can a later one be.
Past(t, read, idx) ==
  \A i \in Positions(t) :
    /\ Rank(t[i]) >= 3 => \/ <<t[i].variant, t[i].version>> \in idx
                          \/ t[i].version < read[t[i].variant]
    /\ t[i].version < read[t[i].variant] => Rank(t[i]) >= 6
    /\ Rank(t[i]) >= 6 => t[i].version <= read[t[i].variant]

Carries(t, v, k) == \E i \in Positions(t) : t[i].variant = v /\ t[i].version = k

UpTo(t, v, k) == \A i \in Positions(t) : t[i].variant = v => t[i].version <= k

-----------------------------------------------------------------------------
(* The inductive invariant. *)

\* The goroutines belong to the present job.
StartsInv ==
  \A s \in starting :
    /\ s[2].state = "DATA_INGESTION_STARTED" /\ s[2].counter = 0
    /\ s[2].version = job.versions[s[2].variant] /\ s[2].version >= 1

CallInv ==
  /\ call.at # "idle" =>
       starting = {} /\ \A p \in Partition : triggers[p].at # "sleeping"
  /\ call.at # "variants" => call.versions = NoJob.versions
  /\ call.at \in {"version", "variants"} => \A q \in Partition : Stored.partition[q] = 0

\* A partition counts as done only in the job that reached its EOF, in every view
\* a sleeping trigger can wake up to.
EofInv ==
  /\ \A q \in Partition : Stored.partition[q] = 1 => q \in eofs
  /\ starting # {} => eofs = Partition
  /\ \A p \in Partition : triggers[p].at = "sleeping" =>
       /\ p \in eofs /\ triggers[p].behind < Len(views)
       /\ \A i \in triggers[p].behind + 1..Len(views) :
            \A q \in Partition : views[i].partition[q] = 1 => q \in eofs

TopicInv ==
  /\ Ordered(topic) /\ Past(topic, Stored.readVersion, indexed)
  /\ \A i \in Positions(topic) :
       LET v == topic[i].variant
       IN  /\ topic[i].version <= Top(Local, v)
           /\ topic[i].version > Local.readVersion[v] => <<v, topic[i].version>> \in collections

CollectionsInv == \A c \in collections : c[2] <= Top(Local, c[1])

ServedInv(v) ==
  /\ Stored.readVersion[v] <= Top(Local, v)
  /\ Stored.readVersion[v] > 1 => <<v, Stored.readVersion[v]>> \in indexed

\* The version a call has chosen for a variant is newer than all before it, unless
\* it is the variant's first.
ChosenInv(v) ==
  call.versions[v] # 0 =>
    /\ call.versions[v] <= Top(Local, v) /\ <<v, call.versions[v]>> \in collections
    /\ UpTo(topic, v, call.versions[v]) /\ Stored.readVersion[v] <= call.versions[v]
    /\ call.versions[v] > 1 => /\ Stored.readVersion[v] # call.versions[v]
                               /\ ~Carries(topic, v, call.versions[v])

\* So is the job's, and nobody speaks of it before the last EOF.
JobInv(v) ==
  job.versions[v] # 0 =>
    /\ job.versions[v] <= Top(Local, v)
    /\ job.versions[v] > Local.readVersion[v] => <<v, job.versions[v]>> \in collections
    /\ UpTo(topic, v, job.versions[v]) /\ Stored.readVersion[v] <= job.versions[v]
    /\ job.versions[v] > 1 /\ (\/ Stored.readVersion[v] = job.versions[v]
                               \/ Carries(topic, v, job.versions[v])) => eofs = Partition

\* Version 1 is read before it is indexed.
Unindexed(v) == <<v, 1>> \notin indexed /\ Stored.readVersion[v] = 1

\* While its messages are under way, no view lets ProcessModel start a next job.
FirstInv(v) ==
  Unindexed(v) /\ (\/ \E s \in starting : s[2].variant = v /\ s[2].version = 1
                   \/ Carries(topic, v, 1)) =>
    /\ call.at = "idle" /\ job.versions[v] = 1
    /\ \A i \in Positions(views) : views[i].state[v] # "COMPLETED"

\* Nor does a view after one that can make a sleeping trigger start them.
WindowInv(v) ==
  Unindexed(v) /\ job.versions[v] = 1 =>
    \A p \in Partition : triggers[p].at = "sleeping" =>
      \A i, j \in triggers[p].behind + 1..Len(views) :
        i <= j /\ views[i].state[v] = "DATA_INGESTION_STARTED" => views[j].state[v] # "COMPLETED"

ResetInv ==
  modelType = "RESET" =>
    /\ TopicInv /\ CollectionsInv
    /\ \A v \in Variant : ServedInv(v) /\ ChosenInv(v) /\ JobInv(v) /\ FirstInv(v) /\ WindowInv(v)

\* A DELTA job writes version 1 and moves nothing.
DeltaInv ==
  modelType = "DELTA" =>
    /\ \A i \in Positions(views), v \in Variant : views[i].readVersion[v] = 1
    /\ \A i \in Positions(topic) :
         topic[i].state \notin {"INDEXING_COMPLETED_WITH_RESET", "MODEL_VERSION_UPDATED"}

IInv ==
  /\ TypeOK /\ ViewsGrow(views) /\ WellFormed(topic) /\ StartsInv /\ CallInv /\ EofInv
  /\ ServingCollectionExists /\ ResetInv /\ DeltaInv

-----------------------------------------------------------------------------
(* What a sequence of writes does to a configuration. *)

Fields == {"partition", "emb", "state", "onboarded", "readVersion", "writeVersion",
           "embRead", "embWrite"}

\* A function over the fields whose values have the fields' types is a configuration.
LEMMA ConfigOf ==
  ASSUME NEW c, c = [f \in Fields |-> c[f]],
         c.partition \in [Partition -> 0..1], c.emb \in Nat,
         c.state \in [Variant -> State], c.onboarded \in [Variant -> BOOLEAN],
         c.readVersion \in [Variant -> Nat], c.writeVersion \in [Variant -> Nat],
         c.embRead \in [Variant -> Nat], c.embWrite \in [Variant -> Nat]
  PROVE  c \in Config
  BY SMT DEF Fields, Config

LEMMA ConfigIs ==
  ASSUME NEW c \in Config
  PROVE  /\ DOMAIN c = Fields
         /\ c.partition \in [Partition -> 0..1] /\ c.emb \in Nat
         /\ c.state \in [Variant -> State] /\ c.onboarded \in [Variant -> BOOLEAN]
         /\ c.readVersion \in [Variant -> Nat] /\ c.writeVersion \in [Variant -> Nat]
         /\ c.embRead \in [Variant -> Nat] /\ c.embWrite \in [Variant -> Nat]
  BY SMT DEF Fields, Config

\* A write sets a field of a variant to a value of the field's type.
Typed(w) ==
  \/ w[1] \in {"readVersion", "writeVersion", "embRead", "embWrite"} /\ w[2] \in Nat
  \/ w[1] = "state" /\ w[2] \in State
  \/ w[1] = "onboarded" /\ w[2] = TRUE

\* A field of the variant after the writes: one that was written, or as before.
FieldWritten(conf, v, writes, f, value) ==
  \/ \E i \in DOMAIN writes : writes[i][1] = f /\ value = writes[i][2]
  \/ (\A i \in DOMAIN writes : writes[i][1] # f) /\ value = conf[f][v]

\* Put, field by field: the other variants keep theirs.
LEMMA PutIs ==
  ASSUME NEW conf \in Config, NEW v \in Variant, NEW writes,
         \A i \in DOMAIN writes : Typed(writes[i]),
         NEW c, c = Put(conf, v, writes)
  PROVE  /\ c \in Config /\ c.partition = conf.partition /\ c.emb = conf.emb
         /\ \A u \in Variant \ {v} : /\ c.state[u] = conf.state[u]
                                     /\ c.onboarded[u] = conf.onboarded[u]
                                     /\ c.readVersion[u] = conf.readVersion[u]
         /\ FieldWritten(conf, v, writes, "state", c.state[v])
         /\ FieldWritten(conf, v, writes, "onboarded", c.onboarded[v])
         /\ FieldWritten(conf, v, writes, "readVersion", c.readVersion[v])
<1> DEFINE Chosen(f) == writes[CHOOSE i \in DOMAIN writes : writes[i][1] = f]
           Has(f)    == \E i \in DOMAIN writes : writes[i][1] = f
<1>1. /\ c = [f \in Fields |-> c[f]]
      /\ \A f \in Fields : c[f] = IF Has(f) THEN [conf[f] EXCEPT ![v] = Chosen(f)[2]] ELSE conf[f]
  BY ConfigIs DEF Put
<1>2. ASSUME NEW f, Has(f)
      PROVE  /\ Chosen(f)[1] = f /\ Typed(Chosen(f))
             /\ \E i \in DOMAIN writes : writes[i][1] = f /\ Chosen(f)[2] = writes[i][2]
  BY <1>2
<1> HIDE DEF Chosen
<1>3. ~Has("partition") /\ ~Has("emb")
  BY DEF Typed
<1>4. ASSUME NEW f \in {"readVersion", "writeVersion", "embRead", "embWrite"}
      PROVE  /\ c[f] \in [Variant -> Nat]
             /\ \A u \in Variant \ {v} : c[f][u] = conf[f][u]
             /\ FieldWritten(conf, v, writes, f, c[f][v])
  <2>1. f \in Fields /\ conf[f] \in [Variant -> Nat]
    BY ConfigIs DEF Fields
  <2>2. CASE Has(f)
    <3>1. Chosen(f)[2] \in Nat
      BY <1>2, <2>2 DEF Typed
    <3>2. c[f] = [conf[f] EXCEPT ![v] = Chosen(f)[2]]
      BY <1>1, <2>1, <2>2
    <3>3. /\ c[f] \in [Variant -> Nat] /\ c[f][v] = Chosen(f)[2]
          /\ \A u \in Variant \ {v} : c[f][u] = conf[f][u]
      BY <2>1, <3>1, <3>2
    <3>4. QED
      BY <1>2, <2>2, <3>3 DEF FieldWritten
  <2>3. CASE ~Has(f)
    BY <1>1, <2>1, <2>3 DEF FieldWritten
  <2>4. QED
    BY <2>2, <2>3
<1>5. /\ c.state \in [Variant -> State]
      /\ \A u \in Variant \ {v} : c.state[u] = conf.state[u]
      /\ FieldWritten(conf, v, writes, "state", c.state[v])
  <2>1. "state" \in Fields /\ conf.state \in [Variant -> State]
    BY ConfigIs DEF Fields
  <2>2. CASE Has("state")
    <3>1. Chosen("state")[2] \in State
      BY <1>2, <2>2 DEF Typed
    <3>2. c.state = [conf.state EXCEPT ![v] = Chosen("state")[2]]
      BY <1>1, <2>1, <2>2
    <3>3. QED
      BY <1>2, <2>1, <2>2, <3>1, <3>2 DEF FieldWritten
  <2>3. CASE ~Has("state")
    BY <1>1, <2>1, <2>3 DEF FieldWritten
  <2>4. QED
    BY <2>2, <2>3
<1>6. /\ c.onboarded \in [Variant -> BOOLEAN]
      /\ \A u \in Variant \ {v} : c.onboarded[u] = conf.onboarded[u]
      /\ FieldWritten(conf, v, writes, "onboarded", c.onboarded[v])
  <2>1. "onboarded" \in Fields /\ conf.onboarded \in [Variant -> BOOLEAN]
    BY ConfigIs DEF Fields
  <2>2. CASE Has("onboarded")
    <3>1. Chosen("onboarded")[2] = TRUE
      BY <1>2, <2>2 DEF Typed
    <3>2. c.onboarded = [conf.onboarded EXCEPT ![v] = TRUE]
      BY <1>1, <2>1, <2>2, <3>1
    <3>3. c.onboarded \in [Variant -> BOOLEAN] /\ c.onboarded[v] = TRUE
          /\ \A u \in Variant \ {v} : c.onboarded[u] = conf.onboarded[u]
      BY <2>1, <3>2
    <3>4. \E i \in DOMAIN writes : writes[i][1] = "onboarded" /\ TRUE = writes[i][2]
      BY <1>2, <2>2, <3>1
    <3>5. QED
      BY <3>3, <3>4 DEF FieldWritten
  <2>3. CASE ~Has("onboarded")
    BY <1>1, <2>1, <2>3 DEF FieldWritten
  <2>4. QED
    BY <2>2, <2>3
<1>7. c.partition = conf.partition /\ c.emb = conf.emb
  BY <1>1, <1>3 DEF Fields
<1>8. c \in Config
  BY <1>1, <1>4, <1>5, <1>6, <1>7, ConfigIs, ConfigOf
<1>9. /\ \A u \in Variant \ {v} : c.readVersion[u] = conf.readVersion[u]
      /\ FieldWritten(conf, v, writes, "readVersion", c.readVersion[v])
  BY <1>4
<1>10. QED
  BY <1>5, <1>6, <1>7, <1>8, <1>9

-----------------------------------------------------------------------------
(* What a write does to the views. *)

\* The stored configuration becomes c, by a write or because there was none.
Puts(vs, vs2, c) ==
  /\ c \in Config
  /\ \/ vs2 = vs /\ c = vs[Len(vs)]
     \/ Len(vs) <= MaxLag /\ vs2 = Append(vs, c)

IsViews(vs) == vs \in Seq(Config) /\ Len(vs) \in 1..MaxLag + 1

LEMMA ViewsAre ==
  ASSUME NEW vs, IsViews(vs)
  PROVE  /\ Len(vs) \in Nat /\ Len(vs) \in Positions(vs) /\ 1 \in Positions(vs)
         /\ Head(vs) = vs[1]
         /\ \A i \in Positions(vs) : vs[i] \in Config
         /\ vs[1] \in Config /\ vs[Len(vs)] \in Config
<1>1. vs \in Seq(Config) /\ Len(vs) \in Nat /\ Len(vs) >= 1
  BY IndexingAssumption DEF IsViews
<1>2. \A i \in Positions(vs) : vs[i] \in Config
  BY <1>1 DEF Positions
<1>3. vs # << >>
  BY <1>1
<1>4. Head(vs) = vs[1]
  BY <1>1, <1>3
<1>5. QED
  BY <1>1, <1>2, <1>4 DEF Positions

\* The copy sees a write only later.
LEMMA PutsIs ==
  ASSUME NEW vs, NEW vs2, NEW c, IsViews(vs), Puts(vs, vs2, c)
  PROVE  /\ IsViews(vs2) /\ Head(vs2) = Head(vs) /\ vs2[Len(vs2)] = c
         /\ Len(vs) <= Len(vs2) /\ Len(vs2) \in Nat
         /\ \A i \in Positions(vs) : i \in Positions(vs2) /\ vs2[i] = vs[i]
         /\ \A i \in Positions(vs2) \ Positions(vs) : i = Len(vs2)
<1>1. vs \in Seq(Config) /\ Len(vs) \in Nat /\ Len(vs) >= 1 /\ Len(vs) <= MaxLag + 1 /\ MaxLag \in Nat
  BY IndexingAssumption DEF IsViews
<1>2. CASE vs2 = vs /\ c = vs[Len(vs)]
  BY <1>1, <1>2 DEF Positions, IsViews
<1>3. CASE Len(vs) <= MaxLag /\ vs2 = Append(vs, c)
  <2>1. c \in Config
    BY DEF Puts
  <2>2. vs2 \in Seq(Config) /\ Len(vs2) = Len(vs) + 1
        /\ (\A i \in 1..Len(vs) : vs2[i] = vs[i]) /\ vs2[Len(vs) + 1] = c
    BY <1>1, <1>3, <2>1
  <2>3. IsViews(vs2)
    BY <1>1, <1>3, <2>2 DEF IsViews
  <2>4. Head(vs2) = Head(vs)
    BY <1>1, <2>2, <2>3, ViewsAre DEF Positions
  <2>5. QED
    BY <1>1, <2>2, <2>3, <2>4 DEF Positions
<1>4. QED
  BY <1>2, <1>3 DEF Puts

\* What a write leaves: the done partitions, and growing versions.
Grows(d, c) ==
  \A v \in Variant :
    /\ d.readVersion[v] <= c.readVersion[v]
    /\ d.onboarded[v] => c.onboarded[v]
    /\ ~c.onboarded[v] => c.readVersion[v] = 1

LEMMA GrowsOn ==
  ASSUME NEW vs, NEW vs2, NEW c, IsViews(vs), Puts(vs, vs2, c), ViewsGrow(vs),
         Grows(vs[Len(vs)], c)
  PROVE  ViewsGrow(vs2)
<1>1. /\ \A i \in Positions(vs) : i \in Positions(vs2) /\ vs2[i] = vs[i]
      /\ \A i \in Positions(vs2) \ Positions(vs) : i = Len(vs2)
      /\ vs2[Len(vs2)] = c
      /\ Len(vs) \in Positions(vs) /\ Len(vs) \in Nat /\ Len(vs2) \in Nat
  BY PutsIs, ViewsAre
<1>2. ASSUME NEW v \in Variant
      PROVE  /\ \A i \in Positions(vs) : vs[i].readVersion[v] \in Nat
             /\ c.readVersion[v] \in Nat
  BY ViewsAre, ConfigIs DEF Puts
<1>3. ASSUME NEW v \in Variant, NEW i \in Positions(vs)
      PROVE  /\ vs[i].readVersion[v] <= c.readVersion[v]
             /\ vs[i].onboarded[v] => c.onboarded[v]
  <2>1. /\ vs[i].readVersion[v] <= vs[Len(vs)].readVersion[v]
        /\ vs[i].onboarded[v] => vs[Len(vs)].onboarded[v]
    BY <1>1 DEF ViewsGrow, Positions
  <2>2. QED
    BY <1>1, <1>2, <2>1 DEF Grows
<1>4. ASSUME NEW v \in Variant, NEW i \in Positions(vs2)
      PROVE  /\ vs2[i].readVersion[v] >= 1
             /\ ~vs2[i].onboarded[v] => vs2[i].readVersion[v] = 1
  <2>1. CASE i \in Positions(vs)
    BY <1>1, <2>1 DEF ViewsGrow
  <2>2. CASE i \notin Positions(vs)
    <3>1. vs2[i] = c /\ vs[Len(vs)].readVersion[v] >= 1
      BY <1>1, <2>2 DEF ViewsGrow
    <3>2. QED
      BY <1>1, <1>2, <3>1 DEF Grows
  <2>3. QED
    BY <2>1, <2>2
<1>5. ASSUME NEW v \in Variant, NEW i \in Positions(vs2), NEW j \in Positions(vs2), i <= j
      PROVE  /\ vs2[i].readVersion[v] <= vs2[j].readVersion[v]
             /\ vs2[i].onboarded[v] => vs2[j].onboarded[v]
  <2>1. CASE j \in Positions(vs)
    <3>1. i \in Positions(vs)
      BY <1>1, <1>5, <2>1 DEF Positions
    <3>2. QED
      BY <1>1, <1>5, <2>1, <3>1 DEF ViewsGrow
  <2>2. CASE j \notin Positions(vs) /\ i \in Positions(vs)
    BY <1>1, <1>3, <2>2
  <2>3. CASE j \notin Positions(vs) /\ i \notin Positions(vs)
    BY <1>1, <1>2, <2>3
  <2>4. QED
    BY <2>1, <2>2, <2>3
<1>6. QED
  BY <1>4, <1>5 DEF ViewsGrow

\* The state views: what the copy shows is no newer than what is stored.
LEMMA LocalAndStored ==
  ASSUME IInv
  PROVE  /\ IsViews(views) /\ Local \in Config /\ Stored \in Config
         /\ Local = views[1] /\ Stored = views[Len(views)]
         /\ \A v \in Variant :
              /\ Local.readVersion[v] \in Nat /\ Stored.readVersion[v] \in Nat
              /\ Local.onboarded[v] \in BOOLEAN /\ Stored.onboarded[v] \in BOOLEAN
              /\ Local.state[v] \in State /\ Stored.state[v] \in State
              /\ 1 <= Local.readVersion[v] /\ Local.readVersion[v] <= Stored.readVersion[v]
              /\ Local.onboarded[v] => Stored.onboarded[v]
              /\ ~Local.onboarded[v] => Local.readVersion[v] = 1
              /\ ~Stored.onboarded[v] => Stored.readVersion[v] = 1
<1>1. IsViews(views)
  BY DEF IInv, TypeOK, IsViews
<1>2. /\ Len(views) \in Nat /\ Len(views) \in Positions(views) /\ 1 \in Positions(views)
      /\ Local = views[1] /\ Stored = views[Len(views)] /\ Local \in Config /\ Stored \in Config
  BY <1>1, ViewsAre DEF Local, Stored
<1>3. ASSUME NEW v \in Variant
      PROVE  /\ Local.readVersion[v] \in Nat /\ Stored.readVersion[v] \in Nat
             /\ Local.onboarded[v] \in BOOLEAN /\ Stored.onboarded[v] \in BOOLEAN
             /\ Local.state[v] \in State /\ Stored.state[v] \in State
  BY <1>2, ConfigIs
<1>4. ViewsGrow(views) /\ 1 <= Len(views)
  BY <1>2 DEF IInv, Positions
<1>5. ASSUME NEW v \in Variant
      PROVE  /\ 1 <= Local.readVersion[v] /\ Local.readVersion[v] <= Stored.readVersion[v]
             /\ Local.onboarded[v] => Stored.onboarded[v]
             /\ ~Local.onboarded[v] => Local.readVersion[v] = 1
             /\ ~Stored.onboarded[v] => Stored.readVersion[v] = 1
  BY <1>2, <1>3, <1>4 DEF ViewsGrow
<1>6. QED
  BY <1>1, <1>2, <1>3, <1>5

-----------------------------------------------------------------------------
(* What a step of the workflow does to the topic. *)

LEMMA EndedIsNoState == Ended \notin State
  BY Zenon DEF Ended, State

\* The cases of Rank, one by one.
LEMMA RankTable ==
  ASSUME NEW m
  PROVE  /\ m.state = "DATA_INGESTION_STARTED" => Rank(m) = 0
         /\ m.state = "DATA_INGESTION_COMPLETED" => Rank(m) = 1
         /\ m.state = "INDEXING_STARTED" => Rank(m) = 2 + m.counter
         /\ m.state = "INDEXING_IN_PROGRESS" => Rank(m) = 4
         /\ m.state = "INDEXING_COMPLETED_WITH_RESET" => Rank(m) = 5
         /\ m.state = "MODEL_VERSION_UPDATED" => Rank(m) = 6
         /\ m.state = "INDEXING_COMPLETED" => Rank(m) = 7
         /\ m.state = "COMPLETED" => Rank(m) = 8
         /\ m.state = Ended => Rank(m) = 9
<1>1. ASSUME m.state = "DATA_INGESTION_STARTED" PROVE Rank(m) = 0
  BY <1>1 DEF Rank
<1>2. ASSUME m.state = "DATA_INGESTION_COMPLETED" PROVE Rank(m) = 1
  BY <1>2 DEF Rank
<1>3. ASSUME m.state = "INDEXING_STARTED" PROVE Rank(m) = 2 + m.counter
  BY <1>3 DEF Rank
<1>4. ASSUME m.state = "INDEXING_IN_PROGRESS" PROVE Rank(m) = 4
  BY <1>4 DEF Rank
<1>5. ASSUME m.state = "INDEXING_COMPLETED_WITH_RESET" PROVE Rank(m) = 5
  BY <1>5 DEF Rank
<1>6. ASSUME m.state = "MODEL_VERSION_UPDATED" PROVE Rank(m) = 6
  BY <1>6 DEF Rank
<1>7. ASSUME m.state = "INDEXING_COMPLETED" PROVE Rank(m) = 7
  BY <1>7 DEF Rank
<1>8. ASSUME m.state = "COMPLETED" PROVE Rank(m) = 8
  BY <1>8 DEF Rank
<1>9. ASSUME m.state = Ended PROVE Rank(m) = 9
  BY <1>9, EndedIsNoState DEF Rank, State
<1>10. QED
  BY <1>1, <1>2, <1>3, <1>4, <1>5, <1>6, <1>7, <1>8, <1>9

LEMMA RankIs ==
  ASSUME NEW m \in Message
  PROVE  /\ Rank(m) \in 0..9
         /\ m.variant \in Variant /\ m.version \in Nat /\ m.emb \in Nat
         /\ m.counter \in 0..1 /\ m.state \in State \cup {Ended}
         /\ m.state = "INDEXING_COMPLETED_WITH_RESET" <=> Rank(m) = 5
         /\ m.state = "MODEL_VERSION_UPDATED" <=> Rank(m) = 6
         /\ m.state = "INDEXING_COMPLETED" <=> Rank(m) = 7
<1>1. /\ m.variant \in Variant /\ m.version \in Nat /\ m.emb \in Nat
      /\ m.counter \in 0..1 /\ m.state \in State \cup {Ended}
  BY DEF Message
<1>2. QED
  BY <1>1, RankTable DEF State

\* The cases of NextState.
LEMMA NextTable ==
  ASSUME NEW m
  PROVE  /\ m.state = "DATA_INGESTION_STARTED" => NextState(m) = "DATA_INGESTION_COMPLETED"
         /\ m.state = "DATA_INGESTION_COMPLETED" => NextState(m) = "INDEXING_STARTED"
         /\ m.state = "INDEXING_STARTED" =>
              NextState(m) = IF Counted(m) = 2 THEN "INDEXING_IN_PROGRESS" ELSE "INDEXING_STARTED"
         /\ m.state = "INDEXING_IN_PROGRESS" =>
              NextState(m) = IF modelType = "RESET" THEN "INDEXING_COMPLETED_WITH_RESET" ELSE "INDEXING_COMPLETED"
         /\ m.state = "INDEXING_COMPLETED_WITH_RESET" =>
              NextState(m) = "MODEL_VERSION_UPDATED"
         /\ m.state = "MODEL_VERSION_UPDATED" => NextState(m) = "INDEXING_COMPLETED"
         /\ m.state = "INDEXING_COMPLETED" => NextState(m) = "COMPLETED"
         /\ m.state = "COMPLETED" => NextState(m) = Ended
<1>1. ASSUME m.state = "DATA_INGESTION_STARTED"
      PROVE  NextState(m) = "DATA_INGESTION_COMPLETED"
  BY <1>1 DEF NextState
<1>2. ASSUME m.state = "DATA_INGESTION_COMPLETED"
      PROVE  NextState(m) = "INDEXING_STARTED"
  BY <1>2 DEF NextState
<1>3. ASSUME m.state = "INDEXING_STARTED"
      PROVE  NextState(m) = IF Counted(m) = 2 THEN "INDEXING_IN_PROGRESS" ELSE "INDEXING_STARTED"
  BY <1>3 DEF NextState
<1>4. ASSUME m.state = "INDEXING_IN_PROGRESS"
      PROVE  NextState(m) = IF modelType = "RESET" THEN "INDEXING_COMPLETED_WITH_RESET" ELSE "INDEXING_COMPLETED"
  BY <1>4 DEF NextState
<1>5. ASSUME m.state = "INDEXING_COMPLETED_WITH_RESET"
      PROVE  NextState(m) = "MODEL_VERSION_UPDATED"
  BY <1>5 DEF NextState
<1>6. ASSUME m.state = "MODEL_VERSION_UPDATED"
      PROVE  NextState(m) = "INDEXING_COMPLETED"
  BY <1>6 DEF NextState
<1>7. ASSUME m.state = "INDEXING_COMPLETED"
      PROVE  NextState(m) = "COMPLETED"
  BY <1>7 DEF NextState
<1>8. ASSUME m.state = "COMPLETED"
      PROVE  NextState(m) = Ended
  BY <1>8 DEF NextState
<1>9. QED
  BY <1>1, <1>2, <1>3, <1>4, <1>5, <1>6, <1>7, <1>8

\* The message handled next is one step further, or waits for the index.
LEMMA NextIs ==
  ASSUME NEW m \in Message, m.state # Ended, modelType \in {"RESET", "DELTA"},
         m.counter = 1 => m.state = "INDEXING_STARTED",
         NEW nx, nx = NextMessage(m)
  PROVE  /\ nx \in Message /\ nx.variant = m.variant /\ nx.version = m.version
         /\ nx.state = NextState(m) /\ nx.state # "DATA_INGESTION_STARTED"
         /\ nx.counter = 1 => nx.state = "INDEXING_STARTED"
         /\ nx.state = "COMPLETED" <=> m.state = "INDEXING_COMPLETED"
         /\ modelType = "RESET" =>
              /\ Rank(m) <= Rank(nx)
              /\ \/ Rank(nx) = Rank(m) + 1
                 \/ /\ Rank(nx) = Rank(m) /\ Rank(m) \in 2..3
                    /\ <<m.variant, m.version>> \notin indexed
              /\ Rank(nx) <= 2 \/ Rank(m) >= 3 \/ <<m.variant, m.version>> \in indexed
         /\ modelType = "DELTA"
              /\ m.state \notin {"INDEXING_COMPLETED_WITH_RESET", "MODEL_VERSION_UPDATED"} =>
              nx.state \notin {"INDEXING_COMPLETED_WITH_RESET", "MODEL_VERSION_UPDATED"}
<1>1. /\ m.variant \in Variant /\ m.version \in Nat /\ m.emb \in Nat
      /\ m.counter \in 0..1 /\ m.state \in State
  BY RankIs
<1> DEFINE ready == <<m.variant, m.version>> \in indexed
           count == IF NextState(m) = "INDEXING_STARTED" /\ m.state = "INDEXING_STARTED"
                      THEN Counted(m) ELSE 0
<1>2. Counted(m) = IF ready THEN m.counter + 1 ELSE m.counter
  BY DEF Counted
<1>3. /\ NextState(m) \in State \cup {Ended} /\ NextState(m) # "DATA_INGESTION_STARTED"
      /\ NextState(m) = "COMPLETED" <=> m.state = "INDEXING_COMPLETED"
  BY <1>1, NextTable, EndedIsNoState DEF State
<1>4. count \in 0..1 /\ (count = 1 => NextState(m) = "INDEXING_STARTED")
  BY <1>1, <1>2 DEF NextState, State
<1> HIDE DEF count
<1>5. nx = [m EXCEPT !.state = NextState(m), !.counter = count]
  BY DEF NextMessage, count
<1>6. nx \in Message /\ nx.state = NextState(m) /\ nx.counter = count
      /\ nx.variant = m.variant /\ nx.version = m.version
  BY <1>3, <1>4, <1>5 DEF Message
<1>7. ASSUME modelType = "RESET"
      PROVE  /\ Rank(m) <= Rank(nx)
             /\ \/ Rank(nx) = Rank(m) + 1
                \/ Rank(nx) = Rank(m) /\ Rank(m) \in 2..3 /\ ~ready
             /\ Rank(nx) <= 2 \/ Rank(m) >= 3 \/ ready
  <2>1. CASE m.state = "INDEXING_STARTED"
    <3>1. Rank(m) = 2 + m.counter
      BY <2>1, RankTable
    <3>2. CASE Counted(m) = 2
      <4>1. ready /\ m.counter = 1
        BY <1>1, <1>2, <3>2
      <4>2. NextState(m) = "INDEXING_IN_PROGRESS"
        BY <2>1, <3>2, NextTable
      <4>3. Rank(nx) = 4
        BY <1>6, <4>2, RankTable
      <4>4. QED
        BY <3>1, <4>1, <4>3
    <3>3. CASE Counted(m) # 2
      <4>1. NextState(m) = "INDEXING_STARTED" /\ count = Counted(m)
        BY <2>1, <3>3, NextTable DEF count
      <4>2. Rank(nx) = 2 + Counted(m)
        BY <1>6, <4>1, RankTable
      <4>3. QED
        BY <1>1, <1>2, <3>1, <3>3, <4>2
    <3>4. QED
      BY <3>2, <3>3
  <2>2. CASE m.state = "DATA_INGESTION_COMPLETED"
    <3>1. NextState(m) = "INDEXING_STARTED" /\ count = 0
      BY <2>2, NextTable DEF count
    <3>2. Rank(m) = 1 /\ Rank(nx) = 2
      BY <1>6, <2>2, <3>1, RankTable
    <3>3. QED
      BY <3>2
  <2>3. CASE m.state \notin {"INDEXING_STARTED", "DATA_INGESTION_COMPLETED"}
    <3>1. Rank(nx) = Rank(m) + 1 /\ Rank(m) \in 0..8 /\ (Rank(m) >= 3 \/ Rank(nx) = 1)
      BY <1>1, <1>6, <1>7, <2>3, RankTable, NextTable DEF State
    <3>2. QED
      BY <3>1
  <2>4. QED
    BY <2>1, <2>2, <2>3
<1>8. modelType = "DELTA"
        /\ m.state \notin {"INDEXING_COMPLETED_WITH_RESET", "MODEL_VERSION_UPDATED"} =>
      nx.state \notin {"INDEXING_COMPLETED_WITH_RESET", "MODEL_VERSION_UPDATED"}
  BY <1>1, <1>6, NextTable, EndedIsNoState DEF State
<1>9. QED
  BY <1>3, <1>4, <1>6, <1>7, <1>8

\* The new topic holds messages of the old one, the head taken if taken = 1, and
\* behind them nx if it was sent.
Shifted(t, t2, nx, taken, sent) ==
  \A i \in Positions(t2) :
    \/ i + taken \in Positions(t) /\ t2[i] = t[i + taken]
    \/ sent /\ i = Len(t2) /\ t2[i] = nx

LEMMA ShiftedIs ==
  ASSUME NEW t \in Seq(Message), NEW t2, NEW nx \in Message
  PROVE  /\ t2 = t => t2 \in Seq(Message) /\ Shifted(t, t2, nx, 0, FALSE)
         /\ t2 = Append(t, nx) => t2 \in Seq(Message) /\ Shifted(t, t2, nx, 0, TRUE)
         /\ t # << >> /\ t2 = Tail(t) => t2 \in Seq(Message) /\ Shifted(t, t2, nx, 1, FALSE)
         /\ t # << >> /\ t2 = Append(Tail(t), nx) =>
              t2 \in Seq(Message) /\ Shifted(t, t2, nx, 1, TRUE)
<1>1. Len(t) \in Nat
  OBVIOUS
<1>2. ASSUME t2 = t
      PROVE  t2 \in Seq(Message) /\ Shifted(t, t2, nx, 0, FALSE)
  BY <1>1, <1>2 DEF Shifted, Positions
<1>3. ASSUME t2 = Append(t, nx)
      PROVE  t2 \in Seq(Message) /\ Shifted(t, t2, nx, 0, TRUE)
  BY <1>1, <1>3 DEF Shifted, Positions
<1>4. ASSUME t # << >>
      PROVE  /\ Tail(t) \in Seq(Message) /\ Len(Tail(t)) = Len(t) - 1 /\ Len(t) >= 1
             /\ \A i \in 1..Len(t) - 1 : Tail(t)[i] = t[i + 1]
  BY <1>1, <1>4
<1>5. ASSUME t # << >>, t2 = Tail(t)
      PROVE  t2 \in Seq(Message) /\ Shifted(t, t2, nx, 1, FALSE)
  BY <1>1, <1>4, <1>5 DEF Shifted, Positions
<1>6. ASSUME t # << >>, t2 = Append(Tail(t), nx)
      PROVE  t2 \in Seq(Message) /\ Shifted(t, t2, nx, 1, TRUE)
  <2>1. PICK r \in Seq(Message) : r = Tail(t)
    BY <1>4, <1>6
  <2>2. /\ t2 \in Seq(Message) /\ Len(t2) = Len(t) /\ t2[Len(t)] = nx
        /\ \A i \in 1..Len(t) - 1 : t2[i] = t[i + 1]
    BY <1>1, <1>4, <1>6, <2>1
  <2>3. QED
    BY <1>1, <2>2 DEF Shifted, Positions
<1>7. QED
  BY <1>2, <1>3, <1>5, <1>6

\* What a shifted topic says of versions, the old one did.
LEMMA ShiftedCarries ==
  ASSUME NEW t \in Seq(Message), NEW t2 \in Seq(Message), NEW nx \in Message,
         NEW taken \in 0..1, NEW sent \in BOOLEAN, Shifted(t, t2, nx, taken, sent),
         sent => Carries(t, nx.variant, nx.version),
         NEW v, NEW k
  PROVE  /\ Carries(t2, v, k) => Carries(t, v, k)
         /\ UpTo(t, v, k) => UpTo(t2, v, k)
<1>1. ASSUME NEW i \in Positions(t2)
      PROVE  \E j \in Positions(t) : t[j].variant = t2[i].variant /\ t[j].version = t2[i].version
  <2>1. CASE i + taken \in Positions(t) /\ t2[i] = t[i + taken]
    BY <2>1
  <2>2. CASE sent /\ t2[i] = nx
    BY <2>2 DEF Carries
  <2>3. QED
    BY <2>1, <2>2 DEF Shifted
<1>2. QED
  BY <1>1 DEF Carries, UpTo

LEMMA OrderedOn ==
  ASSUME NEW t \in Seq(Message), NEW t2 \in Seq(Message), NEW nx \in Message,
         NEW taken \in 0..1, NEW sent \in BOOLEAN, Shifted(t, t2, nx, taken, sent),
         t # << >>, Ordered(t),
         nx.variant = t[1].variant, nx.version = t[1].version, Rank(t[1]) <= Rank(nx),
         \/ Rank(nx) = Rank(t[1]) + 1
         \/ Rank(nx) = Rank(t[1]) /\ UpTo(t, nx.variant, nx.version)
  PROVE  Ordered(t2)
<1>1. /\ Len(t) \in Nat /\ 1 \in Positions(t) /\ Len(t2) \in Nat
      /\ \A i \in Positions(t) : t[i] \in Message /\ Rank(t[i]) \in 0..9 /\ t[i].version \in Nat
      /\ Rank(nx) \in 0..9 /\ nx.version \in Nat
  BY RankIs DEF Positions
<1>2. SUFFICES ASSUME NEW i \in Positions(t2), NEW j \in Positions(t2),
                      t2[i].variant = t2[j].variant, t2[i].version < t2[j].version
               PROVE  /\ Rank(t2[j]) <= Rank(t2[i])
                      /\ j < i => Rank(t2[j]) < Rank(t2[i])
  BY DEF Ordered
<1>3. i \in Nat /\ j \in Nat /\ i >= 1 /\ j >= 1 /\ i <= Len(t2) /\ j <= Len(t2)
  BY <1>1 DEF Positions
<1>4. CASE /\ i + taken \in Positions(t) /\ t2[i] = t[i + taken]
           /\ j + taken \in Positions(t) /\ t2[j] = t[j + taken]
  <2>1. j < i => j + taken < i + taken
    BY <1>3
  <2>2. QED
    BY <1>2, <1>4, <2>1 DEF Ordered
<1>5. CASE /\ i + taken \in Positions(t) /\ t2[i] = t[i + taken]
           /\ j = Len(t2) /\ t2[j] = nx
  <2>1. PICK a \in Positions(t) : a = i + taken /\ t2[i] = t[a]
    BY <1>5
  <2>2. t[a].variant = t[1].variant /\ t[a].version < t[1].version
    BY <1>2, <1>5, <2>1
  <2>3. a # 1 /\ 1 < a
    BY <1>1, <2>1, <2>2 DEF Positions
  <2>4. Rank(t[1]) < Rank(t[a])
    BY <1>1, <2>2, <2>3 DEF Ordered
  <2>5. Rank(nx) <= Rank(t[a])
    <3>1. Rank(nx) \in 0..9 /\ Rank(t[1]) \in 0..9 /\ Rank(t[a]) \in 0..9
      BY <1>1
    <3>2. Rank(nx) = Rank(t[1]) + 1 \/ Rank(nx) = Rank(t[1])
      OBVIOUS
    <3>3. QED
      BY <2>4, <3>1, <3>2
  <2>6. ~(j < i)
    BY <1>3, <1>5
  <2>7. QED
    BY <1>5, <2>1, <2>5, <2>6
<1>6. CASE /\ i = Len(t2) /\ t2[i] = nx
           /\ j + taken \in Positions(t) /\ t2[j] = t[j + taken]
  <2>1. PICK b \in Positions(t) : b = j + taken /\ t2[j] = t[b]
    BY <1>6
  <2>2. t[b].variant = t[1].variant /\ t[1].version < t[b].version
    BY <1>2, <1>6, <2>1
  <2>3. Rank(t[b]) <= Rank(t[1])
    BY <1>1, <2>2 DEF Ordered
  <2>4. ~UpTo(t, nx.variant, nx.version)
    BY <1>1, <2>2 DEF UpTo
  <2>5. Rank(t[b]) < Rank(nx)
    <3>1. Rank(nx) \in 0..9 /\ Rank(t[1]) \in 0..9 /\ Rank(t[b]) \in 0..9
      BY <1>1
    <3>2. Rank(nx) = Rank(t[1]) + 1
      BY <2>4
    <3>3. QED
      BY <2>3, <3>1, <3>2
  <2>6. Rank(nx) \in 0..9 /\ Rank(t[b]) \in 0..9
    BY <1>1
  <2>7. QED
    BY <1>6, <2>1, <2>5, <2>6, SMTT(30)
<1>7. CASE t2[i] = nx /\ t2[j] = nx
  BY <1>1, <1>2, <1>7
<1>8. QED
  BY <1>4, <1>5, <1>6, <1>7 DEF Shifted

\* The head taken or not, nx one step further, read2 at most moved to its version by
\* the message that does so, and idx2 without at most the version before it.
Advances(t, t2, nx, taken, sent, read, read2, idx, idx2) ==
  /\ t \in Seq(Message) /\ t2 \in Seq(Message) /\ nx \in Message
  /\ taken \in 0..1 /\ sent \in BOOLEAN /\ Shifted(t, t2, nx, taken, sent) /\ t # << >>
  /\ read \in [Variant -> Nat] /\ read2 \in [Variant -> Nat]
  /\ nx.variant = t[1].variant /\ nx.version = t[1].version
  /\ Rank(t[1]) <= Rank(nx) /\ Rank(nx) <= Rank(t[1]) + 1
  /\ Rank(nx) <= 2 \/ Rank(t[1]) >= 3 \/ <<nx.variant, nx.version>> \in idx
  /\ \A w \in Variant : \/ read2[w] = read[w]
                        \/ w = nx.variant /\ Rank(t[1]) = 5 /\ read2[w] = nx.version
  /\ sent /\ Rank(t[1]) = 5 => read2[nx.variant] = nx.version
  /\ \A e \in idx : e \in idx2 \/ (Rank(t[1]) = 6 /\ e = <<nx.variant, nx.version - 1>>)

LEMMA PastOn ==
  ASSUME NEW t, NEW t2, NEW nx, NEW taken, NEW sent, NEW read, NEW read2, NEW idx, NEW idx2,
         Advances(t, t2, nx, taken, sent, read, read2, idx, idx2),
         Past(t, read, idx), Ordered(t)
  PROVE  Past(t2, read2, idx2) /\ \A w \in Variant : read[w] <= read2[w]
<1> USE DEF Advances
<1>1. /\ Len(t) \in Nat /\ 1 \in Positions(t) /\ Len(t2) \in Nat
      /\ \A i \in Positions(t) : /\ t[i] \in Message /\ Rank(t[i]) \in 0..9
                                 /\ t[i].version \in Nat /\ t[i].variant \in Variant
      /\ Rank(nx) \in 0..9 /\ nx.version \in Nat /\ nx.variant \in Variant
  BY RankIs DEF Positions
<1> DEFINE v == nx.variant
           k == nx.version
<1>2. t[1] \in Message /\ Rank(t[1]) \in 0..9 /\ read[v] \in Nat /\ read2[v] \in Nat
  BY <1>1
<1>3. /\ Rank(t[1]) >= 3 => <<v, k>> \in idx \/ k < read[v]
      /\ k < read[v] => Rank(t[1]) >= 6
      /\ Rank(t[1]) >= 6 => k <= read[v]
  BY <1>1 DEF Past
<1>4. \A w \in Variant : read[w] <= read2[w]
  <2>1. read[v] <= read2[v]
    BY <1>1, <1>2, <1>3
  <2>2. QED
    BY <1>1, <2>1
<1>5. ASSUME NEW i \in Positions(t)
      PROVE  /\ Rank(t[i]) >= 3 => \/ <<t[i].variant, t[i].version>> \in idx2
                                   \/ t[i].version < read2[t[i].variant]
             /\ t[i].version < read2[t[i].variant] => Rank(t[i]) >= 6
             /\ Rank(t[i]) >= 6 => t[i].version <= read2[t[i].variant]
  <2> DEFINE w == t[i].variant
             l == t[i].version
  <2>1. /\ w \in Variant /\ l \in Nat /\ Rank(t[i]) \in 0..9
        /\ read[w] \in Nat /\ read2[w] \in Nat /\ read[w] <= read2[w]
    BY <1>1, <1>4
  <2>2. /\ Rank(t[i]) >= 3 => <<w, l>> \in idx \/ l < read[w]
        /\ l < read[w] => Rank(t[i]) >= 6
        /\ Rank(t[i]) >= 6 => l <= read[w]
    BY DEF Past
  <2>3. <<w, l>> \in idx => <<w, l>> \in idx2 \/ l < read2[w]
    <3>1. CASE <<w, l>> = <<v, k - 1>> /\ Rank(t[1]) = 6
      <4>1. w = v /\ l = k - 1
        BY <3>1
      <4>2. k <= read[v]
        BY <1>3, <3>1
      <4>3. read[v] <= read2[w]
        BY <2>1, <4>1
      <4>4. k \in Nat /\ read2[w] \in Nat /\ read[v] \in Nat
        BY <1>1, <1>2, <2>1
      <4>5. l < read2[w]
        BY <4>1, <4>2, <4>3, <4>4
      <4>6. QED
        BY <4>5
    <3>2. <<w, l>> \in idx =>
            <<w, l>> \in idx2 \/ (Rank(t[1]) = 6 /\ <<w, l>> = <<v, k - 1>>)
      OBVIOUS
    <3>3. QED
      BY <3>1, <3>2
  <2>4. l < read2[w] => Rank(t[i]) >= 6
    <3>1. CASE read2[w] = read[w]
      BY <2>2, <3>1
    <3>2. CASE w = v /\ Rank(t[1]) = 5 /\ read2[w] = k /\ l < read2[w]
      <4>1. i # 1 /\ 1 < i
        BY <1>1, <3>2 DEF Positions
      <4>2. t[i].variant = t[1].variant /\ t[i].version < t[1].version
        BY <3>2
      <4>3. Rank(t[1]) < Rank(t[i])
        BY <1>1, <4>1, <4>2 DEF Ordered
      <4>4. QED
        BY <2>1, <3>2, <4>3
    <3>3. QED
      BY <2>1, <3>1, <3>2
  <2>5. QED
    BY <2>1, <2>2, <2>3, <2>4, SMTT(30)
<1>6. ASSUME sent
      PROVE  /\ Rank(nx) >= 3 => <<v, k>> \in idx2 \/ k < read2[v]
             /\ k < read2[v] => Rank(nx) >= 6
             /\ Rank(nx) >= 6 => k <= read2[v]
  <2>1. <<v, k>> \in idx => <<v, k>> \in idx2
    <3>1. <<v, k>> # <<v, k - 1>>
      BY <1>1
    <3>2. QED
      BY <3>1
  <2>2. read[v] <= read2[v]
    BY <1>1, <1>4
  <2>3. Rank(nx) >= 3 => <<v, k>> \in idx2 \/ k < read2[v]
    BY <1>1, <1>2, <1>3, <2>1, <2>2
  <2>4. k < read2[v] => Rank(nx) >= 6
    <3>1. read2[v] = read[v] \/ read2[v] = k
      BY <1>1
    <3>2. QED
      BY <1>1, <1>2, <1>3, <3>1, SMTT(30)
  <2>5. Rank(nx) >= 6 => k <= read2[v]
    BY <1>1, <1>2, <1>3, <1>6, <2>2
  <2>6. QED
    BY <2>3, <2>4, <2>5
<1>7. ASSUME NEW i \in Positions(t2)
      PROVE  /\ Rank(t2[i]) >= 3 => \/ <<t2[i].variant, t2[i].version>> \in idx2
                                    \/ t2[i].version < read2[t2[i].variant]
             /\ t2[i].version < read2[t2[i].variant] => Rank(t2[i]) >= 6
             /\ Rank(t2[i]) >= 6 => t2[i].version <= read2[t2[i].variant]
  <2>1. CASE i + taken \in Positions(t) /\ t2[i] = t[i + taken]
    BY <1>5, <2>1
  <2>2. CASE sent /\ t2[i] = nx
    BY <1>6, <2>2
  <2>3. QED
    BY <2>1, <2>2 DEF Shifted
<1>8. QED
  BY <1>4, <1>7 DEF Past

LEMMA WellFormedOn ==
  ASSUME NEW t \in Seq(Message), NEW t2 \in Seq(Message), NEW nx \in Message,
         NEW taken \in 0..1, NEW sent \in BOOLEAN, Shifted(t, t2, nx, taken, sent),
         WellFormed(t), nx.version >= 1, nx.state # "DATA_INGESTION_STARTED",
         nx.counter = 1 => nx.state = "INDEXING_STARTED"
  PROVE  WellFormed(t2)
<1>1. ASSUME NEW i \in Positions(t2)
      PROVE  /\ t2[i].state # "DATA_INGESTION_STARTED" /\ t2[i].version >= 1
             /\ t2[i].counter = 1 => t2[i].state = "INDEXING_STARTED"
  <2>1. CASE i + taken \in Positions(t) /\ t2[i] = t[i + taken]
    BY <2>1 DEF WellFormed
  <2>2. CASE sent /\ t2[i] = nx
    BY <2>2
  <2>3. QED
    BY <2>1, <2>2 DEF Shifted
<1>2. QED
  BY <1>1 DEF WellFormed

-----------------------------------------------------------------------------
(* What a handler writes. *)

LEMMA PrefixIs ==
  ASSUME NEW S, NEW w \in Seq(S), NEW n \in 0..Len(w)
  PROVE  /\ DOMAIN SubSeq(w, 1, n) = 1..n /\ 1..n \subseteq 1..Len(w) /\ DOMAIN w = 1..Len(w)
         /\ \A i \in 1..n : SubSeq(w, 1, n)[i] = w[i]
  OBVIOUS

\* A handler moves the state of its variant on, and at most one the read version.
Wrote(d, c, m) ==
  /\ c.partition = d.partition
  /\ \A u \in Variant : c.onboarded[u] = d.onboarded[u]
  /\ \A u \in Variant \ {m.variant} :
       c.readVersion[u] = d.readVersion[u] /\ c.state[u] = d.state[u]
  /\ \/ c.readVersion[m.variant] = d.readVersion[m.variant]
     \/ m.state = "INDEXING_COMPLETED_WITH_RESET" /\ c.readVersion[m.variant] = m.version
  /\ c.state[m.variant] \in {d.state[m.variant], NextState(m)}

LEMMA WriteIs ==
  ASSUME IsViews(views), NEW m \in Message, m.state # Ended,
         NEW n \in 0..Len(Writes(m)), Write(m, n)
  PROVE  \E c \in Config :
           /\ Puts(views, views', c) /\ Wrote(Stored, c, m)
           /\ n = Len(Writes(m)) /\ m.state = "INDEXING_COMPLETED_WITH_RESET" =>
                c.readVersion[m.variant] = m.version
<1>1. /\ m.variant \in Variant /\ m.version \in Nat /\ m.emb \in Nat /\ m.state \in State
  BY RankIs
<1>2. Stored \in Config /\ Stored = views[Len(views)]
  BY ViewsAre DEF Stored
<1>3. PICK w : w = Writes(m)
  OBVIOUS
<1>4. /\ \/ w = << >>
         \/ /\ m.state = "INDEXING_COMPLETED_WITH_RESET"
            /\ w = << <<"readVersion", m.version>>, <<"embRead", m.emb>>, <<"state", NextState(m)>> >>
         \/ w = << <<"state", NextState(m)>> >>
      /\ w = << >> \/ NextState(m) \in State
      /\ m.state = "INDEXING_COMPLETED_WITH_RESET" => Len(w) = 3
  <2>1. NextState(m) \in State \cup {Ended}
    BY <1>1, NextTable DEF State
  <2>2. m.state = "INDEXING_COMPLETED_WITH_RESET" => NextState(m) \notin {m.state, Ended}
    BY NextTable, EndedIsNoState DEF State
  <2>3. CASE NextState(m) \in {m.state, Ended}
    BY <1>3, <2>2, <2>3 DEF Writes
  <2>4. CASE NextState(m) \notin {m.state, Ended} /\ m.state = "INDEXING_COMPLETED_WITH_RESET"
    BY <1>3, <2>1, <2>4 DEF Writes
  <2>5. CASE NextState(m) \notin {m.state, Ended} /\ m.state # "INDEXING_COMPLETED_WITH_RESET"
    BY <1>3, <2>1, <2>5 DEF Writes
  <2>6. QED
    BY <2>3, <2>4, <2>5
<1>5. CASE n = 0
  <2>1. Puts(views, views', Stored) /\ Wrote(Stored, Stored, m)
    BY <1>2, <1>5 DEF Write, Puts, Wrote
  <2>2. ~(n = Len(Writes(m)) /\ m.state = "INDEXING_COMPLETED_WITH_RESET")
    BY <1>3, <1>4, <1>5
  <2>3. QED
    BY <1>2, <2>1, <2>2
<1>6. CASE n # 0
  <2>1. PICK S : w \in Seq(S)
    <3> DEFINE a == <<"readVersion", m.version>>
               b == <<"embRead", m.emb>>
               e == <<"state", NextState(m)>>
    <3> HIDE DEF a, b, e
    <3>1. w = << >> \/ w = <<a, b, e>> \/ w = <<e>>
      BY <1>4 DEF a, b, e
    <3>2. << >> \in Seq({a, b, e}) /\ <<a, b, e>> \in Seq({a, b, e}) /\ <<e>> \in Seq({a, b, e})
      OBVIOUS
    <3>3. QED
      BY <3>1, <3>2
  <2>2. PICK p : p = SubSeq(w, 1, n)
    OBVIOUS
  <2>3. /\ DOMAIN p = 1..n /\ 1..n \subseteq 1..Len(w) /\ DOMAIN w = 1..Len(w)
        /\ \A i \in DOMAIN p : p[i] = w[i]
    BY <1>3, <2>1, <2>2, PrefixIs
  <2>4. \A i \in DOMAIN p :
          \/ /\ i = 1 /\ m.state = "INDEXING_COMPLETED_WITH_RESET"
             /\ p[i] = <<"readVersion", m.version>>
          \/ p[i] = <<"embRead", m.emb>>
          \/ p[i] = <<"state", NextState(m)>> /\ NextState(m) \in State
    BY <1>4, <2>3
  <2>5. \A i \in DOMAIN p : Typed(p[i])
    BY <1>1, <2>4 DEF Typed
  <2>6. PICK c : c = Put(Stored, m.variant, p)
    OBVIOUS
  <2>7. /\ c \in Config /\ c.partition = Stored.partition
        /\ \A u \in Variant \ {m.variant} : /\ c.state[u] = Stored.state[u]
                                            /\ c.onboarded[u] = Stored.onboarded[u]
                                            /\ c.readVersion[u] = Stored.readVersion[u]
        /\ FieldWritten(Stored, m.variant, p, "state", c.state[m.variant])
        /\ FieldWritten(Stored, m.variant, p, "onboarded", c.onboarded[m.variant])
        /\ FieldWritten(Stored, m.variant, p, "readVersion", c.readVersion[m.variant])
    BY <1>1, <1>2, <2>5, <2>6, PutIs
  <2>8. Set(c)
    BY <1>3, <1>6, <2>2, <2>6 DEF Write
  <2>9. Puts(views, views', c)
    BY <2>7, <2>8 DEF Set, Puts
  <2>10. c.state[m.variant] \in {Stored.state[m.variant], NextState(m)}
    BY <2>4, <2>7 DEF FieldWritten
  <2>11. c.onboarded[m.variant] = Stored.onboarded[m.variant]
    BY <2>4, <2>7 DEF FieldWritten
  <2>12. \/ c.readVersion[m.variant] = Stored.readVersion[m.variant]
         \/ m.state = "INDEXING_COMPLETED_WITH_RESET" /\ c.readVersion[m.variant] = m.version
    BY <2>4, <2>7 DEF FieldWritten
  <2>13. ASSUME m.state = "INDEXING_COMPLETED_WITH_RESET"
         PROVE  c.readVersion[m.variant] = m.version
    <3>1. 1 \in DOMAIN p /\ p[1] = <<"readVersion", m.version>>
      BY <1>4, <1>6, <2>3, <2>13
    <3>2. c.readVersion[m.variant] = m.version
      BY <2>4, <2>7, <3>1 DEF FieldWritten
    <3>3. QED
      BY <3>2
  <2>14. Wrote(Stored, c, m)
    BY <2>7, <2>10, <2>11, <2>12 DEF Wrote
  <2>15. QED
    BY <2>7, <2>9, <2>13, <2>14
<1>7. QED
  BY <1>5, <1>6

-----------------------------------------------------------------------------
(* Most steps touch neither the topic nor a version: what they keep. *)

\* A trigger sleeps on, or begins to as it writes.
Sleepers ==
  \A p \in Partition : triggers'[p].at = "sleeping" =>
    \/ triggers'[p] = triggers[p]
    \/ /\ p \in eofs' /\ triggers'[p].behind = Len(views)
       /\ Len(views') = Len(views) + 1

Frame(c) ==
  /\ Puts(views, views', c)
  /\ modelType' = modelType /\ topic' = topic /\ collections' = collections /\ job' = job
  /\ indexed \subseteq indexed' /\ starting' \subseteq starting
  /\ eofs \subseteq eofs' /\ eofs' \subseteq Partition
  /\ \A v \in Variant : /\ c.readVersion[v] = Stored.readVersion[v]
                        /\ c.onboarded[v] = Stored.onboarded[v]
                        /\ call'.versions[v] \in {0, call.versions[v]}
  /\ \A q \in Partition : c.partition[q] = 1 => q \in eofs'
  /\ call.at = "idle" =>
       /\ call'.at = "idle"
       /\ \A v \in Variant : c.state[v] = "COMPLETED" => Stored.state[v] = "COMPLETED"
  /\ Sleepers

\* What the copy and the store are after a write.
LEMMA AfterPuts ==
  ASSUME IInv, NEW c, Puts(views, views', c)
  PROVE  /\ Local' = Local /\ Stored' = c /\ c \in Config /\ IsViews(views')
         /\ Len(views) \in Nat /\ Len(views') \in Nat /\ Len(views) <= Len(views')
         /\ Len(views) \in Positions(views) /\ Stored = views[Len(views)]
         /\ \A i \in Positions(views) : i \in Positions(views') /\ views'[i] = views[i]
         /\ \A i \in Positions(views') \ Positions(views) : i = Len(views') /\ views'[i] = c
<1>1. IsViews(views) /\ Stored = views[Len(views)]
  BY LocalAndStored
<1>2. /\ IsViews(views') /\ Head(views') = Head(views) /\ views'[Len(views')] = c
      /\ Len(views) <= Len(views') /\ Len(views') \in Nat
      /\ \A i \in Positions(views) : i \in Positions(views') /\ views'[i] = views[i]
      /\ \A i \in Positions(views') \ Positions(views) : i = Len(views')
  BY <1>1, PutsIs
<1>3. Len(views) \in Nat /\ Len(views) \in Positions(views)
  BY <1>1, ViewsAre
<1>4. Local' = Local
  BY <1>2 DEF Local
<1>5. Stored' = c
  BY <1>2 DEF Stored
<1>6. c \in Config
  BY DEF Puts
<1>7. QED
  BY <1>1, <1>2, <1>3, <1>4, <1>5, <1>6

\* No view after one that starts a variant's first messages is COMPLETED, as long as
\* nobody writes that.
LEMMA WindowKeeps ==
  ASSUME IInv, modelType = "RESET", NEW c, Puts(views, views', c), Sleepers, job' = job,
         NEW v \in Variant, Unindexed(v)' => Unindexed(v),
         Unindexed(v) /\ call.at = "idle" /\ job.versions[v] = 1 /\ c.state[v] = "COMPLETED"
           => Stored.state[v] = "COMPLETED"
  PROVE  WindowInv(v)'
<1>1. /\ Len(views) \in Nat /\ Len(views') \in Nat /\ Len(views) <= Len(views')
      /\ Len(views) \in Positions(views) /\ Stored = views[Len(views)]
      /\ \A i \in Positions(views) : i \in Positions(views') /\ views'[i] = views[i]
      /\ \A i \in Positions(views') \ Positions(views) : i = Len(views') /\ views'[i] = c
  BY AfterPuts
<1>2. WindowInv(v) /\ CallInv /\ EofInv
  BY DEF IInv, ResetInv
<1>3. SUFFICES ASSUME Unindexed(v), job.versions[v] = 1, NEW p \in Partition,
                      triggers'[p].at = "sleeping",
                      NEW i \in triggers'[p].behind + 1..Len(views'),
                      NEW j \in triggers'[p].behind + 1..Len(views'),
                      i <= j, views'[i].state[v] = "DATA_INGESTION_STARTED",
                      views'[j].state[v] = "COMPLETED"
               PROVE  FALSE
  BY DEF WindowInv
<1>4. CASE triggers'[p] = triggers[p]
  <2>1. PICK b \in Nat : b = triggers[p].behind
    BY DEF IInv, TypeOK
  <2>2. b < Len(views) /\ call.at = "idle"
    BY <1>2, <1>3, <1>4, <2>1 DEF EofInv, CallInv
  <2>3. i \in Nat /\ j \in Nat /\ b + 1 <= i /\ j <= Len(views')
    BY <1>1, <1>3, <1>4, <2>1
  <2>4. ASSUME NEW k \in b + 1..Len(views), views[k].state[v] = "COMPLETED",
               NEW n \in b + 1..Len(views), n <= k
        PROVE  views[n].state[v] # "DATA_INGESTION_STARTED"
    BY <1>2, <1>3, <1>4, <2>1, <2>4 DEF WindowInv
  <2>5. CASE j \in Positions(views)
    <3>1. i \in b + 1..Len(views) /\ j \in b + 1..Len(views) /\ i \in Positions(views)
      BY <1>1, <1>3, <2>1, <2>3, <2>5 DEF Positions
    <3>2. QED
      BY <1>1, <1>3, <2>4, <2>5, <3>1
  <2>6. CASE j \notin Positions(views)
    <3>1. j \in Positions(views') /\ i \in Positions(views')
      BY <1>1, <1>3, <2>1, <2>3 DEF Positions
    <3>2. c.state[v] = "COMPLETED"
      BY <1>1, <1>3, <2>6, <3>1
    <3>3. i \in Positions(views)
      BY <1>1, <1>3, <3>1, <3>2
    <3>4. views[Len(views)].state[v] = "COMPLETED"
      BY <1>1, <1>3, <2>2, <3>2
    <3>5. /\ i \in b + 1..Len(views) /\ Len(views) \in b + 1..Len(views)
          /\ i <= Len(views) /\ views[i] = views'[i]
      BY <1>1, <2>1, <2>2, <2>3, <3>3 DEF Positions
    <3>6. QED
      BY <1>3, <2>4, <3>4, <3>5
  <2>7. QED
    BY <2>5, <2>6
<1>5. CASE triggers'[p].behind = Len(views) /\ Len(views') = Len(views) + 1
  <2>1. i = j
    BY <1>1, <1>3, <1>5
  <2>2. QED
    BY <1>3, <2>1
<1>6. QED
  BY <1>3, <1>4, <1>5 DEF Sleepers

LEMMA EofKeeps ==
  ASSUME IInv, NEW c, Puts(views, views', c), Sleepers, starting' \subseteq starting,
         eofs \subseteq eofs', eofs' \subseteq Partition,
         \A q \in Partition : c.partition[q] = 1 => q \in eofs'
  PROVE  EofInv'
<1>1. /\ Len(views) \in Nat /\ Len(views') \in Nat /\ Len(views) <= Len(views')
      /\ Len(views) \in Positions(views) /\ Stored = views[Len(views)] /\ Stored' = c
      /\ \A i \in Positions(views) : i \in Positions(views') /\ views'[i] = views[i]
      /\ \A i \in Positions(views') \ Positions(views) : i = Len(views') /\ views'[i] = c
  BY AfterPuts
<1>2. EofInv /\ eofs \subseteq Partition /\ eofs \subseteq eofs' /\ eofs' \subseteq Partition
      /\ \A q \in Partition : c.partition[q] = 1 => q \in eofs'
  BY DEF IInv, TypeOK, Frame
<1>3. ASSUME NEW p \in Partition, triggers'[p].at = "sleeping"
      PROVE  /\ p \in eofs' /\ triggers'[p].behind < Len(views')
             /\ \A i \in triggers'[p].behind + 1..Len(views') :
                  \A q \in Partition : views'[i].partition[q] = 1 => q \in eofs'
  <2>1. CASE triggers'[p] = triggers[p]
    <3>1. PICK b \in Nat : b = triggers[p].behind
      BY DEF IInv, TypeOK
    <3>2. /\ p \in eofs /\ b < Len(views)
          /\ \A i \in b + 1..Len(views) :
               \A q \in Partition : views[i].partition[q] = 1 => q \in eofs
      BY <1>2, <1>3, <2>1, <3>1 DEF EofInv
    <3>3. ASSUME NEW i \in b + 1..Len(views'), NEW q \in Partition, views'[i].partition[q] = 1
          PROVE  q \in eofs'
      <4>1. i \in Positions(views')
        BY <1>1, <3>1 DEF Positions
      <4>2. CASE i \in Positions(views)
        <5>1. i \in b + 1..Len(views)
          BY <1>1, <3>1, <4>2 DEF Positions
        <5>2. QED
          BY <1>1, <1>2, <3>2, <3>3, <4>2, <5>1
      <4>3. CASE i \notin Positions(views)
        BY <1>1, <1>2, <3>3, <4>1, <4>3
      <4>4. QED
        BY <4>2, <4>3
    <3>4. p \in eofs' /\ b < Len(views')
      BY <1>1, <1>2, <3>2
    <3>5. QED
      BY <2>1, <3>1, <3>3, <3>4
  <2>2. CASE /\ p \in eofs' /\ triggers'[p].behind = Len(views)
             /\ Len(views') = Len(views) + 1
    <3>1. Len(views') \in Positions(views') \ Positions(views)
      BY <1>1, <2>2 DEF Positions
    <3>2. views'[Len(views')] = c
      BY <1>1, <3>1
    <3>3. \A i \in Len(views) + 1..Len(views') : i = Len(views')
      BY <1>1, <2>2
    <3>4. QED
      BY <1>1, <1>2, <2>2, <3>2, <3>3
  <2>3. QED
    BY <1>3, <2>1, <2>2 DEF Sleepers
<1>4. starting' # {} => eofs' = Partition
  BY <1>1, <1>2 DEF EofInv
<1>5. QED
  BY <1>1, <1>2, <1>3, <1>4 DEF EofInv

LEMMA FrameKeepsReset ==
  ASSUME IInv, NEW c, Frame(c), modelType = "RESET"
  PROVE  /\ TopicInv' /\ CollectionsInv'
         /\ \A v \in Variant : ServedInv(v)' /\ ChosenInv(v)' /\ JobInv(v)'
<1>1. /\ Local' = Local /\ Stored' = c /\ c \in Config
      /\ topic' = topic /\ collections' = collections /\ job' = job /\ indexed \subseteq indexed'
      /\ \A v \in Variant : c.readVersion[v] = Stored.readVersion[v]
      /\ eofs \subseteq eofs' /\ eofs' \subseteq Partition
  BY AfterPuts DEF Frame
<1>2. TopicInv /\ CollectionsInv /\ \A v \in Variant : ServedInv(v) /\ ChosenInv(v) /\ JobInv(v)
  BY DEF IInv, ResetInv
<1>3. topic \in Seq(Message) /\ eofs \subseteq Partition
  BY DEF IInv, TypeOK
<1>4. Past(topic', Stored.readVersion, indexed')
  <2>1. Past(topic, Stored.readVersion, indexed)
    BY <1>2 DEF TopicInv
  <2>2. QED
    BY <1>1, <2>1 DEF Past
<1>5. Past(topic', c.readVersion, indexed')
  <2>1. \A i \in Positions(topic) : topic[i].variant \in Variant
    BY <1>3, RankIs DEF Positions
  <2>2. QED
    BY <1>1, <1>4, <2>1 DEF Past
<1>6. TopicInv'
  BY <1>1, <1>2, <1>5 DEF TopicInv
<1>7. CollectionsInv'
  BY <1>1, <1>2 DEF CollectionsInv
<1>8. ASSUME NEW v \in Variant
      PROVE  ServedInv(v)' /\ ChosenInv(v)' /\ JobInv(v)'
  <2>1. ServedInv(v)'
    BY <1>1, <1>2 DEF ServedInv
  <2>2. ChosenInv(v)'
    <3>1. call'.versions[v] \in {0, call.versions[v]}
      BY DEF Frame
    <3>2. QED
      BY <1>1, <1>2, <3>1 DEF ChosenInv
  <2>3. JobInv(v)'
    <3>1. eofs = Partition => eofs' = Partition
      BY <1>1, <1>3
    <3>2. QED
      BY <1>1, <1>2, <3>1 DEF JobInv
  <2>4. QED
    BY <2>1, <2>2, <2>3
<1>9. QED
  BY <1>6, <1>7, <1>8

LEMMA FrameKeepsFirst ==
  ASSUME IInv, NEW c, Frame(c), modelType = "RESET", NEW v \in Variant
  PROVE  FirstInv(v)' /\ WindowInv(v)'
<1>1. /\ Stored' = c /\ c \in Config
      /\ topic' = topic /\ job' = job /\ indexed \subseteq indexed' /\ starting' \subseteq starting
      /\ c.readVersion[v] = Stored.readVersion[v]
      /\ call.at = "idle" =>
           call'.at = "idle" /\ (c.state[v] = "COMPLETED" => Stored.state[v] = "COMPLETED")
  BY AfterPuts DEF Frame
<1>2. /\ Len(views) \in Nat /\ Len(views') \in Nat /\ Len(views) <= Len(views')
      /\ Len(views) \in Positions(views) /\ Stored = views[Len(views)]
      /\ \A i \in Positions(views) : i \in Positions(views') /\ views'[i] = views[i]
      /\ \A i \in Positions(views') \ Positions(views) : i = Len(views') /\ views'[i] = c
  BY AfterPuts DEF Frame
<1>3. FirstInv(v) /\ WindowInv(v) /\ CallInv /\ EofInv
  BY DEF IInv, ResetInv
<1>4. Unindexed(v)' => Unindexed(v)
  BY <1>1 DEF Unindexed
<1>5. FirstInv(v)'
  <2>1. SUFFICES ASSUME Unindexed(v),
                        \/ \E s \in starting : s[2].variant = v /\ s[2].version = 1
                        \/ Carries(topic, v, 1)
                 PROVE  /\ call'.at = "idle" /\ job'.versions[v] = 1
                        /\ \A i \in Positions(views') : views'[i].state[v] # "COMPLETED"
    BY <1>1, <1>4 DEF FirstInv
  <2>2. /\ call.at = "idle" /\ job.versions[v] = 1
        /\ \A i \in Positions(views) : views[i].state[v] # "COMPLETED"
    BY <1>3, <2>1 DEF FirstInv
  <2>3. c.state[v] # "COMPLETED"
    BY <1>1, <1>2, <2>2
  <2>4. QED
    BY <1>1, <1>2, <2>2, <2>3
<1>6. WindowInv(v)'
  BY <1>1, <1>4, WindowKeeps DEF Frame
<1>7. QED
  BY <1>5, <1>6

LEMMA FrameKeepsRest ==
  ASSUME IInv, NEW c, Frame(c)
  PROVE  /\ ViewsGrow(views') /\ WellFormed(topic') /\ StartsInv' /\ EofInv'
         /\ ServingCollectionExists' /\ DeltaInv'
<1>1. /\ Stored' = c /\ c \in Config /\ modelType' = modelType
      /\ topic' = topic /\ job' = job /\ collections' = collections /\ starting' \subseteq starting
      /\ \A v \in Variant : /\ c.readVersion[v] = Stored.readVersion[v]
                            /\ c.onboarded[v] = Stored.onboarded[v]
  BY AfterPuts DEF Frame
<1>2. /\ Len(views) \in Nat /\ Len(views') \in Nat /\ Len(views) <= Len(views')
      /\ Len(views) \in Positions(views) /\ Stored = views[Len(views)]
      /\ \A i \in Positions(views) : i \in Positions(views') /\ views'[i] = views[i]
      /\ \A i \in Positions(views') \ Positions(views) : i = Len(views') /\ views'[i] = c
  BY AfterPuts DEF Frame
<1>3. ViewsGrow(views')
  <2>1. Grows(Stored, c)
    BY <1>1, LocalAndStored DEF Grows
  <2>2. Puts(views, views', c) /\ IsViews(views) /\ ViewsGrow(views)
    BY LocalAndStored DEF Frame, IInv
  <2>3. QED
    BY <1>2, <2>1, <2>2, GrowsOn
<1>4. WellFormed(topic') /\ StartsInv'
  BY <1>1 DEF IInv, StartsInv
<1>5. EofInv'
  BY EofKeeps DEF Frame
<1>6. ServingCollectionExists'
  BY <1>1 DEF IInv, ServingCollectionExists
<1>7. DeltaInv'
  <2>1. ASSUME modelType = "DELTA", NEW i \in Positions(views'), NEW v \in Variant
        PROVE  views'[i].readVersion[v] = 1
    BY <1>1, <1>2, <2>1 DEF IInv, DeltaInv
  <2>2. QED
    BY <1>1, <2>1 DEF IInv, DeltaInv
<1>8. QED
  BY <1>3, <1>4, <1>5, <1>6, <1>7

\* A step within the frame keeps everything but the call's part and the types.
LEMMA FrameKeeps ==
  ASSUME IInv, NEW c, Frame(c), TypeOK', CallInv'
  PROVE  IInv'
<1>1. modelType' = modelType
  BY DEF Frame
<1>2. ResetInv'
  BY <1>1, FrameKeepsReset, FrameKeepsFirst DEF ResetInv
<1>3. QED
  BY <1>2, FrameKeepsRest DEF IInv

-----------------------------------------------------------------------------
(* The watch delivers a write. *)

LEMMA DeliverKeeps == ASSUME IInv, Deliver PROVE IInv'
<1>1. /\ Len(views) > 1 /\ views' = Tail(views)
      /\ modelType' = modelType /\ topic' = topic /\ collections' = collections /\ job' = job
      /\ indexed' = indexed /\ starting' = starting /\ eofs' = eofs /\ call' = call
  BY DEF Deliver, indexVars, callVars, topicVars
<1>2. /\ IsViews(views) /\ Local = views[1] /\ Stored = views[Len(views)]
      /\ Len(views) \in Nat /\ views \in Seq(Config) /\ views # << >>
      /\ TypeOK /\ ViewsGrow(views) /\ MaxLag \in Nat
  BY <1>1, LocalAndStored, ViewsAre, IndexingAssumption DEF IInv, IsViews
<1>3. /\ views' \in Seq(Config) /\ Len(views') = Len(views) - 1 /\ Len(views') \in Nat
      /\ \A i \in 1..Len(views) - 1 : views'[i] = views[i + 1]
  BY <1>1, <1>2
<1>4. /\ \A i \in Positions(views') : i + 1 \in Positions(views) /\ views'[i] = views[i + 1]
      /\ IsViews(views')
  BY <1>1, <1>2, <1>3 DEF Positions, IsViews
<1>5. /\ Local' = views[2] /\ Stored' = Stored
      /\ 1 \in Positions(views) /\ 2 \in Positions(views)
  <2>1. Head(views') = views'[1]
    BY <1>4, ViewsAre
  <2>2. Local' = views[2]
    BY <1>1, <1>2, <1>3, <2>1 DEF Local
  <2>3. Stored' = views'[Len(views')]
    BY DEF Stored
  <2>4. Len(views') \in 1..Len(views) - 1 /\ Len(views') + 1 = Len(views)
    BY <1>1, <1>2, <1>3
  <2>5. views'[Len(views')] = views[Len(views)]
    BY <1>3, <2>4
  <2>6. QED
    BY <1>1, <1>2, <2>2, <2>3, <2>5 DEF Positions
<1>6. ASSUME NEW v \in Variant
      PROVE  /\ Local.readVersion[v] \in Nat /\ Local'.readVersion[v] \in Nat
             /\ Local.readVersion[v] <= Local'.readVersion[v]
             /\ Top(Local, v) <= Top(Local', v) /\ Top(Local, v) \in Nat /\ Top(Local', v) \in Nat
  <2>1. /\ views[1] \in Config /\ views[2] \in Config
        /\ views[1].readVersion[v] <= views[2].readVersion[v]
        /\ views[1].onboarded[v] => views[2].onboarded[v]
        /\ views[2].readVersion[v] >= 1
    BY <1>2, <1>5, ViewsAre DEF ViewsGrow
  <2>2. views[1].readVersion[v] \in Nat /\ views[2].readVersion[v] \in Nat
    BY <2>1, ConfigIs
  <2>3. Top(views[1], v) <= Top(views[2], v) /\ Top(views[1], v) \in Nat /\ Top(views[2], v) \in Nat
    BY <2>1, <2>2 DEF Top
  <2>4. QED
    BY <1>2, <1>5, <2>1, <2>2, <2>3
<1>7. ASSUME NEW p \in Partition
      PROVE  /\ triggers'[p].at = triggers[p].at
             /\ triggers[p].behind \in Nat
             /\ triggers'[p].behind \in Nat
             /\ triggers[p].behind <= triggers'[p].behind + 1
             /\ triggers[p].behind = 0 => triggers'[p].behind = 0
             /\ triggers[p].behind > 0 => triggers'[p].behind = triggers[p].behind - 1
             /\ triggers'[p].at \in {"none", "sleeping", "returned"}
             /\ triggers'[p] \in [at : {"none", "sleeping", "returned"}, behind : Nat]
  <2>1. triggers[p] \in [at : {"none", "sleeping", "returned"}, behind : Nat]
    BY <1>2 DEF TypeOK
  <2>2. triggers'[p] = IF triggers[p].behind = 0 THEN triggers[p]
                       ELSE [triggers[p] EXCEPT !.behind = @ - 1]
    BY DEF Deliver
  <2>3. CASE triggers[p].behind = 0
    BY <2>1, <2>2, <2>3
  <2>4. CASE triggers[p].behind # 0
    <3>1. triggers[p].behind - 1 \in Nat
      BY <2>1, <2>4
    <3>2. QED
      BY <2>1, <2>2, <2>4, <3>1
  <2>5. QED
    BY <2>3, <2>4
<1>8. TypeOK'
  <2>1. triggers' \in [Partition -> [at : {"none", "sleeping", "returned"}, behind : Nat]]
    BY <1>7 DEF Deliver
  <2>2. views' \in Seq(Config) /\ Len(views') \in 1..MaxLag + 1
    BY <1>4 DEF IsViews
  <2>3. QED
    BY <1>1, <1>2, <2>1, <2>2 DEF TypeOK
<1>9. ViewsGrow(views')
  <2>1. \A i \in Positions(views') : i \in Nat
    BY DEF Positions
  <2>2. ASSUME NEW v \in Variant, NEW i \in Positions(views'), NEW j \in Positions(views'), i <= j
        PROVE  /\ views'[i].readVersion[v] <= views'[j].readVersion[v]
               /\ views'[i].onboarded[v] => views'[j].onboarded[v]
    <3>1. i + 1 <= j + 1
      BY <2>1, <2>2
    <3>2. QED
      BY <1>2, <1>4, <3>1 DEF ViewsGrow
  <2>3. ASSUME NEW v \in Variant, NEW i \in Positions(views')
        PROVE  /\ views'[i].readVersion[v] >= 1
               /\ ~views'[i].onboarded[v] => views'[i].readVersion[v] = 1
    BY <1>2, <1>4 DEF ViewsGrow
  <2>4. QED
    BY <2>2, <2>3 DEF ViewsGrow
<1>10. WellFormed(topic') /\ StartsInv'
  BY <1>1 DEF IInv, StartsInv
<1>11. CallInv'
  BY <1>1, <1>5, <1>7 DEF IInv, CallInv
<1>12. ASSUME NEW p \in Partition, triggers'[p].at = "sleeping",
              NEW i \in triggers'[p].behind + 1..Len(views')
       PROVE  i + 1 \in triggers[p].behind + 1..Len(views) /\ views'[i] = views[i + 1]
  <2>1. i \in Positions(views') /\ i + 1 \in Nat /\ triggers[p].behind + 1 <= i + 1
        /\ i + 1 <= Len(views)
    BY <1>2, <1>3, <1>7 DEF Positions
  <2>2. QED
    BY <1>2, <1>4, <1>7, <2>1
<1>13. EofInv'
  <2>1. EofInv
    BY DEF IInv
  <2>2. ASSUME NEW p \in Partition, triggers'[p].at = "sleeping"
        PROVE  /\ p \in eofs /\ triggers'[p].behind < Len(views')
               /\ \A i \in triggers'[p].behind + 1..Len(views') :
                    \A q \in Partition : views'[i].partition[q] = 1 => q \in eofs
    <3>1. /\ p \in eofs /\ triggers[p].behind < Len(views)
          /\ \A i \in triggers[p].behind + 1..Len(views) :
               \A q \in Partition : views[i].partition[q] = 1 => q \in eofs
      BY <1>7, <2>1, <2>2 DEF EofInv
    <3>2. triggers'[p].behind < Len(views')
      BY <1>1, <1>2, <1>3, <1>7, <3>1
    <3>3. QED
      BY <1>12, <2>2, <3>1, <3>2
  <2>3. QED
    BY <1>1, <1>5, <2>1, <2>2 DEF EofInv
<1>14. ServingCollectionExists'
  BY <1>1, <1>5 DEF IInv, ServingCollectionExists
<1>15. DeltaInv'
  <2>1. ASSUME modelType = "DELTA", NEW i \in Positions(views'), NEW v \in Variant
        PROVE  views'[i].readVersion[v] = 1
    <3>1. i + 1 \in Positions(views) /\ views'[i] = views[i + 1]
      BY <1>4
    <3>2. QED
      BY <2>1, <3>1 DEF IInv, DeltaInv
  <2>2. QED
    BY <1>1, <2>1 DEF IInv, DeltaInv
<1>16. ASSUME modelType = "RESET"
       PROVE  /\ TopicInv' /\ CollectionsInv'
              /\ \A v \in Variant : /\ ServedInv(v)' /\ ChosenInv(v)' /\ JobInv(v)'
                                    /\ FirstInv(v)' /\ WindowInv(v)'
  <2>1. /\ TopicInv /\ CollectionsInv
        /\ \A v \in Variant : /\ ServedInv(v) /\ ChosenInv(v) /\ JobInv(v)
                              /\ FirstInv(v) /\ WindowInv(v)
    BY <1>16 DEF IInv, ResetInv
  <2>2. TopicInv'
    <3>1. ASSUME NEW i \in Positions(topic)
          PROVE  /\ topic[i].version <= Top(Local', topic[i].variant)
                 /\ topic[i].version > Local'.readVersion[topic[i].variant] =>
                      <<topic[i].variant, topic[i].version>> \in collections
      <4>1. topic[i].variant \in Variant /\ topic[i].version \in Nat
        BY <1>2, RankIs DEF TypeOK, Positions
      <4>2. /\ topic[i].version <= Top(Local, topic[i].variant)
            /\ topic[i].version > Local.readVersion[topic[i].variant] =>
                 <<topic[i].variant, topic[i].version>> \in collections
        BY <2>1 DEF TopicInv
      <4>3. QED
        BY <1>6, <4>1, <4>2
    <3>2. QED
      BY <1>1, <1>5, <2>1, <3>1 DEF TopicInv
  <2>3. CollectionsInv'
    <3>1. ASSUME NEW e \in collections
          PROVE  e[2] <= Top(Local', e[1])
      <4>1. e[1] \in Variant /\ e[2] \in Nat
        BY <1>2 DEF TypeOK
      <4>2. e[2] <= Top(Local, e[1])
        BY <2>1 DEF CollectionsInv
      <4>3. QED
        BY <1>6, <4>1, <4>2
    <3>2. QED
      BY <1>1, <3>1 DEF CollectionsInv
  <2>4. ASSUME NEW v \in Variant
        PROVE  /\ ServedInv(v)' /\ ChosenInv(v)' /\ JobInv(v)' /\ FirstInv(v)' /\ WindowInv(v)'
    <3>1. /\ call.versions[v] \in Nat /\ job.versions[v] \in Nat /\ Stored.readVersion[v] \in Nat
      BY <1>2, LocalAndStored DEF TypeOK
    <3>2. ServedInv(v)'
      BY <1>1, <1>5, <1>6, <2>1, <3>1 DEF ServedInv
    <3>3. ChosenInv(v)'
      BY <1>1, <1>5, <1>6, <2>1, <3>1 DEF ChosenInv
    <3>4. JobInv(v)'
      BY <1>1, <1>5, <1>6, <2>1, <3>1, SMTT(30) DEF JobInv
    <3>5. Unindexed(v)' <=> Unindexed(v)
      BY <1>1, <1>5 DEF Unindexed
    <3>6. FirstInv(v)'
      BY <1>1, <1>4, <2>1, <3>5 DEF FirstInv
    <3>7. WindowInv(v)'
      <4>1. SUFFICES ASSUME Unindexed(v), job.versions[v] = 1, NEW p \in Partition,
                            triggers'[p].at = "sleeping",
                            NEW i \in triggers'[p].behind + 1..Len(views'),
                            NEW j \in triggers'[p].behind + 1..Len(views'),
                            i <= j, views'[i].state[v] = "DATA_INGESTION_STARTED"
                     PROVE  views'[j].state[v] # "COMPLETED"
        BY <1>1, <3>5, ZenonT(30) DEF WindowInv
      <4>2. i + 1 <= j + 1
        BY <1>7, <4>1
      <4>3. /\ i + 1 \in triggers[p].behind + 1..Len(views) /\ views'[i] = views[i + 1]
            /\ j + 1 \in triggers[p].behind + 1..Len(views) /\ views'[j] = views[j + 1]
        BY <1>12, <4>1
      <4>4. PICK a \in triggers[p].behind + 1..Len(views), b \in triggers[p].behind + 1..Len(views) :
              a <= b /\ views'[i] = views[a] /\ views'[j] = views[b]
        BY <4>2, <4>3
      <4>5. WindowInv(v) /\ triggers[p].at = "sleeping"
        BY <1>7, <2>1, <4>1
      <4>6. views[b].state[v] # "COMPLETED"
        BY <4>1, <4>4, <4>5 DEF WindowInv
      <4>7. QED
        BY <4>4, <4>6
    <3>8. QED
      BY <3>2, <3>3, <3>4, <3>6, <3>7
  <2>5. QED
    BY <2>2, <2>3, <2>4
<1>17. ResetInv'
  BY <1>1, <1>16 DEF ResetInv
<1>18. QED
  BY <1>8, <1>9, <1>10, <1>11, <1>13, <1>14, <1>15, <1>17 DEF IInv

-----------------------------------------------------------------------------
(* The steps within the frame. *)

Calls == [at : {"idle", "reset", "version", "variants"}, todo : SUBSET Variant,
          versions : [Variant -> Nat], emb : Nat]

\* The fields of a configuration of which one is replaced.
LEMMA EditIs ==
  ASSUME NEW d \in Config
  PROVE  /\ \A f \in [Partition -> 0..1] :
              LET c == [d EXCEPT !.partition = f]
              IN  /\ c \in Config /\ c.partition = f /\ c.state = d.state
                  /\ c.onboarded = d.onboarded /\ c.readVersion = d.readVersion
         /\ \A n \in Nat :
              LET c == [d EXCEPT !.emb = n]
              IN  /\ c \in Config /\ c.partition = d.partition /\ c.state = d.state
                  /\ c.onboarded = d.onboarded /\ c.readVersion = d.readVersion
  BY DEF Config

LEMMA PutsStored == ASSUME IInv, views' = views PROVE Puts(views, views', Stored)
  BY LocalAndStored DEF Puts

LEMMA StoredPartitions ==
  ASSUME IInv, NEW q \in Partition, Stored.partition[q] = 1
  PROVE  q \in eofs
  BY DEF IInv, EofInv

\* Nothing but a counter changes, or more is indexed.
LEMMA StutterKeeps ==
  ASSUME IInv, UNCHANGED <<modelType, views, collections, call, job, trigVars, topic>>,
         indexed \subseteq indexed', indexed' \subseteq collections
  PROVE  IInv'
<1>1. Frame(Stored)
  <2>1. Puts(views, views', Stored)
    BY PutsStored
  <2>2. eofs \subseteq Partition /\ \A v \in Variant : call.versions[v] = call.versions[v]
    BY DEF IInv, TypeOK
  <2>3. QED
    BY <2>1, <2>2, StoredPartitions DEF Frame, Sleepers, trigVars
<1>2. TypeOK'
  BY DEF IInv, TypeOK, trigVars
<1>3. CallInv'
  BY DEF IInv, CallInv, Stored, trigVars
<1>4. QED
  BY <1>1, <1>2, <1>3, FrameKeeps

LEMMA IndexKeeps == ASSUME IInv, Index PROVE IInv'
<1>1. indexed \subseteq collections
  BY DEF IInv, TypeOK
<1>2. QED
  BY <1>1, StutterKeeps DEF Index, callVars, topicVars

\* ProcessModel is accepted when all variants are COMPLETED: then no message of a
\* version 1 that is not indexed is under way.
LEMMA ProcessModelKeeps == ASSUME IInv, ProcessModel PROVE IInv'
<1>1. /\ call.at = "idle" /\ starting = {}
      /\ \A p \in Partition : triggers[p].at \in {"none", "returned"}
      /\ modelType' = modelType /\ views' = views /\ job' = job /\ topic' = topic
      /\ collections' = collections /\ indexed' = indexed /\ eofs' = eofs
      /\ triggers' = triggers /\ starting' = starting /\ losses' = losses
      /\ call' = IF \A v \in Variant : Local.state[v] = "COMPLETED"
                   THEN [call EXCEPT !.at = "reset"] ELSE call
  BY DEF ProcessModel, indexVars, trigVars, topicVars
<1>2. CASE ~\A v \in Variant : Local.state[v] = "COMPLETED"
  <2>1. indexed \subseteq collections
    BY DEF IInv, TypeOK
  <2>2. QED
    BY <1>1, <1>2, <2>1, StutterKeeps DEF trigVars
<1>3. CASE \A v \in Variant : Local.state[v] = "COMPLETED"
  <2>1. /\ call' = [call EXCEPT !.at = "reset"]
        /\ call \in Calls
    BY <1>1, <1>3 DEF IInv, TypeOK, Calls
  <2>2. call'.versions = call.versions /\ call'.at = "reset"
    BY <2>1 DEF Calls
  <2>3. TypeOK'
    BY <1>1, <2>1 DEF IInv, TypeOK, Calls
  <2>4. /\ Local' = Local /\ Stored' = Stored
    BY <1>1 DEF Local, Stored
  <2>5. ViewsGrow(views') /\ WellFormed(topic') /\ StartsInv' /\ EofInv'
        /\ ServingCollectionExists' /\ DeltaInv'
    BY <1>1, <2>4 DEF IInv, StartsInv, EofInv, ServingCollectionExists, DeltaInv
  <2>6. CallInv'
    BY <1>1, <2>2, <2>4 DEF IInv, CallInv
  <2>7. ASSUME modelType = "RESET"
        PROVE  /\ TopicInv' /\ CollectionsInv'
               /\ \A v \in Variant : /\ ServedInv(v)' /\ ChosenInv(v)' /\ JobInv(v)'
                                     /\ FirstInv(v)' /\ WindowInv(v)'
    <3>1. /\ TopicInv /\ CollectionsInv
          /\ \A v \in Variant : /\ ServedInv(v) /\ ChosenInv(v) /\ JobInv(v)
                                /\ FirstInv(v) /\ WindowInv(v)
      BY <2>7 DEF IInv, ResetInv
    <3>2. TopicInv' /\ CollectionsInv'
      BY <1>1, <2>4, <3>1 DEF TopicInv, CollectionsInv
    <3>3. ASSUME NEW v \in Variant
          PROVE  ServedInv(v)' /\ ChosenInv(v)' /\ JobInv(v)' /\ FirstInv(v)' /\ WindowInv(v)'
      <4>1. ServedInv(v)' /\ JobInv(v)'
        BY <1>1, <2>4, <3>1 DEF ServedInv, JobInv
      <4>2. ChosenInv(v)'
        BY <1>1, <2>2, <2>4, <3>1 DEF ChosenInv
      <4>3. Unindexed(v)' <=> Unindexed(v)
        BY <1>1, <2>4 DEF Unindexed
      <4>4. FirstInv(v)'
        <5>1. 1 \in Positions(views) /\ views[1].state[v] = "COMPLETED"
          BY <1>3, LocalAndStored, ViewsAre
        <5>2. QED
          BY <1>1, <3>1, <4>3, <5>1 DEF FirstInv
      <4>5. WindowInv(v)'
        BY <1>1, <3>1, <4>3 DEF WindowInv
      <4>6. QED
        BY <4>1, <4>2, <4>4, <4>5
    <3>4. QED
      BY <3>2, <3>3
  <2>8. ResetInv'
    BY <1>1, <2>7 DEF ResetInv
  <2>9. QED
    BY <2>3, <2>5, <2>6, <2>8 DEF IInv
<1>4. QED
  BY <1>2, <1>3

\* A step of the call that changes no version.
LEMMA CallFrame ==
  ASSUME IInv, call.at # "idle", NEW c, Puts(views, views', c),
         UNCHANGED <<modelType, indexVars, job, trigVars, topic>>,
         call' \in Calls,
         call'.versions = call.versions \/ call' = Idle,
         call'.at # "variants" => call'.versions = NoJob.versions,
         \A v \in Variant : /\ c.readVersion[v] = Stored.readVersion[v]
                            /\ c.onboarded[v] = Stored.onboarded[v],
         \A q \in Partition : c.partition[q] = 1 => Stored.partition[q] = 1,
         call'.at \in {"version", "variants"} => \A q \in Partition : c.partition[q] = 0
  PROVE  IInv'
<1>1. /\ modelType' = modelType /\ collections' = collections /\ indexed' = indexed
      /\ job' = job /\ eofs' = eofs /\ triggers' = triggers /\ starting' = starting
      /\ losses' = losses /\ topic' = topic
  BY DEF indexVars, trigVars
<1>2. Stored' = c /\ IsViews(views')
  BY AfterPuts
<1>3. \A v \in Variant : call'.versions[v] \in {0, call.versions[v]}
  BY DEF Idle, NoJob
<1>4. \A q \in Partition : c.partition[q] = 1 => q \in eofs
  BY StoredPartitions
<1>5. Frame(c)
  BY <1>1, <1>3, <1>4 DEF Frame, Sleepers, IInv, TypeOK
<1>6. TypeOK'
  BY <1>1, <1>2 DEF IInv, TypeOK, IsViews, Calls
<1>7. CallInv'
  BY <1>1, <1>2 DEF IInv, CallInv
<1>8. QED
  BY <1>5, <1>6, <1>7, FrameKeeps

LEMMA CallIs ==
  ASSUME IInv
  PROVE  /\ call \in Calls /\ Idle \in Calls
         /\ Idle.at = "idle" /\ Idle.versions = NoJob.versions
         /\ NoJob.versions \in [Variant -> Nat] /\ \A v \in Variant : NoJob.versions[v] = 0
         /\ call.at # "variants" => call.versions = NoJob.versions
         /\ call.at \in {"version", "variants"} => \A q \in Partition : Stored.partition[q] = 0
  BY DEF IInv, TypeOK, CallInv, Idle, NoJob, Calls

LEMMA ResetAllPartitionsKeeps == ASSUME IInv, ResetAllPartitions PROVE IInv'
<1>1. /\ call.at = "reset"
      /\ UNCHANGED <<modelType, indexVars, job, trigVars, topic>>
  BY DEF ResetAllPartitions, topicVars
<1>2. ASSUME NEW p \in Partition, Set([Stored EXCEPT !.partition[p] = 0]), UNCHANGED call
      PROVE  IInv'
  <2>1. PICK cleared \in [Partition -> 0..1] : cleared = [Stored.partition EXCEPT ![p] = 0]
    <3>1. Stored.partition \in [Partition -> 0..1]
      BY LocalAndStored, ConfigIs
    <3>2. [Stored.partition EXCEPT ![p] = 0] \in [Partition -> 0..1]
      BY <3>1
    <3>3. QED
      BY <3>2
  <2>2. PICK c : c = [Stored EXCEPT !.partition = cleared]
    OBVIOUS
  <2>3. [Stored EXCEPT !.partition[p] = 0] = [Stored EXCEPT !.partition = cleared]
    BY <2>1
  <2>4. /\ c \in Config /\ c.partition = cleared /\ c.onboarded = Stored.onboarded
        /\ c.readVersion = Stored.readVersion
    BY <2>2, EditIs, LocalAndStored
  <2>5. Puts(views, views', c)
    BY <1>2, <2>2, <2>3, <2>4 DEF Set, Puts
  <2>6. /\ call'.versions = call.versions /\ call'.at = "reset" /\ call' \in Calls
    BY <1>1, <1>2, CallIs
  <2>7. \A q \in Partition : c.partition[q] = 1 => Stored.partition[q] = 1
    <3>1. Stored.partition \in [Partition -> 0..1]
      BY LocalAndStored, ConfigIs
    <3>2. QED
      BY <2>1, <2>4, <3>1
  <2>8. QED
    BY <1>1, <2>4, <2>5, <2>6, <2>7, CallFrame, CallIs
<1>3. ASSUME \A p \in Partition : Stored.partition[p] = 0,
             call' = [call EXCEPT !.at = "version"], UNCHANGED views
      PROVE  IInv'
  <2>1. Puts(views, views', Stored) /\ Stored \in Config
    BY <1>3, PutsStored, LocalAndStored
  <2>2. /\ call'.versions = call.versions /\ call'.at = "version" /\ call' \in Calls
    BY <1>1, <1>3, CallIs DEF Calls
  <2>3. QED
    BY <1>1, <1>3, <2>1, <2>2, CallFrame, CallIs
<1>4. QED
  BY <1>2, <1>3 DEF ResetAllPartitions

LEMMA PrepareKeeps == ASSUME IInv, PrepareEmbeddingStoreVersion PROVE IInv'
<1>1. PICK emb : /\ emb = IF modelType = "RESET" THEN Local.emb + 1 ELSE Local.emb
                 /\ IF modelType = "RESET" THEN Set([Stored EXCEPT !.emb = emb]) ELSE UNCHANGED views
                 /\ call' = [call EXCEPT !.at = "variants", !.todo = Variant, !.emb = emb]
  BY DEF PrepareEmbeddingStoreVersion
<1>2. /\ call.at = "version"
      /\ UNCHANGED <<modelType, indexVars, job, trigVars, topic>>
  BY DEF PrepareEmbeddingStoreVersion, topicVars
<1>3. emb \in Nat
  BY <1>1, LocalAndStored, ConfigIs
<1>4. \E c \in Config : /\ Puts(views, views', c) /\ c.partition = Stored.partition
                        /\ c.onboarded = Stored.onboarded /\ c.readVersion = Stored.readVersion
  <2>1. CASE modelType = "RESET"
    <3>1. PICK c : c = [Stored EXCEPT !.emb = emb]
      OBVIOUS
    <3>2. /\ c \in Config /\ c.partition = Stored.partition
          /\ c.onboarded = Stored.onboarded /\ c.readVersion = Stored.readVersion
      BY <1>3, <3>1, EditIs, LocalAndStored
    <3>3. Puts(views, views', c)
      BY <1>1, <2>1, <3>1, <3>2 DEF Set, Puts
    <3>4. QED
      BY <3>2, <3>3
  <2>2. CASE modelType # "RESET"
    BY <1>1, <2>2, PutsStored, LocalAndStored
  <2>3. QED
    BY <2>1, <2>2
<1>5. PICK c \in Config : /\ Puts(views, views', c) /\ c.partition = Stored.partition
                          /\ c.onboarded = Stored.onboarded /\ c.readVersion = Stored.readVersion
  BY <1>4
<1>6. /\ call'.versions = call.versions /\ call'.at = "variants" /\ call' \in Calls
  BY <1>1, <1>3, CallIs DEF Calls
<1>7. \A q \in Partition : c.partition[q] = 0
  BY <1>2, <1>5, CallIs
<1>8. QED
  BY <1>2, <1>5, <1>6, <1>7, CallFrame, CallIs

LEMMA CallFailsKeeps == ASSUME IInv, CallFails PROVE IInv'
<1>1. /\ call.at # "idle" /\ call' = Idle /\ views' = views
      /\ UNCHANGED <<modelType, indexVars, job, trigVars, topic>>
  BY DEF CallFails, topicVars
<1>2. Puts(views, views', Stored)
  BY <1>1, PutsStored
<1>3. call'.versions = NoJob.versions /\ call'.at = "idle"
  BY <1>1, CallIs
<1>4. QED
  BY <1>1, <1>2, <1>3, CallFrame, CallIs

LEMMA LoseTriggerKeeps == ASSUME IInv, NEW p \in Partition, LoseTrigger(p) PROVE IInv'
<1>1. /\ call.at = "idle" /\ eofs' = eofs \cup {p}
      /\ triggers' = [triggers EXCEPT ![p].at = "returned"]
      /\ modelType' = modelType /\ views' = views /\ topic' = topic /\ starting' = starting
      /\ collections' = collections /\ indexed' = indexed /\ job' = job /\ call' = call
  BY DEF LoseTrigger, indexVars, callVars, topicVars
<1>2. triggers \in [Partition -> [at : {"none", "sleeping", "returned"}, behind : Nat]]
  BY DEF IInv, TypeOK
<1>3. /\ triggers' \in [Partition -> [at : {"none", "sleeping", "returned"}, behind : Nat]]
      /\ \A q \in Partition : triggers'[q].at = "sleeping" => triggers'[q] = triggers[q]
  BY <1>1, <1>2
<1>4. Frame(Stored)
  <2>1. Puts(views, views', Stored)
    BY <1>1, PutsStored
  <2>2. \A v \in Variant : call'.versions[v] \in {0, call.versions[v]}
    BY <1>1
  <2>3. eofs \subseteq eofs' /\ eofs' \subseteq Partition
    BY <1>1 DEF IInv, TypeOK
  <2>4. QED
    BY <1>1, <1>3, <2>1, <2>2, <2>3, StoredPartitions DEF Frame, Sleepers
<1>5. TypeOK'
  <2>1. eofs' \subseteq Partition
    BY <1>1 DEF IInv, TypeOK
  <2>2. QED
    BY <1>1, <1>3, <2>1 DEF IInv, TypeOK
<1>6. CallInv'
  BY <1>1, <1>3 DEF IInv, CallInv, Stored
<1>7. QED
  BY <1>4, <1>5, <1>6, FrameKeeps

\* The partition that is recorded as done has reached its EOF.
LEMMA ReachEofKeeps == ASSUME IInv, NEW p \in Partition, ReachEof(p) PROVE IInv'
<1>1. /\ call.at = "idle" /\ eofs' = eofs \cup {p}
      /\ Set([Stored EXCEPT !.partition[p] = 1])
      /\ triggers' = [triggers EXCEPT ![p] = [at |-> "sleeping", behind |-> Len(views)]]
      /\ modelType' = modelType /\ topic' = topic /\ starting' = starting
      /\ collections' = collections /\ indexed' = indexed /\ job' = job /\ call' = call
  BY DEF ReachEof, indexVars, callVars, topicVars
<1>2. /\ triggers \in [Partition -> [at : {"none", "sleeping", "returned"}, behind : Nat]]
      /\ Stored \in Config /\ Stored.partition \in [Partition -> 0..1]
  BY LocalAndStored, ConfigIs DEF IInv, TypeOK
<1>3. PICK f \in [Partition -> 0..1] : f = [Stored.partition EXCEPT ![p] = 1]
  <2>1. [Stored.partition EXCEPT ![p] = 1] \in [Partition -> 0..1]
    BY <1>2
  <2>2. QED
    BY <2>1
<1>4. PICK c : c = [Stored EXCEPT !.partition = f]
  OBVIOUS
<1>5. /\ c \in Config /\ c.partition = f /\ c.onboarded = Stored.onboarded
      /\ c.readVersion = Stored.readVersion /\ c.state = Stored.state
  BY <1>2, <1>4, EditIs
<1>6. c = [Stored EXCEPT !.partition[p] = 1]
  BY <1>3, <1>4
<1>7. Len(views) <= MaxLag /\ views' = Append(views, c)
  BY <1>1, <1>6 DEF Set
<1>8. Puts(views, views', c)
  BY <1>5, <1>7 DEF Puts
<1>9. Len(views') = Len(views) + 1 /\ Len(views) \in Nat
  <2>1. views \in Seq(Config)
    BY DEF IInv, TypeOK
  <2>2. QED
    BY <1>5, <1>7, <2>1
<1>10. /\ triggers' \in [Partition -> [at : {"none", "sleeping", "returned"}, behind : Nat]]
       /\ \A q \in Partition \ {p} : triggers'[q] = triggers[q]
       /\ triggers'[p].behind = Len(views)
  BY <1>1, <1>2, <1>9
<1>11. /\ eofs \subseteq eofs' /\ eofs' \subseteq Partition /\ p \in eofs'
       /\ \A q \in Partition : c.partition[q] = 1 => q \in eofs'
  <2>1. \A q \in Partition : c.partition[q] = 1 => q = p \/ Stored.partition[q] = 1
    BY <1>2, <1>3, <1>5
  <2>2. eofs \subseteq Partition
    BY DEF IInv, TypeOK
  <2>3. QED
    BY <1>1, <2>1, <2>2, StoredPartitions
<1>12. Frame(c)
  <2>1. \A q \in Partition :
          \/ triggers'[q] = triggers[q]
          \/ /\ q \in eofs' /\ triggers'[q].behind = Len(views)
             /\ Len(views') = Len(views) + 1
    BY <1>9, <1>10, <1>11
  <2>2. \A v \in Variant : call'.versions[v] \in {0, call.versions[v]}
    BY <1>1
  <2>3. QED
    BY <1>1, <1>5, <1>8, <1>11, <2>1, <2>2 DEF Frame, Sleepers
<1>13. TypeOK'
  <2>1. IsViews(views')
    BY <1>8, AfterPuts
  <2>2. QED
    BY <1>1, <1>10, <1>11, <2>1 DEF IInv, TypeOK, IsViews
<1>14. CallInv'
  BY <1>1, CallIs DEF IInv, CallInv
<1>15. QED
  BY <1>12, <1>13, <1>14, FrameKeeps

\* A lost start writes at most the state of a variant whose ingestion is done.
LEMMA LoseStartKeeps == ASSUME IInv, NEW s \in starting, LoseStart(s) PROVE IInv'
<1>1. /\ starting' = starting \ {s}
      /\ modelType' = modelType /\ topic' = topic /\ eofs' = eofs /\ triggers' = triggers
      /\ collections' = collections /\ indexed' = indexed /\ job' = job /\ call' = call
  BY DEF LoseStart, indexVars, callVars, topicVars
<1>2. PICK n \in 0..Len(Writes(s[2])) : Write(s[2], n)
  BY DEF LoseStart
<1>3. PICK m \in Message : m = s[2]
  BY DEF IInv, TypeOK
<1>4. m.state = "DATA_INGESTION_STARTED" /\ NextState(m) = "DATA_INGESTION_COMPLETED"
  BY <1>3, NextTable DEF IInv, StartsInv
<1>5. m.state # Ended /\ m.state # "INDEXING_COMPLETED_WITH_RESET"
  BY <1>4, EndedIsNoState DEF State
<1>6. PICK c \in Config : Puts(views, views', c) /\ Wrote(Stored, c, m)
  BY <1>2, <1>3, <1>5, WriteIs, LocalAndStored
<1>7. /\ c.partition = Stored.partition
      /\ \A v \in Variant : /\ c.readVersion[v] = Stored.readVersion[v]
                            /\ c.onboarded[v] = Stored.onboarded[v]
                            /\ c.state[v] = "COMPLETED" => Stored.state[v] = "COMPLETED"
  BY <1>4, <1>5, <1>6 DEF Wrote
<1>8. Frame(c)
  <2>1. \A v \in Variant : call'.versions[v] \in {0, call.versions[v]}
    BY <1>1
  <2>2. eofs \subseteq Partition
    BY DEF IInv, TypeOK
  <2>3. QED
    BY <1>1, <1>6, <1>7, <2>1, <2>2, StoredPartitions DEF Frame, Sleepers
<1>9. TypeOK'
  <2>1. IsViews(views')
    BY <1>6, AfterPuts
  <2>2. QED
    BY <1>1, <2>1 DEF IInv, TypeOK, IsViews
<1>10. CallInv'
  <2>1. Stored' = c
    BY <1>6, AfterPuts
  <2>2. QED
    BY <1>1, <1>7, <2>1 DEF IInv, CallInv
<1>11. QED
  BY <1>8, <1>9, <1>10, FrameKeeps

-----------------------------------------------------------------------------
(* processVariant. *)

\* What a step of processVariant does: it leaves the variant with its read version,
\* onboards it only along with its collection, and answers with the version it chose.
VariantStep(v, c) ==
  /\ call.at = "variants" /\ ~Conflict(v)
  /\ Puts(views, views', c) /\ c.partition = Stored.partition
  /\ \A u \in Variant : c.readVersion[u] = Stored.readVersion[u]
  /\ \A u \in Variant \ {v} : c.onboarded[u] = Stored.onboarded[u]
  /\ c.onboarded[v] # Stored.onboarded[v] =>
       c.onboarded[v] /\ Onboarding(v) /\ collections' = NewCollections(v)
  /\ collections' \in {collections, NewCollections(v)}
  /\ indexed' \in {indexed, indexed \ {<<v, WriteVersion(v)>>}}
  /\ call' \in Calls /\ call'.at = "variants"
  /\ \A u \in Variant \ {v} : call'.versions[u] = call.versions[u]
  /\ \/ call'.versions[v] = 0
     \/ call'.versions[v] = WriteVersion(v) /\ collections' = NewCollections(v)
  /\ modelType' = modelType /\ job' = job /\ topic' = topic
  /\ eofs' = eofs /\ triggers' = triggers /\ starting' = starting

\* A RESET job writes the newest version a variant can have, never one it has.
LEMMA WriteVersionIs ==
  ASSUME IInv, NEW v \in Variant
  PROVE  /\ WriteVersion(v) \in Nat
         /\ modelType = "RESET" => Creates(v) /\ WriteVersion(v) = Top(Local, v)
         /\ modelType = "RESET" /\ WriteVersion(v) > 1 => WriteVersion(v) > Local.readVersion[v]
         /\ Onboarding(v) => Creates(v) /\ WriteVersion(v) = 1
  BY LocalAndStored DEF WriteVersion, Creates, Onboarding, Top

LEMMA VariantKeepsReset ==
  ASSUME IInv, NEW v \in Variant, NEW c, VariantStep(v, c), modelType = "RESET"
  PROVE  ResetInv'
<1> DEFINE k == WriteVersion(v)
<1>1. /\ Local' = Local /\ Stored' = c /\ modelType' = modelType /\ topic' = topic
      /\ job' = job /\ starting' = starting /\ eofs' = eofs /\ triggers' = triggers
      /\ call.at = "variants" /\ call'.at = "variants"
      /\ \A u \in Variant : c.readVersion[u] = Stored.readVersion[u]
  BY AfterPuts DEF VariantStep
<1>2. /\ TopicInv /\ CollectionsInv
      /\ \A u \in Variant : ServedInv(u) /\ ChosenInv(u) /\ JobInv(u) /\ FirstInv(u) /\ WindowInv(u)
  BY DEF IInv, ResetInv
<1>3. /\ k \in Nat /\ k = Top(Local, v) /\ (k > 1 => k > Local.readVersion[v])
      /\ NewCollections(v) = collections \cup {<<v, k>>} /\ <<v, k>> \notin collections
      /\ indexed \subseteq collections /\ collections \subseteq Variant \X Nat
      /\ topic \in Seq(Message)
  BY WriteVersionIs DEF NewCollections, Conflict, VariantStep, IInv, TypeOK
<1>4. /\ indexed' = indexed /\ collections \subseteq collections'
      /\ collections' \subseteq collections \cup {<<v, k>>}
  BY <1>3 DEF VariantStep
<1>5. \A i \in Positions(topic) : topic[i].variant \in Variant /\ topic[i].version \in Nat
  BY <1>3, RankIs DEF Positions
<1>6. TopicInv'
  <2>1. Past(topic, c.readVersion, indexed)
    <3>1. Past(topic, Stored.readVersion, indexed)
      BY <1>2 DEF TopicInv
    <3>2. QED
      BY <1>1, <1>5, <3>1 DEF Past
  <2>2. QED
    BY <1>1, <1>2, <1>4, <2>1 DEF TopicInv
<1>7. CollectionsInv'
  <2>1. \A e \in collections' : e[2] <= Top(Local, e[1])
    <3>1. <<v, k>>[2] <= Top(Local, <<v, k>>[1])
      BY <1>3
    <3>2. QED
      BY <1>2, <1>4, <3>1 DEF CollectionsInv
  <2>2. QED
    BY <1>1, <2>1 DEF CollectionsInv
<1>8. ASSUME NEW u \in Variant
      PROVE  ServedInv(u)' /\ ChosenInv(u)' /\ JobInv(u)' /\ FirstInv(u)' /\ WindowInv(u)'
  <2>1. ServedInv(u)'
    BY <1>1, <1>2, <1>4 DEF ServedInv
  <2>2. ChosenInv(u)'
    <3>1. CASE call'.versions[u] = call.versions[u]
      BY <1>1, <1>2, <1>4, <3>1 DEF ChosenInv
    <3>2. CASE u = v /\ call'.versions[v] = 0
      BY <3>2 DEF ChosenInv
    <3>3. CASE u = v /\ call'.versions[v] = k /\ collections' = NewCollections(v)
      <4>1. Stored.readVersion[v] \in Nat
        BY LocalAndStored
      <4>2. UpTo(topic, v, k) /\ Stored.readVersion[v] <= k
        BY <1>2, <1>3 DEF TopicInv, ServedInv, UpTo
      <4>3. k > 1 => Stored.readVersion[v] # k
        BY <1>2, <1>3 DEF ServedInv
      <4>4. k > 1 => ~Carries(topic, v, k)
        <5>1. SUFFICES ASSUME k > 1, NEW i \in Positions(topic),
                              topic[i].variant = v, topic[i].version = k
                       PROVE  FALSE
          BY DEF Carries
        <5>2. <<v, k>> \in collections
          BY <1>2, <1>3, <5>1 DEF TopicInv
        <5>3. QED
          BY <1>3, <5>2
      <4>5. <<v, k>> \in collections' /\ k <= Top(Local, v)
        BY <1>3, <3>3
      <4>6. QED
        BY <1>1, <3>3, <4>2, <4>3, <4>4, <4>5 DEF ChosenInv
    <3>4. QED
      BY <3>1, <3>2, <3>3 DEF VariantStep
  <2>3. JobInv(u)'
    BY <1>1, <1>2, <1>4 DEF JobInv
  <2>4. Unindexed(u)' <=> Unindexed(u)
    BY <1>1, <1>4 DEF Unindexed
  <2>5. FirstInv(u)'
    BY <1>1, <1>2, <2>4 DEF FirstInv
  <2>6. WindowInv(u)'
    <3>1. \A p \in Partition : triggers[p].at # "sleeping"
      BY <1>1 DEF IInv, CallInv
    <3>2. QED
      BY <1>1, <3>1 DEF WindowInv
  <2>7. QED
    BY <2>1, <2>2, <2>3, <2>5, <2>6
<1>9. QED
  BY <1>6, <1>7, <1>8 DEF ResetInv

LEMMA VariantKeeps ==
  ASSUME IInv, NEW v \in Variant, NEW c, VariantStep(v, c)
  PROVE  IInv'
<1>1. /\ Stored' = c /\ c \in Config /\ IsViews(views') /\ modelType' = modelType
      /\ topic' = topic /\ job' = job /\ starting' = starting /\ eofs' = eofs
      /\ triggers' = triggers /\ call.at = "variants" /\ call'.at = "variants"
      /\ \A u \in Variant : c.readVersion[u] = Stored.readVersion[u]
      /\ c.partition = Stored.partition /\ call' \in Calls
  BY AfterPuts DEF VariantStep
<1>2. /\ \A i \in Positions(views) : i \in Positions(views') /\ views'[i] = views[i]
      /\ \A i \in Positions(views') \ Positions(views) : i = Len(views') /\ views'[i] = c
      /\ Len(views) \in Positions(views) /\ Stored = views[Len(views)]
  BY AfterPuts DEF VariantStep
<1>3. /\ collections \subseteq collections' /\ collections' \subseteq Variant \X Nat
      /\ indexed' \subseteq collections'
  <2>1. /\ collections \subseteq NewCollections(v) /\ NewCollections(v) \subseteq Variant \X Nat
        /\ collections \subseteq Variant \X Nat /\ indexed \subseteq collections
    BY WriteVersionIs, SMTT(30) DEF NewCollections, IInv, TypeOK
  <2>2. QED
    BY <2>1 DEF VariantStep
<1>4. ASSUME NEW u \in Variant
      PROVE  /\ Stored.onboarded[u] => c.onboarded[u]
             /\ c.onboarded[u] => Stored.onboarded[u] \/ <<u, Stored.readVersion[u]>> \in collections'
  <2>1. CASE c.onboarded[u] = Stored.onboarded[u]
    BY <2>1
  <2>2. CASE c.onboarded[u] # Stored.onboarded[u]
    <3>1. /\ u = v /\ c.onboarded[v] /\ Onboarding(v) /\ collections' = NewCollections(v)
      BY <2>2 DEF VariantStep
    <3>2. <<v, 1>> \in collections'
      BY <3>1, WriteVersionIs DEF NewCollections
    <3>3. c.onboarded[v] \in BOOLEAN /\ Stored.onboarded[v] \in BOOLEAN
      BY <1>1, LocalAndStored, ConfigIs
    <3>4. ~Stored.onboarded[v]
      BY <2>2, <3>1, <3>3
    <3>5. Stored.readVersion[v] = 1
      BY <3>4, LocalAndStored
    <3>6. QED
      BY <3>1, <3>2, <3>4, <3>5
  <2>3. QED
    BY <2>1, <2>2
<1>5. TypeOK'
  BY <1>1, <1>3 DEF IInv, TypeOK, IsViews, Calls
<1>6. ViewsGrow(views')
  <2>1. Grows(Stored, c)
    <3>1. ASSUME NEW u \in Variant
          PROVE  /\ Stored.readVersion[u] <= c.readVersion[u]
                 /\ Stored.onboarded[u] => c.onboarded[u]
                 /\ ~c.onboarded[u] => c.readVersion[u] = 1
      <4>1. /\ Stored.readVersion[u] \in Nat
            /\ ~Stored.onboarded[u] => Stored.readVersion[u] = 1
            /\ c.readVersion[u] = Stored.readVersion[u]
        BY <1>1, LocalAndStored
      <4>2. Stored.readVersion[u] <= c.readVersion[u]
        BY <4>1
      <4>3. ~c.onboarded[u] => c.readVersion[u] = 1
        BY <1>4, <4>1
      <4>4. QED
        BY <1>4, <4>2, <4>3
    <3>2. QED
      BY <3>1 DEF Grows
  <2>2. Puts(views, views', c)
    BY DEF VariantStep
  <2>3. QED
    BY <1>2, <2>1, <2>2, GrowsOn, LocalAndStored DEF IInv
<1>7. WellFormed(topic') /\ StartsInv' /\ CallInv'
  <2>1. \A q \in Partition : c.partition[q] = 0
    BY <1>1, CallIs
  <2>2. QED
    BY <1>1, <2>1 DEF IInv, StartsInv, CallInv
<1>8. EofInv'
  <2>1. starting = {} /\ \A p \in Partition : triggers[p].at # "sleeping"
    BY <1>1 DEF IInv, CallInv
  <2>2. QED
    BY <1>1, <2>1, StoredPartitions DEF EofInv
<1>9. ServingCollectionExists'
  BY <1>1, <1>3, <1>4 DEF IInv, ServingCollectionExists
<1>10. DeltaInv'
  <2>1. ASSUME modelType = "DELTA", NEW i \in Positions(views'), NEW u \in Variant
        PROVE  views'[i].readVersion[u] = 1
    BY <1>1, <1>2, <2>1 DEF IInv, DeltaInv
  <2>2. QED
    BY <1>1, <2>1 DEF IInv, DeltaInv
<1>11. ResetInv'
  <2>1. CASE modelType = "RESET"
    BY <2>1, VariantKeepsReset
  <2>2. CASE modelType # "RESET"
    BY <1>1, <2>2 DEF ResetInv
  <2>3. QED
    BY <2>1, <2>2
<1>12. QED
  BY <1>5, <1>6, <1>7, <1>8, <1>9, <1>10, <1>11 DEF IInv

\* The writes of processVariant, all of them or the first n, and those that revert.
VariantWrite(v, w) ==
  /\ Typed(w) /\ w[1] # "readVersion"
  /\ w[1] = "onboarded" => Onboarding(v)

LEMMA WritesAfterAre ==
  ASSUME IInv, NEW v \in Variant
  PROVE  \E S : /\ WritesAfter(v) \in Seq(S) /\ Len(WritesAfter(v)) \in Nat
                /\ \A w \in S : VariantWrite(v, w)
<1>1. PICK a, b, e : a = <<"onboarded", TRUE>> /\ b = <<"writeVersion", WriteVersion(v)>>
                     /\ e = <<"state", "DATA_INGESTION_STARTED">>
  OBVIOUS
<1>2. VariantWrite(v, b) /\ VariantWrite(v, e) /\ (Onboarding(v) => VariantWrite(v, a))
  BY <1>1, WriteVersionIs DEF VariantWrite, Typed, State
<1>3. CASE Onboarding(v)
  <2>1. WritesAfter(v) = <<a>> \o <<b, e>>
    BY <1>1, <1>3 DEF WritesAfter
  <2>2. <<a>> \o <<b, e>> \in Seq({a, b, e}) /\ Len(<<a>> \o <<b, e>>) = 3
    OBVIOUS
  <2>3. \A w \in {a, b, e} : VariantWrite(v, w)
    BY <1>2, <1>3
  <2>4. PICK S : S = {a, b, e}
    OBVIOUS
  <2>5. WritesAfter(v) \in Seq(S) /\ Len(WritesAfter(v)) \in Nat
    BY <2>1, <2>2, <2>4
  <2>6. \A w \in S : VariantWrite(v, w)
    BY <2>3, <2>4
  <2>7. QED
    BY <2>5, <2>6
<1>4. CASE ~Onboarding(v)
  <2>1. WritesAfter(v) = << >> \o <<b, e>>
    BY <1>1, <1>4 DEF WritesAfter
  <2>2. << >> \o <<b, e>> \in Seq({b, e}) /\ Len(<< >> \o <<b, e>>) = 2
    OBVIOUS
  <2>3. \A w \in {b, e} : VariantWrite(v, w)
    BY <1>2
  <2>4. PICK S : S = {b, e}
    OBVIOUS
  <2>5. WritesAfter(v) \in Seq(S) /\ Len(WritesAfter(v)) \in Nat
    BY <2>1, <2>2, <2>4
  <2>6. \A w \in S : VariantWrite(v, w)
    BY <2>3, <2>4
  <2>7. QED
    BY <2>5, <2>6
<1>5. QED
  BY <1>3, <1>4

LEMMA VariantWritesAre ==
  ASSUME IInv, NEW v \in Variant, call.emb \in Nat,
         NEW n \in 0..Len(WritesAfter(v)), NEW ws,
         \/ ws = WritesBefore(v) \o SubSeq(WritesAfter(v), 1, n)
         \/ ws = WritesBefore(v) \o WritesAfter(v)
  PROVE  /\ \A i \in DOMAIN ws : VariantWrite(v, ws[i])
         /\ n = 0 /\ ws = WritesBefore(v) \o SubSeq(WritesAfter(v), 1, n) =>
              \A i \in DOMAIN ws : ws[i][1] # "onboarded"
<1>1. PICK b : b = <<"embWrite", call.emb>>
  OBVIOUS
<1>2. VariantWrite(v, b) /\ b[1] # "onboarded"
  BY <1>1 DEF VariantWrite, Typed
<1>3. WritesBefore(v) = <<b>>
  BY <1>1 DEF WritesBefore
<1>4. PICK S : /\ WritesAfter(v) \in Seq(S) /\ Len(WritesAfter(v)) \in Nat
               /\ \A w \in S : VariantWrite(v, w)
  BY WritesAfterAre
<1>5. PICK after : after = WritesAfter(v)
  OBVIOUS
<1>6. after \in Seq(S) /\ n \in 0..Len(after)
  BY <1>4, <1>5
<1>7. PICK rest : /\ rest \in {SubSeq(after, 1, n), after} /\ ws = <<b>> \o rest
                  /\ ws = WritesBefore(v) \o SubSeq(WritesAfter(v), 1, n) => rest = SubSeq(after, 1, n)
  BY <1>3, <1>5
<1>8. SubSeq(after, 1, n) \in Seq(S)
  BY <1>6
<1>9. rest \in Seq(S)
  BY <1>6, <1>7, <1>8
<1>10. \A i \in DOMAIN ws : i = 1 \/ (i - 1 \in 1..Len(rest) /\ ws[i] = rest[i - 1])
  <2>1. <<b>> \in Seq({b}) /\ Len(<<b>>) = 1
    OBVIOUS
  <2>2. ws \in Seq({b} \cup S) /\ Len(ws) = 1 + Len(rest) /\ Len(rest) \in Nat
    BY <1>7, <1>9, <2>1
  <2>3. QED
    BY <1>7, <1>9, <2>2
<1>11. 1 \in DOMAIN ws => ws[1] = b
  BY <1>7, <1>9
<1>12. ASSUME NEW i \in DOMAIN ws PROVE VariantWrite(v, ws[i])
  <2>1. CASE i = 1
    BY <1>2, <1>11, <2>1
  <2>2. CASE i # 1
    <3>1. i - 1 \in 1..Len(rest) /\ ws[i] = rest[i - 1]
      BY <1>10, <2>2
    <3>2. rest[i - 1] \in S
      BY <1>9, <3>1
    <3>3. QED
      BY <1>4, <3>1, <3>2
  <2>3. QED
    BY <2>1, <2>2
<1>13. ASSUME n = 0, ws = WritesBefore(v) \o SubSeq(WritesAfter(v), 1, n), NEW i \in DOMAIN ws
       PROVE  ws[i][1] # "onboarded"
  <2>1. rest = SubSeq(after, 1, 0)
    BY <1>7, <1>13
  <2>2. Len(rest) = 0
    BY <1>6, <2>1
  <2>3. QED
    BY <1>2, <1>10, <1>11, <2>2
<1>14. QED
  BY <1>12, <1>13

\* The variant after such writes.
LEMMA VariantPutIs ==
  ASSUME NEW d \in Config, NEW v \in Variant, NEW ws,
         \A i \in DOMAIN ws : VariantWrite(v, ws[i]), NEW c, c = Put(d, v, ws)
  PROVE  /\ c \in Config /\ c.partition = d.partition
         /\ \A u \in Variant : c.readVersion[u] = d.readVersion[u]
         /\ \A u \in Variant \ {v} : c.onboarded[u] = d.onboarded[u]
         /\ c.onboarded[v] # d.onboarded[v] =>
              /\ c.onboarded[v] /\ Onboarding(v)
              /\ \E i \in DOMAIN ws : ws[i][1] = "onboarded"
<1>1. \A i \in DOMAIN ws : Typed(ws[i])
  BY DEF VariantWrite
<1>2. /\ c \in Config /\ c.partition = d.partition
      /\ \A u \in Variant \ {v} : /\ c.onboarded[u] = d.onboarded[u]
                                  /\ c.readVersion[u] = d.readVersion[u]
      /\ FieldWritten(d, v, ws, "onboarded", c.onboarded[v])
      /\ FieldWritten(d, v, ws, "readVersion", c.readVersion[v])
  BY <1>1, PutIs
<1>3. c.readVersion[v] = d.readVersion[v]
  BY <1>2 DEF FieldWritten, VariantWrite
<1>4. ASSUME c.onboarded[v] # d.onboarded[v]
      PROVE  /\ c.onboarded[v] /\ Onboarding(v)
             /\ \E i \in DOMAIN ws : ws[i][1] = "onboarded"
  <2>1. PICK i \in DOMAIN ws : ws[i][1] = "onboarded" /\ c.onboarded[v] = ws[i][2]
    BY <1>2, <1>4 DEF FieldWritten
  <2>2. ws[i][2] = TRUE /\ Onboarding(v)
    BY <2>1 DEF VariantWrite, Typed
  <2>3. QED
    BY <2>1, <2>2
<1>5. QED
  BY <1>2, <1>3, <1>4

\* revertConfig puts back what the variant had, and neither onboards nor reads.
LEMMA RevertedIs ==
  ASSUME IInv, NEW v \in Variant, NEW d \in Config, NEW c, c = Put(d, v, Reverted(v))
  PROVE  /\ c \in Config /\ c.partition = d.partition
         /\ \A u \in Variant : /\ c.readVersion[u] = d.readVersion[u]
                               /\ c.onboarded[u] = d.onboarded[u]
<1>1. PICK x, y, z : /\ x = <<"embWrite", Local.embWrite[v]>>
                     /\ y = <<"writeVersion", Local.writeVersion[v]>>
                     /\ z = <<"state", Local.state[v]>>
  OBVIOUS
<1>2. Local.embWrite[v] \in Nat /\ Local.writeVersion[v] \in Nat /\ Local.state[v] \in State
  BY LocalAndStored, ConfigIs
<1>3. /\ VariantWrite(v, x) /\ VariantWrite(v, y) /\ VariantWrite(v, z)
      /\ x[1] # "onboarded" /\ y[1] # "onboarded" /\ z[1] # "onboarded"
  BY <1>1, <1>2 DEF VariantWrite, Typed
<1>4. PICK ws : ws = Reverted(v)
  OBVIOUS
<1>5. ws = <<x, y, z>>
  BY <1>1, <1>4 DEF Reverted
<1>6. \A i \in DOMAIN ws : ws[i] \in {x, y, z}
  BY <1>5
<1>7. \A i \in DOMAIN ws : VariantWrite(v, ws[i]) /\ ws[i][1] # "onboarded"
  BY <1>3, <1>6
<1>8. /\ c \in Config /\ c.partition = d.partition
      /\ \A u \in Variant : c.readVersion[u] = d.readVersion[u]
      /\ \A u \in Variant \ {v} : c.onboarded[u] = d.onboarded[u]
      /\ c.onboarded[v] = d.onboarded[v]
  BY <1>4, <1>7, VariantPutIs
<1>9. QED
  BY <1>8

LEMMA ProcessVariantConflictsKeeps ==
  ASSUME IInv, NEW v \in Variant, ProcessVariantConflicts(v)
  PROVE  IInv'
<1>1. /\ call.at = "variants" /\ call' = [call EXCEPT !.todo = @ \ {v}]
      /\ Set(Put(Stored, v, Reverted(v)))
      /\ UNCHANGED <<modelType, indexVars, job, trigVars, topic>>
  BY DEF ProcessVariantConflicts, topicVars
<1>2. PICK c : c = Put(Stored, v, Reverted(v))
  OBVIOUS
<1>3. /\ c \in Config /\ c.partition = Stored.partition
      /\ \A u \in Variant : /\ c.readVersion[u] = Stored.readVersion[u]
                            /\ c.onboarded[u] = Stored.onboarded[u]
  BY <1>2, RevertedIs, LocalAndStored
<1>4. Puts(views, views', c)
  BY <1>1, <1>2, <1>3 DEF Set, Puts
<1>5. call'.versions = call.versions /\ call'.at = "variants" /\ call' \in Calls
  BY <1>1, CallIs DEF Calls
<1>6. \A q \in Partition : c.partition[q] = 0
  BY <1>1, <1>3, CallIs
<1>7. QED
  BY <1>1, <1>3, <1>4, <1>5, <1>6, CallFrame

\* The answer of a step of processVariant.
LEMMA AnswerIs ==
  ASSUME IInv, NEW v \in Variant, NEW k \in Nat, call.at = "variants",
         call' = [call EXCEPT !.todo = @ \ {v}, !.versions[v] = k]
  PROVE  /\ call' \in Calls /\ call'.at = "variants" /\ call'.versions[v] = k
         /\ \A u \in Variant \ {v} : call'.versions[u] = call.versions[u]
<1>1. PICK f \in [Variant -> Nat] : f = [call.versions EXCEPT ![v] = k]
  <2>1. [call.versions EXCEPT ![v] = k] \in [Variant -> Nat]
    BY CallIs DEF Calls
  <2>2. QED
    BY <2>1
<1>2. call' = [call EXCEPT !.todo = @ \ {v}, !.versions = f]
  BY <1>1, CallIs DEF Calls
<1>3. call' \in Calls /\ call'.at = "variants" /\ call'.versions = f
  <2>1. call \in Calls /\ call.todo \ {v} \in SUBSET Variant
    BY CallIs DEF Calls
  <2>2. PICK t \in SUBSET Variant : t = call.todo \ {v}
    BY <2>1
  <2>3. call' = [call EXCEPT !.todo = t, !.versions = f]
    BY <1>2, <2>2
  <2>4. call' \in Calls
    BY <2>1, <2>3 DEF Calls
  <2>5. call'.at = call.at /\ call'.versions = f
    BY <2>1, <2>3 DEF Calls
  <2>6. QED
    BY <2>4, <2>5
<1>4. f[v] = k /\ \A u \in Variant \ {v} : f[u] = call.versions[u]
  BY <1>1, CallIs DEF Calls
<1>5. QED
  BY <1>3, <1>4

LEMMA ProcessVariantKeeps ==
  ASSUME IInv, NEW v \in Variant, ProcessVariant(v)
  PROVE  IInv'
<1>1. /\ call.at = "variants" /\ ~Conflict(v)
      /\ Set(Put(Stored, v, WritesBefore(v) \o WritesAfter(v)))
      /\ collections' = NewCollections(v)
      /\ indexed' \in {indexed, indexed \ {<<v, WriteVersion(v)>>}}
      /\ call' = [call EXCEPT !.todo = @ \ {v}, !.versions[v] = WriteVersion(v)]
      /\ modelType' = modelType /\ job' = job /\ topic' = topic
      /\ eofs' = eofs /\ triggers' = triggers /\ starting' = starting
  BY DEF ProcessVariant, topicVars, trigVars
<1>2. PICK ws : ws = WritesBefore(v) \o WritesAfter(v)
  OBVIOUS
<1>3. PICK c : c = Put(Stored, v, ws)
  OBVIOUS
<1>4. call.emb \in Nat /\ 0 \in 0..Len(WritesAfter(v))
  BY CallIs, WritesAfterAre DEF Calls
<1>5. \A i \in DOMAIN ws : VariantWrite(v, ws[i])
  BY <1>2, <1>4, VariantWritesAre
<1>6. /\ c \in Config /\ c.partition = Stored.partition
      /\ \A u \in Variant : c.readVersion[u] = Stored.readVersion[u]
      /\ \A u \in Variant \ {v} : c.onboarded[u] = Stored.onboarded[u]
      /\ c.onboarded[v] # Stored.onboarded[v] => c.onboarded[v] /\ Onboarding(v)
  BY <1>3, <1>5, VariantPutIs, LocalAndStored
<1>7. Puts(views, views', c)
  BY <1>1, <1>2, <1>3, <1>6 DEF Set, Puts
<1>8. /\ call' \in Calls /\ call'.at = "variants" /\ call'.versions[v] = WriteVersion(v)
      /\ \A u \in Variant \ {v} : call'.versions[u] = call.versions[u]
  BY <1>1, AnswerIs, WriteVersionIs
<1>9. VariantStep(v, c)
  BY <1>1, <1>6, <1>7, <1>8 DEF VariantStep
<1>10. QED
  BY <1>9, VariantKeeps

LEMMA ProcessVariantFailsKeeps ==
  ASSUME IInv, NEW v \in Variant, ProcessVariantFails(v)
  PROVE  IInv'
<1>1. /\ call.at = "variants" /\ ~Conflict(v)
      /\ indexed' = indexed /\ modelType' = modelType /\ job' = job /\ topic' = topic
      /\ eofs' = eofs /\ triggers' = triggers /\ starting' = starting
  BY DEF ProcessVariantFails, topicVars, trigVars
<1>2. PICK reached \in BOOLEAN, reverts \in BOOLEAN, n \in 0..Len(WritesAfter(v)) - 1 :
      \E d :
        /\ d = Put(Stored, v, WritesBefore(v) \o SubSeq(WritesAfter(v), 1, n))
        /\ reached \/ n = 0
        /\ Set(IF reverts THEN Put(d, v, Reverted(v)) ELSE d)
        /\ collections' = IF reached THEN NewCollections(v) ELSE collections
        /\ call' = [call EXCEPT !.todo = @ \ {v},
                     !.versions[v] = IF reached /\ WritesAfter(v)[n + 1][1] = "writeVersion"
                                       THEN WriteVersion(v) ELSE 0]
  BY DEF ProcessVariantFails
<1>3. PICK d :
        /\ d = Put(Stored, v, WritesBefore(v) \o SubSeq(WritesAfter(v), 1, n))
        /\ reached \/ n = 0
        /\ Set(IF reverts THEN Put(d, v, Reverted(v)) ELSE d)
        /\ collections' = IF reached THEN NewCollections(v) ELSE collections
        /\ call' = [call EXCEPT !.todo = @ \ {v},
                     !.versions[v] = IF reached /\ WritesAfter(v)[n + 1][1] = "writeVersion"
                                       THEN WriteVersion(v) ELSE 0]
  BY <1>2
<1>4. PICK ws : ws = WritesBefore(v) \o SubSeq(WritesAfter(v), 1, n)
  OBVIOUS
<1>5. PICK c : c = IF reverts THEN Put(d, v, Reverted(v)) ELSE d
  OBVIOUS
<1>6. call.emb \in Nat /\ n \in 0..Len(WritesAfter(v))
  BY CallIs, WritesAfterAre DEF Calls
<1>7. /\ \A i \in DOMAIN ws : VariantWrite(v, ws[i])
      /\ n = 0 => \A i \in DOMAIN ws : ws[i][1] # "onboarded"
  BY <1>4, <1>6, VariantWritesAre
<1>8. /\ d \in Config /\ d.partition = Stored.partition
      /\ \A u \in Variant : d.readVersion[u] = Stored.readVersion[u]
      /\ \A u \in Variant \ {v} : d.onboarded[u] = Stored.onboarded[u]
      /\ d.onboarded[v] # Stored.onboarded[v] => d.onboarded[v] /\ Onboarding(v) /\ n # 0
  <2>1. d = Put(Stored, v, ws)
    BY <1>3, <1>4
  <2>2. QED
    BY <1>7, <2>1, VariantPutIs, LocalAndStored
<1>9. /\ c \in Config /\ c.partition = d.partition
      /\ \A u \in Variant : /\ c.readVersion[u] = d.readVersion[u]
                            /\ c.onboarded[u] = d.onboarded[u]
  <2>1. CASE reverts
    <3>1. c = Put(d, v, Reverted(v))
      BY <1>5, <2>1
    <3>2. QED
      BY <1>8, <3>1, RevertedIs
  <2>2. CASE ~reverts
    BY <1>5, <1>8, <2>2
  <2>3. QED
    BY <2>1, <2>2
<1>10. Puts(views, views', c)
  BY <1>3, <1>5, <1>9 DEF Set, Puts
<1>11. PICK k \in Nat : /\ k \in {0, WriteVersion(v)} /\ (k # 0 => reached)
                        /\ call' = [call EXCEPT !.todo = @ \ {v}, !.versions[v] = k]
  BY <1>3, WriteVersionIs
<1>12. /\ call' \in Calls /\ call'.at = "variants" /\ call'.versions[v] = k
       /\ \A u \in Variant \ {v} : call'.versions[u] = call.versions[u]
  BY <1>1, <1>11, AnswerIs
<1>13. /\ \A u \in Variant : c.readVersion[u] = Stored.readVersion[u]
       /\ \A u \in Variant \ {v} : c.onboarded[u] = Stored.onboarded[u]
       /\ c.onboarded[v] # Stored.onboarded[v] =>
            c.onboarded[v] /\ Onboarding(v) /\ collections' = NewCollections(v)
       /\ c.partition = Stored.partition
  BY <1>3, <1>8, <1>9
<1>14. /\ collections' \in {collections, NewCollections(v)}
       /\ call'.versions[v] = 0 \/ (call'.versions[v] = WriteVersion(v) /\ collections' = NewCollections(v))
  BY <1>3, <1>11, <1>12
<1>15. VariantStep(v, c)
  BY <1>1, <1>10, <1>12, <1>13, <1>14 DEF VariantStep
<1>16. QED
  BY <1>15, VariantKeeps

\* The response makes the versions that were chosen the job's, of which nobody has
\* spoken before, while no partition has reached its EOF.
LEMMA RespondKeeps == ASSUME IInv, Respond PROVE IInv'
<1>1. /\ call.at = "variants" /\ call' = Idle
      /\ modelType' = modelType /\ views' = views /\ collections' = collections
      /\ indexed' = indexed /\ starting' = starting /\ losses' = losses /\ topic' = topic
  BY DEF Respond, indexVars, topicVars
<1>2. CASE call.versions = NoJob.versions
  <2>1. UNCHANGED <<modelType, indexVars, job, trigVars, topic>>
    BY <1>1, <1>2 DEF Respond, indexVars, trigVars
  <2>2. Puts(views, views', Stored)
    BY <1>1, PutsStored
  <2>3. call' \in Calls /\ call'.at = "idle" /\ call'.versions = NoJob.versions
    BY <1>1, CallIs
  <2>4. QED
    BY <1>1, <2>1, <2>2, <2>3, CallFrame
<1>3. CASE call.versions # NoJob.versions
  <2>1. /\ job' = [versions |-> call.versions, emb |-> call.emb]
        /\ eofs' = {} /\ triggers' = [p \in Partition |-> [at |-> "none", behind |-> 0]]
    BY <1>3 DEF Respond
  <2>2. /\ Local' = Local /\ Stored' = Stored /\ starting = {}
        /\ \A p \in Partition : triggers'[p].at = "none"
        /\ triggers' \in [Partition -> [at : {"none", "sleeping", "returned"}, behind : Nat]]
        /\ job'.versions = call.versions /\ job' \in [versions : [Variant -> Nat], emb : Nat]
        /\ call'.at = "idle" /\ call' \in Calls /\ call'.versions = NoJob.versions
        /\ \A q \in Partition : Stored.partition[q] = 0
    BY <1>1, <2>1, CallIs DEF Local, Stored, IInv, CallInv, Calls
  <2>3. TypeOK'
    BY <1>1, <2>1, <2>2 DEF IInv, TypeOK, Calls
  <2>4. ViewsGrow(views') /\ WellFormed(topic') /\ StartsInv'
    BY <1>1, <2>2 DEF IInv, StartsInv
  <2>5. CallInv' /\ EofInv'
    <3>1. CallInv'
      BY <1>1, <2>2 DEF CallInv, NoJob
    <3>2. EofInv'
      BY <1>1, <2>2 DEF EofInv
    <3>3. QED
      BY <3>1, <3>2
  <2>6. ServingCollectionExists' /\ DeltaInv'
    BY <1>1, <2>2 DEF IInv, ServingCollectionExists, DeltaInv
  <2>7. ASSUME modelType = "RESET"
        PROVE  ResetInv'
    <3>1. /\ TopicInv /\ CollectionsInv
          /\ \A v \in Variant : ServedInv(v) /\ ChosenInv(v) /\ FirstInv(v)
      BY <2>7 DEF IInv, ResetInv
    <3>2. TopicInv' /\ CollectionsInv'
      BY <1>1, <2>2, <3>1 DEF TopicInv, CollectionsInv
    <3>3. ASSUME NEW v \in Variant
          PROVE  ServedInv(v)' /\ ChosenInv(v)' /\ JobInv(v)' /\ FirstInv(v)' /\ WindowInv(v)'
      <4>1. ServedInv(v)'
        BY <1>1, <2>2, <3>1 DEF ServedInv
      <4>2. ChosenInv(v)'
        BY <2>2, CallIs DEF ChosenInv
      <4>3. JobInv(v)'
        BY <1>1, <2>2, <3>1 DEF ChosenInv, JobInv
      <4>4. FirstInv(v)'
        BY <1>1, <2>2, <3>1 DEF FirstInv, Unindexed
      <4>5. WindowInv(v)'
        BY <2>2 DEF WindowInv
      <4>6. QED
        BY <4>1, <4>2, <4>3, <4>4, <4>5
    <3>4. QED
      BY <3>2, <3>3 DEF ResetInv
  <2>8. ResetInv'
    BY <1>1, <2>7 DEF ResetInv
  <2>9. QED
    BY <2>3, <2>4, <2>5, <2>6, <2>8 DEF IInv
<1>4. QED
  BY <1>2, <1>3

-----------------------------------------------------------------------------
(* The trigger that wakes up starts the workflows. *)

\* Every partition of the job is done by then, and no view it might still see lets
\* ProcessModel start a next job before a variant's first messages are through.
LEMMA WakeKeeps == ASSUME IInv, NEW p \in Partition, Wake(p) PROVE IInv'
<1>1. /\ triggers[p].at = "sleeping" /\ triggers[p].behind = 0
      /\ triggers' = [triggers EXCEPT ![p].at = "returned"]
      /\ modelType' = modelType /\ views' = views /\ collections' = collections
      /\ indexed' = indexed /\ call' = call /\ job' = job /\ eofs' = eofs /\ topic' = topic
  BY DEF Wake, indexVars, callVars, topicVars
<1>2. PICK started \in SUBSET (IF OthersDone(p) THEN InJob ELSE {}) :
        /\ OthersDone(p) => MayStart(started)
        /\ starting' = starting \cup
             {<<p, Payload(v, "DATA_INGESTION_STARTED")>> : v \in started}
  BY DEF Wake
<1>3. /\ Local' = Local /\ Stored' = Stored /\ IsViews(views)
      /\ Local = views[1] /\ 1 \in Positions(views) /\ Len(views) \in Nat
      /\ triggers \in [Partition -> [at : {"none", "sleeping", "returned"}, behind : Nat]]
      /\ job \in [versions : [Variant -> Nat], emb : Nat]
  BY <1>1, LocalAndStored, ViewsAre DEF Local, Stored, IInv, TypeOK
<1>4. /\ triggers' \in [Partition -> [at : {"none", "sleeping", "returned"}, behind : Nat]]
      /\ \A q \in Partition : triggers'[q].at = "sleeping" =>
           triggers'[q] = triggers[q]
  BY <1>1, <1>3
<1>5. call.at = "idle"
  BY <1>1 DEF IInv, CallInv
<1>6. started # {} => eofs = Partition
  <2>1. SUFFICES ASSUME started # {} PROVE eofs = Partition
    OBVIOUS
  <2>2. \A q \in Partition \ {p} : Local.partition[q] = 1
    BY <1>2, <2>1 DEF OthersDone
  <2>3. 1 \in triggers[p].behind + 1..Len(views)
    BY <1>1, <1>3 DEF Positions
  <2>4. p \in eofs /\ \A q \in Partition : Local.partition[q] = 1 => q \in eofs
    BY <1>1, <1>3, <2>3 DEF IInv, EofInv
  <2>5. eofs \subseteq Partition
    BY DEF IInv, TypeOK
  <2>6. QED
    BY <2>2, <2>4, <2>5
<1>7. \A v \in started : /\ v \in Variant /\ job.versions[v] # 0 /\ job.versions[v] \in Nat
                         /\ Local.state[v] = "DATA_INGESTION_STARTED"
  BY <1>2, <1>3 DEF MayStart, InJob
<1>8. ASSUME NEW s \in starting' \ starting
      PROVE  /\ s \in Partition \X Message /\ s[2].state = "DATA_INGESTION_STARTED"
             /\ s[2].counter = 0 /\ s[2].variant \in started
             /\ s[2].version = job.versions[s[2].variant]
  <2>1. PICK v \in started : s = <<p, Payload(v, "DATA_INGESTION_STARTED")>>
    BY <1>2
  <2>2. PICK m : m = Payload(v, "DATA_INGESTION_STARTED")
    OBVIOUS
  <2>3. /\ m = [variant |-> v, version |-> job.versions[v], emb |-> job.emb,
                state |-> "DATA_INGESTION_STARTED", counter |-> 0]
        /\ job.emb \in Nat
    BY <1>3, <2>2 DEF Payload
  <2>4. m \in Message
    BY <1>7, <2>3 DEF Message, State
  <2>5. s[2] = m /\ s \in Partition \X Message
    BY <2>1, <2>2, <2>4
  <2>6. QED
    BY <2>3, <2>5
<1>9. TypeOK'
  <2>1. starting' \subseteq Partition \X Message
    BY <1>8 DEF IInv, TypeOK
  <2>2. QED
    BY <1>1, <1>4, <2>1 DEF IInv, TypeOK
<1>10. ViewsGrow(views') /\ WellFormed(topic') /\ ServingCollectionExists' /\ DeltaInv'
  BY <1>1, <1>3 DEF IInv, ServingCollectionExists, DeltaInv
<1>11. StartsInv'
  <2>1. \A s \in starting' \ starting :
          /\ s[2].state = "DATA_INGESTION_STARTED" /\ s[2].counter = 0
          /\ s[2].version = job.versions[s[2].variant] /\ s[2].version >= 1
    BY <1>7, <1>8
  <2>2. QED
    BY <1>1, <2>1 DEF IInv, StartsInv
<1>12. CallInv'
  BY <1>1, <1>3, <1>5 DEF IInv, CallInv
<1>13. EofInv'
  <2>1. starting' # {} => eofs = Partition
    BY <1>2, <1>6 DEF IInv, EofInv
  <2>2. QED
    BY <1>1, <1>3, <1>4, <2>1 DEF IInv, EofInv
<1>14. ASSUME modelType = "RESET"
       PROVE  ResetInv'
  <2>1. /\ TopicInv /\ CollectionsInv
        /\ \A v \in Variant : /\ ServedInv(v) /\ ChosenInv(v) /\ JobInv(v)
                              /\ FirstInv(v) /\ WindowInv(v)
    BY <1>14 DEF IInv, ResetInv
  <2>2. TopicInv' /\ CollectionsInv'
    BY <1>1, <1>3, <2>1 DEF TopicInv, CollectionsInv
  <2>3. ASSUME NEW v \in Variant
        PROVE  ServedInv(v)' /\ ChosenInv(v)' /\ JobInv(v)' /\ FirstInv(v)' /\ WindowInv(v)'
    <3>1. ServedInv(v)' /\ ChosenInv(v)' /\ JobInv(v)'
      BY <1>1, <1>3, <2>1 DEF ServedInv, ChosenInv, JobInv
    <3>2. Unindexed(v)' <=> Unindexed(v)
      BY <1>1, <1>3 DEF Unindexed
    <3>3. WindowInv(v)'
      BY <1>1, <1>4, <2>1, <3>2 DEF WindowInv
    <3>4. FirstInv(v)'
      <4>1. SUFFICES ASSUME Unindexed(v),
                            \/ \E s \in starting' : s[2].variant = v /\ s[2].version = 1
                            \/ Carries(topic, v, 1)
                     PROVE  /\ call.at = "idle" /\ job.versions[v] = 1
                            /\ \A i \in Positions(views) : views[i].state[v] # "COMPLETED"
        BY <1>1, <3>2 DEF FirstInv
      <4>2. CASE \/ \E s \in starting : s[2].variant = v /\ s[2].version = 1
                 \/ Carries(topic, v, 1)
        BY <2>1, <4>1, <4>2 DEF FirstInv
      <4>3. CASE \E s \in starting' \ starting : s[2].variant = v /\ s[2].version = 1
        <5>1. v \in started /\ job.versions[v] = 1
          BY <1>8, <4>3
        <5>2. views[1].state[v] = "DATA_INGESTION_STARTED"
          BY <1>3, <1>7, <5>1
        <5>3. 1 \in triggers[p].behind + 1..Len(views)
          BY <1>1, <1>3 DEF Positions
        <5>4. \A i \in Positions(views) : i \in triggers[p].behind + 1..Len(views) /\ 1 <= i
          BY <1>1 DEF Positions
        <5>5. \A i \in Positions(views) : views[i].state[v] # "COMPLETED"
          BY <1>1, <2>1, <4>1, <5>1, <5>2, <5>3, <5>4 DEF WindowInv
        <5>6. QED
          BY <1>5, <5>1, <5>5
      <4>4. QED
        BY <4>1, <4>2, <4>3
    <3>5. QED
      BY <3>1, <3>3, <3>4
  <2>4. QED
    BY <2>2, <2>3 DEF ResetInv
<1>15. ResetInv'
  BY <1>1, <1>14 DEF ResetInv
<1>16. QED
  BY <1>9, <1>10, <1>11, <1>12, <1>13, <1>15 DEF IInv

-----------------------------------------------------------------------------
(* The steps of the workflow. *)

\* The first message, m, makes its handler write c and delete the collections d; the
\* topic moves on, or not.
TopicStep(m, nx, c, d, taken, sent) ==
  /\ topic # << >> /\ m = topic[1] /\ m.state # Ended /\ nx = NextMessage(m)
  /\ c \in Config /\ Puts(views, views', c) /\ Wrote(Stored, c, m)
  /\ d \in {{}, Deletes(m)} /\ collections' = collections \ d /\ indexed' = indexed \ d
  /\ taken \in 0..1 /\ sent \in BOOLEAN
  /\ topic' \in Seq(Message) /\ Shifted(topic, topic', nx, taken, sent)
  /\ sent /\ m.state = "INDEXING_COMPLETED_WITH_RESET" => c.readVersion[m.variant] = m.version
  /\ modelType' = modelType /\ call' = call /\ job' = job /\ eofs' = eofs
  /\ triggers' = triggers /\ starting' = starting

\* What is known of the first message.
LEMMA HeadIs ==
  ASSUME IInv, topic # << >>, NEW m, m = topic[1], m.state # Ended, NEW nx, nx = NextMessage(m)
  PROVE  /\ topic \in Seq(Message) /\ 1 \in Positions(topic) /\ m \in Message
         /\ m.variant \in Variant /\ m.version \in Nat /\ m.version >= 1
         /\ Rank(m) \in 1..8 /\ nx \in Message /\ nx.variant = m.variant /\ nx.version = m.version
         /\ nx.state # "DATA_INGESTION_STARTED" /\ nx.state = NextState(m)
         /\ nx.counter = 1 => nx.state = "INDEXING_STARTED"
         /\ NextState(m) = "COMPLETED" <=> Rank(m) = 7
         /\ Carries(topic, m.variant, m.version)
<1>1. topic \in Seq(Message) /\ WellFormed(topic) /\ modelType \in {"RESET", "DELTA"}
  BY IndexingAssumption DEF IInv, TypeOK
<1>2. 1 \in Positions(topic) /\ m \in Message
  BY <1>1 DEF Positions
<1>3. /\ m.state # "DATA_INGESTION_STARTED" /\ m.version >= 1
      /\ m.counter = 1 => m.state = "INDEXING_STARTED"
  BY <1>1, <1>2 DEF WellFormed
<1>4. m.variant \in Variant /\ m.version \in Nat /\ m.counter \in 0..1 /\ m.state \in State
  BY <1>2, RankIs
<1>5. Rank(m) \in 1..8
  BY <1>3, <1>4, RankTable DEF State
<1>6. /\ nx \in Message /\ nx.variant = m.variant /\ nx.version = m.version
      /\ nx.state # "DATA_INGESTION_STARTED" /\ nx.state = NextState(m)
      /\ nx.counter = 1 => nx.state = "INDEXING_STARTED"
      /\ nx.state = "COMPLETED" <=> m.state = "INDEXING_COMPLETED"
  BY <1>1, <1>2, <1>3, NextIs
<1>7. NextState(m) = "COMPLETED" <=> Rank(m) = 7
  BY <1>2, <1>6, RankIs
<1>8. Carries(topic, m.variant, m.version)
  BY <1>2 DEF Carries
<1>9. QED
  BY <1>1, <1>2, <1>3, <1>4, <1>5, <1>6, <1>7, <1>8

\* While a message waits for its index, no version newer than its own is under way.
LEMMA WaitingIsNewest ==
  ASSUME IInv, modelType = "RESET", NEW i \in Positions(topic), NEW v \in Variant, NEW k \in Nat,
         topic[i].variant = v, topic[i].version = k, k >= 1,
         Rank(topic[i]) \in 2..3, <<v, k>> \notin indexed
  PROVE  UpTo(topic, v, k)
<1>1. /\ TopicInv /\ ServedInv(v) /\ FirstInv(v) /\ JobInv(v)
  BY DEF IInv, ResetInv
<1>2. SUFFICES ASSUME NEW j \in Positions(topic), topic[j].variant = v, NEW l \in Nat,
                      l = topic[j].version, l > k
               PROVE  FALSE
  <2>1. \A j \in Positions(topic) : topic[j].version \in Nat
    BY RankIs DEF IInv, TypeOK, Positions
  <2>2. QED
    BY <2>1 DEF UpTo
<1>3. PICK R \in Nat, L \in Nat : /\ R = Stored.readVersion[v] /\ L = Local.readVersion[v]
                                  /\ 1 <= L /\ L <= R
  BY LocalAndStored
<1>4. ~(k < R)
  BY <1>1, <1>3 DEF TopicInv, Past
<1>5. l <= Top(Local, v)
  BY <1>1, <1>2 DEF TopicInv
<1>6. l <= L + 1 /\ l > 1
  <2>1. Local.onboarded[v] \/ L = 1
    BY <1>3, LocalAndStored
  <2>2. l > 1
    BY <1>2
  <2>3. Top(Local, v) = IF Local.onboarded[v] THEN L + 1 ELSE 1
    BY <1>3 DEF Top
  <2>4. QED
    BY <1>3, <1>5, <2>2, <2>3
<1>7. k = R
  BY <1>2, <1>3, <1>4, <1>6
<1>8. R = 1
  <2>1. SUFFICES ASSUME R # 1 PROVE FALSE
    OBVIOUS
  <2>2. R > 1
    BY <1>3, <2>1
  <2>3. <<v, R>> \in indexed
    BY <1>1, <1>3, <2>2 DEF ServedInv
  <2>4. QED
    BY <1>7, <2>3
<1>9. Unindexed(v) /\ Carries(topic, v, 1)
  BY <1>3, <1>7, <1>8 DEF Unindexed, Carries
<1>10. job.versions[v] = 1
  BY <1>1, <1>9 DEF FirstInv
<1>11. l <= 1
  BY <1>1, <1>2, <1>10 DEF JobInv, UpTo
<1>12. QED
  BY <1>6, <1>11

\* What a step leaves of a variant's read version and collections: the read version
\* moves only to the message's, which is indexed; what is deleted is older.
Leaves(u, m, c, d) ==
  /\ Stored.readVersion[u] <= c.readVersion[u] /\ c.readVersion[u] \in Nat
  /\ \/ c.readVersion[u] = Stored.readVersion[u]
     \/ /\ u = m.variant /\ c.readVersion[u] = m.version
        /\ <<u, m.version>> \in indexed /\ d = {}
  /\ \A l \in Nat : /\ Stored.readVersion[u] <= l /\ <<u, l>> \in collections =>
                         <<u, l>> \in collections'
                    /\ Stored.readVersion[u] <= l /\ <<u, l>> \in indexed =>
                         <<u, l>> \in indexed'
  /\ c.readVersion[u] = 1 /\ <<u, 1>> \notin indexed' => <<u, 1>> \notin indexed

LEMMA TopicStepIs ==
  ASSUME IInv, modelType = "RESET", NEW m, NEW nx, NEW c, NEW d, NEW taken, NEW sent,
         TopicStep(m, nx, c, d, taken, sent)
  PROVE  /\ Ordered(topic') /\ Past(topic', c.readVersion, indexed')
         /\ \A u \in Variant : Leaves(u, m, c, d)
         /\ NextState(m) = "COMPLETED" => \/ <<m.variant, m.version>> \in indexed
                                          \/ m.version < Stored.readVersion[m.variant]
         /\ NextState(m) = "COMPLETED" => m.version <= Stored.readVersion[m.variant]
<1> DEFINE v == m.variant
           k == m.version
<1>1. /\ topic \in Seq(Message) /\ 1 \in Positions(topic) /\ m \in Message
      /\ v \in Variant /\ k \in Nat /\ k >= 1
      /\ Rank(m) \in 1..8 /\ nx \in Message /\ nx.variant = v /\ nx.version = k
      /\ NextState(m) = "COMPLETED" <=> Rank(m) = 7
      /\ topic # << >> /\ m = topic[1]
  BY HeadIs DEF TopicStep
<1>2. Ordered(topic) /\ Past(topic, Stored.readVersion, indexed)
  BY DEF IInv, ResetInv, TopicInv
<1>3. /\ Rank(m) <= Rank(nx)
      /\ \/ Rank(nx) = Rank(m) + 1
         \/ Rank(nx) = Rank(m) /\ Rank(m) \in 2..3 /\ <<v, k>> \notin indexed
      /\ Rank(nx) <= 2 \/ Rank(m) >= 3 \/ <<v, k>> \in indexed
      /\ m.state = "INDEXING_COMPLETED_WITH_RESET" <=> Rank(m) = 5
      /\ m.state = "MODEL_VERSION_UPDATED" <=> Rank(m) = 6
  <2>1. m.counter = 1 => m.state = "INDEXING_STARTED"
    BY <1>1 DEF IInv, WellFormed
  <2>2. QED
    BY <1>1, <2>1, NextIs, RankIs DEF TopicStep
<1>4. Rank(nx) = Rank(m) => UpTo(topic, v, k)
  BY <1>1, <1>3, WaitingIsNewest
<1>5. Rank(nx) \in 0..9 /\ Rank(nx) <= Rank(m) + 1
  BY <1>1, <1>3, RankIs
<1>6. Ordered(topic')
  BY <1>1, <1>2, <1>3, <1>4, OrderedOn DEF TopicStep
<1>7. /\ c.readVersion \in [Variant -> Nat] /\ Stored.readVersion \in [Variant -> Nat]
      /\ \A u \in Variant : \/ c.readVersion[u] = Stored.readVersion[u]
                            \/ u = v /\ Rank(m) = 5 /\ c.readVersion[u] = k
  BY <1>3, LocalAndStored, ConfigIs DEF TopicStep, Wrote
<1>8. d = {} \/ (Rank(m) = 6 /\ d = {<<v, k - 1>>})
  BY <1>3 DEF TopicStep, Deletes
<1>9. \A e \in indexed : e \in indexed' \/ (Rank(m) = 6 /\ e = <<v, k - 1>>)
  BY <1>8 DEF TopicStep
<1>10. sent /\ Rank(m) = 5 => c.readVersion[v] = k
  BY <1>3 DEF TopicStep
<1>11. /\ Past(topic', c.readVersion, indexed')
       /\ \A u \in Variant : Stored.readVersion[u] <= c.readVersion[u]
  <2>1. taken \in 0..1 /\ sent \in BOOLEAN /\ topic' \in Seq(Message)
        /\ Shifted(topic, topic', nx, taken, sent)
    BY DEF TopicStep
  <2>2. /\ nx.variant = topic[1].variant /\ nx.version = topic[1].version
        /\ Rank(topic[1]) <= Rank(nx) /\ Rank(nx) <= Rank(topic[1]) + 1
        /\ Rank(nx) <= 2 \/ Rank(topic[1]) >= 3 \/ <<nx.variant, nx.version>> \in indexed
    BY <1>1, <1>3, <1>5
  <2>3. /\ \A w \in Variant : \/ c.readVersion[w] = Stored.readVersion[w]
                              \/ /\ w = nx.variant /\ Rank(topic[1]) = 5
                                 /\ c.readVersion[w] = nx.version
        /\ sent /\ Rank(topic[1]) = 5 => c.readVersion[nx.variant] = nx.version
    BY <1>1, <1>7, <1>10
  <2>4. \A e \in indexed : \/ e \in indexed'
                           \/ Rank(topic[1]) = 6 /\ e = <<nx.variant, nx.version - 1>>
    BY <1>1, <1>9
  <2>5. PICK read, read2, idx, idx2, t2 :
          /\ read = Stored.readVersion /\ read2 = c.readVersion /\ idx = indexed
          /\ idx2 = indexed' /\ t2 = topic'
    OBVIOUS
  <2>6. Advances(topic, t2, nx, taken, sent, read, read2, idx, idx2)
    BY <1>1, <1>7, <2>1, <2>2, <2>3, <2>4, <2>5 DEF Advances
  <2>7. Past(t2, read2, idx2) /\ \A w \in Variant : read[w] <= read2[w]
    BY <1>2, <2>5, <2>6, PastOn
  <2>8. QED
    BY <2>5, <2>7
<1>12. /\ Rank(m) >= 3 => <<v, k>> \in indexed \/ k < Stored.readVersion[v]
       /\ k < Stored.readVersion[v] => Rank(m) >= 6
       /\ Rank(m) >= 6 => k <= Stored.readVersion[v]
  BY <1>1, <1>2 DEF Past
<1>13. ASSUME NEW u \in Variant
       PROVE  \/ c.readVersion[u] = Stored.readVersion[u]
              \/ u = v /\ c.readVersion[u] = k /\ <<u, k>> \in indexed /\ d = {}
  BY <1>7, <1>8, <1>12
<1>14. ASSUME NEW u \in Variant, NEW l \in Nat, Stored.readVersion[u] <= l
       PROVE  <<u, l>> \notin d
  <2>1. SUFFICES ASSUME <<u, l>> \in d PROVE FALSE
    OBVIOUS
  <2>2. <<u, l>> = <<v, k - 1>> /\ Rank(m) = 6
    BY <1>8, <2>1
  <2>3. u = v /\ l = k - 1 /\ k <= Stored.readVersion[v] /\ Stored.readVersion[v] \in Nat
    BY <1>1, <1>7, <1>12, <2>2
  <2>4. QED
    BY <1>1, <1>14, <2>3
<1>15. ASSUME NEW u \in Variant, c.readVersion[u] = 1, <<u, 1>> \notin indexed'
       PROVE  <<u, 1>> \notin indexed
  <2>1. Stored.readVersion[u] <= 1
    BY <1>11, <1>15
  <2>2. <<u, 1>> \notin d
    BY <1>14, <2>1
  <2>3. QED
    BY <1>15, <2>2 DEF TopicStep
<1>16. ASSUME NEW u \in Variant, NEW l \in Nat, Stored.readVersion[u] <= l
       PROVE  /\ <<u, l>> \in collections => <<u, l>> \in collections'
              /\ <<u, l>> \in indexed => <<u, l>> \in indexed'
  BY <1>14, <1>16 DEF TopicStep
<1>17. NextState(m) = "COMPLETED" => /\ <<v, k>> \in indexed \/ k < Stored.readVersion[v]
                                     /\ k <= Stored.readVersion[v]
  BY <1>1, <1>12
<1>18. \A u \in Variant : c.readVersion[u] \in Nat
  BY <1>7
<1>19. \A u \in Variant : Leaves(u, m, c, d)
  BY <1>11, <1>13, <1>15, <1>16, <1>18 DEF Leaves
<1>20. QED
  BY <1>6, <1>11, <1>17, <1>19

LEMMA TopicStepKeepsReset ==
  ASSUME IInv, modelType = "RESET", NEW m, NEW nx, NEW c, NEW d, NEW taken, NEW sent,
         TopicStep(m, nx, c, d, taken, sent)
  PROVE  ResetInv'
<1> DEFINE v == m.variant
           k == m.version
<1>1. /\ Local' = Local /\ Stored' = c /\ modelType' = modelType /\ call' = call
      /\ job' = job /\ eofs' = eofs /\ triggers' = triggers /\ starting' = starting
      /\ collections' \subseteq collections /\ indexed' \subseteq indexed
  BY AfterPuts DEF TopicStep
<1>2. /\ TopicInv /\ CollectionsInv
      /\ \A u \in Variant : /\ ServedInv(u) /\ ChosenInv(u) /\ JobInv(u)
                            /\ FirstInv(u) /\ WindowInv(u)
  BY DEF IInv, ResetInv
<1>3. /\ topic \in Seq(Message) /\ v \in Variant /\ k \in Nat /\ k >= 1
      /\ nx \in Message /\ nx.variant = v /\ nx.version = k /\ Carries(topic, v, k)
  BY HeadIs DEF TopicStep
<1>4. /\ Ordered(topic') /\ Past(topic', c.readVersion, indexed')
      /\ \A u \in Variant : Leaves(u, m, c, d)
      /\ NextState(m) = "COMPLETED" => \/ <<v, k>> \in indexed
                                       \/ k < Stored.readVersion[v]
      /\ NextState(m) = "COMPLETED" => k <= Stored.readVersion[v]
  BY TopicStepIs
<1>5. \A u, l : /\ Carries(topic', u, l) => Carries(topic, u, l)
                /\ UpTo(topic, u, l) => UpTo(topic', u, l)
  BY <1>3, ShiftedCarries DEF TopicStep
<1>6. ASSUME NEW u \in Variant
      PROVE  /\ Local.readVersion[u] \in Nat /\ Stored.readVersion[u] \in Nat
             /\ Top(Local, u) \in Nat /\ Local.readVersion[u] <= Stored.readVersion[u]
             /\ 1 <= Stored.readVersion[u]
             /\ call.versions[u] \in Nat /\ job.versions[u] \in Nat
             /\ Stored.readVersion[u] <= Top(Local, u)
  <2>1. /\ Local.readVersion[u] \in Nat /\ Stored.readVersion[u] \in Nat
        /\ Local.readVersion[u] <= Stored.readVersion[u] /\ 1 <= Local.readVersion[u]
    BY LocalAndStored
  <2>2. Top(Local, u) \in Nat
    BY <2>1 DEF Top
  <2>3. call.versions[u] \in Nat /\ job.versions[u] \in Nat
    BY DEF IInv, TypeOK
  <2>4. Stored.readVersion[u] <= Top(Local, u)
    BY <1>2 DEF ServedInv
  <2>5. QED
    BY <2>1, <2>2, <2>3, <2>4
<1>7. TopicInv'
  <2>1. ASSUME NEW i \in Positions(topic')
        PROVE  /\ topic'[i].version <= Top(Local, topic'[i].variant)
               /\ topic'[i].version > Local.readVersion[topic'[i].variant] =>
                    <<topic'[i].variant, topic'[i].version>> \in collections'
    <3>1. PICK u \in Variant, l \in Nat : u = topic'[i].variant /\ l = topic'[i].version
      BY RankIs DEF TopicStep, Positions
    <3>2. Carries(topic, u, l)
      <4>1. Carries(topic', u, l)
        BY <3>1 DEF Carries
      <4>2. QED
        BY <1>5, <4>1
    <3>3. PICK j \in Positions(topic) : topic[j].variant = u /\ topic[j].version = l
      BY <3>2 DEF Carries
    <3>4. l <= Top(Local, u) /\ (l > Local.readVersion[u] => <<u, l>> \in collections)
      BY <1>2, <3>3 DEF TopicInv
    <3>5. l > Local.readVersion[u] => <<u, l>> \in collections'
      <4>1. SUFFICES ASSUME l > Local.readVersion[u], <<u, l>> \notin collections'
                     PROVE  FALSE
        OBVIOUS
      <4>2. ~(Stored.readVersion[u] <= l)
        BY <1>4, <3>4, <4>1 DEF Leaves
      <4>3. l < Stored.readVersion[u] /\ Stored.readVersion[u] <= Local.readVersion[u] + 1
        BY <1>6, <4>2 DEF Top
      <4>4. QED
        BY <1>6, <4>1, <4>3
    <3>6. QED
      BY <3>1, <3>4, <3>5
  <2>2. QED
    BY <1>1, <1>4, <2>1 DEF TopicInv, Leaves
<1>8. CollectionsInv'
  BY <1>1, <1>2 DEF CollectionsInv
<1>9. ASSUME NEW u \in Variant
      PROVE  ServedInv(u)' /\ ChosenInv(u)' /\ JobInv(u)' /\ FirstInv(u)' /\ WindowInv(u)'
  <2>1. k <= Top(Local, v) /\ \A l : UpTo(topic, v, l) => k <= l
    BY <1>2, <1>3 DEF Carries, UpTo, TopicInv
  <2>2. ServedInv(u)'
    <3>1. CASE c.readVersion[u] = Stored.readVersion[u]
      BY <1>1, <1>2, <1>4, <1>6, <3>1 DEF ServedInv, Leaves
    <3>2. CASE u = v /\ c.readVersion[u] = k /\ <<u, k>> \in indexed /\ d = {}
      <4>1. indexed' = indexed
        BY <3>2 DEF TopicStep
      <4>2. QED
        BY <1>1, <2>1, <3>2, <4>1 DEF ServedInv
    <3>3. QED
      BY <1>4, <3>1, <3>2 DEF Leaves
  <2>3. ASSUME NEW l \in Nat, UpTo(topic, u, l), Stored.readVersion[u] <= l
        PROVE  /\ UpTo(topic', u, l) /\ c.readVersion[u] <= l
               /\ <<u, l>> \in collections => <<u, l>> \in collections'
               /\ c.readVersion[u] = l \/ Carries(topic', u, l) =>
                    Stored.readVersion[u] = l \/ Carries(topic, u, l)
    BY <1>3, <1>4, <1>5, <2>1, <2>3 DEF Leaves
  <2>4. ChosenInv(u)'
    <3>1. SUFFICES ASSUME call.versions[u] # 0
                   PROVE  ChosenInv(u)'
      BY <1>1 DEF ChosenInv
    <3>2. /\ UpTo(topic, u, call.versions[u]) /\ Stored.readVersion[u] <= call.versions[u]
      BY <1>2, <3>1 DEF ChosenInv
    <3>3. /\ UpTo(topic', u, call.versions[u]) /\ c.readVersion[u] <= call.versions[u]
          /\ <<u, call.versions[u]>> \in collections => <<u, call.versions[u]>> \in collections'
          /\ c.readVersion[u] = call.versions[u] \/ Carries(topic', u, call.versions[u]) =>
               Stored.readVersion[u] = call.versions[u] \/ Carries(topic, u, call.versions[u])
      BY <1>6, <2>3, <3>2
    <3>4. QED
      BY <1>1, <1>2, <3>1, <3>3 DEF ChosenInv
  <2>5. JobInv(u)'
    <3>1. SUFFICES ASSUME job.versions[u] # 0
                   PROVE  JobInv(u)'
      BY <1>1 DEF JobInv
    <3>2. /\ UpTo(topic, u, job.versions[u]) /\ Stored.readVersion[u] <= job.versions[u]
      BY <1>2, <3>1 DEF JobInv
    <3>3. /\ UpTo(topic', u, job.versions[u]) /\ c.readVersion[u] <= job.versions[u]
          /\ <<u, job.versions[u]>> \in collections => <<u, job.versions[u]>> \in collections'
          /\ c.readVersion[u] = job.versions[u] \/ Carries(topic', u, job.versions[u]) =>
               Stored.readVersion[u] = job.versions[u] \/ Carries(topic, u, job.versions[u])
      BY <1>6, <2>3, <3>2
    <3>4. QED
      BY <1>1, <1>2, <3>1, <3>3 DEF JobInv
  <2>6. Unindexed(u)' => Unindexed(u)
    BY <1>1, <1>4, <1>6 DEF Unindexed, Leaves
  <2>7. Unindexed(u) /\ c.state[u] = "COMPLETED" => Stored.state[u] = "COMPLETED"
    <3>1. SUFFICES ASSUME Unindexed(u), u = v, NextState(m) = "COMPLETED"
                   PROVE  FALSE
      BY DEF TopicStep, Wrote
    <3>2. k <= 1 /\ (<<v, k>> \in indexed \/ k < 1)
      BY <1>4, <3>1 DEF Unindexed, Leaves
    <3>3. k = 1
      BY <1>3, <3>2
    <3>4. QED
      BY <3>1, <3>2, <3>3 DEF Unindexed
  <2>8. FirstInv(u)'
    <3>1. SUFFICES ASSUME Unindexed(u),
                          \/ \E s \in starting : s[2].variant = u /\ s[2].version = 1
                          \/ Carries(topic, u, 1)
                   PROVE  /\ call.at = "idle" /\ job.versions[u] = 1
                          /\ \A i \in Positions(views') : views'[i].state[u] # "COMPLETED"
      BY <1>1, <1>5, <2>6 DEF FirstInv
    <3>2. /\ call.at = "idle" /\ job.versions[u] = 1
          /\ \A i \in Positions(views) : views[i].state[u] # "COMPLETED"
      BY <1>2, <3>1 DEF FirstInv
    <3>3. /\ Len(views) \in Positions(views) /\ Stored = views[Len(views)]
          /\ \A i \in Positions(views) : views'[i] = views[i]
          /\ \A i \in Positions(views') \ Positions(views) : views'[i] = c
      BY AfterPuts DEF TopicStep
    <3>4. c.state[u] # "COMPLETED"
      BY <2>7, <3>1, <3>2, <3>3
    <3>5. QED
      BY <3>2, <3>3, <3>4
  <2>9. WindowInv(u)'
    <3>1. Puts(views, views', c) /\ Sleepers
      BY DEF TopicStep, Sleepers
    <3>2. QED
      BY <1>1, <2>6, <2>7, <3>1, WindowKeeps
  <2>10. QED
    BY <2>2, <2>4, <2>5, <2>8, <2>9
<1>10. QED
  BY <1>7, <1>8, <1>9 DEF ResetInv

LEMMA TopicStepKeeps ==
  ASSUME IInv, NEW m, NEW nx, NEW c, NEW d, NEW taken, NEW sent,
         TopicStep(m, nx, c, d, taken, sent)
  PROVE  /\ IInv'
         /\ \A u \in Variant : Stored.readVersion[u] <= c.readVersion[u]
<1> DEFINE v == m.variant
           k == m.version
<1>1. /\ Local' = Local /\ Stored' = c /\ c \in Config /\ IsViews(views')
      /\ modelType' = modelType /\ call' = call
      /\ job' = job /\ eofs' = eofs /\ triggers' = triggers /\ starting' = starting
      /\ Puts(views, views', c) /\ c.partition = Stored.partition
      /\ \A u \in Variant : c.onboarded[u] = Stored.onboarded[u]
      /\ modelType \in {"RESET", "DELTA"} /\ IsViews(views)
  BY AfterPuts, LocalAndStored, IndexingAssumption DEF TopicStep, Wrote, IInv, TypeOK
<1>2. /\ topic \in Seq(Message) /\ 1 \in Positions(topic) /\ m \in Message
      /\ v \in Variant /\ k \in Nat /\ k >= 1
      /\ nx \in Message /\ nx.variant = v /\ nx.version = k /\ nx.state # "DATA_INGESTION_STARTED"
      /\ nx.counter = 1 => nx.state = "INDEXING_STARTED"
      /\ m = topic[1]
  BY HeadIs DEF TopicStep
<1>3. ASSUME modelType = "DELTA"
      PROVE  /\ m.state \notin {"INDEXING_COMPLETED_WITH_RESET", "MODEL_VERSION_UPDATED"}
             /\ nx.state \notin {"INDEXING_COMPLETED_WITH_RESET", "MODEL_VERSION_UPDATED"}
             /\ d = {} /\ \A u \in Variant : c.readVersion[u] = Stored.readVersion[u]
  <2>1. m.state \notin {"INDEXING_COMPLETED_WITH_RESET", "MODEL_VERSION_UPDATED"}
    BY <1>2, <1>3 DEF IInv, DeltaInv
  <2>2. m.counter = 1 => m.state = "INDEXING_STARTED"
    BY <1>2 DEF IInv, WellFormed
  <2>3. nx.state \notin {"INDEXING_COMPLETED_WITH_RESET", "MODEL_VERSION_UPDATED"}
    BY <1>2, <1>3, <2>1, <2>2, NextIs DEF TopicStep
  <2>4. d = {}
    BY <2>1 DEF TopicStep, Deletes
  <2>5. \A u \in Variant : c.readVersion[u] = Stored.readVersion[u]
    BY <2>1 DEF TopicStep, Wrote
  <2>6. QED
    BY <2>1, <2>3, <2>4, <2>5
<1>4. ASSUME NEW u \in Variant
      PROVE  /\ Stored.readVersion[u] <= c.readVersion[u]
             /\ ~c.onboarded[u] => c.readVersion[u] = 1
             /\ c.onboarded[u] => <<u, c.readVersion[u]>> \in collections'
  <2>1. /\ Stored.readVersion[u] \in Nat /\ Local.readVersion[u] \in Nat
        /\ Local.onboarded[u] => Stored.onboarded[u]
        /\ ~Local.onboarded[u] => Local.readVersion[u] = 1
        /\ ~Stored.onboarded[u] => Stored.readVersion[u] = 1
        /\ Local.readVersion[u] <= Stored.readVersion[u]
    BY LocalAndStored
  <2>2. Stored.onboarded[u] => <<u, Stored.readVersion[u]>> \in collections
    BY DEF IInv, ServingCollectionExists
  <2>3. CASE modelType = "DELTA"
    <3>1. d = {} /\ c.readVersion[u] = Stored.readVersion[u]
      BY <1>3, <2>3
    <3>2. collections' = collections
      BY <3>1 DEF TopicStep
    <3>3. QED
      BY <1>1, <2>1, <2>2, <3>1, <3>2
  <2>4. CASE modelType = "RESET"
    <3>1. /\ Stored.readVersion[u] <= c.readVersion[u] /\ c.readVersion[u] \in Nat
          /\ \/ c.readVersion[u] = Stored.readVersion[u]
             \/ /\ u = v /\ c.readVersion[u] = k /\ <<u, k>> \in indexed /\ d = {}
          /\ \A l \in Nat : Stored.readVersion[u] <= l /\ <<u, l>> \in collections =>
                              <<u, l>> \in collections'
      <4>1. Leaves(u, m, c, d)
        BY <2>4, TopicStepIs
      <4>2. QED
        BY <4>1 DEF Leaves
    <3>2. CASE c.readVersion[u] = Stored.readVersion[u]
      <4>1. Stored.onboarded[u] => <<u, Stored.readVersion[u]>> \in collections'
        BY <2>1, <2>2, <3>1
      <4>2. QED
        BY <1>1, <2>1, <3>1, <3>2, <4>1
    <3>3. CASE u = v /\ c.readVersion[u] = k /\ <<u, k>> \in indexed /\ d = {}
      <4>1. <<u, k>> \in collections /\ collections' = collections
        BY <3>3 DEF IInv, TypeOK, TopicStep
      <4>2. k <= Top(Local, u)
        BY <1>2, <2>4, <3>3 DEF IInv, ResetInv, TopicInv
      <4>3. ~Stored.onboarded[u] => k = 1
        BY <1>2, <2>1, <4>2 DEF Top
      <4>4. QED
        BY <1>1, <3>1, <3>3, <4>1, <4>3
    <3>4. QED
      BY <3>1, <3>2, <3>3
  <2>5. QED
    BY <1>1, <2>3, <2>4
<1>5. TypeOK'
  <2>1. collections' \subseteq Variant \X Nat /\ indexed' \subseteq collections'
    BY DEF TopicStep, IInv, TypeOK
  <2>2. topic' \in Seq(Message)
    BY DEF TopicStep
  <2>3. QED
    BY <1>1, <2>1, <2>2 DEF IInv, TypeOK, IsViews
<1>6. ViewsGrow(views')
  <2>1. Grows(Stored, c)
    BY <1>1, <1>4 DEF Grows
  <2>2. Stored = views[Len(views)]
    BY DEF Stored
  <2>3. QED
    BY <1>1, <2>1, <2>2, GrowsOn DEF IInv
<1>7. WellFormed(topic') /\ StartsInv'
  <2>1. WellFormed(topic')
    BY <1>2, WellFormedOn DEF TopicStep, IInv
  <2>2. QED
    BY <1>1, <2>1 DEF IInv, StartsInv
<1>8. CallInv'
  BY <1>1 DEF IInv, CallInv
<1>9. EofInv'
  <2>1. Sleepers /\ starting' \subseteq starting /\ eofs \subseteq eofs'
        /\ eofs' \subseteq Partition /\ \A q \in Partition : c.partition[q] = 1 => q \in eofs'
    BY <1>1, StoredPartitions DEF Sleepers, IInv, TypeOK
  <2>2. QED
    BY <1>1, <2>1, EofKeeps
<1>10. ServingCollectionExists'
  BY <1>1, <1>4 DEF ServingCollectionExists
<1>11. DeltaInv'
  <2>1. SUFFICES ASSUME modelType = "DELTA" PROVE DeltaInv'
    BY <1>1 DEF DeltaInv
  <2>2. ASSUME NEW i \in Positions(views'), NEW u \in Variant
        PROVE  views'[i].readVersion[u] = 1
    <3>1. /\ \A j \in Positions(views) : views'[j] = views[j]
          /\ \A j \in Positions(views') \ Positions(views) : views'[j] = c
          /\ Len(views) \in Positions(views) /\ Stored = views[Len(views)]
      BY <1>1, AfterPuts
    <3>2. \A j \in Positions(views) : views[j].readVersion[u] = 1
      BY <2>1 DEF IInv, DeltaInv
    <3>3. c.readVersion[u] = 1
      BY <1>3, <2>1, <3>1, <3>2
    <3>4. QED
      BY <3>1, <3>2, <3>3
  <2>3. ASSUME NEW i \in Positions(topic')
        PROVE  topic'[i].state \notin {"INDEXING_COMPLETED_WITH_RESET", "MODEL_VERSION_UPDATED"}
    <3>1. \/ i + taken \in Positions(topic) /\ topic'[i] = topic[i + taken]
          \/ topic'[i] = nx
      BY DEF TopicStep, Shifted
    <3>2. QED
      BY <1>3, <2>1, <3>1 DEF IInv, DeltaInv
  <2>4. QED
    BY <2>2, <2>3 DEF DeltaInv
<1>12. ResetInv'
  <2>1. CASE modelType = "RESET"
    BY <2>1, TopicStepKeepsReset
  <2>2. CASE modelType = "DELTA"
    BY <1>1, <2>2 DEF ResetInv
  <2>3. QED
    BY <1>1, <2>1, <2>2
<1>13. QED
  BY <1>4, <1>5, <1>6, <1>7, <1>8, <1>9, <1>10, <1>11, <1>12 DEF IInv

\* The message of a job's version goes behind all others, of which none is newer.
LEMMA StartedTopic ==
  ASSUME NEW t \in Seq(Message), WellFormed(t), Ordered(t),
         NEW read \in [Variant -> Nat], NEW idx, Past(t, read, idx),
         NEW nx \in Message, Rank(nx) = 1, UpTo(t, nx.variant, nx.version),
         read[nx.variant] <= nx.version, NEW t2, t2 = Append(t, nx)
  PROVE  Ordered(t2) /\ Past(t2, read, idx)
<1>1. /\ t2 \in Seq(Message) /\ Len(t) \in Nat /\ Len(t2) = Len(t) + 1
      /\ \A i \in 1..Len(t) : t2[i] = t[i]
      /\ t2[Len(t) + 1] = nx
  OBVIOUS
<1>2. /\ \A i \in Positions(t2) : i = Len(t2) \/ i \in Positions(t)
      /\ \A i \in Positions(t) : t2[i] = t[i] /\ i < Len(t2)
      /\ t2[Len(t2)] = nx
  BY <1>1 DEF Positions
<1>3. ASSUME NEW i \in Positions(t)
      PROVE  /\ t[i] \in Message /\ Rank(t[i]) \in 1..9 /\ t[i].version \in Nat
             /\ t[i].variant \in Variant
  <2>1. t[i] \in Message /\ t[i].state # "DATA_INGESTION_STARTED"
    BY DEF Positions, WellFormed
  <2>2. /\ Rank(t[i]) \in 0..9 /\ t[i].version \in Nat /\ t[i].variant \in Variant
        /\ t[i].counter \in 0..1 /\ t[i].state \in State \cup {Ended}
    BY <2>1, RankIs
  <2>3. Rank(t[i]) # 0
    BY <2>1, <2>2, RankTable DEF State
  <2>4. QED
    BY <2>1, <2>2, <2>3
<1>4. nx.version \in Nat /\ nx.variant \in Variant /\ read[nx.variant] \in Nat
  BY RankIs
<1>5. Ordered(t2)
  <2>1. SUFFICES ASSUME NEW i \in Positions(t2), NEW j \in Positions(t2),
                        t2[i].variant = t2[j].variant, t2[i].version < t2[j].version
                 PROVE  /\ Rank(t2[j]) <= Rank(t2[i])
                        /\ j < i => Rank(t2[j]) < Rank(t2[i])
    BY DEF Ordered
  <2>2. CASE i \in Positions(t) /\ j \in Positions(t)
    BY <1>2, <2>1, <2>2 DEF Ordered
  <2>3. CASE i = Len(t2) /\ j \in Positions(t)
    <3>1. t2[i] = nx /\ t2[j] = t[j]
      BY <1>2, <2>3
    <3>2. t[j].variant = nx.variant /\ nx.version < t[j].version
      BY <2>1, <3>1
    <3>3. t[j].version <= nx.version /\ t[j].version \in Nat
      BY <1>3, <2>3, <3>2 DEF UpTo
    <3>4. QED
      BY <1>4, <3>2, <3>3
  <2>4. CASE i \in Positions(t) /\ j = Len(t2)
    <3>1. i < j /\ i \in Nat /\ j \in Nat
      BY <1>1, <1>2, <2>4 DEF Positions
    <3>2. t2[i] = t[i] /\ t2[j] = nx
      BY <1>2, <2>4
    <3>3. Rank(t2[j]) = 1 /\ Rank(t2[i]) \in 1..9
      BY <1>3, <2>4, <3>2
    <3>4. ~(j < i)
      BY <3>1
    <3>5. Rank(t2[j]) <= Rank(t2[i])
      <4>1. PICK a \in 1..9 : a = Rank(t2[i])
        BY <3>3
      <4>2. 1 <= a
        OBVIOUS
      <4>3. QED
        BY <3>3, <4>1, <4>2
    <3>6. QED
      BY <3>4, <3>5
  <2>5. CASE i = Len(t2) /\ j = Len(t2)
    BY <1>2, <1>4, <2>1, <2>5
  <2>6. QED
    BY <1>2, <2>2, <2>3, <2>4, <2>5
<1>6. Past(t2, read, idx)
  <2>1. ASSUME NEW i \in Positions(t2)
        PROVE  /\ Rank(t2[i]) >= 3 => \/ <<t2[i].variant, t2[i].version>> \in idx
                                      \/ t2[i].version < read[t2[i].variant]
               /\ t2[i].version < read[t2[i].variant] => Rank(t2[i]) >= 6
               /\ Rank(t2[i]) >= 6 => t2[i].version <= read[t2[i].variant]
    <3>1. CASE i \in Positions(t)
      BY <1>2, <3>1 DEF Past
    <3>2. CASE i = Len(t2)
      BY <1>2, <1>4, <3>2
    <3>3. QED
      BY <1>2, <3>1, <3>2
  <2>2. QED
    BY <2>1 DEF Past
<1>7. QED
  BY <1>5, <1>6

LEMMA StartWorkflowKeeps == ASSUME IInv, NEW s \in starting, StartWorkflow(s) PROVE IInv'
<1>1. PICK m \in Message : m = s[2]
  BY DEF IInv, TypeOK
<1>2. PICK v \in Variant, k \in Nat : /\ v = m.variant /\ k = m.version
                                      /\ k = job.versions[v] /\ k >= 1
                                      /\ m.state = "DATA_INGESTION_STARTED" /\ m.counter = 0
  BY <1>1, RankIs DEF IInv, StartsInv
<1>3. /\ starting' = starting \ {s} /\ modelType' = modelType
      /\ collections' = collections /\ indexed' = indexed /\ call' = call /\ job' = job
      /\ eofs' = eofs /\ triggers' = triggers
      /\ Write(m, Len(Writes(m))) /\ topic' = Append(topic, NextMessage(m))
      /\ modelType \in {"RESET", "DELTA"} /\ topic \in Seq(Message)
  BY <1>1, IndexingAssumption DEF StartWorkflow, indexVars, callVars, IInv, TypeOK
<1>4. /\ m.state # Ended /\ NextState(m) = "DATA_INGESTION_COMPLETED"
      /\ m.state # "INDEXING_COMPLETED_WITH_RESET"
  BY <1>2, EndedIsNoState, NextTable DEF State
<1>5. PICK nx \in Message : /\ nx = NextMessage(m) /\ nx.variant = v /\ nx.version = k
                            /\ nx.state = "DATA_INGESTION_COMPLETED" /\ nx.counter \in 0..1
                            /\ nx.counter = 1 => nx.state = "INDEXING_STARTED"
                            /\ Rank(nx) = 1
  <2>1. PICK nx : nx = NextMessage(m)
    OBVIOUS
  <2>2. /\ nx \in Message /\ nx.variant = m.variant
        /\ nx.version = m.version /\ nx.state = NextState(m)
        /\ nx.counter = 1 => nx.state = "INDEXING_STARTED"
    <3>1. m.counter = 1 => m.state = "INDEXING_STARTED"
      BY <1>2
    <3>2. QED
      BY <1>3, <1>4, <2>1, <3>1, NextIs
  <2>3. Rank(nx) = 1 /\ nx.counter \in 0..1
    BY <1>4, <2>2, RankTable, RankIs
  <2>4. QED
    BY <1>2, <1>4, <2>1, <2>2, <2>3
<1>6. Len(Writes(m)) \in Nat
  BY <1>4 DEF Writes
<1>7. PICK c \in Config : Puts(views, views', c) /\ Wrote(Stored, c, m)
  BY <1>3, <1>4, <1>6, WriteIs, LocalAndStored, SMTT(30)
<1>8. /\ Stored' = c /\ Local' = Local /\ IsViews(views') /\ c.partition = Stored.partition
      /\ \A u \in Variant : /\ c.readVersion[u] = Stored.readVersion[u]
                            /\ c.onboarded[u] = Stored.onboarded[u]
                            /\ c.state[u] = "COMPLETED" => Stored.state[u] = "COMPLETED"
  BY <1>4, <1>7, AfterPuts DEF Wrote
<1>9. call.at = "idle" /\ eofs = Partition /\ call.versions = NoJob.versions
  BY DEF IInv, CallInv, EofInv
<1>10. PICK taken \in 0..1, sent \in BOOLEAN :
         topic' \in Seq(Message) /\ Shifted(topic, topic', nx, taken, sent)
  <2>1. topic' = Append(topic, nx)
    BY <1>3, <1>5
  <2>2. topic' \in Seq(Message) /\ Shifted(topic, topic', nx, 0, TRUE)
    BY <1>3, <2>1, ShiftedIs
  <2>3. 0 \in 0..1 /\ TRUE \in BOOLEAN
    OBVIOUS
  <2>4. QED
    BY <2>2, <2>3, Zenon
<1>11. TypeOK'
  <2>1. starting' \subseteq Partition \X Message
    BY <1>3 DEF IInv, TypeOK
  <2>2. QED
    BY <1>3, <1>8, <1>10, <2>1 DEF IInv, TypeOK, IsViews
<1>12. ViewsGrow(views')
  <2>1. Grows(Stored, c)
    BY <1>8, LocalAndStored DEF Grows
  <2>2. Stored = views[Len(views)]
    BY DEF Stored
  <2>3. QED
    BY <1>7, <2>1, <2>2, GrowsOn, LocalAndStored DEF IInv
<1>13. WellFormed(topic') /\ StartsInv'
  <2>1. WellFormed(topic')
    <3>1. /\ nx.version >= 1 /\ nx.state # "DATA_INGESTION_STARTED"
          /\ nx.counter = 1 => nx.state = "INDEXING_STARTED"
      BY <1>2, <1>5
    <3>2. WellFormed(topic) /\ topic \in Seq(Message)
      BY DEF IInv, TypeOK
    <3>3. PICK t2 \in Seq(Message) : t2 = topic' /\ Shifted(topic, t2, nx, taken, sent)
      BY <1>10
    <3>4. WellFormed(t2)
      BY <3>1, <3>2, <3>3, WellFormedOn
    <3>5. QED
      BY <3>3, <3>4
  <2>2. QED
    BY <1>3, <2>1 DEF IInv, StartsInv
<1>14. CallInv'
  BY <1>3, <1>9 DEF CallInv
<1>15. Sleepers /\ EofInv'
  <2>1. Sleepers
    BY <1>3 DEF Sleepers
  <2>2. /\ starting' \subseteq starting /\ eofs \subseteq eofs' /\ eofs' \subseteq Partition
        /\ \A q \in Partition : c.partition[q] = 1 => q \in eofs'
    BY <1>3, <1>8, <1>9
  <2>3. QED
    BY <1>7, <2>1, <2>2, EofKeeps
<1>16. ServingCollectionExists'
  BY <1>3, <1>8 DEF IInv, ServingCollectionExists
<1>17. /\ Len(views) \in Positions(views) /\ Stored = views[Len(views)]
       /\ \A i \in Positions(views) : views'[i] = views[i]
       /\ \A i \in Positions(views') \ Positions(views) : views'[i] = c
  BY <1>7, AfterPuts
<1>18. DeltaInv'
  <2>1. SUFFICES ASSUME modelType = "DELTA" PROVE DeltaInv'
    BY <1>3 DEF DeltaInv
  <2>2. ASSUME NEW i \in Positions(views'), NEW u \in Variant
        PROVE  views'[i].readVersion[u] = 1
    BY <1>8, <1>17, <2>1 DEF IInv, DeltaInv
  <2>3. ASSUME NEW i \in Positions(topic')
        PROVE  topic'[i].state \notin {"INDEXING_COMPLETED_WITH_RESET", "MODEL_VERSION_UPDATED"}
    <3>1. \/ i + taken \in Positions(topic) /\ topic'[i] = topic[i + taken]
          \/ topic'[i] = nx
      BY <1>10 DEF Shifted
    <3>2. QED
      BY <1>5, <2>1, <3>1 DEF IInv, DeltaInv
  <2>4. QED
    BY <2>2, <2>3 DEF DeltaInv
<1>19. ASSUME modelType = "RESET"
       PROVE  ResetInv'
  <2>1. /\ TopicInv /\ CollectionsInv
        /\ \A u \in Variant : /\ ServedInv(u) /\ ChosenInv(u) /\ JobInv(u)
                              /\ FirstInv(u) /\ WindowInv(u)
    BY <1>19 DEF IInv, ResetInv
  <2>2. /\ k <= Top(Local, v) /\ UpTo(topic, v, k) /\ Stored.readVersion[v] <= k
        /\ k > Local.readVersion[v] => <<v, k>> \in collections
    BY <1>2, <2>1 DEF JobInv
  <2>3. ASSUME NEW i \in Positions(topic')
        PROVE  topic'[i] = nx \/ \E j \in Positions(topic) : topic'[i] = topic[j]
    BY <1>10 DEF Shifted
  <2>4. TopicInv'
    <3>1. Stored.readVersion \in [Variant -> Nat]
      BY LocalAndStored, ConfigIs
    <3>2. WellFormed(topic) /\ Ordered(topic) /\ Past(topic, Stored.readVersion, indexed)
      BY <2>1 DEF IInv, TopicInv
    <3>3. Ordered(topic') /\ Past(topic', Stored.readVersion, indexed)
      BY <1>3, <1>5, <2>2, <3>1, <3>2, StartedTopic
    <3>4. Past(topic', c.readVersion, indexed)
      <4>1. \A i \in Positions(topic') : topic'[i].variant \in Variant
        BY <1>10, RankIs DEF Positions
      <4>2. QED
        BY <1>8, <3>3, <4>1 DEF Past
    <3>5. ASSUME NEW i \in Positions(topic')
          PROVE  /\ topic'[i].version <= Top(Local, topic'[i].variant)
                 /\ topic'[i].version > Local.readVersion[topic'[i].variant] =>
                      <<topic'[i].variant, topic'[i].version>> \in collections
      BY <1>5, <2>1, <2>2, <2>3 DEF TopicInv
    <3>6. QED
      BY <1>3, <1>8, <3>3, <3>4, <3>5 DEF TopicInv
  <2>5. CollectionsInv'
    BY <1>3, <1>8, <2>1 DEF CollectionsInv
  <2>6. ASSUME NEW u \in Variant
        PROVE  ServedInv(u)' /\ ChosenInv(u)' /\ JobInv(u)' /\ FirstInv(u)' /\ WindowInv(u)'
    <3>1. ServedInv(u)'
      BY <1>3, <1>8, <2>1 DEF ServedInv
    <3>2. ChosenInv(u)'
      BY <1>3, <1>9, CallIs DEF ChosenInv
    <3>3. JobInv(u)'
      <4>1. SUFFICES ASSUME job.versions[u] # 0 PROVE JobInv(u)'
        BY <1>3 DEF JobInv
      <4>2. job.versions[u] \in Nat
        BY DEF IInv, TypeOK
      <4>3. UpTo(topic', u, job.versions[u])
        <5>1. UpTo(topic, u, job.versions[u])
          BY <2>1, <4>1 DEF JobInv
        <5>2. nx.variant = u => nx.version <= job.versions[u]
          BY <1>2, <1>5
        <5>3. QED
          BY <2>3, <5>1, <5>2 DEF UpTo
      <4>4. QED
        BY <1>3, <1>8, <1>9, <2>1, <4>1, <4>3 DEF JobInv
    <3>4. Unindexed(u)' <=> Unindexed(u)
      BY <1>3, <1>8 DEF Unindexed
    <3>5. FirstInv(u)'
      <4>1. SUFFICES ASSUME Unindexed(u),
                            \/ \E r \in starting' : r[2].variant = u /\ r[2].version = 1
                            \/ Carries(topic', u, 1)
                     PROVE  /\ call.at = "idle" /\ job.versions[u] = 1
                            /\ \A i \in Positions(views') : views'[i].state[u] # "COMPLETED"
        BY <1>3, <3>4 DEF FirstInv
      <4>2. \/ \E r \in starting : r[2].variant = u /\ r[2].version = 1
            \/ Carries(topic, u, 1)
        <5>1. CASE \E r \in starting' : r[2].variant = u /\ r[2].version = 1
          BY <1>3, <5>1
        <5>2. CASE Carries(topic', u, 1)
          <6>1. PICK i \in Positions(topic') : topic'[i].variant = u /\ topic'[i].version = 1
            BY <5>2 DEF Carries
          <6>2. CASE topic'[i] = nx
            BY <1>1, <1>2, <1>5, <6>1, <6>2
          <6>3. CASE \E j \in Positions(topic) : topic'[i] = topic[j]
            BY <6>1, <6>3 DEF Carries
          <6>4. QED
            BY <2>3, <6>2, <6>3
        <5>3. QED
          BY <4>1, <5>1, <5>2
      <4>3. /\ call.at = "idle" /\ job.versions[u] = 1
            /\ \A i \in Positions(views) : views[i].state[u] # "COMPLETED"
        BY <2>1, <4>1, <4>2 DEF FirstInv
      <4>4. QED
        BY <1>8, <1>17, <4>3
    <3>6. WindowInv(u)'
      BY <1>3, <1>7, <1>8, <1>15, <1>19, <3>4, WindowKeeps
    <3>7. QED
      BY <3>1, <3>2, <3>3, <3>5, <3>6
  <2>7. QED
    BY <2>4, <2>5, <2>6 DEF ResetInv
<1>20. ResetInv'
  BY <1>3, <1>19 DEF ResetInv
<1>21. QED
  BY <1>11, <1>12, <1>13, <1>14, <1>15, <1>16, <1>18, <1>20 DEF IInv

\* The last message is taken away, and what is left was there before.
LEMMA LastMessageKeeps ==
  ASSUME IInv, topic # << >>, topic' = Tail(topic),
         UNCHANGED <<modelType, views, collections, indexed, callVars, trigVars>>
  PROVE  IInv'
<1>1. /\ modelType' = modelType /\ views' = views /\ collections' = collections
      /\ indexed' = indexed /\ call' = call /\ job' = job /\ eofs' = eofs
      /\ triggers' = triggers /\ starting' = starting
      /\ Local' = Local /\ Stored' = Stored /\ topic \in Seq(Message)
  BY DEF callVars, trigVars, Local, Stored, IInv, TypeOK
<1>2. /\ topic' \in Seq(Message)
      /\ \A i \in Positions(topic') : /\ i + 1 \in Positions(topic) /\ topic'[i] = topic[i + 1]
                                      /\ i \in Nat
  BY <1>1 DEF Positions
<1>3. /\ \A u, l : Carries(topic', u, l) => Carries(topic, u, l)
      /\ \A u, l : UpTo(topic, u, l) => UpTo(topic', u, l)
  BY <1>2 DEF Carries, UpTo
<1>4. TypeOK'
  BY <1>1, <1>2 DEF IInv, TypeOK
<1>5. WellFormed(topic')
  BY <1>2 DEF IInv, WellFormed
<1>6. /\ ViewsGrow(views') /\ StartsInv' /\ CallInv' /\ EofInv' /\ ServingCollectionExists'
  BY <1>1 DEF IInv, StartsInv, CallInv, EofInv, ServingCollectionExists
<1>7. DeltaInv'
  BY <1>1, <1>2 DEF IInv, DeltaInv
<1>8. ASSUME modelType = "RESET"
      PROVE  ResetInv'
  <2>1. /\ TopicInv /\ CollectionsInv
        /\ \A u \in Variant : /\ ServedInv(u) /\ ChosenInv(u) /\ JobInv(u)
                              /\ FirstInv(u) /\ WindowInv(u)
    BY <1>8 DEF IInv, ResetInv
  <2>2. Ordered(topic')
    <3>1. SUFFICES ASSUME NEW i \in Positions(topic'), NEW j \in Positions(topic'),
                          topic'[i].variant = topic'[j].variant,
                          topic'[i].version < topic'[j].version
                   PROVE  /\ Rank(topic'[j]) <= Rank(topic'[i])
                          /\ j < i => Rank(topic'[j]) < Rank(topic'[i])
      BY DEF Ordered
    <3>2. /\ i + 1 \in Positions(topic) /\ topic'[i] = topic[i + 1]
          /\ j + 1 \in Positions(topic) /\ topic'[j] = topic[j + 1]
          /\ j < i => j + 1 < i + 1
      <4>1. i \in Nat /\ j \in Nat
        BY <1>2
      <4>2. j < i => j + 1 < i + 1
        BY <4>1
      <4>3. QED
        BY <1>2, <4>2
    <3>3. PICK a \in Positions(topic), b \in Positions(topic) :
            topic'[i] = topic[a] /\ topic'[j] = topic[b] /\ (j < i => b < a)
      BY <3>2
    <3>4. /\ Rank(topic[b]) <= Rank(topic[a])
          /\ b < a => Rank(topic[b]) < Rank(topic[a])
      BY <2>1, <3>1, <3>3 DEF TopicInv, Ordered
    <3>5. QED
      BY <3>3, <3>4
  <2>3. Past(topic', Stored.readVersion, indexed)
    BY <1>2, <2>1 DEF TopicInv, Past
  <2>4. TopicInv'
    BY <1>1, <1>2, <2>1, <2>2, <2>3 DEF TopicInv
  <2>5. CollectionsInv'
    BY <1>1, <2>1 DEF CollectionsInv
  <2>6. ASSUME NEW u \in Variant
        PROVE  ServedInv(u)' /\ ChosenInv(u)' /\ JobInv(u)' /\ FirstInv(u)' /\ WindowInv(u)'
    <3>1. ServedInv(u)'
      BY <1>1, <2>1 DEF ServedInv
    <3>2. ChosenInv(u)'
      BY <1>1, <1>3, <2>1 DEF ChosenInv
    <3>3. JobInv(u)'
      BY <1>1, <1>3, <2>1 DEF JobInv
    <3>4. FirstInv(u)' /\ WindowInv(u)'
      BY <1>1, <1>3, <2>1 DEF FirstInv, WindowInv, Unindexed
    <3>5. QED
      BY <3>1, <3>2, <3>3, <3>4
  <2>7. QED
    BY <2>4, <2>5, <2>6 DEF ResetInv
<1>9. ResetInv'
  BY <1>1, <1>8 DEF ResetInv
<1>10. QED
  BY <1>4, <1>5, <1>6, <1>7, <1>9 DEF IInv

\* Both ways a message is handled are steps of the workflow, however often.
LEMMA HandledIs ==
  ASSUME IInv, topic # << >>, NEW m, m = Head(topic), m.state # Ended,
         NEW n \in 0..Len(Writes(m)), Write(m, n),
         NEW d \in {{}, Deletes(m)}, collections' = collections \ d, indexed' = indexed \ d,
         \/ topic' = topic
         \/ /\ n = Len(Writes(m))
            /\ topic' \in {Append(topic, NextMessage(m)), Append(Tail(topic), NextMessage(m))},
         UNCHANGED <<modelType, callVars, trigVars>>
  PROVE  \E nx, c, taken, sent : TopicStep(m, nx, c, d, taken, sent)
<1>1. topic \in Seq(Message) /\ m = topic[1]
  BY DEF IInv, TypeOK
<1>2. PICK nx : nx = NextMessage(m)
  OBVIOUS
<1>3. nx \in Message /\ m \in Message
  BY <1>1, <1>2, HeadIs
<1>4. PICK c \in Config :
        /\ Puts(views, views', c) /\ Wrote(Stored, c, m)
        /\ n = Len(Writes(m)) /\ m.state = "INDEXING_COMPLETED_WITH_RESET" =>
             c.readVersion[m.variant] = m.version
  BY <1>3, WriteIs, LocalAndStored
<1>5. PICK taken \in 0..1, sent \in BOOLEAN :
        /\ topic' \in Seq(Message) /\ Shifted(topic, topic', nx, taken, sent)
        /\ sent => n = Len(Writes(m))
  <2>1. CASE topic' = topic
    <3>1. topic' \in Seq(Message) /\ Shifted(topic, topic', nx, 0, FALSE)
      BY <1>1, <1>3, <2>1, ShiftedIs
    <3>2. 0 \in 0..1 /\ FALSE \in BOOLEAN
      OBVIOUS
    <3>3. QED
      BY <3>1, <3>2, Zenon
  <2>2. CASE n = Len(Writes(m)) /\ topic' = Append(topic, NextMessage(m))
    <3>1. topic' = Append(topic, nx)
      BY <1>2, <2>2
    <3>2. topic' \in Seq(Message) /\ Shifted(topic, topic', nx, 0, TRUE)
      BY <1>1, <1>3, <3>1, ShiftedIs
    <3>3. 0 \in 0..1 /\ TRUE \in BOOLEAN
      OBVIOUS
    <3>4. QED
      BY <2>2, <3>2, <3>3, Zenon
  <2>3. CASE n = Len(Writes(m)) /\ topic' = Append(Tail(topic), NextMessage(m))
    <3>1. topic' = Append(Tail(topic), nx)
      BY <1>2, <2>3
    <3>2. topic' \in Seq(Message) /\ Shifted(topic, topic', nx, 1, TRUE)
      BY <1>1, <1>3, <3>1, ShiftedIs
    <3>3. 1 \in 0..1 /\ TRUE \in BOOLEAN
      OBVIOUS
    <3>4. QED
      BY <2>3, <3>2, <3>3, Zenon
  <2>4. QED
    BY <2>1, <2>2, <2>3
<1>6. /\ modelType' = modelType /\ call' = call /\ job' = job /\ eofs' = eofs
      /\ triggers' = triggers /\ starting' = starting
  BY DEF callVars, trigVars
<1>7. sent /\ m.state = "INDEXING_COMPLETED_WITH_RESET" => c.readVersion[m.variant] = m.version
  BY <1>4, <1>5
<1>8. TopicStep(m, nx, c, d, taken, sent)
  BY <1>1, <1>2, <1>4, <1>5, <1>6, <1>7 DEF TopicStep
<1>9. QED
  BY <1>8

\* A step of the workflow takes the last message away, or is one of those.
LEMMA WorkflowStepIs ==
  ASSUME IInv, WorkflowStep
  PROVE  \/ /\ topic # << >> /\ topic' = Tail(topic)
            /\ UNCHANGED <<modelType, views, collections, indexed, callVars, trigVars>>
         \/ \E m, nx, c, d, taken, sent : TopicStep(m, nx, c, d, taken, sent)
<1>1. topic # << >> /\ UNCHANGED <<modelType, callVars, trigVars>>
  BY DEF WorkflowStep, Consume, ConsumeAgain
<1>2. PICK m : m = Head(topic)
  OBVIOUS
<1>3. Len(Writes(m)) \in Nat /\ Len(Writes(m)) \in 0..Len(Writes(m))
  <2>1. Writes(m) = << >> \/ Len(Writes(m)) = 3 \/ Len(Writes(m)) = 1
    BY DEF Writes
  <2>2. QED
    BY <2>1
<1>4. {} \in {{}, Deletes(m)} /\ Deletes(m) \in {{}, Deletes(m)}
  OBVIOUS
<1>5. CASE Consume
  <2>1. CASE m.state = Ended
    BY <1>1, <1>2, <1>5, <2>1 DEF Consume
  <2>2. CASE m.state # Ended
    <3>1. /\ Write(m, Len(Writes(m)))
          /\ collections' = collections \ Deletes(m) /\ indexed' = indexed \ Deletes(m)
          /\ topic' = Append(Tail(topic), NextMessage(m))
      BY <1>2, <1>5, <2>2 DEF Consume
    <3>2. \E nx, c, taken, sent : TopicStep(m, nx, c, Deletes(m), taken, sent)
      BY <1>1, <1>2, <1>3, <1>4, <2>2, <3>1, HandledIs
    <3>3. QED
      BY <3>2
  <2>3. QED
    BY <2>1, <2>2
<1>6. CASE ConsumeAgain
  <2>1. /\ m.state # Ended
        /\ \/ \E n \in 0..Len(Writes(m)) : Write(m, n) /\ UNCHANGED <<indexVars, topic>>
           \/ /\ Write(m, Len(Writes(m)))
              /\ collections' = collections \ Deletes(m)
              /\ indexed' = indexed \ Deletes(m)
              /\ topic' \in {topic, Append(topic, NextMessage(m))}
    BY <1>2, <1>6 DEF ConsumeAgain
  <2>2. CASE \E n \in 0..Len(Writes(m)) : Write(m, n) /\ UNCHANGED <<indexVars, topic>>
    <3>1. PICK n \in 0..Len(Writes(m)) : Write(m, n) /\ UNCHANGED <<indexVars, topic>>
      BY <2>2
    <3>2. collections' = collections \ {} /\ indexed' = indexed \ {} /\ topic' = topic
      BY <3>1 DEF indexVars
    <3>3. \E nx, c, taken, sent : TopicStep(m, nx, c, {}, taken, sent)
      BY <1>1, <1>2, <1>4, <2>1, <3>1, <3>2, HandledIs
    <3>4. QED
      BY <3>3
  <2>3. CASE /\ Write(m, Len(Writes(m)))
             /\ collections' = collections \ Deletes(m)
             /\ indexed' = indexed \ Deletes(m)
             /\ topic' \in {topic, Append(topic, NextMessage(m))}
    <3>1. \E nx, c, taken, sent : TopicStep(m, nx, c, Deletes(m), taken, sent)
      BY <1>1, <1>2, <1>3, <1>4, <2>1, <2>3, HandledIs
    <3>2. QED
      BY <3>1
  <2>4. QED
    BY <2>1, <2>2, <2>3
<1>7. QED
  BY <1>5, <1>6 DEF WorkflowStep

LEMMA WorkflowStepKeeps == ASSUME IInv, WorkflowStep PROVE IInv'
<1>1. CASE /\ topic # << >> /\ topic' = Tail(topic)
           /\ UNCHANGED <<modelType, views, collections, indexed, callVars, trigVars>>
  BY <1>1, LastMessageKeeps
<1>2. CASE \E m, nx, c, d, taken, sent : TopicStep(m, nx, c, d, taken, sent)
  BY <1>2, TopicStepKeeps
<1>3. QED
  BY <1>1, <1>2, WorkflowStepIs

-----------------------------------------------------------------------------
(* The theorems. *)

LEMMA InitIsInv == ASSUME Init PROVE IInv
<1>1. PICK c : views = <<c>> /\ c = [partition    |-> [p \in Partition |-> 0],
                                     emb          |-> 1,
                                     state        |-> [v \in Variant |-> "COMPLETED"],
                                     onboarded    |-> [v \in Variant |-> FALSE],
                                     readVersion  |-> [v \in Variant |-> 1],
                                     writeVersion |-> [v \in Variant |-> 1],
                                     embRead      |-> [v \in Variant |-> 1],
                                     embWrite     |-> [v \in Variant |-> 1]]
  BY DEF Init
<1>2. /\ c \in Config
      /\ \A v \in Variant : c.readVersion[v] = 1 /\ c.onboarded[v] = FALSE
      /\ \A q \in Partition : c.partition[q] = 0
  <2>1. /\ [v \in Variant |-> "COMPLETED"] \in [Variant -> State]
        /\ [v \in Variant |-> FALSE] \in [Variant -> BOOLEAN]
        /\ [v \in Variant |-> 1] \in [Variant -> Nat]
        /\ [p \in Partition |-> 0] \in [Partition -> 0..1]
    BY DEF State
  <2>2. c \in Config
    BY <1>1, <2>1 DEF Config
  <2>3. QED
    BY <1>1, <2>2
<1>3. /\ views \in Seq(Config) /\ Len(views) = 1 /\ views[1] = c /\ Head(views) = c
      /\ \A i \in Positions(views) : i = 1
  <2>1. <<c>> \in Seq(Config) /\ Len(<<c>>) = 1 /\ <<c>>[1] = c /\ Head(<<c>>) = c
    BY <1>2
  <2>2. QED
    BY <1>1, <2>1 DEF Positions
<1>4. Local = c /\ Stored = c
  BY <1>3 DEF Local, Stored
<1>5. /\ modelType \in ModelTypes /\ collections = {} /\ indexed = {} /\ call = Idle
      /\ job = NoJob /\ eofs = {} /\ starting = {} /\ topic = << >>
      /\ triggers = [p \in Partition |-> [at |-> "none", behind |-> 0]]
  BY DEF Init
<1>6. /\ call \in Calls /\ call.at = "idle" /\ call.versions = NoJob.versions
      /\ NoJob \in [versions : [Variant -> Nat], emb : Nat]
      /\ \A v \in Variant : call.versions[v] = 0 /\ job.versions[v] = 0
      /\ triggers \in [Partition -> [at : {"none", "sleeping", "returned"}, behind : Nat]]
      /\ \A p \in Partition : triggers[p].at = "none"
  BY <1>5 DEF Idle, NoJob, Calls
<1>7. topic \in Seq(Message) /\ Positions(topic) = {}
  <2>1. << >> \in Seq(Message) /\ Len(<< >>) = 0
    OBVIOUS
  <2>2. QED
    BY <1>5, <2>1 DEF Positions
<1>8. TypeOK
  <2>1. Len(views) \in 1..MaxLag + 1
    BY <1>3, IndexingAssumption
  <2>2. QED
    BY <1>3, <1>5, <1>6, <1>7, <2>1 DEF TypeOK, Calls
<1>9. ViewsGrow(views)
  BY <1>2, <1>3 DEF ViewsGrow
<1>10. WellFormed(topic) /\ StartsInv /\ CallInv /\ EofInv
  <2>1. WellFormed(topic) /\ StartsInv
    BY <1>5, <1>7 DEF WellFormed, StartsInv
  <2>2. CallInv /\ EofInv
    BY <1>2, <1>4, <1>5, <1>6 DEF CallInv, EofInv
  <2>3. QED
    BY <2>1, <2>2
<1>11. ServingCollectionExists /\ DeltaInv
  BY <1>2, <1>3, <1>4, <1>7 DEF ServingCollectionExists, DeltaInv
<1>12. ResetInv
  <2>1. TopicInv /\ CollectionsInv
    BY <1>5, <1>7 DEF TopicInv, CollectionsInv, Ordered, Past
  <2>2. ASSUME NEW v \in Variant
        PROVE  ServedInv(v) /\ ChosenInv(v) /\ JobInv(v) /\ FirstInv(v) /\ WindowInv(v)
    <3>1. Top(Local, v) = 1 /\ Stored.readVersion[v] = 1
      BY <1>2, <1>4 DEF Top
    <3>2. ServedInv(v)
      BY <3>1 DEF ServedInv
    <3>3. ChosenInv(v) /\ JobInv(v)
      BY <1>6 DEF ChosenInv, JobInv
    <3>4. FirstInv(v) /\ WindowInv(v)
      BY <1>5, <1>6, <1>7 DEF FirstInv, WindowInv, Carries
    <3>5. QED
      BY <3>2, <3>3, <3>4
  <2>3. QED
    BY <2>1, <2>2 DEF ResetInv
<1>13. QED
  BY <1>8, <1>9, <1>10, <1>11, <1>12 DEF IInv

LEMMA NextKeeps == ASSUME IInv, [Next]_vars PROVE IInv'
<1>1. CASE Deliver
  BY <1>1, DeliverKeeps
<1>2. CASE ProcessModel
  BY <1>2, ProcessModelKeeps
<1>3. CASE CallStep
  <2>1. CASE ResetAllPartitions
    BY <2>1, ResetAllPartitionsKeeps
  <2>2. CASE PrepareEmbeddingStoreVersion
    BY <2>2, PrepareKeeps
  <2>3. CASE Respond
    BY <2>3, RespondKeeps
  <2>4. CASE CallFails
    BY <2>4, CallFailsKeeps
  <2>5. ASSUME NEW v \in Variant,
               ProcessVariant(v) \/ ProcessVariantConflicts(v) \/ ProcessVariantFails(v)
        PROVE  IInv'
    BY <2>5, ProcessVariantKeeps, ProcessVariantConflictsKeeps, ProcessVariantFailsKeeps
  <2>6. QED
    BY <1>3, <2>1, <2>2, <2>3, <2>4, <2>5 DEF CallStep, CallProceeds
<1>4. CASE TriggerStep
  <2>1. ASSUME NEW p \in Partition, ReachEof(p) \/ LoseTrigger(p) \/ Wake(p)
        PROVE  IInv'
    BY <2>1, ReachEofKeeps, LoseTriggerKeeps, WakeKeeps
  <2>2. ASSUME NEW s \in starting, StartWorkflow(s) \/ LoseStart(s)
        PROVE  IInv'
    BY <2>2, StartWorkflowKeeps, LoseStartKeeps
  <2>3. QED
    BY <1>4, <2>1, <2>2 DEF TriggerStep
<1>5. CASE WorkflowStep
  BY <1>5, WorkflowStepKeeps
<1>6. CASE Index
  BY <1>6, IndexKeeps
<1>7. CASE UNCHANGED vars
  <2>1. UNCHANGED <<modelType, views, collections, call, job, trigVars, topic>>
    BY <1>7 DEF vars, indexVars, callVars, topicVars
  <2>2. indexed' = indexed /\ indexed \subseteq collections
    BY <1>7 DEF vars, indexVars, IInv, TypeOK
  <2>3. QED
    BY <2>1, <2>2, StutterKeeps
<1>8. QED
  BY <1>1, <1>2, <1>3, <1>4, <1>5, <1>6, <1>7 DEF Next, Over

LEMMA Invariance == Spec => []IInv
<1>1. Init => IInv
  BY InitIsInv
<1>2. IInv /\ [Next]_vars => IInv'
  BY NextKeeps
<1>3. QED
  BY <1>1, <1>2, PTL DEF Spec

\* The configuration, the calls, the triggers and the messages have their types, and
\* the admin's copy never lags by more than the watch has to deliver.
THEOREM TypeAlwaysOK == Spec => []TypeOK
<1>1. IInv => TypeOK
  BY DEF IInv
<1>2. QED
  BY <1>1, Invariance, PTL

\* However steps of the workflow are repeated, overtaken or lost, what an onboarded
\* variant serves was created and not deleted (qdrant.go:326-466,
\* model_state_machine.go:205-245).
THEOREM ServingCollectionAlwaysExists == Spec => []ServingCollectionExists
<1>1. IInv => ServingCollectionExists
  BY DEF IInv
<1>2. QED
  BY <1>1, Invariance, PTL

\* A RESET job of a variant that was onboarded before takes its version, one above 1,
\* into service only after the job reached every partition's EOF and its collection was
\* indexed (qdrant.go:65-75, model_state_machine.go:132-203).  Of the job that onboards
\* the variant it says nothing: version 1 is read from the start (qdrant.go:413-440).
THEOREM ServedAlwaysReady == Spec => []ServedIsReady
<1>1. ASSUME IInv PROVE ServedIsReady
  <2>1. SUFFICES ASSUME modelType = "RESET", NEW v \in Variant, job.versions[v] > 1,
                        Stored.readVersion[v] = job.versions[v]
                 PROVE  eofs = Partition /\ <<v, job.versions[v]>> \in indexed
    BY DEF ServedIsReady
  <2>2. ServedInv(v) /\ JobInv(v) /\ job.versions[v] \in Nat
    BY <1>1, <2>1 DEF IInv, ResetInv, TypeOK
  <2>3. QED
    BY <2>1, <2>2 DEF ServedInv, JobInv
<1>2. QED
  BY <1>1, Invariance, PTL

\* How a step changes the views: not, by a delivery, or by one write.
LEMMA ViewsStep ==
  ASSUME IInv, [Next]_vars
  PROVE  \/ views' = views
         \/ Len(views) > 1 /\ views' = Tail(views)
         \/ \E conf : views' = Append(views, conf)
<1>1. CASE Deliver
  BY <1>1 DEF Deliver
<1>2. CASE ProcessModel \/ Index
  BY <1>2 DEF ProcessModel, Index
<1>3. CASE CallStep
  <2>1. CASE ResetAllPartitions \/ PrepareEmbeddingStoreVersion \/ Respond \/ CallFails
    BY <2>1 DEF ResetAllPartitions, PrepareEmbeddingStoreVersion, Respond, CallFails, Set
  <2>2. ASSUME NEW v \in Variant,
               ProcessVariant(v) \/ ProcessVariantConflicts(v) \/ ProcessVariantFails(v)
        PROVE  \E conf : views' = Append(views, conf)
    BY <2>2 DEF ProcessVariant, ProcessVariantConflicts, ProcessVariantFails, Set
  <2>3. QED
    BY <1>3, <2>1, <2>2 DEF CallStep, CallProceeds
<1>4. ASSUME NEW m, NEW n, Write(m, n)
      PROVE  views' = views \/ \E conf : views' = Append(views, conf)
  BY <1>4 DEF Write, Set
<1>5. CASE TriggerStep
  <2>1. ASSUME NEW p \in Partition, ReachEof(p) \/ LoseTrigger(p) \/ Wake(p)
        PROVE  views' = views \/ \E conf : views' = Append(views, conf)
    BY <2>1 DEF ReachEof, LoseTrigger, Wake, Set
  <2>2. ASSUME NEW s \in starting, StartWorkflow(s) \/ LoseStart(s)
        PROVE  views' = views \/ \E conf : views' = Append(views, conf)
    BY <1>4, <2>2 DEF StartWorkflow, LoseStart
  <2>3. QED
    BY <1>5, <2>1, <2>2 DEF TriggerStep
<1>6. CASE WorkflowStep
  <2>1. CASE views' = views
    BY <2>1
  <2>2. ASSUME NEW m, NEW nx, NEW c, NEW d, NEW taken, NEW sent,
               TopicStep(m, nx, c, d, taken, sent)
        PROVE  views' = views \/ \E conf : views' = Append(views, conf)
    BY <2>2 DEF TopicStep, Puts
  <2>3. QED
    BY <1>6, <2>1, <2>2, WorkflowStepIs
<1>7. CASE UNCHANGED vars
  BY <1>7 DEF vars
<1>8. QED
  BY <1>1, <1>2, <1>3, <1>5, <1>6, <1>7 DEF Next, Over

\* No step takes a variant back to an older version, whichever duplicate of a message
\* writes the read version last (model_state_machine.go:205-221).
THEOREM NeverRegresses == Spec => ReadNeverRegresses
<1>1. ASSUME IInv, IInv', [Next]_vars
      PROVE  \A v \in Variant : Stored.readVersion[v] <= Stored'.readVersion[v]
  <2>1. /\ IsViews(views) /\ Len(views) \in Nat /\ Len(views) \in Positions(views)
        /\ views \in Seq(Config) /\ Stored = views[Len(views)] /\ Stored' = views'[Len(views')]
        /\ \A v \in Variant : Stored.readVersion[v] \in Nat
    BY <1>1, LocalAndStored, ViewsAre DEF IsViews, Stored
  <2>2. CASE views' = views
    BY <2>1, <2>2
  <2>3. CASE Len(views) > 1 /\ views' = Tail(views)
    <3>1. views'[Len(views')] = views[Len(views)]
      BY <2>1, <2>3
    <3>2. QED
      BY <2>1, <3>1
  <2>4. CASE \E conf : views' = Append(views, conf)
    <3>1. PICK conf : views' = Append(views, conf)
      BY <2>4
    <3>2. /\ Len(views') = Len(views) + 1 /\ views'[Len(views)] = views[Len(views)]
      BY <2>1, <3>1 DEF Positions
    <3>3. Len(views) \in Positions(views') /\ Len(views') \in Positions(views')
          /\ Len(views) <= Len(views')
      BY <2>1, <3>2 DEF Positions
    <3>4. \A v \in Variant :
            views'[Len(views)].readVersion[v] <= views'[Len(views')].readVersion[v]
      BY <1>1, <3>3 DEF IInv, ViewsGrow
    <3>5. QED
      BY <2>1, <3>2, <3>4
  <2>5. QED
    BY <1>1, <2>2, <2>3, <2>4, ViewsStep
<1>2. QED
  BY <1>1, Invariance, PTL DEF Spec, ReadNeverRegresses

=============================================================================
