--------------------------- MODULE PredatorProofs ---------------------------
(***************************************************************************)
(* Theorems about PredatorApproval and PredatorValidation, for every       *)
(* number of requests, models, approvals, validations, locks and faults.   *)
(***************************************************************************)
EXTENDS PredatorValidation, FiniteSetTheorems, SequenceTheorems, TLAPS

(* The inductive invariant of the approvals.  A row, in the table or as an  *)
(* approval or a validation fetched it, is active only before its request   *)
(* ended, is Approved only past the database stage, and past that stage     *)
(* only when the database has what the request asked for.                   *)
Own(g) == {i \in DOMAIN configs : configs[i].by = g}

Recorded(g) ==
    /\ request[g].type \in Created => {configs[i].model : i \in Own(g)} = request[g].models
    /\ \A i \in request[g].ids : ~configs[i].active

CopyInv(g, copy) ==
    /\ copy.active => copy.status \notin Terminal
    /\ copy.status = "Approved" => copy.stage = "Restart Deployable"
    /\ copy.stage = "Restart Deployable" => Recorded(g)

RequestInv(g) ==
    /\ IF request[g] = NoRequest THEN row[g] = NoRow ELSE request[g].type \in Types
    /\ request[g].type \notin Created => Own(g) = {}
    /\ \A i \in Own(g) : configs[i].model \in request[g].models
    /\ request[g].type # "Delete" => request[g].ids = {}
    /\ CopyInv(g, row[g])

(* Where an approval is fits its request; while its copy is fresh its       *)
(* request has not ended, or it ended it and only undoes or repeats what it *)
(* did.                                                                     *)
Building == {"copy source", "copy live", "populate", "fail copy", "fail db", "revert"}
Past == {"restart", "fail restart", "approve"}
Undoing == {"revert", "move back"}

TypeAt(pc) ==
    CASE pc \in {"exist", "copy source", "populate"} -> Created
      [] pc \in {"copy live", "fail copy"} -> Created \union {"Edit"}
      [] pc \in {"update", "approve"} -> {"Edit"}
      [] pc \in {"move", "unregister", "fail move", "move back"} -> {"Delete"}
      [] OTHER -> Types

Fits(f) ==
    /\ f.g \in Groups /\ request[f.g] # NoRequest
    /\ request[f.g].type \in TypeAt(f.pc)
    /\ CopyInv(f.g, f.mem)
    /\ f.pc \in {"fail restart", "approve"} => f.mem.stage = "Restart Deployable"
    /\ f.pc = "approve" => f.mem.status = "Approved"

Repeats(f) == f.pc = "approve" /\ row[f.g] = [f.mem EXCEPT !.valid = row[f.g].valid]

FreshInv(f) ==
    f.fresh => row[f.g].status \notin Terminal \/ f.pc \in Undoing \/ Repeats(f)

(* What an approval has copied or moved is its models'; it forgets that     *)
(* before the restart.                                                      *)
MovedInv(f) ==
    /\ f.todo \subseteq request[f.g].models /\ \A x \in f.moved : x[2] \in request[f.g].models
    /\ \/ f.moved = {}
       \/ /\ f.pc \in {"copy source", "copy live", "move"}
          /\ f.mem.stage \in {"Pending", "Clone To Bucket"}
       \/ f.pc = "populate" /\ f.mem.stage = "DB Population"
       \/ f.pc \in Undoing \union {"fail copy", "fail move", "fail db", "update"}

FlowInv(f) == Fits(f) /\ FreshInv(f) /\ MovedInv(f)

(* Two approvals are on one model only if that is written down, and until   *)
(* the one that creates it is in the database the model has no config.      *)
Alone ==
    \A v, w \in Busy : v # w => ModelsOf(v) \intersect ModelsOf(w) \subseteq unchecked

NoConfigYet ==
    \A w \in Busy : request[flow[w].g].type \in Created /\ flow[w].pc \in Building
        => \A m \in ModelsOf(w) \ unchecked : ActiveConfigs(m) = {}

(* A request that changed the configs is still at work, or has ended.       *)
Finished(g) ==
    \/ g \in interrupted \union overtaken
    \/ row[g].status \in {"Approved", "Failed"}
    \/ \E w \in Busy : flow[w].g = g /\ flow[w].pc \in Past

Registered == \A g \in Groups : Own(g) = {} \/ Finished(g)

ApprovalInv ==
    /\ ApprovalTypeOK
    /\ \A g \in Groups : RequestInv(g)
    /\ \A w \in Busy : FlowInv(flow[w])
    /\ Alone
    /\ NoConfigYet
    /\ OneConfigPerModel
    /\ Registered

(* The inductive invariant of the validations.  The locks of those at work  *)
(* differ, and one that expired under its worker is written down; with none *)
(* written down one validation is at work and the test deployable holds its *)
(* request's models from the copy on.                                       *)
LockInv ==
    /\ \A v \in Working : /\ val[v].lock \in 1 .. locks
                          /\ val[v].lock \in expired => val[v].lock \in outlived
    /\ \A u, v \in Working : val[u].lock = val[v].lock => u = v
    /\ \A v \in Validators \ Working : val[v].lock = 0

Deployed(v) ==
    /\ val[v].pc = "restart" => val[v].g \in temp
    /\ val[v].pc = "check" => val[v].g \in running
    /\ val[v].pc \in {"read", "write"} /\ val[v].ok => val[v].g \in tested

TestedFor(g, copy) == copy.valid /\ request[g].type # "Delete" => g \in tested

TestedInv ==
    outlived = {} =>
        /\ \A v \in Working : Deployed(v)
        /\ \A v \in Validating : TestedFor(val[v].g, val[v].copy)
        /\ \A w \in Busy : TestedFor(flow[w].g, flow[w].mem)
        /\ \A g \in Groups : TestedFor(g, row[g])

ValidatorInv(v) ==
    /\ val[v].g \in Groups /\ request[val[v].g] # NoRequest
    /\ CopyInv(val[v].g, val[v].copy)
    /\ val[v].fresh => row[val[v].g].status \notin Terminal

IInv ==
    /\ TypeOK /\ ApprovalInv
    /\ \A v \in Validating : ValidatorInv(v)
    /\ LockInv /\ LockOfWorkerStands /\ TestedInv

-----------------------------------------------------------------------------
(* The operators.                                                           *)

\* A set as a sequence: each element once.
LEMMA SetToSeqIs ==
  ASSUME NEW S, IsFiniteSet(S)
  PROVE  /\ SetToSeq(S) \in Seq(S) /\ IsInjective(SetToSeq(S))
         /\ \A x \in S : \E i \in DOMAIN SetToSeq(S) : SetToSeq(S)[i] = x
<1>1. PICK n \in Nat : ExistsBijection(1..n, S)
  BY FS_NatBijection
<1>2. Cardinality(S) = n
  BY <1>1, FS_CountingElements
<1>3. \E f \in [1..n -> S] : IsInjective(f)
  BY <1>1 DEF ExistsBijection, Bijection, Injection, IsInjective
<1>4. SetToSeq(S) \in [1..n -> S] /\ IsInjective(SetToSeq(S))
  BY <1>2, <1>3 DEF SetToSeq
<1>5. \A x \in S : \E i \in 1..n : SetToSeq(S)[i] = x
  <2>1. IsFiniteSet(1..n) /\ Cardinality(1..n) = n
    BY FS_Interval, 1 \in Int, n \in Int
  <2>2. SetToSeq(S) \in Injection(1..n, S)
    BY <1>4 DEF Injection, IsInjective
  <2>3. SetToSeq(S) \in Surjection(1..n, S)
    BY <1>2, <2>1, <2>2, FS_Injection
  <2>4. QED
    BY <2>3 DEF Surjection
<1>6. QED
  BY <1>4, <1>5

\* The configs that a request registers, after those that are there.
NewConfigs(g, models) == {[model |-> m, by |-> g, meta |-> g, active |-> TRUE] : m \in models}

LEMMA NewConfigsAre ==
  ASSUME NEW g \in Groups \union {Base}, NEW models \in SUBSET Models
  PROVE  /\ SetToSeq(NewConfigs(g, models)) \in Seq(Config)
         /\ \A i \in DOMAIN SetToSeq(NewConfigs(g, models)) :
              LET c == SetToSeq(NewConfigs(g, models))[i]
              IN  c.model \in models /\ c.by = g /\ c.meta = g /\ c.active
         /\ \A m \in models : \E i \in DOMAIN SetToSeq(NewConfigs(g, models)) :
              SetToSeq(NewConfigs(g, models))[i].model = m
         /\ \A i, j \in DOMAIN SetToSeq(NewConfigs(g, models)) :
              SetToSeq(NewConfigs(g, models))[i].model = SetToSeq(NewConfigs(g, models))[j].model => i = j
<1> DEFINE S == NewConfigs(g, models)
           q == SetToSeq(S)
<1>1. IsFiniteSet(S)
  <2>1. IsFiniteSet(models)
    BY ApprovalAssumption, FS_Subset
  <2> DEFINE f == [m \in models |-> [model |-> m, by |-> g, meta |-> g, active |-> TRUE]]
  <2>2. f \in Surjection(models, S)
    BY DEF Surjection, NewConfigs
  <2>3. QED
    BY <2>1, <2>2, FS_Surjection
<1>2. /\ q \in Seq(S) /\ IsInjective(q)
      /\ \A x \in S : \E i \in DOMAIN q : q[i] = x
  BY <1>1, SetToSeqIs
<1>0. \A c \in S : \E m \in models : c = [model |-> m, by |-> g, meta |-> g, active |-> TRUE]
  BY DEF NewConfigs
<1> HIDE DEF S
<1>3. S \subseteq Config /\ \A c \in S : c.model \in models /\ c.by = g /\ c.meta = g /\ c.active
  <2>1. SUFFICES ASSUME NEW c \in S
                 PROVE  c \in Config /\ c.model \in models /\ c.by = g /\ c.meta = g /\ c.active
    OBVIOUS
  <2>2. PICK m \in models : c = [model |-> m, by |-> g, meta |-> g, active |-> TRUE]
    BY <1>0
  <2>3. QED
    BY <2>2 DEF Config
<1>4. \A c, d \in S : c.model = d.model => c = d
  <2>1. SUFFICES ASSUME NEW c \in S, NEW d \in S, c.model = d.model PROVE c = d
    OBVIOUS
  <2>2. PICK m \in models : c = [model |-> m, by |-> g, meta |-> g, active |-> TRUE]
    BY <1>0
  <2>3. PICK n \in models : d = [model |-> n, by |-> g, meta |-> g, active |-> TRUE]
    BY <1>0
  <2>4. QED
    BY <2>1, <2>2, <2>3
<1>5. \A m \in models : \E c \in S : c.model = m
  <2>1. \A m \in models : [model |-> m, by |-> g, meta |-> g, active |-> TRUE] \in S
    BY DEF S, NewConfigs
  <2>2. QED
    BY <2>1
<1> HIDE DEF q, S
<1>6. \A i \in DOMAIN q : q[i] \in S
  BY <1>2
<1>7. q \in Seq(Config)
  BY <1>2, <1>3
<1>8. \A i, j \in DOMAIN q : q[i].model = q[j].model => i = j
  BY <1>2, <1>4, <1>6 DEF IsInjective
<1>9. \A m \in models : \E i \in DOMAIN q : q[i].model = m
  BY <1>2, <1>5
<1>10. QED
  BY <1>3, <1>6, <1>7, <1>8, <1>9 DEF q, S

\* What follows the configs that are there.
LEMMA AppendedAre ==
  ASSUME NEW S, NEW p \in Seq(S), NEW q \in Seq(S)
  PROVE  /\ p \o q \in Seq(S) /\ Len(p) \in Nat /\ DOMAIN p = 1..Len(p) /\ DOMAIN q = 1..Len(q) /\ Len(q) \in Nat
         /\ DOMAIN (p \o q) = 1..Len(p) + Len(q)
         /\ \A i \in DOMAIN p : i \in DOMAIN (p \o q) /\ (p \o q)[i] = p[i]
         /\ \A i \in DOMAIN q : Len(p) + i \in DOMAIN (p \o q) /\ (p \o q)[Len(p) + i] = q[i]
         /\ \A i \in DOMAIN (p \o q) \ DOMAIN p : i - Len(p) \in DOMAIN q /\ (p \o q)[i] = q[i - Len(p)]
  OBVIOUS

LEMMA MarkedIs ==
  ASSUME NEW mem \in Row, NEW status \in {"In Progress"} \union Terminal,
         NEW stage \in {"Pending", "Clone To Bucket", "DB Population", "Restart Deployable"}
  PROVE  /\ Marked(mem, status, stage) \in Row
         /\ Marked(mem, status, stage).status = status /\ Marked(mem, status, stage).stage = stage
         /\ Marked(mem, status, stage).active = (mem.active /\ status \notin Terminal)
         /\ Marked(mem, status, stage).valid = mem.valid
  BY DEF Marked, Row

LEMMA RowIs ==
  ASSUME NEW r \in Row, NEW b \in BOOLEAN
  PROVE  /\ [r EXCEPT !.valid = b] \in Row
         /\ [r EXCEPT !.valid = b].valid = b /\ [r EXCEPT !.valid = b].status = r.status
         /\ [r EXCEPT !.valid = b].stage = r.stage /\ [r EXCEPT !.valid = b].active = r.active
         /\ r.valid \in BOOLEAN /\ r.active \in BOOLEAN
  BY DEF Row

LEMMA ConstantsAre == Base \notin Groups /\ Idle \in FlowState /\ Idle.pc = "idle" /\ NoRow \in Row
  BY ApprovalAssumption DEF Idle, NoRow, FlowState, Pcs, Row

LEMMA IdleIs == [Idle EXCEPT !.mem = NoRow] = Idle /\ [Idle EXCEPT !.fresh = FALSE] = Idle
<1>1. Idle \in FlowState /\ Idle.mem = NoRow /\ Idle.fresh = FALSE
  BY ConstantsAre DEF Idle
<1>2. \A f \in FlowState : [f EXCEPT !.mem = f.mem] = f /\ [f EXCEPT !.fresh = f.fresh] = f
  BY DEF FlowState
<1>3. QED
  BY <1>1, <1>2

-----------------------------------------------------------------------------
(* The shapes that a step of an approval has.  It goes on, or is over,      *)
(* without writing its row ...                                              *)
Moves(w, s) ==
    /\ s \in FlowState /\ flow' = [flow EXCEPT ![w] = s]
    /\ s = Idle \/ (s.pc # "idle" /\ s.g = flow[w].g /\ s.fresh = flow[w].fresh)
    /\ UNCHANGED <<request, row, overtaken>>
    /\ interrupted' \in {interrupted, interrupted \union {flow[w].g}}

(* ... or writes r to it, and every other copy is old.                      *)
Writes(w, r, s) ==
    /\ s \in FlowState /\ r \in Row
    /\ row' = [row EXCEPT ![flow[w].g] = r]
    /\ flow' = FlowsAfter(w, s)
    /\ s = Idle \/ (s.pc # "idle" /\ s.g = flow[w].g)
    /\ overtaken' = IF flow[w].fresh THEN overtaken ELSE overtaken \union {flow[w].g}
    /\ UNCHANGED <<request, interrupted>>

(* Configs are only ever added, by requests that create, and retired.       *)
ConfigsStay ==
    /\ configs' \in Seq(Config) /\ DOMAIN configs \subseteq DOMAIN configs'
    /\ \A i \in DOMAIN configs :
          /\ configs'[i].model = configs[i].model /\ configs'[i].by = configs[i].by
          /\ configs'[i].active => configs[i].active
    /\ \A i \in DOMAIN configs' \ DOMAIN configs :
          /\ request[configs'[i].by].type \in Created
          /\ configs'[i].model \in request[configs'[i].by].models

BoundsStay ==
    /\ files' \in [Places -> [Models -> Folder]]
    /\ starts' \in 0 .. MaxStarts /\ faults' \in 0 .. MaxFaults
    /\ unchecked' \subseteq Models /\ unchecked \subseteq unchecked'

LEMMA BusyIs ==
  ASSUME ApprovalInv, NEW w \in Busy
  PROVE  /\ w \in Workers /\ flow[w] \in FlowState /\ flow[w].pc # "idle" /\ flow[w].g \in Groups
         /\ flow[w].mem \in Row /\ FlowInv(flow[w]) /\ flow[w].fresh \in BOOLEAN
         /\ request[flow[w].g].models \subseteq Models /\ row[flow[w].g] \in Row
         /\ RequestInv(flow[w].g) /\ flow[w].moved \subseteq Places \X Models /\ flow[w].pc \in Pcs
<1>1. flow[w] \in FlowState /\ FlowInv(flow[w]) /\ flow[w].pc # "idle" /\ w \in Workers
  BY DEF ApprovalInv, ApprovalTypeOK, Busy
<1>2. flow[w].g \in Groups
  BY <1>1 DEF FlowInv, Fits
<1>3. request[flow[w].g].models \subseteq Models /\ row[flow[w].g] \in Row /\ RequestInv(flow[w].g)
  BY <1>2 DEF ApprovalInv, ApprovalTypeOK
<1>4. QED
  BY <1>1, <1>2, <1>3 DEF FlowState

LEMMA AfterMoves ==
  ASSUME ApprovalInv, NEW w \in Busy, NEW s, Moves(w, s)
  PROVE  /\ flow'[w] = s /\ flow' \in [Workers -> FlowState]
         /\ \A v \in Workers \ {w} : flow'[v] = flow[v]
         /\ Busy' = IF s = Idle THEN Busy \ {w} ELSE Busy
<1>1. flow \in [Workers -> FlowState] /\ w \in Workers
  BY DEF ApprovalInv, ApprovalTypeOK, Busy
<1>2. flow'[w] = s /\ flow' \in [Workers -> FlowState] /\ \A v \in Workers \ {w} : flow'[v] = flow[v]
  BY <1>1 DEF Moves
<1>3. s = Idle <=> s.pc = "idle"
  BY ConstantsAre DEF Moves
<1>4. QED
  BY <1>2, <1>3 DEF Busy

LEMMA AfterWrites ==
  ASSUME ApprovalInv, NEW w \in Busy, NEW r, NEW s, Writes(w, r, s)
  PROVE  /\ flow'[w] = s /\ flow' \in [Workers -> FlowState]
         /\ \A v \in Workers \ {w} :
              /\ flow'[v].pc = flow[v].pc /\ flow'[v].g = flow[v].g /\ flow'[v].mem = flow[v].mem
              /\ flow'[v].todo = flow[v].todo /\ flow'[v].moved = flow[v].moved
              /\ flow'[v].fresh => flow[v].fresh
              /\ v \in Busy /\ flow[v].g = flow[w].g => ~flow'[v].fresh
              /\ flow[v].g # flow[w].g => flow'[v] = flow[v]
         /\ Busy' = IF s = Idle THEN Busy \ {w} ELSE Busy
         /\ row' \in [Groups -> Row] /\ row'[flow[w].g] = r
         /\ \A g \in Groups \ {flow[w].g} : row'[g] = row[g]
         /\ overtaken \subseteq overtaken'
         /\ s # Idle => s.pc # "idle" /\ s.g = flow[w].g /\ w \in Busy'
<1>1. flow \in [Workers -> FlowState] /\ w \in Workers /\ row \in [Groups -> Row] /\ flow[w].g \in Groups
  BY BusyIs DEF ApprovalInv, ApprovalTypeOK
<1>2. flow' = [v \in Workers |-> IF v = w THEN s
                                 ELSE IF v \in Busy /\ flow[v].g = flow[w].g
                                      THEN [flow[v] EXCEPT !.fresh = FALSE] ELSE flow[v]]
  BY DEF Writes, FlowsAfter
<1>3. \A f \in FlowState : /\ [f EXCEPT !.fresh = FALSE] \in FlowState
                           /\ [f EXCEPT !.fresh = FALSE].pc = f.pc /\ [f EXCEPT !.fresh = FALSE].g = f.g
                           /\ [f EXCEPT !.fresh = FALSE].mem = f.mem /\ [f EXCEPT !.fresh = FALSE].todo = f.todo
                           /\ [f EXCEPT !.fresh = FALSE].moved = f.moved /\ ~[f EXCEPT !.fresh = FALSE].fresh
  BY DEF FlowState
<1>4. flow'[w] = s /\ flow' \in [Workers -> FlowState]
  BY <1>1, <1>2, <1>3 DEF Writes
<1>5. ASSUME NEW v \in Workers \ {w}
      PROVE  /\ flow'[v].pc = flow[v].pc /\ flow'[v].g = flow[v].g /\ flow'[v].mem = flow[v].mem
             /\ flow'[v].todo = flow[v].todo /\ flow'[v].moved = flow[v].moved
             /\ flow'[v].fresh => flow[v].fresh
             /\ v \in Busy /\ flow[v].g = flow[w].g => ~flow'[v].fresh
             /\ flow[v].g # flow[w].g => flow'[v] = flow[v]
  BY <1>1, <1>2, <1>3
<1>6. Busy' = IF s = Idle THEN Busy \ {w} ELSE Busy
  <2>1. s = Idle <=> s.pc = "idle"
    BY ConstantsAre DEF Writes
  <2>2. QED
    BY <1>4, <1>5, <2>1 DEF Busy
<1>7. row' \in [Groups -> Row] /\ row'[flow[w].g] = r /\ \A g \in Groups \ {flow[w].g} : row'[g] = row[g]
  BY <1>1 DEF Writes
<1>8. s # Idle => s.pc # "idle" /\ s.g = flow[w].g
  BY DEF Writes
<1>9. overtaken \subseteq overtaken'
  BY DEF Writes
<1>10. QED
  BY <1>4, <1>5, <1>6, <1>7, <1>8, <1>9

-----------------------------------------------------------------------------
(* What stays under those shapes.                                           *)

LEMMA RecordedStays ==
  ASSUME ApprovalTypeOK, ConfigsStay, NEW g \in Groups, request'[g] = request[g], Recorded(g)
  PROVE  Recorded(g)'
<1>1. request[g].ids \subseteq DOMAIN configs
  BY DEF ApprovalTypeOK
<1>2. \A i \in request[g].ids : ~configs'[i].active
  BY <1>1 DEF Recorded, ConfigsStay
<1>3. ASSUME request[g].type \in Created
      PROVE  {configs'[i].model : i \in Own(g)'} = request[g].models
  <2>1. \A i \in Own(g)' : configs'[i].model \in request[g].models
    BY <1>3 DEF Recorded, ConfigsStay, Own
  <2>2. \A i \in Own(g) : i \in Own(g)' /\ configs'[i].model = configs[i].model
    BY DEF ConfigsStay, Own
  <2>3. QED
    BY <1>3, <2>1, <2>2 DEF Recorded
<1>4. QED
  BY <1>2, <1>3 DEF Recorded

LEMMA CopyStays ==
  ASSUME ApprovalTypeOK, ConfigsStay, NEW g \in Groups, request'[g] = request[g], NEW c, CopyInv(g, c)
  PROVE  CopyInv(g, c)'
  BY RecordedStays DEF CopyInv

LEMMA FitsStays ==
  ASSUME ApprovalTypeOK, ConfigsStay, request' = request, NEW f, Fits(f), MovedInv(f)
  PROVE  Fits(f)' /\ MovedInv(f)'
  BY CopyStays DEF Fits, MovedInv

\* A group's configs come from a request that creates.
LEMMA OwnStays ==
  ASSUME ConfigsStay, NEW g, RequestInv(g)
  PROVE  /\ request[g].type \notin Created => Own(g)' = {}
         /\ \A i \in Own(g)' : configs'[i].model \in request[g].models
  BY DEF ConfigsStay, Own, RequestInv

LEMMA ActiveStays ==
  ASSUME ConfigsStay, DOMAIN configs' = DOMAIN configs
  PROVE  /\ \A m \in Models : ActiveConfigs(m)' \subseteq ActiveConfigs(m)
         /\ \A g \in Groups : Own(g)' = Own(g)
  BY DEF ConfigsStay, ActiveConfigs, Own

LEMMA TypesStay ==
  ASSUME ApprovalTypeOK, ConfigsStay, BoundsStay, request' = request,
         row' \in [Groups -> Row], flow' \in [Workers -> FlowState],
         interrupted' \subseteq Groups, overtaken' \subseteq Groups
  PROVE  ApprovalTypeOK'
<1>1. request' \in [Groups -> [type : Types \union {"none"}, models : SUBSET Models, ids : SUBSET DOMAIN configs']]
  BY DEF ApprovalTypeOK, ConfigsStay
<1>2. QED
  BY <1>1 DEF ApprovalTypeOK, ConfigsStay, BoundsStay

\* What the invariant says of the others, when some of the old approvals are left.
LEMMA OthersStay ==
  ASSUME ApprovalInv, request' = request, unchecked \subseteq unchecked', Busy' \subseteq Busy,
         \A v \in Busy' : flow'[v].g = flow[v].g
  PROVE  Alone'
<1>1. \A v \in Busy' : ModelsOf(v)' = ModelsOf(v)
  BY DEF ModelsOf
<1>2. QED
  BY <1>1 DEF ApprovalInv, Alone

LEMMA FinishedMoves ==
  ASSUME ApprovalInv, NEW w \in Busy, NEW s, Moves(w, s),
         flow[w].pc \in Past => s.pc \in Past \/ flow[w].g \in interrupted',
         NEW g \in Groups, Finished(g)
  PROVE  Finished(g)'
<1>1. CASE g \in interrupted \union overtaken \/ row[g].status \in {"Approved", "Failed"}
  BY <1>1 DEF Moves, Finished
<1>2. ASSUME NEW v \in Busy, flow[v].g = g, flow[v].pc \in Past PROVE Finished(g)'
  <2>1. CASE v # w
    BY <1>2, <2>1, AfterMoves DEF Busy, Finished
  <2>2. CASE v = w
    <3>1. s.pc \in Past => s # Idle
      BY ConstantsAre DEF Past
    <3>2. CASE flow[w].g \in interrupted'
      BY <1>2, <2>2, <3>2 DEF Finished
    <3>3. CASE s.pc \in Past
      <4>1. s # Idle /\ s.g = g
        BY <1>2, <2>2, <3>1, <3>3 DEF Moves
      <4>2. w \in Busy' /\ flow'[w] = s
        BY <4>1, AfterMoves
      <4>3. QED
        BY <3>3, <4>1, <4>2 DEF Finished
    <3>4. QED
      BY <1>2, <2>2, <3>2, <3>3
  <2>3. QED
    BY <2>1, <2>2
<1>3. QED
  BY <1>1, <1>2 DEF Finished

LEMMA MovesKeeps ==
  ASSUME ApprovalInv, NEW w \in Busy, NEW s, Moves(w, s),
         ConfigsStay, DOMAIN configs' = DOMAIN configs, BoundsStay,
         s = Idle \/ (Fits(s) /\ MovedInv(s)),
         flow[w].pc \in Undoing => s = Idle \/ s.pc \in Undoing,
         flow[w].pc = "approve" => s = Idle,
         flow[w].pc \in Past => s.pc \in Past \/ flow[w].g \in interrupted',
         request[flow[w].g].type \in Created /\ s.pc \in Building /\ flow[w].pc \notin Building
           => \A m \in ModelsOf(w) \ unchecked' : ActiveConfigs(m) = {}
  PROVE  ApprovalInv'
<1>1. ApprovalTypeOK /\ request' = request /\ row' = row /\ overtaken' = overtaken /\ w \in Workers
  BY BusyIs DEF ApprovalInv, Moves
<1>2. ApprovalTypeOK'
  <2>1. interrupted' \subseteq Groups
    BY <1>1, BusyIs DEF Moves, ApprovalTypeOK
  <2>2. QED
    BY <1>1, <2>1, AfterMoves, TypesStay DEF ApprovalTypeOK
<1>3. ASSUME NEW g \in Groups PROVE RequestInv(g)'
  <2>1. RequestInv(g) /\ request'[g] = request[g] /\ row'[g] = row[g]
    BY <1>1 DEF ApprovalInv
  <2>2. PICK c : c = row[g]
    OBVIOUS
  <2>3. CopyInv(g, c)'
    BY <1>1, <2>1, <2>2, CopyStays DEF RequestInv
  <2>4. CopyInv(g, row[g])'
    BY <2>1, <2>2, <2>3 DEF CopyInv, Recorded, Own
  <2>5. QED
    BY <2>1, <2>4, OwnStays DEF RequestInv
<1>4. ASSUME NEW v \in Busy' PROVE FlowInv(flow[v])'
  <2>1. PICK f : f = flow'[v]
    OBVIOUS
  <2>2. CASE v # w
    <3>1. f = flow[v] /\ v \in Busy
      BY <2>1, <2>2, AfterMoves DEF Busy
    <3>2. FlowInv(f)
      BY <3>1 DEF ApprovalInv
    <3>3. Fits(f)' /\ MovedInv(f)'
      BY <1>1, <3>2, FitsStays DEF FlowInv
    <3>4. FreshInv(f)'
      BY <1>1, <3>2 DEF FlowInv, FreshInv, Repeats
    <3>5. QED
      BY <2>1, <3>3, <3>4 DEF FlowInv, Fits, FreshInv, Repeats, MovedInv, CopyInv, Recorded, Own
  <2>3. CASE v = w
    <3>1. f = s /\ s # Idle
      BY <2>1, <2>3, AfterMoves
    <3>2. Fits(f)' /\ MovedInv(f)'
      BY <1>1, <3>1, FitsStays
    <3>3. FreshInv(f)'
      <4>1. FreshInv(flow[w]) /\ flow[w].pc # "approve" /\ f.g = flow[w].g /\ f.fresh = flow[w].fresh
        BY <3>1, BusyIs DEF FlowInv, Moves
      <4>2. QED
        BY <1>1, <3>1, <4>1 DEF FreshInv, Repeats
    <3>4. QED
      BY <2>1, <3>2, <3>3 DEF FlowInv, Fits, FreshInv, Repeats, MovedInv, CopyInv, Recorded, Own
  <2>4. QED
    BY <2>2, <2>3
<1>5. Alone'
  <2>1. Busy' \subseteq Busy /\ \A v \in Busy' : flow'[v].g = flow[v].g
    BY AfterMoves, ZenonT(30) DEF Moves, Busy
  <2>2. QED
    BY <1>1, <2>1, OthersStay DEF BoundsStay
<1>6. NoConfigYet'
  <2>1. SUFFICES ASSUME NEW v \in Busy', request[flow'[v].g].type \in Created, flow'[v].pc \in Building,
                        NEW m \in request[flow'[v].g].models \ unchecked'
                 PROVE  ActiveConfigs(m)' = {}
    BY <1>1 DEF NoConfigYet, ModelsOf
  <2>2. v \in Busy /\ flow'[v].g = flow[v].g /\ m \notin unchecked /\ m \in ModelsOf(v)
    <3>1. v \in Busy /\ v \in Workers
      BY AfterMoves DEF Busy
    <3>2. flow'[v].g = flow[v].g
      BY <3>1, AfterMoves DEF Moves
    <3>3. QED
      BY <2>1, <3>1, <3>2 DEF BoundsStay, ModelsOf
  <2>3. ActiveConfigs(m) = {}
    <3>1. CASE v # w
      BY <2>1, <2>2, <3>1, AfterMoves DEF ApprovalInv, NoConfigYet, Busy
    <3>2. CASE v = w
      <4>1. s.pc \in Building
        BY <2>1, <3>2, AfterMoves
      <4>2. QED
        BY <2>1, <2>2, <3>2, <4>1 DEF ApprovalInv, NoConfigYet
    <3>3. QED
      BY <3>1, <3>2
  <2>4. m \in Models
    BY <2>2, BusyIs DEF ModelsOf
  <2>5. QED
    BY <2>3, <2>4, ActiveStays
<1>7. OneConfigPerModel'
  BY ActiveStays DEF ApprovalInv, OneConfigPerModel, BoundsStay
<1>8. Registered'
  BY ActiveStays, FinishedMoves DEF ApprovalInv, Registered
<1>9. QED
  BY <1>2, <1>3, <1>4, <1>5, <1>6, <1>7, <1>8 DEF ApprovalInv

LEMMA FinishedWrites ==
  ASSUME ApprovalInv, NEW w \in Busy, NEW r, NEW s, Writes(w, r, s), flow[w].pc \notin Undoing,
         flow[w].pc = "approve" => r.status = "Approved",
         flow[w].pc \in Past => s.pc \in Past \/ r.status \in {"Approved", "Failed"},
         NEW g \in Groups, Finished(g)
  PROVE  Finished(g)'
<1>1. /\ interrupted' = interrupted /\ overtaken \subseteq overtaken' /\ row'[flow[w].g] = r
      /\ FreshInv(flow[w]) /\ w \in Workers
  BY AfterWrites, BusyIs, ZenonT(30) DEF Writes, FlowInv
<1>2. CASE g \in interrupted \union overtaken
  BY <1>1, <1>2 DEF Finished
<1>3. CASE row[g].status \in {"Approved", "Failed"}
  <2>1. CASE g # flow[w].g
    BY <1>3, <2>1, AfterWrites DEF Finished
  <2>2. CASE g = flow[w].g /\ ~flow[w].fresh
    BY <2>2 DEF Finished, Writes
  <2>3. CASE g = flow[w].g /\ flow[w].fresh
    <3>1. flow[w].pc = "approve"
      BY <1>1, <1>3, <2>3 DEF FreshInv, Repeats, Terminal
    <3>2. QED
      BY <1>1, <2>3, <3>1 DEF Finished
  <2>4. QED
    BY <2>1, <2>2, <2>3
<1>4. ASSUME NEW v \in Busy, flow[v].g = g, flow[v].pc \in Past PROVE Finished(g)'
  <2>1. CASE v # w
    <3>1. v \in Busy' /\ flow'[v].pc = flow[v].pc /\ flow'[v].g = g
      <4>1. v \in Workers \ {w}
        BY <2>1 DEF Busy
      <4>2. QED
        BY <1>4, <4>1, AfterWrites
    <3>2. QED
      BY <1>4, <3>1 DEF Finished
  <2>2. CASE v = w /\ s.pc \in Past
    <3>1. s # Idle
      BY <2>2, ConstantsAre DEF Past
    <3>2. w \in Busy' /\ flow'[w] = s /\ s.g = flow[w].g
      BY <3>1, AfterWrites
    <3>3. QED
      BY <1>4, <2>2, <3>2 DEF Finished
  <2>3. CASE v = w /\ r.status \in {"Approved", "Failed"}
    BY <1>1, <1>4, <2>3 DEF Finished
  <2>4. QED
    BY <1>4, <2>1, <2>2, <2>3
<1>5. QED
  BY <1>2, <1>3, <1>4 DEF Finished

LEMMA WritesKeeps ==
  ASSUME ApprovalInv, NEW w \in Busy, NEW r, NEW s, Writes(w, r, s), flow[w].pc \notin Undoing,
         ConfigsStay, BoundsStay, NEW k, k = flow[w].g,
         CopyInv(k, r)',
         s = Idle \/ (Fits(s)' /\ MovedInv(s)),
         s = Idle \/ r.status \notin Terminal \/ s.pc \in Undoing
           \/ (s.pc = "approve" /\ r = [s.mem EXCEPT !.valid = r.valid]),
         flow[w].pc = "approve" => r.status = "Approved",
         flow[w].pc \in Past => s.pc \in Past \/ r.status \in {"Approved", "Failed"},
         \A m \in Models \ ModelsOf(w) : ActiveConfigs(m)' \subseteq ActiveConfigs(m),
         \A m \in ModelsOf(w) \ unchecked : \A i, j \in ActiveConfigs(m)' : i = j,
         request[flow[w].g].type \in Created /\ s.pc \in Building
           => /\ flow[w].pc \in Building
              /\ \A m \in Models : ActiveConfigs(m)' \subseteq ActiveConfigs(m),
         \A h \in Groups \ {flow[w].g} : Own(h)' = Own(h),
         Own(k)' = Own(k) \/ s.pc \in Past
  PROVE  ApprovalInv'
<1>1. /\ ApprovalTypeOK /\ request' = request /\ interrupted' = interrupted /\ overtaken \subseteq overtaken'
      /\ w \in Workers /\ flow[w].g \in Groups /\ row'[flow[w].g] = r /\ unchecked \subseteq unchecked'
  BY BusyIs, AfterWrites DEF ApprovalInv, Writes, BoundsStay
<1>2. ApprovalTypeOK'
  <2>1. overtaken' \subseteq Groups /\ interrupted' \subseteq Groups
    BY <1>1 DEF Writes, ApprovalTypeOK
  <2>2. QED
    BY <1>1, <2>1, AfterWrites, TypesStay
<1>3. ASSUME NEW g \in Groups PROVE RequestInv(g)'
  <2>1. RequestInv(g) /\ request'[g] = request[g]
    BY <1>1 DEF ApprovalInv
  <2>2. CopyInv(g, row[g])'
    <3>1. CASE g = flow[w].g
      <4>1. row'[g] = r /\ g = k
        BY <1>1, <3>1
      <4>2. QED
        BY <4>1 DEF CopyInv, Recorded, Own
    <3>2. CASE g # flow[w].g
      <4>1. PICK c : c = row[g]
        OBVIOUS
      <4>2. CopyInv(g, c)'
        BY <1>1, <2>1, <4>1, CopyStays DEF RequestInv
      <4>3. row'[g] = c
        BY <3>2, <4>1, AfterWrites
      <4>4. QED
        BY <4>2, <4>3 DEF CopyInv, Recorded, Own
    <3>3. QED
      BY <3>1, <3>2
  <2>3. request[g] = NoRequest => row'[g] = NoRow
    <3>1. request[flow[w].g] # NoRequest
      BY BusyIs DEF FlowInv, Fits
    <3>2. QED
      BY <2>1, <3>1, AfterWrites DEF RequestInv
  <2>4. /\ request[g].type \notin Created => Own(g)' = {}
        /\ \A i \in Own(g)' : configs'[i].model \in request[g].models
    BY <2>1, OwnStays
  <2>5. QED
    BY <1>1, <2>1, <2>2, <2>3, <2>4 DEF RequestInv
<1>4. ASSUME NEW v \in Busy' PROVE FlowInv(flow[v])'
  <2>1. PICK f : f = flow'[v]
    OBVIOUS
  <2>2. CASE v # w
    <3>1. v \in Busy /\ v \in Workers \ {w}
      BY <2>2, AfterWrites DEF Busy
    <3>2. /\ f.pc = flow[v].pc /\ f.g = flow[v].g /\ f.mem = flow[v].mem
          /\ f.todo = flow[v].todo /\ f.moved = flow[v].moved
          /\ f.fresh => flow[v].fresh
          /\ flow[v].g = flow[w].g => ~f.fresh
      BY <2>1, <3>1, AfterWrites
    <3>3. FlowInv(flow[v])
      BY <3>1 DEF ApprovalInv
    <3>4. Fits(f) /\ MovedInv(f)
      BY <3>2, <3>3 DEF FlowInv, Fits, MovedInv
    <3>5. Fits(f)' /\ MovedInv(f)'
      BY <1>1, <3>4, FitsStays
    <3>6. FreshInv(f)'
      <4>1. CASE flow[v].g = flow[w].g
        BY <3>2, <4>1 DEF FreshInv
      <4>2. CASE flow[v].g # flow[w].g
        <5>1. row'[f.g] = row[f.g] /\ FreshInv(flow[v])
          BY <3>1, <3>2, <3>3, <4>2, BusyIs, AfterWrites DEF FlowInv
        <5>2. QED
          BY <3>2, <5>1 DEF FreshInv, Repeats
      <4>3. QED
        BY <4>1, <4>2
    <3>7. QED
      BY <2>1, <3>5, <3>6, ZenonT(30) DEF FlowInv, Fits, FreshInv, Repeats, MovedInv, CopyInv, Recorded, Own
  <2>3. CASE v = w
    <3>1. f = s /\ s # Idle /\ s.g = flow[w].g
      BY <2>1, <2>3, AfterWrites
    <3>2. Fits(f)' /\ MovedInv(f)'
      BY <1>1, <3>1 DEF MovedInv
    <3>3. FreshInv(f)'
      BY <1>1, <3>1 DEF FreshInv, Repeats
    <3>4. QED
      BY <2>1, <3>2, <3>3, ZenonT(30) DEF FlowInv, Fits, FreshInv, Repeats, MovedInv, CopyInv, Recorded, Own
  <2>4. QED
    BY <2>2, <2>3
<1>5. /\ Busy' \subseteq Busy /\ \A v \in Busy' : flow'[v].g = flow[v].g /\ ModelsOf(v)' = ModelsOf(v)
      /\ \A v \in Busy' \ {w} : flow'[v].pc = flow[v].pc
  <2>1. Busy' \subseteq Busy
    BY AfterWrites
  <2>2. ASSUME NEW v \in Busy' PROVE flow'[v].g = flow[v].g /\ (v # w => flow'[v].pc = flow[v].pc)
    <3>1. v \in Workers
      BY DEF Busy
    <3>2. CASE v # w
      BY <3>1, <3>2, AfterWrites
    <3>3. CASE v = w
      BY <3>3, AfterWrites
    <3>4. QED
      BY <3>2, <3>3
  <2>3. QED
    BY <1>1, <2>1, <2>2 DEF ModelsOf
<1>6. Alone'
  BY <1>1, <1>5, OthersStay
<1>7. NoConfigYet'
  <2>1. SUFFICES ASSUME NEW v \in Busy', request[flow[v].g].type \in Created, flow'[v].pc \in Building,
                        NEW m \in ModelsOf(v) \ unchecked'
                 PROVE  ActiveConfigs(m)' = {}
    BY <1>1, <1>5 DEF NoConfigYet
  <2>2. v \in Busy /\ m \notin unchecked /\ m \in Models
    BY <1>1, <1>5, <2>1, BusyIs DEF ModelsOf
  <2>3. CASE v # w
    <3>1. flow[v].pc \in Building
      BY <1>5, <2>1, <2>3
    <3>2. ActiveConfigs(m) = {}
      BY <2>1, <2>2, <3>1 DEF ApprovalInv, NoConfigYet
    <3>3. m \notin ModelsOf(w)
      BY <2>1, <2>2, <2>3 DEF ApprovalInv, Alone
    <3>4. QED
      BY <2>2, <3>2, <3>3
  <2>4. CASE v = w
    <3>1. s.pc \in Building
      BY <2>1, <2>4, AfterWrites
    <3>2. flow[w].pc \in Building /\ ActiveConfigs(m)' \subseteq ActiveConfigs(m)
      BY <2>1, <2>2, <2>4, <3>1
    <3>3. QED
      BY <2>1, <2>2, <2>4, <3>2 DEF ApprovalInv, NoConfigYet
  <2>5. QED
    BY <2>3, <2>4
<1>8. OneConfigPerModel'
  <2>1. SUFFICES ASSUME NEW m \in Models \ unchecked' PROVE \A i, j \in ActiveConfigs(m)' : i = j
    BY DEF OneConfigPerModel
  <2>2. CASE m \in ModelsOf(w)
    BY <1>1, <2>1, <2>2
  <2>3. CASE m \notin ModelsOf(w)
    BY <1>1, <2>1, <2>3 DEF ApprovalInv, OneConfigPerModel
  <2>4. QED
    BY <2>2, <2>3
<1>9. Registered'
  <2>1. SUFFICES ASSUME NEW g \in Groups PROVE (Own(g) = {})' \/ Finished(g)'
    BY DEF Registered
  <2>2. CASE g = k /\ s.pc \in Past
    <3>1. s # Idle
      BY <2>2, ConstantsAre DEF Past
    <3>2. w \in Busy' /\ flow'[w] = s /\ s.g = flow[w].g
      BY <3>1, AfterWrites
    <3>3. QED
      BY <2>2, <3>2 DEF Finished
  <2>3. CASE Own(g)' = Own(g)
    <3>1. CASE Own(g) = {}
      BY <2>3, <3>1
    <3>2. CASE Finished(g)
      BY <3>2, FinishedWrites
    <3>3. QED
      BY <3>1, <3>2 DEF ApprovalInv, Registered
  <2>4. QED
    BY <2>2, <2>3
<1>10. QED
  BY <1>2, <1>3, <1>4, <1>6, <1>7, <1>8, <1>9 DEF ApprovalInv

-----------------------------------------------------------------------------
(* The steps of an approval.                                                *)

LEMMA ConfigsSame ==
  ASSUME ApprovalTypeOK, configs' = configs
  PROVE  ConfigsStay /\ DOMAIN configs' = DOMAIN configs
  BY DEF ConfigsStay, ApprovalTypeOK

LEMMA BoundsSame ==
  ASSUME ApprovalTypeOK, files' \in [Places -> [Models -> Folder]],
         Fault \/ UNCHANGED <<starts, faults>>,
         unchecked' \subseteq Models, unchecked \subseteq unchecked'
  PROVE  BoundsStay
<1>1. starts' \in 0 .. MaxStarts /\ faults' \in 0 .. MaxFaults
  BY ApprovalAssumption DEF ApprovalTypeOK, Fault
<1>2. QED
  BY <1>1 DEF BoundsStay

\* An approval goes on, its row and copy as they are.
LEMMA GoKeeps ==
  ASSUME ApprovalInv, NEW w \in Busy, NEW s \in FlowState, flow' = [flow EXCEPT ![w] = s],
         s.pc # "idle", s.g = flow[w].g, s.mem = flow[w].mem, s.fresh = flow[w].fresh,
         UNCHANGED <<request, row, configs, interrupted, overtaken>>, BoundsStay,
         flow[w].pc # "approve", s.pc # "approve",
         request[flow[w].g].type \in TypeAt(s.pc),
         s.pc = "fail restart" => flow[w].mem.stage = "Restart Deployable",
         MovedInv(s),
         flow[w].pc \in Undoing => s.pc \in Undoing,
         flow[w].pc \in Past => s.pc \in Past,
         s.pc \in Building => flow[w].pc \in Building
                              \/ \A m \in ModelsOf(w) \ unchecked' : ActiveConfigs(m) = {}
  PROVE  ApprovalInv'
<1>1. Moves(w, s)
  BY DEF Moves
<1>2. Fits(s)
  BY BusyIs DEF FlowInv, Fits
<1>3. ConfigsStay /\ DOMAIN configs' = DOMAIN configs
  BY ConfigsSame DEF ApprovalInv
<1>4. QED
  BY <1>1, <1>2, <1>3, MovesKeeps

\* It is over, its row as it is, because it undid all or because it died.
LEMMA EndKeeps ==
  ASSUME ApprovalInv, NEW w \in Busy, flow' = [flow EXCEPT ![w] = Idle],
         interrupted' \in {interrupted, interrupted \union {flow[w].g}},
         flow[w].pc \in Past => flow[w].g \in interrupted',
         UNCHANGED <<request, row, configs, overtaken>>, BoundsStay
  PROVE  ApprovalInv'
<1>1. Moves(w, Idle)
  BY ConstantsAre DEF Moves
<1>2. ConfigsStay /\ DOMAIN configs' = DOMAIN configs
  BY ConfigsSame DEF ApprovalInv
<1>3. Idle.pc \notin Building
  BY ConstantsAre DEF Building
<1>4. QED
  BY <1>1, <1>2, <1>3, MovesKeeps

Updates(w, status, stage, step, mem, r, s) ==
    /\ mem = Marked(flow[w].mem, status, stage)
    /\ r = [mem EXCEPT !.valid = row[flow[w].g].valid]
    /\ step = Idle => s = Idle
    /\ step # Idle => /\ s.pc = step.pc /\ s.g = step.g /\ s.todo = step.todo
                      /\ s.moved = step.moved /\ s.mem = mem
    /\ UNCHANGED <<request, configs, files, unchecked>>
    /\ Fault \/ UNCHANGED <<starts, faults>>
    /\ Writes(w, r, s) \/ (Moves(w, s) /\ interrupted' = interrupted \union {flow[w].g})

\* What a write of status and stage is: the row takes them or the approval
\* is interrupted, and the copy has them either way.
LEMMA UpdateIs ==
  ASSUME ApprovalInv, NEW w \in Busy, NEW status \in {"In Progress"} \union Terminal,
         NEW stage \in {"Pending", "Clone To Bucket", "DB Population", "Restart Deployable"},
         NEW step \in FlowState,
         step = Idle \/ (step.pc # "idle" /\ step.g = flow[w].g /\ step.fresh = flow[w].fresh),
         UpdateStatusAndStage(w, status, stage, step)
  PROVE  \E mem \in Row, r \in Row, s \in FlowState : Updates(w, status, stage, step, mem, r, s)
<1> DEFINE mem == Marked(flow[w].mem, status, stage)
           r == [mem EXCEPT !.valid = row[flow[w].g].valid]
           next == [step EXCEPT !.mem = IF step.pc = "idle" THEN NoRow ELSE mem]
           done == [next EXCEPT !.fresh = step.pc # "idle"]
<1>1. mem \in Row /\ r \in Row
  <2>1. flow[w].mem \in Row /\ row[flow[w].g] \in Row
    BY BusyIs
  <2>2. mem \in Row
    BY <2>1, MarkedIs
  <2>3. row[flow[w].g].valid \in BOOLEAN
    BY <2>1 DEF Row
  <2>4. QED
    BY <2>2, <2>3, RowIs
<1>2. UNCHANGED <<request, configs, files, unchecked>>
  BY DEF UpdateStatusAndStage
<1>3. step = Idle => next = Idle /\ done = Idle
  <2>1. SUFFICES ASSUME step = Idle PROVE next = Idle /\ done = Idle
    OBVIOUS
  <2>2. next = [Idle EXCEPT !.mem = NoRow]
    BY <2>1, ConstantsAre
  <2>3. next = Idle
    BY <2>2, IdleIs
  <2>4. done = [Idle EXCEPT !.fresh = FALSE]
    BY <2>1, <2>3, ConstantsAre
  <2>5. QED
    BY <2>3, <2>4, IdleIs
<1>4. step # Idle => /\ next.pc = step.pc /\ next.g = step.g /\ next.todo = step.todo
                     /\ next.moved = step.moved /\ next.mem = mem /\ next.fresh = step.fresh
                     /\ done.pc = step.pc /\ done.g = step.g /\ done.todo = step.todo
                     /\ done.moved = step.moved /\ done.mem = mem
  BY DEF FlowState
<1>5. next \in FlowState /\ done \in FlowState
  BY <1>1, ConstantsAre DEF FlowState
<1>6. CASE /\ row' = [row EXCEPT ![flow[w].g] = r]
           /\ flow' = FlowsAfter(w, done)
           /\ Overtake(w)
           /\ UNCHANGED <<starts, faults, interrupted>>
  <2>1. Writes(w, r, done)
    BY <1>1, <1>2, <1>3, <1>4, <1>5, <1>6 DEF Writes, Overtake
  <2>2. QED
    BY <1>1, <1>2, <1>3, <1>4, <1>5, <1>6, <2>1 DEF Updates
<1>7. CASE /\ Fault
           /\ interrupted' = interrupted \union {flow[w].g}
           /\ flow' = [flow EXCEPT ![w] = next]
           /\ UNCHANGED <<row, overtaken>>
  <2>1. Moves(w, next)
    BY <1>2, <1>3, <1>4, <1>5, <1>7 DEF Moves
  <2>2. QED
    BY <1>1, <1>2, <1>3, <1>4, <1>5, <1>7, <2>1 DEF Updates
<1>8. QED
  BY <1>6, <1>7 DEF UpdateStatusAndStage

LEMMA UpdateKeeps ==
  ASSUME ApprovalInv, NEW w \in Busy, NEW status \in {"In Progress"} \union Terminal,
         NEW stage \in {"Pending", "Clone To Bucket", "DB Population", "Restart Deployable"},
         NEW step \in FlowState,
         step = Idle \/ (step.pc # "idle" /\ step.g = flow[w].g /\ step.fresh = flow[w].fresh),
         UpdateStatusAndStage(w, status, stage, step),
         flow[w].pc \notin Undoing,
         status = "Approved" => stage = "Restart Deployable",
         stage = "Restart Deployable" => Recorded(flow[w].g),
         step # Idle => /\ request[flow[w].g].type \in TypeAt(step.pc)
                        /\ step.pc = "fail restart" => stage = "Restart Deployable"
                        /\ step.pc = "approve" => status = "Approved"
                        /\ status \in Terminal => step.pc \in Undoing \union {"approve"}
                        /\ step.todo \subseteq ModelsOf(w)
                        /\ \A x \in step.moved : x[2] \in ModelsOf(w)
                        /\ \/ step.moved = {} \/ step.pc \in Undoing \union {"update"}
                           \/ step.pc = "populate" /\ stage = "DB Population"
                        /\ step.pc \in Building => flow[w].pc \in Building,
         flow[w].pc = "approve" => status = "Approved" /\ step = Idle,
         flow[w].pc \in Past => step.pc \in Past \/ status \in {"Approved", "Failed"}
  PROVE  ApprovalInv'
<1>0. PICK mem \in Row, r \in Row, s \in FlowState : Updates(w, status, stage, step, mem, r, s)
  BY UpdateIs
<1>1. /\ mem = Marked(flow[w].mem, status, stage)
      /\ r = [mem EXCEPT !.valid = row[flow[w].g].valid]
      /\ step = Idle => s = Idle
      /\ step # Idle => /\ s.pc = step.pc /\ s.g = step.g /\ s.todo = step.todo
                        /\ s.moved = step.moved /\ s.mem = mem
      /\ UNCHANGED <<request, configs, files, unchecked>>
      /\ Fault \/ UNCHANGED <<starts, faults>>
      /\ Writes(w, r, s) \/ (Moves(w, s) /\ interrupted' = interrupted \union {flow[w].g})
  BY <1>0 DEF Updates
<1>2. PICK k \in Groups : k = flow[w].g
  BY BusyIs
<1>3. /\ r.status = status /\ r.stage = stage /\ r.active = (flow[w].mem.active /\ status \notin Terminal)
      /\ mem.status = status /\ mem.stage = stage /\ mem.active = (flow[w].mem.active /\ status \notin Terminal)
      /\ r = [mem EXCEPT !.valid = r.valid]
  <2>1. flow[w].mem \in Row /\ row[flow[w].g].valid \in BOOLEAN
    BY BusyIs DEF Row
  <2>2. mem.status = status /\ mem.stage = stage /\ mem.active = (flow[w].mem.active /\ status \notin Terminal)
    <3>1. PICK old \in Row : old = flow[w].mem
      BY <2>1
    <3>2. mem = Marked(old, status, stage)
      BY <1>1, <3>1
    <3>3. mem.status = status /\ mem.stage = stage
      BY <3>1, <3>2, ZenonT(30) DEF Marked, Row
    <3>4. mem.active = (old.active /\ status \notin Terminal)
      BY <3>1, <3>2 DEF Marked, Row
    <3>5. QED
      BY <3>1, <3>3, <3>4
  <2>3. r.status = mem.status /\ r.stage = mem.stage /\ r.active = mem.active /\ r.valid = row[flow[w].g].valid
    <3>1. PICK b \in BOOLEAN : b = row[flow[w].g].valid
      BY <2>1
    <3>2. r = [mem EXCEPT !.valid = b]
      BY <1>1, <3>1
    <3>3. r.status = mem.status /\ r.stage = mem.stage
      BY <3>1, <3>2 DEF Row
    <3>4. r.active = mem.active
      BY <3>1, <3>2 DEF Row
    <3>5. r.valid = b
      BY <3>1, <3>2 DEF Row
    <3>6. QED
      BY <3>1, <3>3, <3>4, <3>5
  <2>4. QED
    BY <1>1, <2>2, <2>3
<1>4. CopyInv(k, r) /\ CopyInv(k, mem)
  BY <1>2, <1>3 DEF CopyInv
<1>5. ApprovalTypeOK /\ ConfigsStay /\ DOMAIN configs' = DOMAIN configs
  BY <1>1, ConfigsSame DEF ApprovalInv
<1>6. BoundsStay
  <2>1. files' \in [Places -> [Models -> Folder]] /\ unchecked' \subseteq Models /\ unchecked \subseteq unchecked'
    BY <1>1, <1>5 DEF ApprovalTypeOK
  <2>2. QED
    BY <1>1, <1>5, <2>1, BoundsSame
<1>7. s = Idle \/ (s # Idle /\ step # Idle /\ Fits(s) /\ MovedInv(s))
  <2>1. SUFFICES ASSUME s # Idle, step # Idle PROVE Fits(s) /\ MovedInv(s)
    BY <1>1
  <2>2. s.g = k /\ s.mem = mem /\ s.pc = step.pc /\ request[k] # NoRequest
    BY <1>1, <1>2, <2>1, BusyIs DEF FlowInv, Fits
  <2>3. Fits(s)
    BY <1>2, <1>3, <1>4, <2>1, <2>2 DEF Fits
  <2>4. MovedInv(s)
    BY <1>1, <1>2, <1>3, <2>1, <2>2 DEF MovedInv, ModelsOf
  <2>5. QED
    BY <2>3, <2>4
<1>8. s.pc \in Past \union Building => s # Idle /\ step # Idle
  BY <1>1, ConstantsAre DEF Past, Building
<1>81. s # Idle => step # Idle /\ s.pc = step.pc
  BY <1>1
<1>82. step.pc \in Past => s.pc \in Past
  BY <1>1, ConstantsAre DEF Past
<1>9. s.pc \in Building => flow[w].pc \in Building
  BY <1>8, <1>81
<1>10. CASE Writes(w, r, s)
  <2>1. CopyInv(k, r)'
    <3>1. request'[k] = request[k]
      BY <1>1
    <3>2. QED
      BY <1>4, <1>5, <3>1, CopyStays
  <2>2. s = Idle \/ (Fits(s)' /\ MovedInv(s))
    BY <1>1, <1>5, <1>7, FitsStays
  <2>3. /\ \A m \in Models : ActiveConfigs(m)' \subseteq ActiveConfigs(m)
        /\ \A g \in Groups : Own(g)' = Own(g)
    BY <1>5, ActiveStays
  <2>4. \A m \in ModelsOf(w) \ unchecked : \A i, j \in ActiveConfigs(m)' : i = j
    BY <2>3, BusyIs DEF ApprovalInv, OneConfigPerModel, ModelsOf
  <2>5. s = Idle \/ r.status \notin Terminal \/ s.pc \in Undoing
           \/ (s.pc = "approve" /\ r = [s.mem EXCEPT !.valid = r.valid])
    BY <1>1, <1>3, <1>81
  <2>6. flow[w].pc = "approve" => r.status = "Approved"
    BY <1>3
  <2>7. flow[w].pc \in Past => s.pc \in Past \/ r.status \in {"Approved", "Failed"}
    BY <1>3, <1>82
  <2>8. QED
    BY <1>10, <1>2, <1>5, <1>6, <1>9, <2>1, <2>2, <2>3, <2>4, <2>5, <2>6, <2>7, WritesKeeps
<1>11. CASE Moves(w, s) /\ interrupted' = interrupted \union {flow[w].g}
  <2>1. flow[w].g \in interrupted'
    BY <1>11
  <2>2. flow[w].pc = "approve" => s = Idle
    BY <1>1
  <2>3. QED
    BY <1>11, <1>5, <1>6, <1>7, <1>9, <2>1, <2>2, MovesKeeps
<1>12. QED
  BY <1>1, <1>10, <1>11

LEMMA TypesAre ==
  ASSUME ApprovalInv, NEW w \in Busy
  PROVE  /\ request[flow[w].g].type \in TypeAt(flow[w].pc)
         /\ request[flow[w].g].type \in Types
         /\ request[flow[w].g].type # "Delete" => request[flow[w].g].ids = {}
         /\ flow[w].mem.stage = "Restart Deployable" => Recorded(flow[w].g)
         /\ MovedInv(flow[w])
<1>1. Fits(flow[w]) /\ RequestInv(flow[w].g) /\ MovedInv(flow[w])
  BY BusyIs DEF FlowInv
<1>2. Created \subseteq Types
  BY DEF Types
<1>3. TypeAt(flow[w].pc) \subseteq Types
  BY <1>2 DEF TypeAt, Types
<1>4. QED
  BY <1>1, <1>3 DEF Fits, RequestInv, CopyInv

LEMMA GoToKeeps ==
  ASSUME ApprovalInv, NEW w \in Busy, NEW pc \in Pcs, GoTo(w, pc),
         pc # "idle", flow[w].pc # "approve", pc # "approve",
         request[flow[w].g].type \in TypeAt(pc),
         pc # "fail restart",
         flow[w].moved = {} \/ (pc = "populate" /\ flow[w].mem.stage = "DB Population"),
         flow[w].pc \notin Undoing,
         flow[w].pc \in Past => pc \in Past,
         pc \in Building => flow[w].pc \in Building
                              \/ \A m \in ModelsOf(w) \ unchecked : ActiveConfigs(m) = {}
  PROVE  ApprovalInv'
<1>1. PICK s : s = [flow[w] EXCEPT !.pc = pc, !.todo = ModelsOf(w)]
  OBVIOUS
<1>2. flow[w] \in FlowState /\ ModelsOf(w) \subseteq Models /\ MovedInv(flow[w])
  BY BusyIs, TypesAre DEF ModelsOf
<1>3. /\ s \in FlowState /\ s.pc = pc /\ s.todo = ModelsOf(w) /\ s.moved = flow[w].moved
      /\ s.g = flow[w].g /\ s.mem = flow[w].mem /\ s.fresh = flow[w].fresh
  BY <1>1, <1>2 DEF FlowState
<1>4. flow' = [flow EXCEPT ![w] = s] /\ UNCHANGED <<request, row, configs, files, history>>
  BY <1>1 DEF GoTo
<1>5. BoundsStay /\ unchecked' = unchecked /\ interrupted' = interrupted /\ overtaken' = overtaken
  BY <1>4 DEF BoundsStay, ApprovalInv, ApprovalTypeOK, history
<1>6. MovedInv(s)
  BY <1>2, <1>3 DEF MovedInv, ModelsOf
<1>7. QED
  BY <1>3, <1>4, <1>5, <1>6, GoKeeps

LEMMA RejectKeeps ==
  ASSUME ApprovalInv, NEW w \in Busy, ProcessRejectRequest(w) PROVE ApprovalInv'
<1>1. flow[w].pc = "reject" /\ UpdateStatusAndStage(w, "Rejected", flow[w].mem.stage, Idle)
  BY DEF ProcessRejectRequest
<1>2. PICK stage \in {"Pending", "Clone To Bucket", "DB Population", "Restart Deployable"} :
        stage = flow[w].mem.stage
  BY BusyIs DEF Row
<1>3. UpdateStatusAndStage(w, "Rejected", stage, Idle)
  BY <1>1, <1>2
<1>4. stage = "Restart Deployable" => Recorded(flow[w].g)
  BY <1>2, TypesAre
<1>5. flow[w].pc \notin Undoing /\ flow[w].pc \notin Past
  BY <1>1 DEF Undoing, Past
<1>6. QED
  BY <1>1, <1>3, <1>4, <1>5, ConstantsAre, UpdateKeeps DEF Terminal

LEMMA ExistKeeps ==
  ASSUME ApprovalInv, NEW w \in Busy, CheckIfModelsExist(w) PROVE ApprovalInv'
<1> DEFINE found == \E m \in ModelsOf(w) : ActiveConfigs(m) # {}
           pc == IF request[flow[w].g].type = "ScaleUp" THEN "copy source" ELSE "copy live"
<1>1. flow[w].pc = "exist" /\ flow[w].moved = {} /\ flow[w].todo \subseteq ModelsOf(w)
  BY TypesAre DEF CheckIfModelsExist, MovedInv, ModelsOf, Undoing
<1>2. /\ flow[w].pc \notin Undoing /\ flow[w].pc \notin Past /\ flow[w].pc \notin Building
      /\ pc \in Pcs /\ "reject" \in Pcs /\ "reject" \notin Building
  BY <1>1 DEF Undoing, Past, Building, Pcs
<1>3. request[flow[w].g].type \in TypeAt(pc) /\ request[flow[w].g].type \in TypeAt("reject")
  BY <1>1, TypesAre DEF TypeAt
<1>4. CASE found /\ GoTo(w, "reject")
  BY <1>1, <1>2, <1>3, <1>4, GoToKeeps
<1>5. CASE ~found /\ GoTo(w, pc)
  BY <1>1, <1>2, <1>3, <1>5, GoToKeeps
<1>6. CASE /\ Fault /\ flow' = [flow EXCEPT ![w].pc = pc]
           /\ unchecked' = unchecked \union ModelsOf(w)
           /\ UNCHANGED <<request, row, configs, files, interrupted, overtaken>>
  <2>1. PICK s : s = [flow[w] EXCEPT !.pc = pc]
    OBVIOUS
  <2>2. flow[w] \in FlowState /\ ModelsOf(w) \subseteq Models /\ MovedInv(flow[w])
    BY BusyIs, TypesAre DEF ModelsOf
  <2>3. /\ s \in FlowState /\ s.pc = pc /\ s.todo = flow[w].todo /\ s.moved = flow[w].moved
        /\ s.g = flow[w].g /\ s.mem = flow[w].mem /\ s.fresh = flow[w].fresh
    BY <1>2, <2>1, <2>2 DEF FlowState
  <2>4. flow' = [flow EXCEPT ![w] = s]
    BY <1>6, <2>1
  <2>5. BoundsStay
    BY <1>6, <2>2, BoundsSame DEF ApprovalInv, ApprovalTypeOK
  <2>6. MovedInv(s)
    BY <1>1, <2>3 DEF MovedInv, ModelsOf
  <2>7. s.pc \notin {"idle", "approve", "fail restart"} /\ ModelsOf(w) \subseteq unchecked'
    BY <1>6, <2>3
  <2>8. QED
    BY <1>1, <1>2, <1>3, <1>6, <2>3, <2>4, <2>5, <2>6, <2>7, GoKeeps
<1>7. QED
  BY <1>4, <1>5, <1>6 DEF CheckIfModelsExist

LEMMA EndCopySourceKeeps ==
  ASSUME ApprovalInv, NEW w \in Busy, EndCopySource(w) PROVE ApprovalInv'
<1>1. flow[w].pc = "copy source" /\ UNCHANGED <<request, row, configs, files, history>>
  BY DEF EndCopySource
<1>2. PICK s : s = [flow[w] EXCEPT !.pc = "copy live", !.todo = ModelsOf(w), !.moved = {}]
  OBVIOUS
<1>3. flow[w] \in FlowState /\ ModelsOf(w) \subseteq Models
  BY BusyIs DEF ModelsOf
<1>4. /\ s \in FlowState /\ s.pc = "copy live" /\ s.todo = ModelsOf(w) /\ s.moved = {}
      /\ s.g = flow[w].g /\ s.mem = flow[w].mem /\ s.fresh = flow[w].fresh
  BY <1>2, <1>3 DEF FlowState, Pcs
<1>5. flow' = [flow EXCEPT ![w] = s]
  BY <1>2 DEF EndCopySource
<1>6. BoundsStay /\ unchecked' = unchecked /\ interrupted' = interrupted /\ overtaken' = overtaken
  BY <1>1 DEF BoundsStay, ApprovalInv, ApprovalTypeOK, history
<1>7. MovedInv(s)
  BY <1>4 DEF MovedInv, ModelsOf
<1>8. request[flow[w].g].type \in TypeAt(s.pc)
  BY <1>1, <1>4, TypesAre DEF TypeAt
<1>9. flow[w].pc \in Building /\ flow[w].pc \notin Undoing \union Past
  BY <1>1 DEF Building, Undoing, Past
<1>10. QED
  BY <1>1, <1>4, <1>5, <1>6, <1>7, <1>8, <1>9, GoKeeps

LEMMA EndCopyLiveKeeps ==
  ASSUME ApprovalInv, NEW w \in Busy, EndCopyLive(w) PROVE ApprovalInv'
<1> DEFINE edit == request[flow[w].g].type = "Edit"
           pc == IF edit THEN "update" ELSE "populate"
<1>1. flow[w].pc = "copy live"
  BY DEF EndCopyLive
<1>2. /\ flow[w].pc \notin Undoing /\ flow[w].pc \notin Past /\ flow[w].pc \in Building /\ pc \in Pcs
      /\ flow[w] \in FlowState /\ ModelsOf(w) \subseteq Models
  BY <1>1, BusyIs DEF Undoing, Past, Building, Pcs, ModelsOf
<1>3. request[flow[w].g].type \in TypeAt(pc)
  BY <1>1, TypesAre DEF TypeAt
<1>4. /\ \A x \in flow[w].moved : x[2] \in ModelsOf(w)
      /\ flow[w].moved = {} \/ AtCopyStage(w)
  BY <1>1, TypesAre DEF MovedInv, ModelsOf, AtCopyStage, Undoing
<1>5. CASE ~AtCopyStage(w) /\ ~edit /\ GoTo(w, pc)
  BY <1>1, <1>2, <1>3, <1>4, <1>5, GoToKeeps
<1>6. CASE UpdateStatusAndStage(w, "In Progress", "DB Population",
                                [flow[w] EXCEPT !.pc = pc, !.todo = ModelsOf(w)])
  <2>1. PICK s : s = [flow[w] EXCEPT !.pc = pc, !.todo = ModelsOf(w)]
    OBVIOUS
  <2>2. /\ s \in FlowState /\ s.pc = pc /\ s.todo = ModelsOf(w) /\ s.moved = flow[w].moved
        /\ s.g = flow[w].g /\ s.fresh = flow[w].fresh
    BY <1>2, <2>1 DEF FlowState
  <2>3. UpdateStatusAndStage(w, "In Progress", "DB Population", s)
    BY <1>6, <2>1
  <2>4. s.pc \in {"update", "populate"} /\ "In Progress" \notin Terminal
    BY <2>2 DEF Terminal
  <2>5. QED
    BY <1>1, <1>2, <1>3, <1>4, <2>2, <2>3, <2>4, UpdateKeeps
<1>7. QED
  BY <1>5, <1>6 DEF EndCopyLive

LEMMA FailKeeps ==
  ASSUME ApprovalInv, NEW w \in Busy, Fail(w) PROVE ApprovalInv'
<1> DEFINE stage == CASE flow[w].pc = "fail db" -> "DB Population"
                      [] flow[w].pc = "fail restart" -> "Restart Deployable"
                      [] OTHER -> "Clone To Bucket"
           undo == IF flow[w].pc = "fail move" THEN "move back" ELSE "revert"
           step == IF flow[w].moved = {} THEN Idle ELSE [flow[w] EXCEPT !.pc = undo]
<1>1. flow[w].pc \in {"fail copy", "fail move", "fail db", "fail restart"}
      /\ UpdateStatusAndStage(w, "Failed", stage, step)
  BY DEF Fail
<1>2. PICK st, s : st = stage /\ s = step
  OBVIOUS
<1>3. /\ st \in {"Pending", "Clone To Bucket", "DB Population", "Restart Deployable"}
      /\ st = "Restart Deployable" => flow[w].pc = "fail restart"
      /\ undo \in Pcs /\ undo \in Undoing /\ undo \notin {"idle", "approve", "fail restart"}
      /\ undo = "revert" => flow[w].pc # "fail move"
  BY <1>2 DEF Pcs, Undoing
<1>4. flow[w] \in FlowState /\ MovedInv(flow[w]) /\ Fits(flow[w])
  BY BusyIs, TypesAre DEF FlowInv
<1>5. s = Idle \/ (s # Idle /\ flow[w].moved # {} /\ s = [flow[w] EXCEPT !.pc = undo])
  BY <1>2
<1>6. s \in FlowState
  BY <1>3, <1>4, <1>5, ConstantsAre DEF FlowState
<1>7. s # Idle => /\ s.pc = undo /\ s.todo = flow[w].todo /\ s.moved = flow[w].moved
                  /\ s.g = flow[w].g /\ s.fresh = flow[w].fresh
  BY <1>4, <1>5 DEF FlowState
<1>8. st = "Restart Deployable" => Recorded(flow[w].g)
  BY <1>3, <1>4, TypesAre DEF Fits
<1>9. flow[w].pc \notin Undoing
  BY <1>1 DEF Undoing
<1>10. request[flow[w].g].type \in TypeAt(undo)
  <2>1. CASE flow[w].pc = "fail move"
    BY <2>1, TypesAre DEF TypeAt
  <2>2. CASE flow[w].pc # "fail move"
    BY <2>2, TypesAre DEF TypeAt
  <2>3. QED
    BY <2>1, <2>2
<1>11. s # Idle /\ undo \in Building => flow[w].pc \in Building
  BY <1>1, <1>4, <1>5 DEF Building, MovedInv, Undoing
<1>12. /\ s.todo \subseteq ModelsOf(w) \/ s = Idle
       /\ s = Idle \/ \A x \in s.moved : x[2] \in ModelsOf(w)
  BY <1>4, <1>7 DEF MovedInv, ModelsOf
<1>13. s # Idle => s.pc # "idle"
  BY <1>3, <1>7
<1>14. UpdateStatusAndStage(w, "Failed", st, s)
  BY <1>1, <1>2
<1> HIDE DEF stage, undo, step
<1>15. s # Idle => /\ request[flow[w].g].type \in TypeAt(s.pc)
                   /\ s.pc \notin {"fail restart", "approve"} /\ s.pc \in Undoing
                   /\ s.todo \subseteq ModelsOf(w)
                   /\ \A x \in s.moved : x[2] \in ModelsOf(w)
                   /\ s.pc \in Building => flow[w].pc \in Building
  BY <1>3, <1>7, <1>10, <1>11, <1>12
<1>16. flow[w].pc # "approve" /\ "Failed" \in Terminal
  BY <1>1 DEF Terminal
<1>17. s = Idle \/ (s.pc # "idle" /\ s.g = flow[w].g /\ s.fresh = flow[w].fresh)
  BY <1>7, <1>13
<1>18. QED
  BY <1>3, <1>6, <1>8, <1>9, <1>14, <1>15, <1>16, <1>17, UpdateKeeps

LEMMA EndUpdateKeeps ==
  ASSUME ApprovalInv, NEW w \in Busy, EndUpdate(w) PROVE ApprovalInv'
<1>1. flow[w].pc = "update" /\ flow[w].todo = {}
  BY DEF EndUpdate
<1>2. PICK s : s = [flow[w] EXCEPT !.pc = "restart", !.moved = {}]
  OBVIOUS
<1>3. /\ s \in FlowState /\ s.pc = "restart" /\ s.todo = {} /\ s.moved = {}
      /\ s.g = flow[w].g /\ s.fresh = flow[w].fresh
  BY <1>1, <1>2, BusyIs DEF FlowState, Pcs
<1>4. UpdateStatusAndStage(w, "In Progress", "Restart Deployable", s)
  BY <1>2 DEF EndUpdate
<1>5. flow[w].pc \notin Undoing /\ flow[w].pc \notin Past /\ s.pc \notin Building
  BY <1>1, <1>3 DEF Undoing, Past, Building
<1>6. request[flow[w].g].type = "Edit" /\ request[flow[w].g].type \in TypeAt(s.pc)
  BY <1>1, <1>3, TypesAre DEF TypeAt
<1>7. Recorded(flow[w].g)
  BY <1>6, TypesAre, ApprovalAssumption DEF Recorded
<1>8. "In Progress" \notin Terminal
  BY DEF Terminal
<1>9. QED
  BY <1>1, <1>3, <1>4, <1>5, <1>6, <1>7, <1>8, UpdateKeeps

LEMMA RestartKeeps ==
  ASSUME ApprovalInv, NEW w \in Busy, ProcessRestartDeployable(w) PROVE ApprovalInv'
<1> DEFINE next == IF request[flow[w].g].type = "Edit" THEN [flow[w] EXCEPT !.pc = "approve"] ELSE Idle
<1>1. flow[w].pc = "restart" /\ flow[w].mem.stage = "Restart Deployable" /\ flow[w] \in FlowState
      /\ flow[w].moved = {} /\ flow[w].todo \subseteq ModelsOf(w)
  BY BusyIs, TypesAre DEF ProcessRestartDeployable, MovedInv, ModelsOf, Undoing
<1>2. flow[w].pc \notin Undoing /\ flow[w].pc \in Past
  BY <1>1 DEF Undoing, Past
<1>3. CASE UpdateStatusAndStage(w, "Approved", flow[w].mem.stage, next)
  <2>1. PICK s : s = next
    OBVIOUS
  <2>2. s = Idle \/ (s # Idle /\ request[flow[w].g].type = "Edit" /\ s = [flow[w] EXCEPT !.pc = "approve"])
    BY <2>1
  <2>3. s \in FlowState
    BY <1>1, <2>2, ConstantsAre DEF FlowState, Pcs
  <2>4. s # Idle => /\ s.pc = "approve" /\ s.todo = flow[w].todo /\ s.moved = {}
                    /\ s.g = flow[w].g /\ s.fresh = flow[w].fresh
    BY <1>1, <2>2 DEF FlowState
  <2>5. UpdateStatusAndStage(w, "Approved", "Restart Deployable", s)
    BY <1>1, <1>3, <2>1
  <2>6. s # Idle => request[flow[w].g].type \in TypeAt(s.pc) /\ s.pc \notin Building
    BY <2>2, <2>4 DEF TypeAt, Building
  <2>7. Recorded(flow[w].g) /\ "Approved" \in Terminal
    BY <1>1, TypesAre DEF Terminal
  <2>8. QED
    BY <1>1, <1>2, <2>3, <2>4, <2>5, <2>6, <2>7, UpdateKeeps
<1>4. CASE /\ Fault
           /\ flow' = [flow EXCEPT ![w].pc = "fail restart"]
           /\ UNCHANGED <<request, row, configs, files, unchecked, interrupted, overtaken>>
  <2>1. PICK s : s = [flow[w] EXCEPT !.pc = "fail restart"]
    OBVIOUS
  <2>2. /\ s \in FlowState /\ s.pc = "fail restart" /\ s.todo = flow[w].todo /\ s.moved = {}
        /\ s.g = flow[w].g /\ s.fresh = flow[w].fresh /\ s.mem = flow[w].mem
    BY <1>1, <2>1 DEF FlowState, Pcs
  <2>3. BoundsStay
    BY <1>4, BoundsSame DEF ApprovalInv, ApprovalTypeOK
  <2>4. MovedInv(s) /\ s.pc \in Past /\ s.pc \notin Building
    BY <1>1, <2>2 DEF MovedInv, Past, ModelsOf, Building
  <2>5. request[flow[w].g].type \in TypeAt(s.pc)
    BY <2>2, TypesAre DEF TypeAt
  <2>6. flow' = [flow EXCEPT ![w] = s]
    BY <1>4, <2>1
  <2>7. QED
    BY <1>1, <1>2, <1>4, <2>2, <2>3, <2>4, <2>5, <2>6, GoKeeps
<1>5. QED
  BY <1>3, <1>4 DEF ProcessRestartDeployable

LEMMA ApproveEditKeeps ==
  ASSUME ApprovalInv, NEW w \in Busy, ApproveEdit(w) PROVE ApprovalInv'
<1>1. flow[w].pc = "approve" /\ UpdateStatusAndStage(w, "Approved", flow[w].mem.stage, Idle)
  BY DEF ApproveEdit
<1>2. flow[w].mem.stage = "Restart Deployable"
  BY <1>1, BusyIs DEF FlowInv, Fits
<1>3. Recorded(flow[w].g)
  BY <1>2, TypesAre
<1>4. flow[w].pc \notin Undoing /\ "Approved" \in Terminal
  BY <1>1 DEF Undoing, Terminal
<1>5. UpdateStatusAndStage(w, "Approved", "Restart Deployable", Idle)
  BY <1>1, <1>2
<1>6. QED
  BY <1>1, <1>3, <1>4, <1>5, ConstantsAre, UpdateKeeps

LEMMA EndMoveKeeps ==
  ASSUME ApprovalInv, NEW w \in Busy, EndMove(w) PROVE ApprovalInv'
<1>1. flow[w].pc = "move" /\ flow[w] \in FlowState
  BY BusyIs DEF EndMove
<1>2. flow[w].pc \notin Undoing /\ flow[w].pc \notin Past
  BY <1>1 DEF Undoing, Past
<1>3. request[flow[w].g].type \in TypeAt("unregister")
  BY <1>1, TypesAre DEF TypeAt
<1>4. "unregister" \in Pcs /\ "unregister" \notin Building /\ "In Progress" \notin Terminal
  BY DEF Pcs, Building, Terminal
<1>5. CASE ~AtCopyStage(w) /\ GoTo(w, "unregister")
  <2>1. flow[w].moved = {}
    BY <1>1, <1>5, TypesAre DEF MovedInv, AtCopyStage, Undoing
  <2>2. QED
    BY <1>1, <1>2, <1>3, <1>4, <1>5, <2>1, GoToKeeps
<1>6. CASE flow[w].todo = {} /\ UpdateStatusAndStage(w, "In Progress", "DB Population",
                                    [flow[w] EXCEPT !.pc = "unregister", !.moved = {}])
  <2>1. PICK s : s = [flow[w] EXCEPT !.pc = "unregister", !.moved = {}]
    OBVIOUS
  <2>2. /\ s \in FlowState /\ s.pc = "unregister" /\ s.todo = {} /\ s.moved = {}
        /\ s.g = flow[w].g /\ s.fresh = flow[w].fresh
    BY <1>1, <1>4, <1>6, <2>1 DEF FlowState
  <2>3. UpdateStatusAndStage(w, "In Progress", "DB Population", s)
    BY <1>6, <2>1
  <2>4. QED
    BY <1>1, <1>2, <1>3, <1>4, <2>2, <2>3, UpdateKeeps
<1>7. QED
  BY <1>5, <1>6 DEF EndMove

\* What copying and moving folders leaves in the bucket.
LEMMA FoldersAre ==
  ASSUME ApprovalTypeOK, NEW p \in Places, NEW q \in Places, NEW m \in Models
  PROVE  /\ \A x \in Folder : [files EXCEPT ![p][m] = x] \in [Places -> [Models -> Folder]]
         /\ files[p][m] # NoFiles /\ (TransferAndDelete(p, q, m) \/ TransferAndDeleteFails(p, q, m))
              => /\ files' \in [Places -> [Models -> Folder]]
                 /\ Fault \/ UNCHANGED <<starts, faults>>
         /\ \A x \in Folder \ {NoFiles}, c \in {"whole", "unclosed", "partly"} : CopyOf(x, c) \in Folder
<1>1. files \in [Places -> [Models -> Folder]] /\ files[p][m] \in Folder /\ NoFiles \in Folder
  BY DEF ApprovalTypeOK, Folder
<1>2. \A x \in Folder \ {NoFiles}, c \in {"whole", "unclosed", "partly"} : CopyOf(x, c) \in Folder
  BY DEF Folder, CopyOf
<1> HIDE DEF Folder
<1>3. \A x \in Folder : [files EXCEPT ![p][m] = x] \in [Places -> [Models -> Folder]]
  BY <1>1
<1>4. \A x, y \in Folder : [files EXCEPT ![q][m] = x, ![p][m] = y] \in [Places -> [Models -> Folder]]
  BY <1>1
<1>5. ASSUME files[p][m] # NoFiles, NEW c \in {"whole", "unclosed", "partly"}
      PROVE  /\ CopyOf(files[p][m], c) \in Folder
             /\ \A y \in Folder : Moved(p, q, m, c, y) \in [Places -> [Models -> Folder]]
  <2>1. PICK x \in Folder : x = CopyOf(files[p][m], c)
    BY <1>1, <1>2, <1>5
  <2>2. \A y \in Folder : [files EXCEPT ![q][m] = x, ![p][m] = y] \in [Places -> [Models -> Folder]]
    BY <1>4
  <2>3. QED
    BY <2>1, <2>2 DEF Moved
<1>6. ASSUME files[p][m] # NoFiles, TransferAndDelete(p, q, m) \/ TransferAndDeleteFails(p, q, m)
      PROVE  /\ files' \in [Places -> [Models -> Folder]]
             /\ Fault \/ UNCHANGED <<starts, faults>>
  <2>1. \/ files' = Moved(p, q, m, "whole", NoFiles) \/ files' = Moved(p, q, m, "unclosed", NoFiles)
        \/ files' = Moved(p, q, m, "whole", CopyOf(files[p][m], "partly"))
        \/ files' = Moved(p, q, m, "partly", files[p][m])
        \/ files' = Moved(p, q, m, "whole", files[p][m])
    BY <1>6 DEF TransferAndDelete, TransferAndDeleteFails
  <2>2. Fault \/ UNCHANGED <<starts, faults>>
    BY <1>6 DEF TransferAndDelete, TransferAndDeleteFails
  <2>3. QED
    BY <1>1, <1>5, <1>6, <2>1, <2>2
<1>7. QED
  BY <1>2, <1>3, <1>6

LEMMA FilesBounds ==
  ASSUME ApprovalInv, files' \in [Places -> [Models -> Folder]],
         Fault \/ UNCHANGED <<starts, faults>>, unchecked' = unchecked
  PROVE  BoundsStay
  BY BoundsSame DEF ApprovalInv, ApprovalTypeOK

LEMMA TransferKeeps ==
  ASSUME ApprovalInv, NEW w \in Busy, NEW m \in Models, TransferFolder(w, m) PROVE ApprovalInv'
<1>1. /\ flow[w].pc \in {"copy source", "copy live"} /\ AtCopyStage(w) /\ m \in flow[w].todo
      /\ UNCHANGED <<request, row, configs, unchecked, interrupted, overtaken>>
  BY DEF TransferFolder
<1>2. /\ flow[w] \in FlowState /\ MovedInv(flow[w]) /\ flow[w].g \in Groups /\ ApprovalTypeOK
      /\ Into(w) \in Places /\ flow[w].pc \in Building /\ flow[w].pc \notin Undoing \union Past
  BY <1>1, BusyIs, TypesAre DEF Into, Places, Building, Undoing, Past, ApprovalInv
<1>3. ASSUME From(w, m) # NoFiles, NEW c \in {"whole", "unclosed", "partly"}
      PROVE  [files EXCEPT ![Into(w)][m] = CopyOf(From(w, m), c)] \in [Places -> [Models -> Folder]]
  <2>1. From(w, m) \in Folder \ {NoFiles}
    <3>1. files["source"][m] \in Folder
      BY <1>2 DEF ApprovalTypeOK, Places
    <3>2. [by |-> flow[w].g, copied |-> "whole"] \in Folder
      BY <1>2 DEF Folder
    <3>3. QED
      BY <1>3, <3>1, <3>2 DEF From
  <2>2. CopyOf(From(w, m), c) \in Folder
    BY <1>2, <2>1, FoldersAre
  <2>3. QED
    BY <1>2, <2>2, FoldersAre
<1>4. CASE /\ From(w, m) # NoFiles /\ (Fault \/ UNCHANGED <<starts, faults>>)
           /\ \E c \in {"whole", "unclosed"} : files' = [files EXCEPT ![Into(w)][m] = CopyOf(From(w, m), c)]
           /\ flow' = [flow EXCEPT ![w].todo = @ \ {m}, ![w].moved = @ \union {<<Into(w), m>>}]
  <2>0. PICK x \in Places \X Models : x = <<Into(w), m>> /\ x[2] = m
    <3>1. <<Into(w), m>> \in Places \X Models
      BY <1>2
    <3>2. <<Into(w), m>>[2] = m
      OBVIOUS
    <3>3. QED
      BY <3>1, <3>2
  <2>1. PICK s : s = [flow[w] EXCEPT !.todo = @ \ {m}, !.moved = @ \union {x}]
    OBVIOUS
  <2>2. /\ s \in FlowState /\ s.pc = flow[w].pc /\ s.g = flow[w].g /\ s.mem = flow[w].mem
        /\ s.fresh = flow[w].fresh /\ s.todo = flow[w].todo \ {m}
        /\ s.moved = flow[w].moved \union {x}
    BY <1>2, <2>1 DEF FlowState
  <2>3. flow' = [flow EXCEPT ![w] = s]
    BY <1>2, <1>4, <2>0, <2>1
  <2>4. BoundsStay
    <3>1. files' \in [Places -> [Models -> Folder]]
      BY <1>3, <1>4
    <3>2. QED
      BY <1>1, <1>4, <3>1, FilesBounds
  <2>5. m \in request[flow[w].g].models
    BY <1>1, <1>2 DEF MovedInv
  <2>6. MovedInv(s)
    BY <1>1, <1>2, <2>0, <2>2, <2>5 DEF MovedInv, AtCopyStage
  <2>7. request[flow[w].g].type \in TypeAt(s.pc) /\ s.pc \notin {"idle", "approve", "fail restart"}
    BY <1>1, <2>2, TypesAre
  <2>8. QED
    BY <1>1, <1>2, <2>2, <2>3, <2>4, <2>6, <2>7, GoKeeps
<1>5. CASE /\ IF From(w, m) = NoFiles THEN UNCHANGED <<files, starts, faults>>
              ELSE Fault /\ files' = [files EXCEPT ![Into(w)][m] = CopyOf(From(w, m), "partly")]
           /\ flow' = [flow EXCEPT ![w].pc = "fail copy"]
  <2>1. PICK s : s = [flow[w] EXCEPT !.pc = "fail copy"]
    OBVIOUS
  <2>2. /\ s \in FlowState /\ s.pc = "fail copy" /\ s.g = flow[w].g /\ s.mem = flow[w].mem
        /\ s.fresh = flow[w].fresh /\ s.todo = flow[w].todo /\ s.moved = flow[w].moved
    BY <1>2, <2>1 DEF FlowState, Pcs
  <2>3. flow' = [flow EXCEPT ![w] = s]
    BY <1>2, <1>5, <2>1
  <2>4. BoundsStay
    <3>1. files \in [Places -> [Models -> Folder]]
      BY <1>2 DEF ApprovalTypeOK
    <3>2. files' \in [Places -> [Models -> Folder]] /\ (Fault \/ UNCHANGED <<starts, faults>>)
      BY <1>3, <1>5, <3>1
    <3>3. QED
      BY <1>1, <3>2, FilesBounds
  <2>5. MovedInv(s)
    BY <1>2, <2>2 DEF MovedInv
  <2>6. request[flow[w].g].type \in TypeAt(s.pc)
    BY <1>1, <2>2, TypesAre DEF TypeAt
  <2>7. QED
    BY <1>1, <1>2, <2>2, <2>3, <2>4, <2>5, <2>6, GoKeeps
<1>6. QED
  BY <1>4, <1>5 DEF TransferFolder

LEMMA MoveKeeps ==
  ASSUME ApprovalInv, NEW w \in Busy, NEW m \in Models, MoveToDeleteBucket(w, m) PROVE ApprovalInv'
<1>1. /\ flow[w].pc = "move" /\ AtCopyStage(w) /\ m \in flow[w].todo
      /\ UNCHANGED <<request, row, configs, unchecked, interrupted, overtaken>>
  BY DEF MoveToDeleteBucket
<1>2. /\ flow[w] \in FlowState /\ MovedInv(flow[w]) /\ ApprovalTypeOK /\ {"live", "deleted"} \subseteq Places
      /\ flow[w].pc \notin Building \union Undoing \union Past
  BY <1>1, BusyIs, TypesAre DEF Places, Building, Undoing, Past, ApprovalInv
<1>3. files' \in [Places -> [Models -> Folder]] /\ (Fault \/ UNCHANGED <<starts, faults>>)
  <2>1. CASE files["live"][m] # NoFiles /\ TransferAndDelete("live", "deleted", m)
    BY <1>2, <2>1, FoldersAre
  <2>2. CASE files["live"][m] # NoFiles /\ TransferAndDeleteFails("live", "deleted", m)
    BY <1>2, <2>2, FoldersAre
  <2>3. CASE UNCHANGED <<files, starts, faults>>
    BY <1>2, <2>3 DEF ApprovalTypeOK
  <2>4. QED
    BY <2>1, <2>2, <2>3 DEF MoveToDeleteBucket
<1>4. BoundsStay
  BY <1>1, <1>3, FilesBounds
<1>5. CASE flow' = [flow EXCEPT ![w].todo = @ \ {m}, ![w].moved = @ \union {<<"live", m>>}]
  <2>0. PICK x \in Places \X Models : x = <<"live", m>> /\ x[2] = m
    <3>1. <<"live", m>> \in Places \X Models
      BY <1>2
    <3>2. <<"live", m>>[2] = m
      OBVIOUS
    <3>3. QED
      BY <3>1, <3>2
  <2>1. PICK s : s = [flow[w] EXCEPT !.todo = @ \ {m}, !.moved = @ \union {x}]
    OBVIOUS
  <2>2. /\ s \in FlowState /\ s.pc = "move" /\ s.g = flow[w].g /\ s.mem = flow[w].mem
        /\ s.fresh = flow[w].fresh /\ s.todo = flow[w].todo \ {m}
        /\ s.moved = flow[w].moved \union {x}
    BY <1>1, <1>2, <2>1 DEF FlowState
  <2>3. flow' = [flow EXCEPT ![w] = s]
    BY <1>2, <1>5, <2>0, <2>1
  <2>4. m \in request[flow[w].g].models
    BY <1>1, <1>2 DEF MovedInv
  <2>5. MovedInv(s)
    BY <1>1, <1>2, <2>0, <2>2, <2>4 DEF MovedInv, AtCopyStage
  <2>6. request[flow[w].g].type \in TypeAt(s.pc) /\ s.pc \notin Building
    BY <1>1, <1>2, <2>2, TypesAre
  <2>7. QED
    BY <1>1, <1>2, <1>4, <2>2, <2>3, <2>5, <2>6, GoKeeps
<1>6. CASE flow' = [flow EXCEPT ![w].pc = "fail move"]
  <2>1. PICK s : s = [flow[w] EXCEPT !.pc = "fail move"]
    OBVIOUS
  <2>2. /\ s \in FlowState /\ s.pc = "fail move" /\ s.g = flow[w].g /\ s.mem = flow[w].mem
        /\ s.fresh = flow[w].fresh /\ s.todo = flow[w].todo /\ s.moved = flow[w].moved
    BY <1>2, <2>1 DEF FlowState, Pcs
  <2>3. flow' = [flow EXCEPT ![w] = s]
    BY <1>2, <1>6, <2>1
  <2>4. MovedInv(s)
    BY <1>2, <2>2 DEF MovedInv
  <2>5. request[flow[w].g].type \in TypeAt(s.pc) /\ s.pc \notin Building
    BY <1>1, <2>2, TypesAre DEF TypeAt, Building
  <2>6. QED
    BY <1>1, <1>2, <1>4, <2>2, <2>3, <2>4, <2>5, GoKeeps
<1>7. QED
  BY <1>5, <1>6 DEF MoveToDeleteBucket

\* One of the folders is put back, or that fails.
LEMMA UndoKeeps ==
  ASSUME ApprovalInv, NEW w \in Busy, flow[w].pc \in Undoing, NEW f \in flow[w].moved,
         files' \in [Places -> [Models -> Folder]],
         Fault \/ UNCHANGED <<starts, faults>>,
         UNCHANGED <<request, row, configs, unchecked, overtaken>>,
         \/ flow' = [flow EXCEPT ![w] = Done(w, f)] /\ interrupted' = interrupted
         \/ flow' = [flow EXCEPT ![w] = Idle] /\ interrupted' = interrupted \union {flow[w].g}
  PROVE  ApprovalInv'
<1>1. BoundsStay
  BY FilesBounds
<1>2. flow[w] \in FlowState /\ MovedInv(flow[w]) /\ flow[w].pc \notin Past
  BY BusyIs, TypesAre DEF Undoing, Past
<1>3. CASE flow' = [flow EXCEPT ![w] = Idle] /\ interrupted' \in {interrupted, interrupted \union {flow[w].g}}
  BY <1>1, <1>2, <1>3, EndKeeps
<1>4. CASE flow' = [flow EXCEPT ![w] = [flow[w] EXCEPT !.moved = @ \ {f}]] /\ interrupted' = interrupted
  <2>1. PICK s : s = [flow[w] EXCEPT !.moved = @ \ {f}]
    OBVIOUS
  <2>2. /\ s \in FlowState /\ s.pc = flow[w].pc /\ s.g = flow[w].g /\ s.mem = flow[w].mem
        /\ s.fresh = flow[w].fresh /\ s.todo = flow[w].todo /\ s.moved = flow[w].moved \ {f}
    BY <1>2, <2>1 DEF FlowState
  <2>3. flow' = [flow EXCEPT ![w] = s]
    BY <1>2, <1>4, <2>1
  <2>4. MovedInv(s)
    BY <1>2, <2>2 DEF MovedInv
  <2>5. request[flow[w].g].type \in TypeAt(s.pc) /\ s.pc \notin {"idle", "approve", "fail restart"}
    BY <2>2, TypesAre DEF Undoing
  <2>6. QED
    BY <1>1, <1>2, <1>4, <2>2, <2>3, <2>4, <2>5, GoKeeps
<1>5. QED
  BY <1>3, <1>4 DEF Done

LEMMA RevertKeeps ==
  ASSUME ApprovalInv, NEW w \in Busy, NEW f \in flow[w].moved, Revert(w, f) PROVE ApprovalInv'
<1>1. /\ flow[w].pc \in Undoing /\ ApprovalTypeOK /\ f[1] \in Places /\ f[2] \in Models /\ flow[w].g \in Groups
      /\ UNCHANGED <<request, row, configs, unchecked, overtaken>>
  BY BusyIs DEF Revert, Undoing, ApprovalInv
<1>2. PICK left \in Folder : left = IF files[f[1]][f[2]] = NoFiles THEN NoFiles
                                    ELSE CopyOf(files[f[1]][f[2]], "partly")
  <2>1. NoFiles \in Folder /\ files[f[1]][f[2]] \in Folder
    BY <1>1 DEF Folder, ApprovalTypeOK
  <2>2. QED
    BY <1>1, <2>1, FoldersAre
<1>3. /\ [files EXCEPT ![f[1]][f[2]] = NoFiles] \in [Places -> [Models -> Folder]]
      /\ [files EXCEPT ![f[1]][f[2]] = left] \in [Places -> [Models -> Folder]]
  <2>1. NoFiles \in Folder
    BY DEF Folder
  <2>2. QED
    BY <1>1, <2>1, FoldersAre
<1>4. /\ files' \in [Places -> [Models -> Folder]] /\ (Fault \/ UNCHANGED <<starts, faults>>)
      /\ \/ flow' = [flow EXCEPT ![w] = Done(w, f)] /\ interrupted' = interrupted
         \/ flow' = [flow EXCEPT ![w] = Idle] /\ interrupted' = interrupted \union {flow[w].g}
  BY <1>2, <1>3 DEF Revert
<1>5. QED
  BY <1>1, <1>4, UndoKeeps

LEMMA RevertForDeleteKeeps ==
  ASSUME ApprovalInv, NEW w \in Busy, NEW f \in flow[w].moved, RevertForDelete(w, f) PROVE ApprovalInv'
<1>1. /\ flow[w].pc \in Undoing /\ ApprovalTypeOK /\ f[2] \in Models /\ {"deleted", "live"} \subseteq Places
      /\ UNCHANGED <<request, row, configs, unchecked, overtaken>>
  BY BusyIs DEF RevertForDelete, Undoing, ApprovalInv, Places
<1>2. files' \in [Places -> [Models -> Folder]] /\ (Fault \/ UNCHANGED <<starts, faults>>)
  <2>1. CASE files["deleted"][f[2]] # NoFiles /\ TransferAndDelete("deleted", "live", f[2])
    BY <1>1, <2>1, FoldersAre
  <2>2. CASE UNCHANGED <<files, starts, faults>>
    BY <1>1, <2>2 DEF ApprovalTypeOK
  <2>3. CASE files["deleted"][f[2]] # NoFiles /\ TransferAndDeleteFails("deleted", "live", f[2])
    BY <1>1, <2>3, FoldersAre
  <2>4. QED
    BY <2>1, <2>2, <2>3 DEF RevertForDelete
<1>3. \/ flow' = [flow EXCEPT ![w] = Done(w, f)] /\ interrupted' = interrupted
      \/ flow' = [flow EXCEPT ![w] = Idle] /\ interrupted' = interrupted \union {flow[w].g}
  BY DEF RevertForDelete
<1>4. QED
  BY <1>1, <1>2, <1>3, UndoKeeps

LEMMA UpdateConfigKeeps ==
  ASSUME ApprovalInv, NEW w \in Busy, NEW m \in Models, UpdateConfig(w, m) PROVE ApprovalInv' /\ ConfigsStay
<1>1. /\ flow[w].pc = "update" /\ m \in flow[w].todo
      /\ UNCHANGED <<request, row, files, unchecked, interrupted, overtaken>>
  BY DEF UpdateConfig
<1>2. /\ flow[w] \in FlowState /\ MovedInv(flow[w]) /\ ApprovalTypeOK /\ flow[w].g \in Groups
      /\ flow[w].pc \notin Building \union Undoing \union Past
  BY <1>1, BusyIs, TypesAre DEF Building, Undoing, Past, ApprovalInv
<1>3. Fault \/ UNCHANGED <<starts, faults>>
  BY DEF UpdateConfig
<1>4. BoundsStay
  BY <1>1, <1>2, <1>3, FilesBounds DEF ApprovalTypeOK
<1>5. CASE /\ \E i \in ActiveConfigs(m) : configs' = [configs EXCEPT ![i].meta = flow[w].g]
           /\ flow' = [flow EXCEPT ![w].todo = @ \ {m}]
  <2>1. PICK i \in ActiveConfigs(m) : configs' = [configs EXCEPT ![i].meta = flow[w].g]
    BY <1>5
  <2>2. PICK c : c = [configs[i] EXCEPT !.meta = flow[w].g]
    OBVIOUS
  <2>3. i \in DOMAIN configs /\ configs \in Seq(Config) /\ configs[i] \in Config
    BY <1>2 DEF ApprovalTypeOK, ActiveConfigs
  <2>4. c \in Config /\ c.model = configs[i].model /\ c.by = configs[i].by /\ c.active = configs[i].active
    BY <1>2, <2>2, <2>3 DEF Config
  <2>5. configs' = [configs EXCEPT ![i] = c]
    BY <2>1, <2>2
  <2>6. configs' \in Seq(Config) /\ DOMAIN configs' = DOMAIN configs
    BY <2>3, <2>4, <2>5
  <2>7. ConfigsStay
    BY <2>3, <2>4, <2>5, <2>6 DEF ConfigsStay
  <2>8. PICK s : s = [flow[w] EXCEPT !.todo = @ \ {m}]
    OBVIOUS
  <2>9. /\ s \in FlowState /\ s.pc = "update" /\ s.g = flow[w].g /\ s.mem = flow[w].mem
        /\ s.fresh = flow[w].fresh /\ s.todo = flow[w].todo \ {m} /\ s.moved = flow[w].moved
    BY <1>1, <1>2, <2>8 DEF FlowState
  <2>10. Moves(w, s)
    BY <1>1, <1>2, <1>5, <2>8, <2>9 DEF Moves
  <2>11. Fits(s) /\ MovedInv(s) /\ s.pc \notin Building
    BY <1>1, <1>2, <2>9, BusyIs DEF MovedInv, Fits, FlowInv
  <2>12. QED
    BY <1>1, <1>2, <1>4, <2>6, <2>7, <2>10, <2>11, MovesKeeps
<1>6. CASE flow' = [flow EXCEPT ![w].pc = "fail db"] /\ configs' = configs
  <2>1. PICK s : s = [flow[w] EXCEPT !.pc = "fail db"]
    OBVIOUS
  <2>2. /\ s \in FlowState /\ s.pc = "fail db" /\ s.g = flow[w].g /\ s.mem = flow[w].mem
        /\ s.fresh = flow[w].fresh /\ s.todo = flow[w].todo /\ s.moved = flow[w].moved
    BY <1>2, <2>1 DEF FlowState, Pcs
  <2>3. flow' = [flow EXCEPT ![w] = s]
    BY <1>2, <1>6, <2>1
  <2>4. MovedInv(s) /\ Fits(s)
    BY <1>1, <1>2, <2>2, BusyIs, TypesAre DEF MovedInv, Fits, TypeAt, FlowInv
  <2>5. request[flow[w].g].type \notin Created
    BY <1>1, TypesAre, ApprovalAssumption DEF TypeAt
  <2>6. Moves(w, s) /\ ConfigsStay /\ DOMAIN configs' = DOMAIN configs
    BY <1>1, <1>2, <1>6, <2>2, <2>3, ConfigsSame DEF Moves
  <2>7. QED
    BY <1>1, <1>2, <1>4, <2>4, <2>5, <2>6, MovesKeeps
<1>7. QED
  BY <1>5, <1>6 DEF UpdateConfig

\* The database step fails or is not there to do.
LEMMA DbFails ==
  ASSUME ApprovalInv, NEW w \in Busy, flow[w].pc \in {"populate", "unregister"},
         Fault, flow' = [flow EXCEPT ![w].pc = "fail db"],
         UNCHANGED <<request, row, configs, files, unchecked, interrupted, overtaken>>
  PROVE  ApprovalInv'
<1>1. /\ flow[w] \in FlowState /\ MovedInv(flow[w]) /\ ApprovalTypeOK /\ flow[w].pc \notin Undoing \union Past
  BY BusyIs, TypesAre DEF Undoing, Past, ApprovalInv
<1>2. BoundsStay
  BY <1>1, FilesBounds DEF ApprovalTypeOK
<1>3. PICK s : s = [flow[w] EXCEPT !.pc = "fail db"]
  OBVIOUS
<1>4. /\ s \in FlowState /\ s.pc = "fail db" /\ s.g = flow[w].g /\ s.mem = flow[w].mem
      /\ s.fresh = flow[w].fresh /\ s.todo = flow[w].todo /\ s.moved = flow[w].moved
  BY <1>1, <1>3 DEF FlowState, Pcs
<1>5. Moves(w, s)
  BY <1>1, <1>3, <1>4 DEF Moves
<1>6. MovedInv(s) /\ Fits(s)
  BY <1>1, <1>4, BusyIs, TypesAre DEF MovedInv, Fits, TypeAt, FlowInv
<1>7. ConfigsStay /\ DOMAIN configs' = DOMAIN configs
  BY <1>1, ConfigsSame
<1>8. request[flow[w].g].type \in Created => flow[w].pc \in Building
  BY TypesAre, ApprovalAssumption DEF TypeAt, Building
<1>9. QED
  BY <1>1, <1>2, <1>5, <1>6, <1>7, <1>8, MovesKeeps

LEMMA SkipToRestart ==
  ASSUME ApprovalInv, NEW w \in Busy, flow[w].pc \in {"populate", "unregister"},
         flow[w].mem.stage # "DB Population", GoTo(w, "restart")
  PROVE  ApprovalInv'
<1>1. flow[w].moved = {}
  BY TypesAre DEF MovedInv, Undoing
<1>2. "restart" \in Pcs /\ "restart" \notin Building /\ flow[w].pc \notin Undoing
      /\ request[flow[w].g].type \in TypeAt("restart") /\ "restart" \in Past
  BY TypesAre DEF Pcs, Building, Undoing, Past, TypeAt
<1>3. QED
  BY <1>1, <1>2, GoToKeeps

\* What one transaction of the database stage writes and leaves.
Transacts(w, mem, r, s) ==
    /\ flow[w].pc \in {"populate", "unregister"}
    /\ mem = Marked(flow[w].mem, "In Progress", "Restart Deployable")
    /\ \/ s = [flow[w] EXCEPT !.pc = "restart", !.mem = mem, !.moved = {}, !.fresh = TRUE]
       \/ /\ s = [flow[w] EXCEPT !.pc = "restart", !.mem = mem, !.fresh = TRUE]
          /\ flow[w].moved = {}
    /\ r \in Row /\ r.status = "In Progress" /\ r.stage = "Restart Deployable"
    /\ row' = [row EXCEPT ![flow[w].g] = r] /\ flow' = FlowsAfter(w, s) /\ Overtake(w)
    /\ UNCHANGED <<request, interrupted>>

LEMMA TransactionIs ==
  ASSUME ApprovalInv, NEW w \in Busy, NEW mem \in Row, NEW r \in Row, NEW s \in FlowState,
         Transacts(w, mem, r, s)
  PROVE  /\ Writes(w, r, s)
         /\ s.pc = "restart" /\ s.mem = mem /\ s.g = flow[w].g
         /\ MovedInv(s) /\ flow[w].pc \notin Undoing \union Past /\ s.pc \in Past /\ s.pc \notin Building
<1>1. flow[w] \in FlowState /\ flow[w].mem \in Row /\ MovedInv(flow[w])
  BY BusyIs, TypesAre
<1>2. /\ s \in FlowState /\ s.pc = "restart" /\ s.mem = mem /\ s.g = flow[w].g
      /\ s.todo = flow[w].todo /\ s.moved = {}
  BY <1>1 DEF FlowState, Pcs, Transacts
<1>3. Writes(w, r, s)
  BY <1>2 DEF Writes, Overtake, Transacts
<1>4. MovedInv(s)
  BY <1>1, <1>2 DEF MovedInv
<1>5. flow[w].pc \notin Undoing \union Past /\ s.pc \in Past /\ s.pc \notin Building
  BY <1>2 DEF Undoing, Past, Building, Transacts
<1>6. QED
  BY <1>2, <1>3, <1>4, <1>5

LEMMA PopulationKeeps ==
  ASSUME ApprovalInv, NEW w \in Busy, ProcessDBPopulation(w) PROVE ApprovalInv' /\ ConfigsStay
<1>1. flow[w].pc = "populate"
  BY DEF ProcessDBPopulation
<1>2. PICK g \in Groups : g = flow[w].g
  BY BusyIs
<1>3. PICK mem \in Row : mem = Marked(flow[w].mem, "In Progress", "Restart Deployable")
  BY BusyIs DEF Marked, Row
<1>4. CASE flow[w].mem.stage # "DB Population" /\ GoTo(w, "restart")
  BY <1>1, <1>4, SkipToRestart, ConfigsSame DEF GoTo, ApprovalInv
<1>5. CASE /\ Fault /\ flow' = [flow EXCEPT ![w].pc = "fail db"]
           /\ UNCHANGED <<row, configs, overtaken>> /\ UNCHANGED <<request, files, unchecked, interrupted>>
  BY <1>1, <1>5, DbFails, ConfigsSame DEF ApprovalInv
<1>6. CASE /\ configs' = configs \o SetToSeq(NewConfigs(g, ModelsOf(w)))
           /\ row' = [row EXCEPT ![g] = [mem EXCEPT !.valid = @ \/ row[g].valid]]
           /\ flow' = FlowsAfter(w, [flow[w] EXCEPT !.pc = "restart", !.mem = mem, !.moved = {}, !.fresh = TRUE])
           /\ Overtake(w)
           /\ UNCHANGED <<starts, faults>> /\ UNCHANGED <<request, files, unchecked, interrupted>>
  <2>1. PICK s \in FlowState : s = [flow[w] EXCEPT !.pc = "restart", !.mem = mem, !.moved = {}, !.fresh = TRUE]
    BY BusyIs DEF FlowState, Pcs
  <2>2. PICK r \in Row : r = [mem EXCEPT !.valid = @ \/ row[g].valid]
    BY DEF Row
  <2>3. /\ mem.status = "In Progress" /\ mem.stage = "Restart Deployable"
        /\ mem.active = flow[w].mem.active
    BY <1>3, BusyIs, ZenonT(30) DEF Marked, Row, Terminal
  <2>4. r \in Row /\ r.status = "In Progress" /\ r.stage = "Restart Deployable" /\ r.active = mem.active
    BY <2>2, <2>3 DEF Row
  <2>5. /\ Writes(w, r, s)
        /\ s.pc = "restart" /\ s.mem = mem /\ s.g = g
        /\ MovedInv(s) /\ flow[w].pc \notin Undoing \union Past /\ s.pc \in Past /\ s.pc \notin Building
    <3>1. row' = [row EXCEPT ![flow[w].g] = r] /\ flow' = FlowsAfter(w, s)
      BY <1>2, <1>6, <2>1, <2>2
    <3>2. Overtake(w) /\ UNCHANGED <<request, interrupted>>
      BY <1>6
    <3>3. Transacts(w, mem, r, s)
      BY <1>1, <1>3, <2>1, <2>4, <3>1, <3>2 DEF Transacts
    <3>4. QED
      BY <1>2, <3>3, TransactionIs
  <2>6. PICK q : q = SetToSeq(NewConfigs(g, ModelsOf(w)))
    OBVIOUS
  <2>7. PICK models \in SUBSET Models : models = request[g].models /\ models = ModelsOf(w)
    BY <1>2, BusyIs DEF ModelsOf
  <2>8. ApprovalTypeOK /\ configs \in Seq(Config) /\ RequestInv(g)
    BY <1>2, BusyIs DEF ApprovalInv, ApprovalTypeOK
  <2>9. /\ q \in Seq(Config)
        /\ \A i \in DOMAIN q : q[i].model \in models /\ q[i].by = g /\ q[i].active
        /\ \A m \in models : \E i \in DOMAIN q : q[i].model = m
        /\ \A i, j \in DOMAIN q : q[i].model = q[j].model => i = j
    BY <2>6, <2>7, <2>8, NewConfigsAre
  <2>10. configs' = configs \o q
    BY <1>6, <2>6
  <2> DEFINE n == Len(configs)
  <2>11. /\ configs' \in Seq(Config) /\ n \in Nat /\ DOMAIN configs' = 1..n + Len(q) /\ DOMAIN configs = 1..n /\ DOMAIN q = 1..Len(q) /\ Len(q) \in Nat
         /\ \A i \in DOMAIN configs : i \in DOMAIN configs' /\ configs'[i] = configs[i]
         /\ \A i \in DOMAIN q : n + i \in DOMAIN configs' /\ configs'[n + i] = q[i]
         /\ \A i \in DOMAIN configs' \ DOMAIN configs : i - n \in DOMAIN q /\ configs'[i] = q[i - n]
    BY <2>8, <2>9, <2>10, AppendedAre
  <2>12. /\ \A i \in DOMAIN configs' \ DOMAIN configs :
              configs'[i].model \in models /\ configs'[i].by = g /\ configs'[i].active
         /\ \A i, j \in DOMAIN configs' \ DOMAIN configs : configs'[i].model = configs'[j].model => i = j
    <3>1. ASSUME NEW i \in DOMAIN configs' \ DOMAIN configs
          PROVE  configs'[i].model \in models /\ configs'[i].by = g /\ configs'[i].active
      <4>1. PICK k \in DOMAIN q : configs'[i] = q[k]
        BY <2>11
      <4>2. QED
        BY <2>9, <4>1
    <3>2. ASSUME NEW i \in DOMAIN configs' \ DOMAIN configs, NEW j \in DOMAIN configs' \ DOMAIN configs,
                 configs'[i].model = configs'[j].model
          PROVE  i = j
      <4>1. i - n \in DOMAIN q /\ configs'[i] = q[i - n] /\ j - n \in DOMAIN q /\ configs'[j] = q[j - n]
        BY <2>11
      <4>2. i - n = j - n
        BY <2>9, <3>2, <4>1
      <4>3. i \in Int /\ j \in Int
        BY <2>11
      <4>4. QED
        BY <2>11, <4>2, <4>3
    <3>3. QED
      BY <3>1, <3>2
  <2>13. request[g].type \in Created /\ request[g].ids = {}
    BY <1>1, <1>2, TypesAre, ApprovalAssumption DEF TypeAt
  <2>14. ConfigsStay
    BY <2>7, <2>11, <2>12, <2>13 DEF ConfigsStay
  <2>15. Recorded(g)'
    <3>1. \A i \in Own(g)' : configs'[i].model \in models
      BY <2>7, <2>8, <2>14, OwnStays
    <3>2. ASSUME NEW m \in models PROVE \E i \in Own(g)' : configs'[i].model = m
      <4>1. PICK k \in DOMAIN q : q[k].model = m /\ q[k].by = g
        BY <2>9
      <4>2. n + k \in DOMAIN configs' /\ configs'[n + k] = q[k]
        BY <2>11
      <4>3. QED
        BY <4>1, <4>2 DEF Own
    <3>3. {configs'[i].model : i \in Own(g)'} = models
      BY <3>1, <3>2
    <3>4. request'[g] = request[g]
      BY <1>6
    <3>5. QED
      BY <2>7, <2>13, <3>3, <3>4 DEF Recorded
  <2>16. CopyInv(g, r)' /\ CopyInv(g, mem)'
    BY <2>3, <2>4, <2>15 DEF CopyInv, Terminal
  <2>17. Fits(s)'
    <3>1. request[g] # NoRequest
      BY <1>2, BusyIs DEF FlowInv, Fits
    <3>2. request[g].type \in TypeAt(s.pc)
      BY <1>2, <2>5, TypesAre DEF TypeAt
    <3>3. QED
      BY <1>6, <2>5, <2>16, <3>1, <3>2 DEF Fits
  <2>18. BoundsStay
    BY <1>6, <2>8 DEF BoundsStay, ApprovalTypeOK
  <2>19. \A m \in Models \ ModelsOf(w) : ActiveConfigs(m)' \subseteq ActiveConfigs(m)
    BY <2>7, <2>11, <2>12 DEF ActiveConfigs
  <2>20. \A m \in ModelsOf(w) \ unchecked : \A i, j \in ActiveConfigs(m)' : i = j
    <3>1. SUFFICES ASSUME NEW m \in ModelsOf(w) \ unchecked, NEW i \in ActiveConfigs(m)', NEW j \in ActiveConfigs(m)'
                   PROVE  i = j
      OBVIOUS
    <3>2. ActiveConfigs(m) = {}
      BY <1>1, <1>2, <2>13 DEF ApprovalInv, NoConfigYet, Building
    <3>3. i \in DOMAIN configs' \ DOMAIN configs /\ j \in DOMAIN configs' \ DOMAIN configs
      BY <2>11, <3>2 DEF ActiveConfigs
    <3>4. QED
      BY <2>12, <3>3 DEF ActiveConfigs
  <2>21. \A h \in Groups \ {flow[w].g} : Own(h)' = Own(h)
    BY <1>2, <2>11, <2>12 DEF Own
  <2>22. "In Progress" \notin Terminal
    BY DEF Terminal
  <2>23. QED
    BY <1>1, <1>2, <2>4, <2>5, <2>14, <2>16, <2>17, <2>18, <2>19, <2>20, <2>21, <2>22, WritesKeeps
<1>7. QED
  BY <1>2, <1>3, <1>4, <1>5, <1>6, ZenonT(30) DEF ProcessDBPopulation, NewConfigs

LEMMA DeleteKeeps ==
  ASSUME ApprovalInv, NEW w \in Busy, DeleteDiscoveryAndConfig(w) PROVE ApprovalInv' /\ ConfigsStay
<1>1. flow[w].pc = "unregister"
  BY DEF DeleteDiscoveryAndConfig
<1>2. PICK g \in Groups : g = flow[w].g
  BY BusyIs
<1>3. PICK mem \in Row : mem = Marked(flow[w].mem, "In Progress", "Restart Deployable")
  BY BusyIs DEF Marked, Row
<1>4. CASE flow[w].mem.stage # "DB Population" /\ GoTo(w, "restart")
  BY <1>1, <1>4, SkipToRestart, ConfigsSame DEF GoTo, ApprovalInv
<1>5. CASE /\ Fault /\ flow' = [flow EXCEPT ![w].pc = "fail db"]
           /\ UNCHANGED <<row, configs, overtaken>> /\ UNCHANGED <<request, files, unchecked, interrupted>>
  BY <1>1, <1>5, DbFails, ConfigsSame DEF ApprovalInv
<1>6. CASE /\ configs' = [i \in DOMAIN configs |->
                              [configs[i] EXCEPT !.active = @ /\ i \notin request[g].ids]]
           /\ row' = [row EXCEPT ![g] = mem]
           /\ flow' = FlowsAfter(w, [flow[w] EXCEPT !.pc = "restart", !.mem = mem, !.fresh = TRUE])
           /\ Overtake(w)
           /\ UNCHANGED <<starts, faults>> /\ UNCHANGED <<request, files, unchecked, interrupted>>
  <2>1. PICK s \in FlowState : s = [flow[w] EXCEPT !.pc = "restart", !.mem = mem, !.fresh = TRUE]
    BY BusyIs DEF FlowState, Pcs
  <2>2. flow[w].moved = {}
    BY <1>1, TypesAre DEF MovedInv, Undoing
  <2>3. /\ mem.status = "In Progress" /\ mem.stage = "Restart Deployable"
        /\ mem.active = flow[w].mem.active
    BY <1>3, BusyIs DEF Marked, Row, Terminal
  <2>4. /\ Writes(w, mem, s)
        /\ s.pc = "restart" /\ s.mem = mem /\ s.g = g
        /\ MovedInv(s) /\ flow[w].pc \notin Undoing \union Past /\ s.pc \in Past /\ s.pc \notin Building
    <3>1. row' = [row EXCEPT ![flow[w].g] = mem] /\ flow' = FlowsAfter(w, s)
      BY <1>2, <1>6, <2>1
    <3>2. Overtake(w) /\ UNCHANGED <<request, interrupted>>
      BY <1>6
    <3>3. Transacts(w, mem, mem, s)
      BY <1>1, <1>3, <2>1, <2>2, <2>3, <3>1, <3>2 DEF Transacts
    <3>4. QED
      BY <1>2, <3>3, TransactionIs
  <2>5. ApprovalTypeOK /\ configs \in Seq(Config)
    BY DEF ApprovalInv, ApprovalTypeOK
  <2>6. \A c \in Config : \A b \in BOOLEAN :
          LET d == [c EXCEPT !.active = @ /\ b]
          IN  d \in Config /\ d.model = c.model /\ d.by = c.by /\ (d.active <=> c.active /\ b)
    BY DEF Config
  <2>7. /\ configs' \in Seq(Config) /\ DOMAIN configs' = DOMAIN configs
        /\ \A i \in DOMAIN configs :
              /\ configs'[i].model = configs[i].model /\ configs'[i].by = configs[i].by
              /\ configs'[i].active <=> configs[i].active /\ i \notin request[g].ids
    <3>1. \A i \in DOMAIN configs : configs[i] \in Config /\ configs'[i] = [configs[i] EXCEPT !.active = @ /\ i \notin request[g].ids]
      BY <1>6, <2>5
    <3>2. DOMAIN configs' = DOMAIN configs /\ configs' = [i \in DOMAIN configs |-> configs'[i]]
      BY <1>6
    <3>3. ASSUME NEW i \in DOMAIN configs
          PROVE  /\ configs'[i] \in Config
                 /\ configs'[i].model = configs[i].model /\ configs'[i].by = configs[i].by
                 /\ configs'[i].active <=> configs[i].active /\ i \notin request[g].ids
      <4>1. PICK b \in BOOLEAN : b <=> i \notin request[g].ids
        OBVIOUS
      <4>2. configs[i] \in Config /\ configs'[i] = [configs[i] EXCEPT !.active = @ /\ b]
        BY <3>1, <4>1
      <4>3. QED
        BY <2>6, <4>1, <4>2
    <3>4. configs' \in Seq(Config)
      BY <2>5, <3>2, <3>3
    <3>5. QED
      BY <3>2, <3>3, <3>4
  <2>8. ConfigsStay
    BY <2>7 DEF ConfigsStay
  <2>9. request[g].type = "Delete"
    BY <1>1, <1>2, TypesAre DEF TypeAt
  <2>10. Recorded(g)'
    <3>1. request'[g] = request[g] /\ request[g].ids \subseteq DOMAIN configs
      BY <1>6, <2>5 DEF ApprovalTypeOK
    <3>2. "Delete" \notin Created
      BY ApprovalAssumption
    <3>3. QED
      BY <2>7, <2>9, <3>1, <3>2 DEF Recorded
  <2>11. CopyInv(g, mem)'
    BY <2>3, <2>10 DEF CopyInv, Terminal
  <2>12. Fits(s)'
    <3>1. request[g] # NoRequest
      BY <1>2, BusyIs DEF FlowInv, Fits
    <3>2. request[g].type \in TypeAt(s.pc)
      BY <1>2, <2>4, TypesAre DEF TypeAt
    <3>3. QED
      BY <1>6, <2>4, <2>11, <3>1, <3>2 DEF Fits
  <2>13. BoundsStay
    BY <1>6, <2>5 DEF BoundsStay, ApprovalTypeOK
  <2>14. /\ \A m \in Models : ActiveConfigs(m)' \subseteq ActiveConfigs(m)
         /\ \A h \in Groups : Own(h)' = Own(h)
    BY <2>7, <2>8, ActiveStays
  <2>15. \A m \in ModelsOf(w) \ unchecked : \A i, j \in ActiveConfigs(m)' : i = j
    BY <2>14, BusyIs DEF ApprovalInv, OneConfigPerModel, ModelsOf
  <2>16. "In Progress" \notin Terminal
    BY DEF Terminal
  <2>17. QED
    BY <1>1, <1>2, <2>3, <2>4, <2>8, <2>11, <2>12, <2>13, <2>14, <2>15, <2>16, WritesKeeps
<1>7. QED
  BY <1>2, <1>3, <1>4, <1>5, <1>6 DEF DeleteDiscoveryAndConfig

LEMMA FlowStepKeeps ==
  ASSUME ApprovalInv, NEW w \in Workers, FlowStep(w)
  PROVE  ApprovalInv' /\ w \in Busy
<1>1. CASE ProcessRejectRequest(w)
  BY <1>1, RejectKeeps DEF ProcessRejectRequest, Busy
<1>2. CASE CheckIfModelsExist(w)
  BY <1>2, ExistKeeps DEF CheckIfModelsExist, Busy
<1>3. CASE EndCopySource(w)
  BY <1>3, EndCopySourceKeeps DEF EndCopySource, Busy
<1>4. CASE EndCopyLive(w)
  BY <1>4, EndCopyLiveKeeps DEF EndCopyLive, Busy
<1>5. CASE Fail(w)
  BY <1>5, FailKeeps DEF Fail, Busy
<1>6. CASE ProcessDBPopulation(w)
  BY <1>6, PopulationKeeps DEF ProcessDBPopulation, Busy
<1>7. CASE EndUpdate(w)
  BY <1>7, EndUpdateKeeps DEF EndUpdate, Busy
<1>8. CASE ProcessRestartDeployable(w)
  BY <1>8, RestartKeeps DEF ProcessRestartDeployable, Busy
<1>9. CASE ApproveEdit(w)
  BY <1>9, ApproveEditKeeps DEF ApproveEdit, Busy
<1>10. CASE EndMove(w)
  BY <1>10, EndMoveKeeps DEF EndMove, Busy
<1>11. CASE DeleteDiscoveryAndConfig(w)
  BY <1>11, DeleteKeeps DEF DeleteDiscoveryAndConfig, Busy
<1>12. ASSUME NEW m \in Models, TransferFolder(w, m) PROVE ApprovalInv' /\ w \in Busy
  BY <1>12, TransferKeeps DEF TransferFolder, Busy
<1>13. ASSUME NEW m \in Models, UpdateConfig(w, m) PROVE ApprovalInv' /\ w \in Busy
  BY <1>13, UpdateConfigKeeps DEF UpdateConfig, Busy
<1>14. ASSUME NEW m \in Models, MoveToDeleteBucket(w, m) PROVE ApprovalInv' /\ w \in Busy
  BY <1>14, MoveKeeps DEF MoveToDeleteBucket, Busy
<1>15. ASSUME NEW f \in flow[w].moved, Revert(w, f) PROVE ApprovalInv' /\ w \in Busy
  BY <1>15, RevertKeeps DEF Revert, Busy
<1>16. ASSUME NEW f \in flow[w].moved, RevertForDelete(w, f) PROVE ApprovalInv' /\ w \in Busy
  BY <1>16, RevertForDeleteKeeps DEF RevertForDelete, Busy
<1>17. QED
  BY <1>1, <1>2, <1>3, <1>4, <1>5, <1>6, <1>7, <1>8, <1>9, <1>10, <1>11, <1>12, <1>13, <1>14, <1>15, <1>16
     DEF FlowStep

-----------------------------------------------------------------------------
(* What one step of an approval does to the copies of its row: they only    *)
(* lose their validity, and the row is written from a copy.                 *)
WritesRow(w, r) ==
    /\ r \in Row /\ row' = [row EXCEPT ![flow[w].g] = r] /\ Overtake(w)
    /\ r.valid => row[flow[w].g].valid \/ flow[w].mem.valid
    /\ flow[w].pc \notin Undoing
    /\ flow[w].pc = "approve" =>
          r = [Marked(flow[w].mem, "Approved", flow[w].mem.stage) EXCEPT !.valid = row[flow[w].g].valid]

CopiesStay ==
    \A v \in Busy' : /\ v \in Busy /\ flow'[v].g = flow[v].g
                     /\ flow'[v].mem.valid => flow[v].mem.valid

RowsStay(w) ==
    /\ request' = request /\ CopiesStay
    /\ row' = row \/ \E r \in Row : WritesRow(w, r)

LEMMA MovesRows ==
  ASSUME ApprovalInv, NEW w \in Busy, NEW s, Moves(w, s), s = Idle \/ (s.mem.valid => flow[w].mem.valid)
  PROVE  RowsStay(w)
<1>1. CopiesStay
  BY AfterMoves, ZenonT(30) DEF Moves, CopiesStay, Busy
<1>2. QED
  BY <1>1 DEF RowsStay, Moves

LEMMA WritesRows ==
  ASSUME ApprovalInv, NEW w \in Busy, NEW r \in Row, NEW s, Writes(w, r, s),
         s = Idle \/ (s.mem.valid => flow[w].mem.valid),
         r.valid => row[flow[w].g].valid \/ flow[w].mem.valid,
         flow[w].pc \notin Undoing,
         flow[w].pc = "approve" =>
            r = [Marked(flow[w].mem, "Approved", flow[w].mem.stage) EXCEPT !.valid = row[flow[w].g].valid]
  PROVE  RowsStay(w)
<1>1. CopiesStay
  BY AfterWrites DEF CopiesStay, Busy
<1>2. WritesRow(w, r)
  BY DEF WritesRow, Writes, Overtake
<1>3. QED
  BY <1>1, <1>2 DEF RowsStay, Writes

LEMMA UpdateRows ==
  ASSUME ApprovalInv, NEW w \in Busy, NEW status \in {"In Progress"} \union Terminal,
         NEW stage \in {"Pending", "Clone To Bucket", "DB Population", "Restart Deployable"},
         NEW step \in FlowState,
         step = Idle \/ (step.pc # "idle" /\ step.g = flow[w].g /\ step.fresh = flow[w].fresh),
         UpdateStatusAndStage(w, status, stage, step),
         flow[w].pc \notin Undoing,
         flow[w].pc = "approve" => status = "Approved" /\ stage = flow[w].mem.stage
  PROVE  RowsStay(w) /\ ConfigsStay
<1>1. PICK mem \in Row, r \in Row, s \in FlowState : Updates(w, status, stage, step, mem, r, s)
  BY UpdateIs
<1>2. flow[w].mem \in Row /\ row[flow[w].g] \in Row
  BY BusyIs
<1>3. mem.valid = flow[w].mem.valid /\ r.valid = row[flow[w].g].valid
  <2>1. mem = Marked(flow[w].mem, status, stage) /\ r = [mem EXCEPT !.valid = row[flow[w].g].valid]
    BY <1>1 DEF Updates
  <2>2. row[flow[w].g].valid \in BOOLEAN
    BY <1>2 DEF Row
  <2>3. mem.valid = flow[w].mem.valid
    BY <1>2, <2>1 DEF Marked, Row
  <2>4. r.valid = row[flow[w].g].valid
    BY <2>1, <2>2 DEF Row
  <2>5. QED
    BY <2>3, <2>4
<1>4. s = Idle \/ (s.mem.valid => flow[w].mem.valid)
  BY <1>1, <1>3 DEF Updates
<1>5. flow[w].pc = "approve" =>
         r = [Marked(flow[w].mem, "Approved", flow[w].mem.stage) EXCEPT !.valid = row[flow[w].g].valid]
  BY <1>1 DEF Updates
<1>6. Writes(w, r, s) \/ Moves(w, s)
  BY <1>1 DEF Updates
<1>7. ConfigsStay
  BY <1>1, ConfigsSame DEF Updates, ApprovalInv
<1>8. RowsStay(w)
  BY <1>3, <1>4, <1>5, <1>6, MovesRows, WritesRows
<1>9. QED
  BY <1>7, <1>8

\* An approval goes on with its copy as it is, or is over.
LEMMA GoRows ==
  ASSUME ApprovalInv, NEW w \in Busy, NEW s, flow' = [flow EXCEPT ![w] = s],
         s = Idle \/ (s.g = flow[w].g /\ s.mem = flow[w].mem), UNCHANGED <<request, row>>
  PROVE  RowsStay(w)
<1>1. flow \in [Workers -> FlowState] /\ w \in Workers
  BY DEF ApprovalInv, ApprovalTypeOK, Busy
<1>2. flow'[w] = s /\ \A v \in Workers \ {w} : flow'[v] = flow[v]
  BY <1>1
<1>3. CopiesStay
  BY <1>1, <1>2, ConstantsAre DEF CopiesStay, Busy
<1>4. QED
  BY <1>3 DEF RowsStay

LEMMA GoToRows ==
  ASSUME ApprovalInv, NEW w \in Busy, NEW pc, GoTo(w, pc)
  PROVE  RowsStay(w) /\ configs' = configs
<1>1. PICK s : s = [flow[w] EXCEPT !.pc = pc, !.todo = ModelsOf(w)]
  OBVIOUS
<1>2. s.g = flow[w].g /\ s.mem = flow[w].mem
  BY <1>1, BusyIs DEF FlowState
<1>3. flow' = [flow EXCEPT ![w] = s] /\ UNCHANGED <<request, row, configs>>
  BY <1>1 DEF GoTo
<1>4. QED
  BY <1>2, <1>3, GoRows

LEMMA PcRows ==
  ASSUME ApprovalInv, NEW w \in Busy, NEW pc, flow' = [flow EXCEPT ![w].pc = pc], UNCHANGED <<request, row>>
  PROVE  RowsStay(w)
<1>1. PICK s : s = [flow[w] EXCEPT !.pc = pc]
  OBVIOUS
<1>2. s.g = flow[w].g /\ s.mem = flow[w].mem /\ flow' = [flow EXCEPT ![w] = s]
  BY <1>1, BusyIs DEF FlowState
<1>3. QED
  BY <1>2, GoRows

LEMMA TransactionRows ==
  ASSUME ApprovalInv, NEW w \in Busy, NEW mem \in Row, NEW r \in Row, NEW s \in FlowState,
         Transacts(w, mem, r, s), r.valid => row[flow[w].g].valid \/ flow[w].mem.valid
  PROVE  RowsStay(w)
<1>0. Writes(w, r, s) /\ s.mem = mem /\ flow[w].pc \notin Undoing \union Past
  BY TransactionIs
<1>1. flow[w].pc \notin Undoing /\ flow[w].pc # "approve"
  BY <1>0 DEF Past
<1>2. mem.valid = flow[w].mem.valid
  BY BusyIs DEF Transacts, Marked, Row
<1>3. QED
  BY <1>0, <1>1, <1>2, WritesRows

LEMMA FlowRows ==
  ASSUME ApprovalInv, NEW w \in Busy, FlowStep(w)
  PROVE  RowsStay(w) /\ ConfigsStay
<1>1. flow[w] \in FlowState /\ flow[w].mem \in Row /\ flow[w].g \in Groups /\ ModelsOf(w) \subseteq Models
  BY BusyIs DEF ModelsOf
<1>2. configs' = configs => ConfigsStay
  BY ConfigsSame DEF ApprovalInv
<1>3. CASE ProcessRejectRequest(w)
  <2>1. flow[w].mem.stage \in {"Pending", "Clone To Bucket", "DB Population", "Restart Deployable"}
    BY <1>1 DEF Row
  <2>2. flow[w].pc = "reject" /\ UpdateStatusAndStage(w, "Rejected", flow[w].mem.stage, Idle)
    BY <1>3 DEF ProcessRejectRequest
  <2>3. PICK stage \in {"Pending", "Clone To Bucket", "DB Population", "Restart Deployable"} : stage = flow[w].mem.stage
    BY <2>1
  <2>4. QED
    BY <2>2, <2>3, ConstantsAre, UpdateRows DEF Undoing, Terminal
<1>4. CASE CheckIfModelsExist(w)
  <2>1. CASE \E pc : GoTo(w, pc)
    BY <1>2, <2>1, GoToRows
  <2>2. CASE (\E pc : flow' = [flow EXCEPT ![w].pc = pc]) /\ UNCHANGED <<request, row, configs>>
    BY <1>2, <2>2, PcRows
  <2>3. QED
    BY <1>4, <2>1, <2>2 DEF CheckIfModelsExist
<1>5. CASE EndCopySource(w)
  <2>1. PICK s : s = [flow[w] EXCEPT !.pc = "copy live", !.todo = ModelsOf(w), !.moved = {}]
    OBVIOUS
  <2>2. s.g = flow[w].g /\ s.mem = flow[w].mem
    BY <1>1, <2>1 DEF FlowState
  <2>3. flow' = [flow EXCEPT ![w] = s] /\ UNCHANGED <<request, row, configs>>
    BY <1>5, <2>1 DEF EndCopySource
  <2>4. QED
    BY <1>2, <2>2, <2>3, GoRows
<1>6. CASE EndCopyLive(w)
  <2>1. PICK pc \in {"update", "populate"} : pc = IF request[flow[w].g].type = "Edit" THEN "update" ELSE "populate"
    OBVIOUS
  <2>2. PICK s : s = [flow[w] EXCEPT !.pc = pc, !.todo = ModelsOf(w)]
    OBVIOUS
  <2>3. s \in FlowState /\ s.pc = pc /\ s.g = flow[w].g /\ s.fresh = flow[w].fresh
    BY <1>1, <2>1, <2>2 DEF FlowState, Pcs
  <2>4. CASE UpdateStatusAndStage(w, "In Progress", "DB Population", s)
    <3>1. flow[w].pc \notin Undoing /\ flow[w].pc # "approve" /\ pc # "idle"
      BY <1>6, <2>1 DEF EndCopyLive, Undoing
    <3>2. QED
      BY <2>3, <2>4, <3>1, UpdateRows
  <2>5. CASE GoTo(w, pc)
    BY <1>2, <2>5, GoToRows
  <2>6. QED
    BY <1>6, <2>1, <2>2, <2>4, <2>5 DEF EndCopyLive
<1>7. CASE Fail(w)
  <2>1. PICK stage \in {"Clone To Bucket", "DB Population", "Restart Deployable"}, undo \in {"move back", "revert"} :
          UpdateStatusAndStage(w, "Failed", stage, IF flow[w].moved = {} THEN Idle ELSE [flow[w] EXCEPT !.pc = undo])
    BY <1>7 DEF Fail
  <2>2. PICK s : s = IF flow[w].moved = {} THEN Idle ELSE [flow[w] EXCEPT !.pc = undo]
    OBVIOUS
  <2>3. s \in FlowState /\ (s = Idle \/ (s.pc = undo /\ s.g = flow[w].g /\ s.fresh = flow[w].fresh))
    BY <1>1, <2>2, ConstantsAre DEF FlowState, Pcs
  <2>4. flow[w].pc \notin Undoing /\ flow[w].pc # "approve" /\ undo # "idle" /\ "Failed" \in Terminal
    BY <1>7, <2>1 DEF Fail, Undoing, Terminal
  <2>5. UpdateStatusAndStage(w, "Failed", stage, s)
    BY <2>1, <2>2
  <2>6. QED
    BY <2>3, <2>4, <2>5, UpdateRows
<1>8. CASE EndUpdate(w)
  <2>1. PICK s : s = [flow[w] EXCEPT !.pc = "restart", !.moved = {}]
    OBVIOUS
  <2>2. s \in FlowState /\ s.pc = "restart" /\ s.g = flow[w].g /\ s.fresh = flow[w].fresh
    BY <1>1, <2>1 DEF FlowState, Pcs
  <2>3. /\ flow[w].pc \notin Undoing /\ flow[w].pc # "approve"
        /\ UpdateStatusAndStage(w, "In Progress", "Restart Deployable", s)
    BY <1>8, <2>1 DEF EndUpdate, Undoing
  <2>4. QED
    BY <2>2, <2>3, UpdateRows
<1>9. CASE ProcessRestartDeployable(w)
  <2>1. flow[w].pc = "restart" /\ flow[w].mem.stage = "Restart Deployable"
    BY <1>9 DEF ProcessRestartDeployable
  <2>2. PICK s : s = IF request[flow[w].g].type = "Edit" THEN [flow[w] EXCEPT !.pc = "approve"] ELSE Idle
    OBVIOUS
  <2>3. s \in FlowState /\ (s = Idle \/ (s.pc = "approve" /\ s.g = flow[w].g /\ s.fresh = flow[w].fresh))
    BY <1>1, <2>2, ConstantsAre DEF FlowState, Pcs
  <2>4. CASE UpdateStatusAndStage(w, "Approved", "Restart Deployable", s)
    BY <2>1, <2>3, <2>4, UpdateRows DEF Undoing, Terminal
  <2>5. CASE flow' = [flow EXCEPT ![w].pc = "fail restart"] /\ UNCHANGED <<request, row, configs>>
    BY <1>2, <2>5, PcRows
  <2>6. QED
    BY <1>9, <2>1, <2>2, <2>4, <2>5 DEF ProcessRestartDeployable
<1>10. CASE ApproveEdit(w)
  <2>1. flow[w].pc = "approve" /\ UpdateStatusAndStage(w, "Approved", flow[w].mem.stage, Idle)
    BY <1>10 DEF ApproveEdit
  <2>2. PICK stage \in {"Pending", "Clone To Bucket", "DB Population", "Restart Deployable"} : stage = flow[w].mem.stage
    BY <1>1 DEF Row
  <2>3. QED
    BY <2>1, <2>2, ConstantsAre, UpdateRows DEF Undoing, Terminal
<1>11. CASE EndMove(w)
  <2>1. PICK s : s = [flow[w] EXCEPT !.pc = "unregister", !.moved = {}]
    OBVIOUS
  <2>2. s \in FlowState /\ s.pc = "unregister" /\ s.g = flow[w].g /\ s.fresh = flow[w].fresh
    BY <1>1, <2>1 DEF FlowState, Pcs
  <2>3. CASE UpdateStatusAndStage(w, "In Progress", "DB Population", s)
    <3>1. flow[w].pc \notin Undoing /\ flow[w].pc # "approve"
      BY <1>11 DEF EndMove, Undoing
    <3>2. QED
      BY <2>2, <2>3, <3>1, UpdateRows
  <2>4. CASE GoTo(w, "unregister")
    BY <1>2, <2>4, GoToRows
  <2>5. QED
    BY <1>11, <2>1, <2>3, <2>4 DEF EndMove
<1>12. CASE ProcessDBPopulation(w)
  <2>0. ConfigsStay
    BY <1>12, PopulationKeeps
  <2>1. PICK mem \in Row : mem = Marked(flow[w].mem, "In Progress", "Restart Deployable")
    BY <1>1 DEF Marked, Row
  <2>2. PICK g \in Groups : g = flow[w].g
    BY <1>1
  <2>3. CASE /\ row' = [row EXCEPT ![g] = [mem EXCEPT !.valid = @ \/ row[g].valid]]
             /\ flow' = FlowsAfter(w, [flow[w] EXCEPT !.pc = "restart", !.mem = mem, !.moved = {}, !.fresh = TRUE])
             /\ Overtake(w) /\ UNCHANGED <<request, interrupted>>
    <3>1. PICK s \in FlowState : s = [flow[w] EXCEPT !.pc = "restart", !.mem = mem, !.moved = {}, !.fresh = TRUE]
      BY <1>1, <2>1 DEF FlowState, Pcs
    <3>2. PICK r \in Row : r = [mem EXCEPT !.valid = @ \/ row[g].valid]
      BY DEF Row
    <3>3. mem.status = "In Progress" /\ mem.stage = "Restart Deployable" /\ mem.valid = flow[w].mem.valid
      BY <1>1, <2>1 DEF Marked, Row
    <3>4. r.status = "In Progress" /\ r.stage = "Restart Deployable" /\ (r.valid => row[g].valid \/ mem.valid)
      BY <3>2, <3>3 DEF Row
    <3>5. row' = [row EXCEPT ![flow[w].g] = r] /\ flow' = FlowsAfter(w, s) /\ flow[w].pc = "populate"
      BY <1>12, <2>2, <2>3, <3>1, <3>2 DEF ProcessDBPopulation
    <3>6. Transacts(w, mem, r, s)
      BY <2>1, <2>3, <3>1, <3>4, <3>5 DEF Transacts
    <3>7. QED
      BY <2>0, <2>2, <3>3, <3>4, <3>6, TransactionRows
  <2>4. CASE \E pc : GoTo(w, pc)
    BY <2>0, <2>4, GoToRows
  <2>5. CASE (\E pc : flow' = [flow EXCEPT ![w].pc = pc]) /\ UNCHANGED <<request, row>>
    BY <2>0, <2>5, PcRows
  <2>6. QED
    BY <1>12, <2>1, <2>2, <2>3, <2>4, <2>5 DEF ProcessDBPopulation
<1>13. CASE DeleteDiscoveryAndConfig(w)
  <2>0. ConfigsStay
    BY <1>13, DeleteKeeps
  <2>1. PICK mem \in Row : mem = Marked(flow[w].mem, "In Progress", "Restart Deployable")
    BY <1>1 DEF Marked, Row
  <2>2. PICK g \in Groups : g = flow[w].g
    BY <1>1
  <2>3. CASE /\ row' = [row EXCEPT ![g] = mem]
             /\ flow' = FlowsAfter(w, [flow[w] EXCEPT !.pc = "restart", !.mem = mem, !.fresh = TRUE])
             /\ Overtake(w) /\ UNCHANGED <<request, interrupted>>
    <3>1. PICK s \in FlowState : s = [flow[w] EXCEPT !.pc = "restart", !.mem = mem, !.fresh = TRUE]
      BY <1>1, <2>1 DEF FlowState, Pcs
    <3>2. mem.status = "In Progress" /\ mem.stage = "Restart Deployable" /\ mem.valid = flow[w].mem.valid
      BY <1>1, <2>1 DEF Marked, Row
    <3>3. row' = [row EXCEPT ![flow[w].g] = mem] /\ flow' = FlowsAfter(w, s) /\ flow[w].pc = "unregister"
      BY <1>13, <2>2, <2>3, <3>1 DEF DeleteDiscoveryAndConfig
    <3>4. flow[w].moved = {}
      BY <3>3, TypesAre DEF MovedInv, Undoing
    <3>5. Transacts(w, mem, mem, s)
      BY <2>1, <2>3, <3>1, <3>2, <3>3, <3>4 DEF Transacts
    <3>6. QED
      BY <2>0, <3>2, <3>5, TransactionRows
  <2>4. CASE \E pc : GoTo(w, pc)
    BY <2>0, <2>4, GoToRows
  <2>5. CASE (\E pc : flow' = [flow EXCEPT ![w].pc = pc]) /\ UNCHANGED <<request, row>>
    BY <2>0, <2>5, PcRows
  <2>6. QED
    BY <1>13, <2>1, <2>2, <2>3, <2>4, <2>5 DEF DeleteDiscoveryAndConfig
<1>14. ASSUME NEW m \in Models, TransferFolder(w, m) \/ UpdateConfig(w, m) \/ MoveToDeleteBucket(w, m)
       PROVE  RowsStay(w) /\ ConfigsStay
  <2>0. ConfigsStay
    BY <1>2, <1>14, UpdateConfigKeeps DEF TransferFolder, MoveToDeleteBucket
  <2>1. UNCHANGED <<request, row>>
    BY <1>14 DEF TransferFolder, UpdateConfig, MoveToDeleteBucket
  <2>2. CASE \E pc : flow' = [flow EXCEPT ![w].pc = pc]
    BY <2>0, <2>1, <2>2, PcRows
  <2>3. CASE \E place : flow' = [flow EXCEPT ![w].todo = @ \ {m}, ![w].moved = @ \union {<<place, m>>}]
    <3>1. PICK place : flow' = [flow EXCEPT ![w].todo = @ \ {m}, ![w].moved = @ \union {<<place, m>>}]
      BY <2>3
    <3>2. PICK s : s = [flow[w] EXCEPT !.todo = @ \ {m}, !.moved = @ \union {<<place, m>>}]
      OBVIOUS
    <3>3. s.g = flow[w].g /\ s.mem = flow[w].mem /\ flow' = [flow EXCEPT ![w] = s]
      BY <1>1, <3>1, <3>2 DEF FlowState
    <3>4. QED
      BY <2>0, <2>1, <3>3, GoRows
  <2>4. CASE flow' = [flow EXCEPT ![w].todo = @ \ {m}]
    <3>1. PICK s : s = [flow[w] EXCEPT !.todo = @ \ {m}]
      OBVIOUS
    <3>2. s.g = flow[w].g /\ s.mem = flow[w].mem /\ flow' = [flow EXCEPT ![w] = s]
      BY <1>1, <2>4, <3>1 DEF FlowState
    <3>3. QED
      BY <2>0, <2>1, <3>2, GoRows
  <2>5. QED
    BY <1>14, <2>2, <2>3, <2>4 DEF TransferFolder, UpdateConfig, MoveToDeleteBucket
<1>15. ASSUME NEW f \in flow[w].moved, Revert(w, f) \/ RevertForDelete(w, f)
       PROVE  RowsStay(w) /\ ConfigsStay
  <2>1. UNCHANGED <<request, row, configs>>
    BY <1>15 DEF Revert, RevertForDelete
  <2>2. PICK s : s \in {Idle, Done(w, f)} /\ flow' = [flow EXCEPT ![w] = s]
    BY <1>15 DEF Revert, RevertForDelete
  <2>3. s = Idle \/ (s.g = flow[w].g /\ s.mem = flow[w].mem)
    BY <1>1, <2>2 DEF Done, FlowState
  <2>4. QED
    BY <1>2, <2>1, <2>2, <2>3, GoRows
<1>16. QED
  BY <1>3, <1>4, <1>5, <1>6, <1>7, <1>8, <1>9, <1>10, <1>11, <1>12, <1>13, <1>14, <1>15 DEF FlowStep

-----------------------------------------------------------------------------
(* The other steps.                                                         *)

LEMMA SubmitKeeps ==
  ASSUME ApprovalInv, NEW g \in Groups, NEW type \in Types, NEW models \in SUBSET Models,
         NEW ids \in SUBSET DOMAIN configs, type # "Delete" => ids = {}, Submit(g, type, models, ids)
  PROVE  ApprovalInv'
<1> DEFINE Requests == [type : Types \union {"none"}, models : SUBSET Models, ids : SUBSET DOMAIN configs]
<1>1. PICK q \in Requests : q = [type |-> type, models |-> models, ids |-> ids]
  OBVIOUS
<1>2. PICK r \in Row : r = [status |-> "Pending Approval", stage |-> "Pending", active |-> TRUE, valid |-> type = "Delete"]
  <2>1. PICK b \in BOOLEAN : b = (type = "Delete")
    OBVIOUS
  <2>2. [status |-> "Pending Approval", stage |-> "Pending", active |-> TRUE, valid |-> b] \in Row
    BY DEF Row
  <2>3. QED
    BY <2>1, <2>2
<1>3. q.type = type /\ q.ids = ids /\ q # NoRequest /\ r.status = "Pending Approval" /\ r.stage = "Pending"
  <2>1. "none" \notin Types
    BY ApprovalAssumption DEF Types
  <2>2. QED
    BY <1>1, <1>2, <2>1 DEF NoRequest
<1>4. /\ request[g] = NoRequest
      /\ request' = [request EXCEPT ![g] = q]
      /\ row' = [row EXCEPT ![g] = r]
      /\ configs' = configs /\ files' = files /\ flow' = flow
      /\ starts' = starts /\ faults' = faults /\ unchecked' = unchecked
      /\ interrupted' = interrupted /\ overtaken' = overtaken
  BY <1>1, <1>2 DEF Submit, history
<1>5. ApprovalTypeOK /\ row \in [Groups -> Row] /\ request \in [Groups -> Requests]
  BY DEF ApprovalInv, ApprovalTypeOK
<1>6. Own(g) = {}
  <2>1. request[g].type = "none"
    BY <1>4 DEF NoRequest
  <2>2. request[g].type \notin Created
    BY <2>1, ApprovalAssumption
  <2>3. QED
    BY <2>2 DEF ApprovalInv, RequestInv
<1>7. /\ request'[g] = q /\ row'[g] = r
      /\ \A h \in Groups \ {g} : request'[h] = request[h] /\ row'[h] = row[h]
      /\ \A h : Own(h)' = Own(h)
      /\ \A m : ActiveConfigs(m)' = ActiveConfigs(m)
      /\ Busy' = Busy
  BY <1>4, <1>5 DEF Own, ActiveConfigs, Busy
<1>8. ApprovalTypeOK'
  <2>1. row' \in [Groups -> Row]
    BY <1>4, <1>5
  <2>2. request' \in [Groups -> Requests]
    BY <1>4, <1>5
  <2>3. QED
    BY <1>4, <1>5, <2>1, <2>2 DEF ApprovalTypeOK
<1>9. ASSUME NEW h \in Groups PROVE RequestInv(h)'
  <2>1. CASE h = g
    <3>1. CopyInv(g, row[g])'
      BY <1>3, <1>7 DEF CopyInv, Terminal
    <3>2. QED
      BY <1>3, <1>6, <1>7, <2>1, <3>1 DEF RequestInv
  <2>2. CASE h # g
    <3>1. RequestInv(h) /\ request'[h] = request[h] /\ row'[h] = row[h]
      BY <1>7, <2>2 DEF ApprovalInv
    <3>2. Recorded(h) => Recorded(h)'
      BY <1>4, <1>7, <3>1 DEF Recorded
    <3>3. CopyInv(h, row[h])'
      BY <3>1, <3>2 DEF RequestInv, CopyInv
    <3>4. QED
      BY <1>4, <1>7, <3>1, <3>3 DEF RequestInv
  <2>3. QED
    BY <2>1, <2>2
<1>10. \A v \in Busy : flow[v].g \in Groups \ {g} /\ FlowInv(flow[v])
  BY <1>4, BusyIs DEF FlowInv, Fits
<1>11. ASSUME NEW v \in Busy' PROVE FlowInv(flow[v])'
  <2>1. PICK f : f = flow'[v]
    OBVIOUS
  <2>2. PICK h \in Groups \ {g} : h = f.g
    BY <1>4, <1>7, <1>10, <2>1
  <2>3. FlowInv(f) /\ request'[h] = request[h] /\ row'[h] = row[h]
    BY <1>4, <1>7, <1>10, <2>1
  <2>4. Recorded(h) => Recorded(h)'
    BY <1>4, <1>7, <2>3 DEF Recorded
  <2>5. CopyInv(h, f.mem)'
    BY <2>2, <2>3, <2>4 DEF FlowInv, Fits, CopyInv
  <2>6. Fits(f)' /\ FreshInv(f)' /\ MovedInv(f)'
    BY <2>2, <2>3, <2>5 DEF FlowInv, Fits, FreshInv, Repeats, MovedInv
  <2>7. QED
    BY <2>1, <2>6 DEF FlowInv, Fits, FreshInv, Repeats, MovedInv, CopyInv, Recorded, Own
<1>12. \A v \in Busy : ModelsOf(v)' = ModelsOf(v)
  BY <1>4, <1>7, <1>10 DEF ModelsOf
<1>13. Alone'
  BY <1>4, <1>7, <1>12 DEF ApprovalInv, Alone
<1>14. NoConfigYet'
  <2>1. SUFFICES ASSUME NEW v \in Busy, request'[flow'[v].g].type \in Created, flow'[v].pc \in Building,
                        NEW m \in ModelsOf(v)' \ unchecked'
                 PROVE  ActiveConfigs(m)' = {}
    BY <1>7 DEF NoConfigYet
  <2>2. request'[flow[v].g] = request[flow[v].g] /\ m \in ModelsOf(v) \ unchecked
    BY <1>4, <1>7, <1>10, <1>12, <2>1
  <2>3. QED
    BY <1>4, <1>7, <2>1, <2>2 DEF ApprovalInv, NoConfigYet
<1>15. OneConfigPerModel'
  BY <1>4, <1>7 DEF ApprovalInv, OneConfigPerModel
<1>16. Registered'
  <2>1. ASSUME NEW h \in Groups, h # g PROVE (Own(h) = {})' \/ Finished(h)'
    BY <1>4, <1>7, <2>1 DEF ApprovalInv, Registered, Finished
  <2>2. QED
    BY <1>6, <1>7, <2>1 DEF Registered
<1>17. QED
  BY <1>8, <1>9, <1>11, <1>13, <1>14, <1>15, <1>16 DEF ApprovalInv

LEMMA HandlersKeep ==
  ASSUME ApprovalInv, NEW g \in Groups,
         HandleModelRequest(g) \/ HandleEditModel(g) \/ HandleDeleteModel(g)
  PROVE  ApprovalInv'
<1>1. CASE HandleModelRequest(g)
  <2>1. PICK type \in Created, models \in Batches : Submit(g, type, models, {})
    BY <1>1 DEF HandleModelRequest
  <2>2. type \in Types /\ models \in SUBSET Models
    BY ApprovalAssumption DEF Types
  <2>3. QED
    BY <2>1, <2>2, SubmitKeeps
<1>2. CASE HandleEditModel(g)
  <2>1. PICK models \in Batches : Submit(g, "Edit", models, {})
    BY <1>2 DEF HandleEditModel
  <2>2. "Edit" \in Types /\ models \in SUBSET Models
    BY ApprovalAssumption DEF Types
  <2>3. QED
    BY <2>1, <2>2, SubmitKeeps
<1>3. CASE HandleDeleteModel(g)
  <2>1. PICK ids \in SUBSET {i \in DOMAIN configs : configs[i].active} :
          Submit(g, "Delete", {configs[i].model : i \in ids}, ids)
    BY <1>3 DEF HandleDeleteModel
  <2>2. {configs[i].model : i \in ids} \in SUBSET Models
    <3>1. configs \in Seq(Config)
      BY DEF ApprovalInv, ApprovalTypeOK
    <3>2. \A i \in DOMAIN configs : configs[i] \in Config
      BY <3>1
    <3>3. \A c \in Config : c.model \in Models
      BY DEF Config
    <3>4. QED
      BY <3>2, <3>3
  <2>3. "Delete" \in Types
    BY DEF Types
  <2>4. QED
    BY <2>1, <2>2, <2>3, SubmitKeeps
<1>4. QED
  BY <1>1, <1>2, <1>3

LEMMA RequestStays ==
  ASSUME NEW g, RequestInv(g), request'[g] = request[g], row'[g] = row[g], configs' = configs
  PROVE  RequestInv(g)'
<1>1. Own(g)' = Own(g) /\ (Recorded(g) => Recorded(g)')
  BY DEF Own, Recorded
<1>2. CopyInv(g, row[g])'
  <2>1. PICK c : c = row[g]
    OBVIOUS
  <2>2. CopyInv(g, c)'
    BY <1>1, <2>1 DEF RequestInv, CopyInv
  <2>3. QED
    BY <2>1, <2>2 DEF CopyInv, Recorded, Own
<1>3. QED
  BY <1>1, <1>2 DEF RequestInv

LEMMA SameConfigs ==
  ASSUME configs' = configs
  PROVE  \A m : ActiveConfigs(m)' = ActiveConfigs(m)
  BY DEF ActiveConfigs

LEMMA OneMore ==
  ASSUME NEW n \in Nat, NEW k \in 0 .. n, k < n PROVE k + 1 \in 0 .. n
  OBVIOUS

LEMMA NoRequestIs ==
  ASSUME ApprovalInv, NEW g \in Groups, row[g].active
  PROVE  request[g] # NoRequest /\ request[g].type \in Types
<1>1. request[g] # NoRequest
  BY DEF ApprovalInv, RequestInv, NoRow
<1>2. QED
  BY <1>1 DEF ApprovalInv, RequestInv

LEMMA StartKeeps ==
  ASSUME ApprovalInv, NEW w \in Workers, NEW g \in Groups, NEW pc \in Pcs, StartFlow(w, g, pc),
         pc \in {"exist", "copy live", "move", "reject"},
         request[g].type \in Types => request[g].type \in TypeAt(pc),
         pc = "copy live" => request[g].type \notin Created
  PROVE  ApprovalInv'
<1>1. PICK s : s = [pc |-> pc, g |-> g, mem |-> row[g], todo |-> request[g].models, moved |-> {}, fresh |-> TRUE]
  OBVIOUS
<1>2. /\ w \notin Busy /\ row[g].active
      /\ starts < MaxStarts /\ starts' = starts + 1 /\ faults' = faults
      /\ flow' = [flow EXCEPT ![w] = s]
      /\ unchecked' = unchecked \union (request[g].models \intersect UNION {ModelsOf(v) : v \in Busy})
      /\ request' = request /\ row' = row /\ configs' = configs /\ files' = files
      /\ interrupted' = interrupted /\ overtaken' = overtaken
  BY <1>1 DEF StartFlow
<1>3. /\ ApprovalTypeOK /\ RequestInv(g) /\ row[g] \in Row /\ request[g].models \subseteq Models
      /\ request[g].type \in Types \union {"none"} /\ flow \in [Workers -> FlowState]
  BY DEF ApprovalInv, ApprovalTypeOK
<1>4. /\ s \in FlowState /\ s.pc = pc /\ s.g = g /\ s.mem = row[g] /\ s.todo = request[g].models
      /\ s.moved = {} /\ pc # "idle"
  BY <1>1, <1>3 DEF FlowState
<1>5. /\ flow'[w] = s /\ flow' \in [Workers -> FlowState] /\ Busy' = Busy \union {w}
      /\ \A v \in Workers \ {w} : flow'[v] = flow[v]
  <2>1. flow'[w] = s /\ flow' \in [Workers -> FlowState] /\ \A v \in Workers \ {w} : flow'[v] = flow[v]
    BY <1>2, <1>3, <1>4
  <2>2. QED
    BY <1>4, <2>1, ZenonT(30) DEF Busy
<1>6. ConfigsStay /\ unchecked \subseteq unchecked' /\ BoundsStay
  <2>0. starts' \in 0 .. MaxStarts
    <3>1. starts \in 0 .. MaxStarts
      BY <1>3 DEF ApprovalTypeOK
    <3>2. MaxStarts \in Nat
      BY ApprovalAssumption
    <3>3. starts' = starts + 1 /\ starts < MaxStarts
      BY <1>2
    <3>4. QED
      BY <3>1, <3>2, <3>3, OneMore
  <2>1. unchecked' \subseteq Models
    BY <1>2, <1>3 DEF ApprovalTypeOK
  <2>2. QED
    BY <1>2, <1>3, <2>0, <2>1, ConfigsSame DEF BoundsStay, ApprovalTypeOK
<1>7. ApprovalTypeOK'
  <2>1. interrupted' \subseteq Groups /\ overtaken' \subseteq Groups /\ row' \in [Groups -> Row]
    BY <1>2, <1>3 DEF ApprovalTypeOK
  <2>2. QED
    BY <1>2, <1>3, <1>5, <1>6, <2>1, TypesStay
<1>8. ASSUME NEW h \in Groups PROVE RequestInv(h)'
  BY <1>2, RequestStays DEF ApprovalInv
<1>9. request[g] # NoRequest /\ request[g].type \in TypeAt(pc)
  BY <1>2, NoRequestIs
<1>10. ASSUME NEW v \in Busy' PROVE FlowInv(flow[v])'
  <2>1. PICK f : f = flow'[v]
    OBVIOUS
  <2>2. CASE v # w
    <3>1. FlowInv(f)
      BY <1>5, <2>1, <2>2 DEF ApprovalInv, Busy
    <3>2. Fits(f)' /\ MovedInv(f)'
      BY <1>2, <1>3, <1>6, <3>1, FitsStays DEF FlowInv
    <3>3. FreshInv(f)'
      BY <1>2, <3>1 DEF FlowInv, FreshInv, Repeats
    <3>4. QED
      BY <2>1, <3>2, <3>3 DEF FlowInv, Fits, FreshInv, Repeats, MovedInv, CopyInv, Recorded, Own
  <2>3. CASE v = w
    <3>1. f = s
      BY <1>5, <2>1, <2>3
    <3>2. Fits(f) /\ MovedInv(f)
      BY <1>3, <1>4, <1>9, <3>1 DEF Fits, MovedInv, RequestInv
    <3>3. Fits(f)' /\ MovedInv(f)'
      BY <1>2, <1>3, <1>6, <3>2, FitsStays
    <3>4. FreshInv(f)'
      BY <1>2, <1>3, <1>4, <3>1 DEF FreshInv, RequestInv, CopyInv
    <3>5. QED
      BY <2>1, <3>3, <3>4 DEF FlowInv, Fits, FreshInv, Repeats, MovedInv, CopyInv, Recorded, Own
  <2>4. QED
    BY <2>2, <2>3
<1>11. /\ \A v \in Busy : v # w /\ flow'[v] = flow[v] /\ ModelsOf(v)' = ModelsOf(v)
       /\ ModelsOf(w)' = request[g].models
  BY <1>2, <1>4, <1>5 DEF ModelsOf, Busy
<1>12. Alone'
  <2>1. SUFFICES ASSUME NEW u \in Busy', NEW v \in Busy', u # v,
                        NEW m \in ModelsOf(u)', m \in ModelsOf(v)'
                 PROVE  m \in unchecked'
    BY DEF Alone
  <2>2. CASE u # w /\ v # w
    BY <1>5, <1>6, <1>11, <2>1, <2>2 DEF ApprovalInv, Alone
  <2>3. CASE u = w \/ v = w
    BY <1>2, <1>5, <1>11, <2>1, <2>3, ZenonT(30)
  <2>4. QED
    BY <2>2, <2>3
<1>13. NoConfigYet'
  <2>1. SUFFICES ASSUME NEW v \in Busy', request'[flow'[v].g].type \in Created, flow'[v].pc \in Building,
                        NEW m \in ModelsOf(v)' \ unchecked'
                 PROVE  ActiveConfigs(m)' = {}
    BY DEF NoConfigYet
  <2>2. ActiveConfigs(m)' = ActiveConfigs(m)
    BY <1>2, SameConfigs
  <2>3. v # w
    BY <1>2, <1>4, <1>5, <2>1 DEF Building
  <2>4. QED
    <3>1. v \in Busy /\ flow'[v] = flow[v] /\ ModelsOf(v)' = ModelsOf(v)
      BY <1>5, <1>11, <2>1, <2>3
    <3>2. m \in ModelsOf(v) \ unchecked
      BY <1>6, <2>1, <3>1
    <3>3. request[flow[v].g].type \in Created /\ flow[v].pc \in Building
      BY <1>2, <2>1, <3>1
    <3>4. QED
      BY <2>2, <3>1, <3>2, <3>3 DEF ApprovalInv, NoConfigYet
<1>14. OneConfigPerModel'
  <2>1. \A m \in Models \ unchecked' : ActiveConfigs(m)' = ActiveConfigs(m) /\ m \in Models \ unchecked
    BY <1>2, <1>6, SameConfigs
  <2>2. OneConfigPerModel
    BY DEF ApprovalInv
  <2>3. SUFFICES ASSUME NEW m \in Models \ unchecked' PROVE \A i, j \in ActiveConfigs(m)' : i = j
    BY DEF OneConfigPerModel
  <2>4. QED
    BY <2>1, <2>2, ZenonT(30) DEF OneConfigPerModel
<1>15. Registered'
  <2>1. ASSUME NEW h \in Groups PROVE (Own(h) = {})' \/ Finished(h)'
    <3>1. Own(h)' = Own(h)
      BY <1>2 DEF Own
    <3>2. Finished(h) => Finished(h)'
      BY <1>2, <1>5, <1>11 DEF Finished
    <3>3. QED
      BY <3>1, <3>2 DEF ApprovalInv, Registered
  <2>2. QED
    BY <2>1 DEF Registered
<1>16. QED
  BY <1>7, <1>8, <1>10, <1>12, <1>13, <1>14, <1>15 DEF ApprovalInv

LEMMA ApprovalsKeep ==
  ASSUME ApprovalInv, NEW w \in Workers, NEW g \in Groups, Approve(w, g) \/ Reject(w, g)
  PROVE  ApprovalInv'
<1>1. CASE Reject(w, g)
  <2>1. "reject" \in Pcs /\ (request[g].type \in Types => request[g].type \in TypeAt("reject"))
    BY DEF Pcs, TypeAt
  <2>2. QED
    BY <1>1, <2>1, StartKeeps DEF Reject
<1>2. CASE Approve(w, g)
  <2>1. CASE request[g].type \in Created /\ StartFlow(w, g, "exist")
    <3>1. "exist" \in Pcs /\ request[g].type \in TypeAt("exist")
      BY <2>1 DEF Pcs, TypeAt
    <3>2. QED
      BY <2>1, <3>1, StartKeeps
  <2>2. CASE request[g].type = "Edit" /\ StartFlow(w, g, "copy live")
    <3>1. "copy live" \in Pcs /\ request[g].type \in TypeAt("copy live") /\ request[g].type \notin Created
      BY <2>2, ApprovalAssumption DEF Pcs, TypeAt
    <3>2. QED
      BY <2>2, <3>1, StartKeeps
  <2>3. CASE request[g].type \notin Created \union {"Edit"} /\ StartFlow(w, g, "move")
    <3>1. "move" \in Pcs /\ (request[g].type \in Types => request[g].type \in TypeAt("move"))
      BY <2>3 DEF Pcs, TypeAt, Types
    <3>2. QED
      BY <2>3, <3>1, StartKeeps
  <2>4. QED
    BY <1>2, <2>1, <2>2, <2>3, ApprovalAssumption DEF Approve
<1>3. QED
  BY <1>1, <1>2

LEMMA CrashKeeps ==
  ASSUME ApprovalInv, CrashFlows PROVE ApprovalInv'
<1>1. /\ flow' = [w \in Workers |-> Idle] /\ interrupted' = interrupted \union {flow[w].g : w \in Busy}
      /\ request' = request /\ row' = row /\ configs' = configs /\ files' = files
      /\ unchecked' = unchecked /\ overtaken' = overtaken /\ Fault
  BY DEF CrashFlows
<1>2. ApprovalTypeOK /\ Busy' = {} /\ flow' \in [Workers -> FlowState] /\ interrupted' \subseteq Groups
  <2>1. \A w \in Busy : flow[w].g \in Groups
    BY BusyIs
  <2>2. QED
    BY <1>1, <2>1, ConstantsAre DEF ApprovalInv, ApprovalTypeOK, Busy
<1>3. ApprovalTypeOK'
  <2>1. BoundsStay /\ ConfigsStay
    BY <1>1, <1>2, ConfigsSame, BoundsSame DEF ApprovalTypeOK
  <2>2. overtaken' \subseteq Groups /\ row' \in [Groups -> Row]
    BY <1>1, <1>2 DEF ApprovalTypeOK
  <2>3. QED
    BY <1>1, <1>2, <2>1, <2>2, TypesStay
<1>4. ASSUME NEW h \in Groups PROVE RequestInv(h)'
  BY <1>1, RequestStays DEF ApprovalInv
<1>5. Alone' /\ NoConfigYet' /\ \A w \in Busy' : FlowInv(flow[w])'
  BY <1>2 DEF Alone, NoConfigYet
<1>6. OneConfigPerModel'
  BY <1>1 DEF ApprovalInv, OneConfigPerModel, ActiveConfigs
<1>7. Registered'
  <2>1. ASSUME NEW h \in Groups PROVE (Own(h) = {})' \/ Finished(h)'
    <3>1. Own(h)' = Own(h)
      BY <1>1 DEF Own
    <3>2. Finished(h) => Finished(h)'
      BY <1>1 DEF Finished
    <3>3. QED
      BY <3>1, <3>2 DEF ApprovalInv, Registered
  <2>2. QED
    BY <2>1 DEF Registered
<1>8. QED
  BY <1>3, <1>4, <1>5, <1>6, <1>7 DEF ApprovalInv

\* A validation writes the row: every copy of an approval is old.
LEMMA ResultIs ==
  ASSUME NEW g \in Groups, NEW c \in Row, CopyInv(g, c), NEW ok \in BOOLEAN
  PROVE  /\ Result(c, ok) \in Row /\ CopyInv(g, Result(c, ok))
         /\ Result(c, ok).status \in {c.status, "Rejected"}
<1>1. PICK r : r = Result(c, ok)
  OBVIOUS
<1>2. /\ r \in Row /\ r.stage = c.stage /\ r.status \in {c.status, "Rejected"}
      /\ r.active => c.active /\ r.status = c.status
  BY <1>1 DEF Result, Row, Terminal
<1>3. CopyInv(g, r)
  BY <1>2 DEF CopyInv
<1>4. QED
  BY <1>1, <1>2, <1>3

LEMMA WriteRowKeeps ==
  ASSUME ApprovalInv, NEW g \in Groups, NEW r \in Row, WriteRow(g, r), CopyInv(g, r),
         request[g] # NoRequest, row[g].status \notin Terminal \/ g \in overtaken',
         overtaken' \in {overtaken, overtaken \union {g}},
         UNCHANGED <<request, configs, files, starts, faults, unchecked, interrupted>>
  PROVE  ApprovalInv'
<1>1. /\ ApprovalTypeOK /\ row \in [Groups -> Row] /\ flow \in [Workers -> FlowState]
      /\ request' = request /\ configs' = configs
      /\ overtaken \subseteq overtaken' /\ overtaken' \subseteq Groups
      /\ unchecked' = unchecked /\ interrupted' = interrupted
  BY DEF ApprovalInv, ApprovalTypeOK
<1>2. /\ row' = [row EXCEPT ![g] = r]
      /\ flow' = [w \in Workers |-> IF w \in Busy /\ flow[w].g = g
                                     THEN [flow[w] EXCEPT !.fresh = FALSE] ELSE flow[w]]
  BY DEF WriteRow
<1>3. row' \in [Groups -> Row] /\ row'[g] = r /\ \A h \in Groups \ {g} : row'[h] = row[h]
  BY <1>1, <1>2
<1>4. \A f \in FlowState : /\ [f EXCEPT !.fresh = FALSE] \in FlowState
                           /\ [f EXCEPT !.fresh = FALSE].pc = f.pc /\ [f EXCEPT !.fresh = FALSE].g = f.g
                           /\ [f EXCEPT !.fresh = FALSE].mem = f.mem /\ [f EXCEPT !.fresh = FALSE].todo = f.todo
                           /\ [f EXCEPT !.fresh = FALSE].moved = f.moved /\ ~[f EXCEPT !.fresh = FALSE].fresh
  BY DEF FlowState
<1>5. ASSUME NEW w \in Workers
      PROVE  /\ flow'[w] \in FlowState
             /\ flow'[w].pc = flow[w].pc /\ flow'[w].g = flow[w].g /\ flow'[w].mem = flow[w].mem
             /\ flow'[w].todo = flow[w].todo /\ flow'[w].moved = flow[w].moved
             /\ w \in Busy /\ flow[w].g = g => ~flow'[w].fresh
             /\ flow[w].g # g => flow'[w] = flow[w]
  BY <1>1, <1>2, <1>4
<1>6. flow' \in [Workers -> FlowState] /\ Busy' = Busy
  <2>1. flow' \in [Workers -> FlowState]
    BY <1>2, <1>5
  <2>2. QED
    BY <1>5, <2>1 DEF Busy
<1>7. BoundsStay /\ ConfigsStay
  BY <1>1, ConfigsSame DEF BoundsStay, ApprovalTypeOK
<1>8. ApprovalTypeOK'
  <2>1. interrupted' \subseteq Groups
    BY <1>1 DEF ApprovalTypeOK
  <2>2. QED
    BY <1>1, <1>3, <1>6, <1>7, <2>1, TypesStay
<1>9. ASSUME NEW h \in Groups PROVE RequestInv(h)'
  <2>1. CASE h # g
    BY <1>1, <1>3, <2>1, RequestStays DEF ApprovalInv
  <2>2. CASE h = g
    <3>1. RequestInv(g) /\ request'[g] = request[g] /\ request[g].type \in Types
      BY <1>1 DEF ApprovalInv, RequestInv
    <3>2. CopyInv(g, r)'
      BY <1>1, <1>7, <3>1, CopyStays
    <3>3. CopyInv(g, row[g])'
      BY <1>3, <3>2 DEF CopyInv, Recorded, Own
    <3>4. Own(g)' = Own(g)
      BY <1>1 DEF Own
    <3>5. QED
      BY <1>1, <2>2, <3>1, <3>3, <3>4 DEF RequestInv
  <2>3. QED
    BY <2>1, <2>2
<1>10. ASSUME NEW v \in Busy' PROVE FlowInv(flow[v])'
  <2>1. PICK f : f = flow'[v]
    OBVIOUS
  <2>2. v \in Busy /\ v \in Workers /\ FlowInv(flow[v])
    BY <1>6 DEF ApprovalInv, Busy
  <2>3. /\ f.pc = flow[v].pc /\ f.g = flow[v].g /\ f.mem = flow[v].mem
        /\ f.todo = flow[v].todo /\ f.moved = flow[v].moved
    BY <1>5, <2>1, <2>2
  <2>4. Fits(f) /\ MovedInv(f)
    BY <2>2, <2>3 DEF FlowInv, Fits, MovedInv
  <2>5. Fits(f)' /\ MovedInv(f)'
    BY <1>1, <1>7, <2>4, FitsStays
  <2>6. FreshInv(f)'
    <3>1. CASE flow[v].g = g
      BY <1>5, <2>1, <2>2, <3>1 DEF FreshInv
    <3>2. CASE flow[v].g # g
      <4>1. f = flow[v]
        BY <1>5, <2>1, <2>2, <3>2
      <4>2. FreshInv(f) /\ f.g \in Groups \ {g}
        BY <2>2, <2>4, <3>2, <4>1 DEF FlowInv, Fits
      <4>3. QED
        BY <1>3, <4>2 DEF FreshInv, Repeats
    <3>3. QED
      BY <3>1, <3>2
  <2>7. QED
    BY <2>1, <2>5, <2>6 DEF FlowInv, Fits, FreshInv, Repeats, MovedInv, CopyInv, Recorded, Own
<1>11. \A v \in Busy : /\ flow'[v].g = flow[v].g /\ flow'[v].pc = flow[v].pc
                       /\ ModelsOf(v)' = ModelsOf(v)
  BY <1>1, <1>5 DEF ModelsOf, Busy
<1>12. Alone'
  BY <1>1, <1>6, <1>11 DEF ApprovalInv, Alone
<1>13. NoConfigYet'
  <2>1. SUFFICES ASSUME NEW v \in Busy, request[flow[v].g].type \in Created, flow[v].pc \in Building,
                        NEW m \in ModelsOf(v) \ unchecked
                 PROVE  ActiveConfigs(m)' = {}
    BY <1>1, <1>6, <1>11 DEF NoConfigYet
  <2>2. QED
    BY <1>1, <2>1, SameConfigs DEF ApprovalInv, NoConfigYet
<1>14. OneConfigPerModel'
  BY <1>1, SameConfigs DEF ApprovalInv, OneConfigPerModel
<1>15. Registered'
  <2>1. ASSUME NEW h \in Groups PROVE (Own(h) = {})' \/ Finished(h)'
    <3>1. Own(h)' = Own(h)
      BY <1>1 DEF Own
    <3>2. CASE h = g /\ row[g].status \in Terminal
      BY <3>2 DEF Finished
    <3>3. CASE h # g \/ row[g].status \notin Terminal
      <4>1. Finished(h) => Finished(h)'
        BY <1>1, <1>3, <1>6, <1>11, <3>3 DEF Finished, Terminal
      <4>2. QED
        BY <3>1, <4>1 DEF ApprovalInv, Registered
    <3>4. QED
      BY <3>2, <3>3
  <2>2. QED
    BY <2>1 DEF Registered
<1>16. QED
  BY <1>8, <1>9, <1>10, <1>12, <1>13, <1>14, <1>15 DEF ApprovalInv

LEMMA InitIs == Init => ApprovalInv
<1> SUFFICES ASSUME Init PROVE ApprovalInv
  OBVIOUS
<1>1. PICK q : q = SetToSeq(NewConfigs(Base, Served))
  OBVIOUS
<1>2. configs = q
  BY <1>1 DEF Init, NewConfigs
<1>3. /\ configs \in Seq(Config)
      /\ \A i \in DOMAIN configs : configs[i].by = Base
      /\ \A i, j \in DOMAIN configs : configs[i].model = configs[j].model => i = j
  BY <1>1, <1>2, NewConfigsAre, ApprovalAssumption
<1>4. /\ request = [g \in Groups |-> NoRequest] /\ row = [g \in Groups |-> NoRow]
      /\ flow = [w \in Workers |-> Idle] /\ Busy = {} /\ \A g \in Groups : Own(g) = {}
  BY <1>3, ConstantsAre DEF Init, Busy, Own
<1>5. ApprovalTypeOK
  <2>1. NoRequest \in [type : Types \union {"none"}, models : SUBSET Models, ids : SUBSET DOMAIN configs]
    BY DEF NoRequest
  <2>2. files \in [Places -> [Models -> Folder]]
    <3>1. NoFiles \in Folder /\ [by |-> Base, copied |-> "whole"] \in Folder
      BY DEF Folder
    <3>2. QED
      BY <3>1 DEF Init
  <2>3. starts \in 0 .. MaxStarts /\ faults \in 0 .. MaxFaults
    BY ApprovalAssumption DEF Init
  <2>4. unchecked \subseteq Models /\ interrupted \subseteq Groups /\ overtaken \subseteq Groups
    BY DEF Init
  <2>5. QED
    BY <1>3, <1>4, <2>1, <2>2, <2>3, <2>4, ConstantsAre DEF ApprovalTypeOK
<1>6. ASSUME NEW g \in Groups PROVE RequestInv(g)
  <2>1. request[g] = NoRequest /\ row[g] = NoRow /\ request[g].ids = {}
    BY <1>4 DEF NoRequest
  <2>2. CopyInv(g, row[g])
    BY <2>1 DEF CopyInv, NoRow
  <2>3. QED
    BY <1>4, <2>1, <2>2 DEF RequestInv
<1>7. OneConfigPerModel
  BY <1>3 DEF OneConfigPerModel, ActiveConfigs
<1>8. QED
  BY <1>4, <1>5, <1>6, <1>7 DEF ApprovalInv, Alone, NoConfigYet, Registered

LEMMA ValidateKeeps ==
  ASSUME ApprovalInv, NEW g \in Groups, Validate(g) PROVE ApprovalInv'
<1>1. PICK ok \in BOOLEAN : WriteRow(g, Result(row[g], ok))
  BY DEF Validate
<1>2. row[g] \in Row /\ CopyInv(g, row[g]) /\ row[g].active
  BY DEF ApprovalInv, ApprovalTypeOK, RequestInv, Validate
<1>3. PICK r \in Row : r = Result(row[g], ok) /\ CopyInv(g, r)
  BY <1>2, ResultIs
<1>4. request[g] # NoRequest /\ row[g].status \notin Terminal
  BY <1>2, NoRequestIs DEF CopyInv
<1>5. /\ UNCHANGED <<request, configs, files, starts, faults, unchecked, interrupted>>
      /\ overtaken' = overtaken
  BY DEF Validate, history
<1>6. QED
  BY <1>1, <1>3, <1>4, <1>5, WriteRowKeeps

\* Only a fault was counted, or nothing.
LEMMA StutterKeeps ==
  ASSUME ApprovalInv, UNCHANGED <<request, row, configs, files, flow, unchecked, interrupted, overtaken>>,
         Fault \/ UNCHANGED <<starts, faults>>
  PROVE  ApprovalInv'
<1>1. /\ UNCHANGED <<request, row, configs, files, flow>>
      /\ UNCHANGED <<unchecked, interrupted, overtaken>>
  OBVIOUS
<1>2. ApprovalTypeOK'
  <2>1. ApprovalTypeOK
    BY DEF ApprovalInv
  <2>2. /\ files' \in [Places -> [Models -> Folder]] /\ unchecked' \subseteq Models
        /\ row' \in [Groups -> Row] /\ flow' \in [Workers -> FlowState]
        /\ interrupted' \subseteq Groups /\ overtaken' \subseteq Groups
    BY <1>1, <2>1 DEF ApprovalTypeOK
  <2>3. BoundsStay /\ ConfigsStay
    BY <1>1, <2>1, <2>2, BoundsSame, ConfigsSame
  <2>4. QED
    BY <1>1, <2>1, <2>2, <2>3, TypesStay
<1>3. \A g \in Groups : RequestInv(g)'
  BY <1>1, RequestStays DEF ApprovalInv
<1>4. Busy' = Busy /\ \A w \in Busy : ModelsOf(w)' = ModelsOf(w)
  BY <1>1 DEF Busy, ModelsOf
<1>5. ASSUME NEW w \in Busy PROVE FlowInv(flow[w])'
  <2>0. PICK f : f = flow[w]
    OBVIOUS
  <2>1. f = flow'[w]
    BY <1>1, <2>0
  <2>2. ConfigsStay /\ ApprovalTypeOK
    BY <1>1, ConfigsSame DEF ApprovalInv
  <2>3. Fits(f)' /\ MovedInv(f)'
    BY <1>1, <2>0, <2>2, FitsStays DEF ApprovalInv, FlowInv
  <2>4. FreshInv(f)'
    BY <1>1, <2>0 DEF ApprovalInv, FlowInv, FreshInv, Repeats
  <2>5. QED
    BY <2>1, <2>3, <2>4 DEF FlowInv, Fits, FreshInv, Repeats, MovedInv, CopyInv, Recorded, Own
<1>6. Alone' /\ NoConfigYet' /\ OneConfigPerModel' /\ Registered'
  <2>1. Alone'
    BY <1>1, <1>4 DEF ApprovalInv, Alone
  <2>2. NoConfigYet'
    BY <1>1, <1>4, SameConfigs DEF ApprovalInv, NoConfigYet
  <2>3. OneConfigPerModel'
    BY <1>1, SameConfigs DEF ApprovalInv, OneConfigPerModel
  <2>4. Registered'
    <3>1. \A g \in Groups : Own(g)' = Own(g) /\ (Finished(g) => Finished(g)')
      BY <1>1, <1>4 DEF Own, Finished
    <3>2. QED
      BY <3>1 DEF ApprovalInv, Registered
  <2>5. QED
    BY <2>1, <2>2, <2>3, <2>4
<1>7. QED
  BY <1>2, <1>3, <1>4, <1>5, <1>6 DEF ApprovalInv

LEMMA StepKeeps ==
  ASSUME ApprovalInv, [ANext]_avars PROVE ApprovalInv'
<1>1. CASE RequestStep
  BY <1>1, HandlersKeep, ApprovalsKeep DEF RequestStep
<1>2. CASE \E w \in Workers : FlowStep(w)
  BY <1>2, FlowStepKeeps
<1>3. CASE \E g \in Groups : Validate(g)
  BY <1>3, ValidateKeeps
<1>4. CASE CrashFlows
  BY <1>4, CrashKeeps
<1>5. CASE UNCHANGED avars
  BY <1>5, StutterKeeps DEF avars, history
<1>6. QED
  BY <1>1, <1>2, <1>3, <1>4, <1>5 DEF ANext

-----------------------------------------------------------------------------
(* Theorems about the approvals.                                            *)

\* The inductive invariant: what was copied from a row, and what it says of
\* the configs, stays true through every approval, validation and crash.
THEOREM ApprovalInvariant == ASpec => []ApprovalInv
<1>1. Init => ApprovalInv
  BY InitIs
<1>2. ApprovalInv /\ [ANext]_avars => ApprovalInv'
  BY StepKeeps
<1>3. QED
  BY <1>1, <1>2, PTL DEF ASpec

\* The state of the approvals has its type.
THEOREM ApprovalsAreTyped == ASpec => []ApprovalTypeOK
<1>1. ApprovalInv => ApprovalTypeOK
  BY DEF ApprovalInv
<1>2. QED
  BY <1>1, ApprovalInvariant, PTL

\* Onboard, ScaleUp and Promote never leave a model with two active configs,
\* for any number of requests, approvals and faults, but when two flows
\* worked on the model at once or the check for it failed.
THEOREM ModelsHaveOneConfig == ASpec => []OneConfigPerModel
<1>1. ApprovalInv => OneConfigPerModel
  BY DEF ApprovalInv
<1>2. QED
  BY <1>1, ApprovalInvariant, PTL

LEMMA OutcomesFollow == ApprovalInv => OutcomeIsTrue
<1> SUFFICES ASSUME ApprovalInv, NEW g \in Groups, Quiet(g)
             PROVE  /\ row[g].status = "Approved" =>
                         /\ request[g].type \in Created => {configs[i].model : i \in Own(g)} = request[g].models
                         /\ \A i \in request[g].ids : ~configs[i].active
                    /\ row[g].status = "Rejected" /\ g \notin interrupted => Own(g) = {}
  BY DEF OutcomeIsTrue, Own
<1>1. row[g].status = "Approved" => Recorded(g)
  BY DEF ApprovalInv, RequestInv, CopyInv
<1>2. row[g].status = "Rejected" /\ g \notin interrupted => ~Finished(g)
  BY DEF Quiet, Finished
<1>3. Own(g) = {} \/ Finished(g)
  BY DEF ApprovalInv, Registered
<1>4. QED
  BY <1>1, <1>2, <1>3 DEF Recorded

\* What a request's status says of the database: Approved, its configs are
\* there, or retired; Rejected, it registered none.
THEOREM ApprovalOutcomesAreTrue == ASpec => []OutcomeIsTrue
  BY OutcomesFollow, ApprovalInvariant, PTL

\* A flow writes the row of a request that has ended only from an old copy.
LEMMA FlowIsFinal ==
  ASSUME ApprovalInv, NEW w \in Busy, RowsStay(w), NEW g \in Groups, row[g].status \in Terminal
  PROVE  row'[g] = row[g] \/ g \in overtaken'
<1>1. CASE row' = row
  BY <1>1
<1>2. ASSUME NEW r \in Row, WritesRow(w, r) PROVE row'[g] = row[g] \/ g \in overtaken'
  <2>1. row \in [Groups -> Row] /\ flow[w].g \in Groups /\ flow[w].mem \in Row /\ FlowInv(flow[w])
    BY BusyIs DEF ApprovalInv, ApprovalTypeOK
  <2>2. CASE flow[w].g # g
    BY <1>2, <2>1, <2>2 DEF WritesRow
  <2>3. CASE ~flow[w].fresh /\ flow[w].g = g
    BY <1>2, <2>3 DEF WritesRow, Overtake
  <2>4. CASE flow[w].fresh /\ flow[w].g = g
    <3>1. flow[w].pc = "approve" /\ row[g] = [flow[w].mem EXCEPT !.valid = row[g].valid]
      BY <1>2, <2>1, <2>4 DEF WritesRow, FlowInv, FreshInv, Repeats
    <3>2. flow[w].mem.status = "Approved"
      BY <2>1, <3>1 DEF FlowInv, Fits
    <3>3. PICK k \in Row, c \in Row : k = flow[w].mem /\ c = row[g]
      BY <2>1
    <3>4. ~c.active
      BY <3>3 DEF ApprovalInv, RequestInv, CopyInv
    <3>5. c = [k EXCEPT !.valid = c.valid] /\ k.status = "Approved"
      BY <3>1, <3>2, <3>3
    <3>6. r = [Marked(k, "Approved", k.stage) EXCEPT !.valid = c.valid]
      BY <1>2, <2>4, <3>1, <3>3 DEF WritesRow
    <3>7. ~k.active
      BY <3>3, <3>4, <3>5 DEF Row
    <3>8. r = c
      <4>1. PICK k2 \in Row : k2 = Marked(k, "Approved", k.stage)
        BY DEF Marked, Row, Terminal
      <4>2. /\ k2.status = "Approved" /\ k2.stage = k.stage /\ ~k2.active /\ k2.active \in BOOLEAN
            /\ k.active \in BOOLEAN /\ c.valid \in BOOLEAN
        BY <3>7, <4>1 DEF Marked, Row
      <4>3. k2.status = k.status /\ k2.stage = k.stage /\ k2.active = k.active
        BY <3>5, <3>7, <4>2
      <4>4. [k2 EXCEPT !.valid = c.valid] = [k EXCEPT !.valid = c.valid]
        BY <4>2, <4>3 DEF Row
      <4>5. QED
        BY <3>5, <3>6, <4>1, <4>4
    <3>9. QED
      BY <1>2, <2>1, <2>4, <3>3, <3>8 DEF WritesRow
  <2>5. QED
    BY <2>2, <2>3, <2>4
<1>3. QED
  BY <1>1, <1>2 DEF RowsStay

LEMMA RequestIsFinal ==
  ASSUME ApprovalInv, RequestStep, NEW g \in Groups, row[g].status \in Terminal
  PROVE  row'[g] = row[g]
<1>1. row \in [Groups -> Row] /\ (request[g] = NoRequest => row[g] = NoRow)
  BY DEF ApprovalInv, ApprovalTypeOK, RequestInv
<1>2. request[g] # NoRequest
  BY <1>1 DEF NoRow, Terminal
<1>3. ASSUME NEW h \in Groups, NEW type, NEW models, NEW ids, Submit(h, type, models, ids)
      PROVE  row'[g] = row[g]
  BY <1>1, <1>2, <1>3 DEF Submit
<1>4. ASSUME NEW w \in Workers, NEW h \in Groups, Approve(w, h) \/ Reject(w, h)
      PROVE  row'[g] = row[g]
  BY <1>4 DEF Approve, Reject, StartFlow
<1>5. QED
  BY <1>3, <1>4 DEF RequestStep, HandleModelRequest, HandleEditModel, HandleDeleteModel

\* A request that has ended is written again only from an out of date copy,
\* whatever approvals and rejections of it are still at work.
THEOREM EndedRequestsStay == ASpec => TerminalIsFinal
<1>1. ASSUME ApprovalInv, [ANext]_avars
      PROVE  [\A g \in Groups : row[g].status \in Terminal => row'[g] = row[g] \/ g \in overtaken']_avars
  <2>1. SUFFICES ASSUME ANext, NEW g \in Groups, row[g].status \in Terminal
                 PROVE  row'[g] = row[g] \/ g \in overtaken'
    BY <1>1
  <2>2. CASE RequestStep
    BY <1>1, <2>1, <2>2, RequestIsFinal
  <2>3. ASSUME NEW w \in Workers, FlowStep(w) PROVE row'[g] = row[g] \/ g \in overtaken'
    BY <1>1, <2>1, <2>3, FlowStepKeeps, FlowRows, FlowIsFinal
  <2>4. ASSUME NEW h \in Groups, Validate(h) PROVE row'[g] = row[g]
    <3>1. row \in [Groups -> Row] /\ CopyInv(g, row[g]) /\ row' = [row EXCEPT ![h] = row'[h]] /\ row[h].active
      BY <1>1, <2>4 DEF ApprovalInv, ApprovalTypeOK, RequestInv, Validate, WriteRow
    <3>2. h # g
      BY <2>1, <3>1 DEF CopyInv
    <3>3. QED
      BY <3>1, <3>2
  <2>5. CASE CrashFlows
    BY <2>5 DEF CrashFlows
  <2>6. QED
    BY <2>1, <2>2, <2>3, <2>4, <2>5 DEF ANext
<1>2. QED
  BY <1>1, ApprovalInvariant, PTL DEF ASpec, TerminalIsFinal

-----------------------------------------------------------------------------
(* The files.  The further invariant when a validation is one step.  A row  *)
(* that left its first stage has an approval that works on it; a later      *)
(* approval starts past that stage only after a crash or beside that one.   *)
StageInv(g) ==
    row[g].active /\ row[g].stage # "Pending" =>
        g \in interrupted \/ \E w \in Busy : flow[w].g = g /\ flow[w].pc \notin Undoing

EarlyInv(f) ==
    \/ f.g \in interrupted \/ request[f.g].models \subseteq unchecked
    \/ /\ f.pc \in {"exist", "copy source", "copy live", "move"} => f.mem.stage = "Pending"
       /\ f.pc \in {"populate", "unregister"} => f.mem.stage = "DB Population"

UndoInv(f) ==
    f.pc \in Undoing => row[f.g].status = "Failed" \/ f.g \in interrupted \union overtaken

(* A config is retired by a Delete that names it, and its model.            *)
RetiredInv ==
    \A i \in DOMAIN configs : ~configs[i].active =>
        \E h \in Groups : request[h].type = "Delete" /\ i \in request[h].ids /\ Finished(h)

DeleteInv(g) ==
    request[g].type = "Delete" => request[g].models = {configs[i].model : i \in request[g].ids}

Again(g, m) ==
    \E h \in Groups \ {g} :
        /\ request[h].type = "Delete" /\ Finished(h)
        /\ \E i \in request[g].ids \intersect request[h].ids : configs[i].model = m

(* What an approval has done to a model that no other works on.             *)
Stands(p, m, g) == files[p][m] \in [by : {g}, copied : {"whole", "unclosed"}]
Live(m, g) == Stands("live", m, g)
FilesMatch(m) == \A i \in ActiveConfigs(m) : Live(m, configs[i].meta)
Described(m, g) == \A i \in ActiveConfigs(m) : configs[i].meta = g

ProgressOn(f, m) ==
    /\ f.pc = "copy source" /\ m \notin f.todo => Stands("source", m, f.g)
    /\ f.pc = "copy live" /\ request[f.g].type = "ScaleUp" => Stands("source", m, f.g)
    /\ f.pc = "copy live" /\ m \notin f.todo => Live(m, f.g)
    /\ f.pc \in {"populate", "update"} => Live(m, f.g)
    /\ f.pc = "update" /\ m \notin f.todo => Described(m, f.g)
    /\ f.pc \in Past =>
          /\ request[f.g].type = "Edit" => FilesMatch(m)
          /\ request[f.g].type = "Delete" /\ f.g \notin overtaken => ActiveConfigs(m) = {} \/ Again(f.g, m)

ProgressInv(f) ==
    f.g \notin interrupted => \A m \in request[f.g].models \ unchecked : ProgressOn(f, m)

FlowFiles(f) == EarlyInv(f) /\ UndoInv(f) /\ ProgressInv(f)

(* The files match, or an Edit or Delete of the model stands in the way;    *)
(* one that is only being rejected does not.                                *)
StandsInTheWay(g) ==
    \/ g \in interrupted
    \/ /\ request[g].type \in {"Edit", "Delete"}
       /\ \/ row[g].status = "Failed" \/ g \in overtaken
          \/ \E w \in Busy : flow[w].g = g /\ flow[w].pc # "reject"

Explained(m) ==
    \/ FilesMatch(m) \/ DeletedTwice(m)
    \/ \E g \in Groups : m \in request[g].models /\ StandsInTheWay(g)

FilesInv ==
    /\ \A g \in Groups : StageInv(g) /\ DeleteInv(g)
    /\ \A w \in Busy : FlowFiles(flow[w])
    /\ RetiredInv
    /\ \A m \in Models \ unchecked : Explained(m)

-----------------------------------------------------------------------------
(* The shape of a step, for the files.                                      *)
Steps(w, s) ==
    /\ s = Idle \/ (s.pc # "idle" /\ s.g = flow[w].g)
    /\ flow'[w] = s /\ Busy' = IF s = Idle THEN Busy \ {w} ELSE Busy
    /\ \A v \in Workers \ {w} : /\ flow'[v].pc = flow[v].pc /\ flow'[v].g = flow[v].g
                                /\ flow'[v].mem = flow[v].mem /\ flow'[v].todo = flow[v].todo
    /\ request' = request /\ unchecked \subseteq unchecked'
    /\ interrupted \subseteq interrupted' /\ overtaken \subseteq overtaken'
    /\ \A h \in Groups \ {flow[w].g} : row'[h] = row[h]

Final == \A g \in Groups : row[g].status \in Terminal => row'[g] = row[g] \/ g \in overtaken'

\* Of the models of others nothing changes.
SameModel(m) ==
    /\ \A p \in Places : files'[p][m] = files[p][m]
    /\ ActiveConfigs(m)' = ActiveConfigs(m)
    /\ \A i \in ActiveConfigs(m) : configs'[i].meta = configs[i].meta

OnlyOwn(w) == ConfigsStay /\ \A m \in Models \ ModelsOf(w) : SameModel(m)

LEMMA MovesSteps ==
  ASSUME ApprovalInv, NEW w \in Busy, NEW s, Moves(w, s), unchecked \subseteq unchecked'
  PROVE  Steps(w, s)
<1>1. interrupted \subseteq interrupted' /\ request' = request /\ row' = row /\ overtaken' = overtaken
  BY DEF Moves
<1>2. s = Idle \/ (s.pc # "idle" /\ s.g = flow[w].g)
  BY DEF Moves
<1>3. QED
  BY <1>1, <1>2, AfterMoves DEF Steps

LEMMA WritesSteps ==
  ASSUME ApprovalInv, NEW w \in Busy, NEW r, NEW s, Writes(w, r, s), unchecked \subseteq unchecked'
  PROVE  Steps(w, s)
<1>1. interrupted' = interrupted /\ request' = request
  BY DEF Writes
<1>2. s = Idle \/ (s.pc # "idle" /\ s.g = flow[w].g)
  BY DEF Writes
<1>3. QED
  BY <1>1, <1>2, AfterWrites DEF Steps

LEMMA RowWritten ==
  ASSUME ApprovalInv, NEW w \in Busy, NEW r, NEW s, Writes(w, r, s) PROVE row'[flow[w].g] = r
BY AfterWrites

\* An approval that is still at work after a step of w is w or is as it was.
LEMMA OthersAre ==
  ASSUME ApprovalInv, NEW w \in Busy, NEW s, Steps(w, s), NEW v \in Busy', v # w
  PROVE  /\ v \in Busy /\ v \in Workers /\ flow'[v].pc = flow[v].pc /\ flow'[v].g = flow[v].g
         /\ flow'[v].mem = flow[v].mem /\ flow'[v].todo = flow[v].todo
<1>1. v \in Busy /\ v \in Workers
  BY DEF Steps, Busy
<1>2. QED
  BY <1>1 DEF Steps

LEMMA OthersRemain ==
  ASSUME ApprovalInv, NEW w \in Busy, NEW s, Steps(w, s), NEW v \in Busy, v # w
  PROVE  v \in Busy' /\ v \in Workers /\ flow'[v].pc = flow[v].pc /\ flow'[v].g = flow[v].g
<1>1. v \in Busy' /\ v \in Workers
  BY DEF Steps, Busy
<1>2. QED
  BY <1>1 DEF Steps

LEMMA FinishedSteps ==
  ASSUME ApprovalInv, NEW w \in Busy, NEW s, Steps(w, s), Final,
         flow[w].pc \in Past => \/ s.pc \in Past \/ flow[w].g \in interrupted'
                                \/ row'[flow[w].g].status \in {"Approved", "Failed"},
         NEW g \in Groups, Finished(g)
  PROVE  Finished(g)'
<1>1. interrupted \subseteq interrupted' /\ overtaken \subseteq overtaken'
  BY DEF Steps
<1>2. CASE g \in interrupted \union overtaken
  BY <1>1, <1>2 DEF Finished
<1>3. CASE row[g].status \in {"Approved", "Failed"}
  BY <1>3 DEF Final, Finished, Terminal
<1>4. ASSUME NEW v \in Busy, flow[v].g = g, flow[v].pc \in Past PROVE Finished(g)'
  <2>1. CASE v # w
    BY <1>4, <2>1, OthersRemain DEF Finished
  <2>2. CASE v = w /\ s.pc \notin Past
    BY <1>4, <2>2 DEF Finished
  <2>3. CASE v = w /\ s.pc \in Past
    <3>1. s # Idle
      BY <2>3, ConstantsAre DEF Past
    <3>2. w \in Busy' /\ flow'[w] = s /\ s.g = g
      BY <1>4, <2>3, <3>1 DEF Steps
    <3>3. QED
      BY <2>3, <3>2 DEF Finished
  <2>4. QED
    BY <2>1, <2>2, <2>3
<1>5. QED
  BY <1>2, <1>3, <1>4 DEF Finished

\* What a Delete says of a config, stays.
LEMMA AgainStays ==
  ASSUME ApprovalTypeOK, ConfigsStay, \A h \in Groups : Finished(h) => Finished(h)',
         \A h \in Groups : request[h].type = "Delete" => request'[h] = request[h],
         NEW g \in Groups, request'[g] = request[g], NEW m, Again(g, m)
  PROVE  Again(g, m)'
<1>1. PICK h \in Groups \ {g} :
        /\ request[h].type = "Delete" /\ Finished(h)
        /\ \E i \in request[g].ids \intersect request[h].ids : configs[i].model = m
  BY DEF Again
<1>2. PICK i \in request[g].ids \intersect request[h].ids : configs[i].model = m
  BY <1>1
<1>3. i \in DOMAIN configs
  BY <1>2 DEF ApprovalTypeOK
<1>4. configs'[i].model = m
  BY <1>2, <1>3 DEF ConfigsStay
<1>5. request'[h].type = "Delete" /\ Finished(h)' /\ i \in request'[g].ids \intersect request'[h].ids
  BY <1>1, <1>2
<1>6. QED
  BY <1>4, <1>5 DEF Again

\* Of the models of a request that deletes.
LEMMA DeleteStays ==
  ASSUME ApprovalTypeOK, ConfigsStay, NEW g \in Groups, request'[g] = request[g], DeleteInv(g)
  PROVE  DeleteInv(g)'
<1>1. request[g].ids \subseteq DOMAIN configs
  BY DEF ApprovalTypeOK
<1>2. \A i \in request[g].ids : configs'[i].model = configs[i].model
  BY <1>1 DEF ConfigsStay
<1>3. QED
  BY <1>2 DEF DeleteInv

LEMMA DeletedIs ==
  ASSUME ApprovalInv, NEW g \in Groups, DeleteInv(g), NEW i \in request[g].ids
  PROVE  request[g].type = "Delete" /\ configs[i].model \in request[g].models /\ i \in DOMAIN configs
<1>1. request[g].ids \subseteq DOMAIN configs /\ request[g].type = "Delete"
  BY DEF ApprovalInv, ApprovalTypeOK, RequestInv
<1>2. QED
  BY <1>1 DEF DeleteInv

LEMMA SameModelIs ==
  ASSUME NEW m, SameModel(m)
  PROVE  /\ FilesMatch(m)' <=> FilesMatch(m)
         /\ \A g \in Groups : (Live(m, g)' <=> Live(m, g)) /\ (Described(m, g)' <=> Described(m, g))
         /\ \A g \in Groups, p \in Places : Stands(p, m, g)' <=> Stands(p, m, g)
         /\ (ActiveConfigs(m) = {})' <=> ActiveConfigs(m) = {}
<1>1. /\ \A p \in Places : files'[p][m] = files[p][m]
      /\ ActiveConfigs(m)' = ActiveConfigs(m)
      /\ \A i \in ActiveConfigs(m) : configs'[i].meta = configs[i].meta
  BY DEF SameModel
<1>2. \A g : \A p \in Places : Stands(p, m, g)' <=> Stands(p, m, g)
  BY <1>1 DEF Stands
<1>3. (\A g : Live(m, g)' <=> Live(m, g)) /\ (FilesMatch(m)' <=> FilesMatch(m))
  <2>1. files'["live"][m] = files["live"][m]
    BY <1>1 DEF Places
  <2>2. QED
    BY <1>1, <2>1 DEF FilesMatch, Live, Stands
<1>4. \A g : Described(m, g)' <=> Described(m, g)
  BY <1>1 DEF Described
<1>5. QED
  BY <1>1, <1>2, <1>3, <1>4

\* Two Deletes that ended Approved: one of them is written again only from an
\* old copy, and then stands in the way.
LEMMA DeletedTwiceStays ==
  ASSUME ApprovalInv, ConfigsStay, Final, NEW m,
         \A g \in Groups : DeleteInv(g),
         \A g \in Groups : request[g].type = "Delete" => request'[g] = request[g],
         DeletedTwice(m)
  PROVE  DeletedTwice(m)' \/ \E g \in Groups : m \in request'[g].models /\ StandsInTheWay(g)'
<1>1. PICK g \in Groups, h \in Groups :
        /\ g # h /\ row[g].status = "Approved" /\ row[h].status = "Approved"
        /\ \E i \in request[g].ids \intersect request[h].ids : configs[i].model = m
  BY DEF DeletedTwice
<1>2. PICK i \in request[g].ids \intersect request[h].ids : configs[i].model = m
  BY <1>1
<1>3. /\ request[g].type = "Delete" /\ m \in request[g].models /\ request[h].type = "Delete"
      /\ m \in request[h].models /\ i \in DOMAIN configs
  BY <1>2, DeletedIs
<1>4. configs'[i].model = m /\ request'[g] = request[g] /\ request'[h] = request[h]
  BY <1>2, <1>3 DEF ConfigsStay
<1>5. CASE g \in overtaken'
  BY <1>3, <1>4, <1>5 DEF StandsInTheWay
<1>6. CASE h \in overtaken'
  BY <1>3, <1>4, <1>6 DEF StandsInTheWay
<1>7. CASE row'[g].status = "Approved" /\ row'[h].status = "Approved"
  BY <1>1, <1>2, <1>4, <1>7 DEF DeletedTwice
<1>8. QED
  BY <1>1, <1>5, <1>6, <1>7 DEF Final, Terminal

\* What holds of the record that an approval becomes.
LEMMA FlowFilesAt ==
  ASSUME NEW v, NEW f, f = flow'[v], FlowFiles(f)' PROVE FlowFiles(flow[v])'
<1>1. EarlyInv(flow[v])' /\ UndoInv(flow[v])'
  BY DEF FlowFiles, EarlyInv, UndoInv
<1>2. ProgressInv(f)'
  BY DEF FlowFiles
<1>3. ASSUME NEW m PROVE ProgressOn(f, m)' => ProgressOn(flow[v], m)'
  BY DEF ProgressOn, Stands, Live, Described, Again
<1>4. ProgressInv(flow[v])'
  BY <1>2, <1>3 DEF ProgressInv
<1>5. QED
  BY <1>1, <1>4 DEF FlowFiles

\* What one step of approval w keeps of the files.
LEMMA FilesFrame ==
  ASSUME ApprovalInv, FilesInv, NEW w \in Busy, NEW g \in Groups, g = flow[w].g, NEW s, Steps(w, s),
         Final, OnlyOwn(w),
         flow[w].pc \in Past => \/ s.pc \in Past \/ g \in interrupted'
                                \/ row'[g].status \in {"Approved", "Failed"},
         \/ s # Idle /\ s.pc \notin Undoing
         \/ g \in interrupted' \/ ~row'[g].active
         \/ flow[w].pc \in Undoing /\ row' = row,
         s # Idle => FlowFiles(s)',
         \A i \in DOMAIN configs' : ~configs'[i].active =>
            \/ i \in DOMAIN configs /\ ~configs[i].active
            \/ /\ request[g].type = "Delete" /\ i \in request[g].ids
               /\ Finished(g)',
         \A m \in ModelsOf(w) \ unchecked' :
            FilesMatch(m) \/ StandsInTheWay(g) => Explained(m)'
  PROVE  FilesInv'
<1>1. /\ ApprovalTypeOK /\ request' = request /\ unchecked \subseteq unchecked' /\ ConfigsStay
      /\ interrupted \subseteq interrupted' /\ overtaken \subseteq overtaken'
      /\ \A h \in Groups \ {flow[w].g} : row'[h] = row[h]
  BY DEF ApprovalInv, Steps, OnlyOwn
<1>2. flow[w].g \in Groups /\ w \in Workers /\ ModelsOf(w) = request[g].models
  BY BusyIs DEF ModelsOf
<1>3. \A h \in Groups : Finished(h) => Finished(h)'
  BY FinishedSteps
<1>4. ASSUME NEW h \in Groups PROVE StageInv(h)'
  <2>1. StageInv(h)
    BY DEF FilesInv
  <2>2. CASE h \in interrupted'
    BY <2>2 DEF StageInv
  <2>3. ASSUME row'[h] = row[h], row[h].active, row[h].stage # "Pending", h \notin interrupted',
               flow[w].g # h \/ flow[w].pc \in Undoing
        PROVE  StageInv(h)'
    <3>1. PICK v \in Busy : flow[v].g = h /\ flow[v].pc \notin Undoing
      BY <1>1, <2>1, <2>3 DEF StageInv
    <3>2. v # w
      BY <2>3, <3>1
    <3>3. v \in Busy' /\ flow'[v].g = h /\ flow'[v].pc \notin Undoing
      BY <3>1, <3>2, OthersRemain
    <3>4. QED
      BY <3>3 DEF StageInv
  <2>4. CASE h # flow[w].g
    BY <1>1, <2>2, <2>3, <2>4 DEF StageInv
  <2>5. CASE h = flow[w].g /\ s # Idle /\ s.pc \notin Undoing
    <3>1. w \in Busy' /\ flow'[w] = s /\ s.g = h
      BY <2>5 DEF Steps
    <3>2. QED
      BY <2>5, <3>1 DEF StageInv
  <2>6. CASE h = flow[w].g /\ ~row'[h].active
    BY <2>6 DEF StageInv
  <2>7. CASE h = flow[w].g /\ flow[w].pc \in Undoing /\ row' = row
    BY <2>2, <2>3, <2>7 DEF StageInv
  <2>8. QED
    BY <2>2, <2>4, <2>5, <2>6, <2>7
<1>5. ASSUME NEW h \in Groups PROVE DeleteInv(h)'
  BY <1>1, DeleteStays DEF FilesInv
<1>6. RetiredInv'
  <2>1. SUFFICES ASSUME NEW i \in DOMAIN configs', ~configs'[i].active
                 PROVE  \E h \in Groups : request[h].type = "Delete" /\ i \in request[h].ids /\ Finished(h)'
    BY <1>1 DEF RetiredInv
  <2>2. CASE i \in DOMAIN configs /\ ~configs[i].active
    <3>1. PICK h \in Groups : request[h].type = "Delete" /\ i \in request[h].ids /\ Finished(h)
      BY <2>2 DEF FilesInv, RetiredInv
    <3>2. QED
      BY <1>3, <3>1
  <2>3. QED
    BY <1>2, <2>1, <2>2
<1>7. ASSUME NEW v \in Busy' PROVE FlowFiles(flow[v])'
  <2>1. PICK f : f = flow'[v]
    OBVIOUS
  <2>2. CASE v = w
    <3>1. f = s /\ s # Idle
      BY <2>1, <2>2 DEF Steps
    <3>2. FlowFiles(f)'
      BY <3>1
    <3>3. QED
      BY <2>1, <3>2, FlowFilesAt
  <2>3. CASE v # w
    <3>1. /\ v \in Busy /\ f.pc = flow[v].pc /\ f.g = flow[v].g /\ f.mem = flow[v].mem
          /\ f.todo = flow[v].todo /\ f.g \in Groups /\ request[f.g].models \subseteq Models
          /\ FlowFiles(flow[v]) /\ ModelsOf(v) = request[f.g].models
      BY <2>1, <2>3, OthersAre, BusyIs DEF FilesInv, ModelsOf
    <3>2. EarlyInv(f)'
      BY <1>1, <3>1 DEF FlowFiles, EarlyInv
    <3>3. UndoInv(f)'
      <4>1. f.pc \in Undoing => row[f.g].status = "Failed" \/ f.g \in interrupted \union overtaken
        BY <3>1 DEF FlowFiles, UndoInv
      <4>2. row[f.g].status = "Failed" => row'[f.g].status = "Failed" \/ f.g \in overtaken'
        BY <3>1 DEF Final, Terminal
      <4>3. QED
        BY <1>1, <4>1, <4>2 DEF UndoInv
    <3>4. ProgressInv(f)'
      <4>1. SUFFICES ASSUME f.g \notin interrupted', NEW m \in request[f.g].models \ unchecked'
                     PROVE  ProgressOn(f, m)'
        BY <1>1 DEF ProgressInv
      <4>2. ProgressOn(f, m)
        BY <1>1, <3>1, <4>1 DEF FlowFiles, ProgressInv, ProgressOn
      <4>3. SameModel(m)
        <5>1. ModelsOf(v) \intersect ModelsOf(w) \subseteq unchecked
          BY <2>3, <3>1 DEF ApprovalInv, Alone
        <5>2. m \notin ModelsOf(w) /\ m \in Models
          BY <1>1, <3>1, <4>1, <5>1
        <5>3. QED
          BY <5>2 DEF OnlyOwn
      <4>4. /\ FilesMatch(m)' <=> FilesMatch(m)
            /\ Live(m, f.g)' <=> Live(m, f.g)
            /\ Described(m, f.g)' <=> Described(m, f.g)
            /\ (ActiveConfigs(m) = {})' <=> ActiveConfigs(m) = {}
            /\ Stands("source", m, f.g)' <=> Stands("source", m, f.g)
        BY <3>1, <4>3, SameModelIs DEF Places
      <4>5. Again(f.g, m) => Again(f.g, m)'
        BY <1>1, <1>3, <3>1, AgainStays
      <4>6. QED
        BY <1>1, <4>2, <4>4, <4>5 DEF ProgressOn
    <3>5. FlowFiles(f)'
      BY <3>2, <3>3, <3>4 DEF FlowFiles
    <3>6. QED
      BY <2>1, <3>5, FlowFilesAt
  <2>4. QED
    BY <2>2, <2>3
<1>8. ASSUME NEW m \in Models \ unchecked' PROVE Explained(m)'
  <2>1. m \notin unchecked /\ Explained(m)
    BY <1>1 DEF FilesInv
  <2>2. CASE FilesMatch(m)
    <3>1. CASE m \in ModelsOf(w)
      BY <2>2, <3>1
    <3>2. CASE m \notin ModelsOf(w)
      BY <2>2, <3>2, SameModelIs DEF OnlyOwn, Explained
    <3>3. QED
      BY <3>1, <3>2
  <2>3. CASE DeletedTwice(m)
    <3>1. \A h \in Groups : DeleteInv(h)
      BY DEF FilesInv
    <3>2. DeletedTwice(m)' \/ \E h \in Groups : m \in request'[h].models /\ StandsInTheWay(h)'
      BY <1>1, <2>3, <3>1, DeletedTwiceStays
    <3>3. QED
      BY <3>2 DEF Explained
  <2>4. ASSUME NEW h \in Groups, m \in request[h].models, StandsInTheWay(h) PROVE Explained(m)'
    <3>1. CASE h = flow[w].g
      BY <1>2, <2>4, <3>1
    <3>2. CASE h # flow[w].g
      <4>1. \A v \in Busy : flow[v].g = h /\ flow[v].pc # "reject" =>
               v \in Busy' /\ flow'[v].g = h /\ flow'[v].pc # "reject"
        BY <3>2, OthersRemain
      <4>2. StandsInTheWay(h)'
        BY <1>1, <2>4, <3>2, <4>1 DEF StandsInTheWay
      <4>3. QED
        BY <1>1, <2>4, <4>2 DEF Explained
    <3>3. QED
      BY <3>1, <3>2
  <2>5. QED
    BY <2>1, <2>2, <2>3, <2>4 DEF Explained
<1>9. QED
  BY <1>4, <1>5, <1>6, <1>7, <1>8 DEF FilesInv

LEMMA SameWorld ==
  ASSUME ApprovalTypeOK, configs' = configs, files' = files, NEW w
  PROVE  /\ OnlyOwn(w) /\ \A m : FilesMatch(m)' <=> FilesMatch(m)
         /\ \A i \in DOMAIN configs' : i \in DOMAIN configs /\ configs'[i].active = configs[i].active
<1>1. ConfigsStay
  BY ConfigsSame
<1>2. \A m : SameModel(m)
  BY SameConfigs DEF SameModel
<1>3. \A m : FilesMatch(m)' <=> FilesMatch(m)
  BY <1>2, SameModelIs
<1>4. QED
  BY <1>1, <1>2, <1>3 DEF OnlyOwn

\* What explains a model of approval w after a step of it.
LEMMA Explains ==
  ASSUME ApprovalInv, NEW w \in Busy, NEW g \in Groups, g = flow[w].g, NEW s, Steps(w, s), NEW m \in ModelsOf(w),
         \/ FilesMatch(m)' \/ g \in interrupted'
         \/ /\ request[g].type \in {"Edit", "Delete"}
            /\ (s # Idle /\ s.pc # "reject") \/ row'[g].status = "Failed" \/ g \in overtaken'
  PROVE  Explained(m)'
<1>1. m \in request'[g].models /\ request' = request
  BY DEF Steps, ModelsOf
<1>2. CASE FilesMatch(m)'
  BY <1>2 DEF Explained
<1>3. CASE g \in interrupted'
  BY <1>1, <1>3 DEF Explained, StandsInTheWay
<1>4. CASE request[g].type \in {"Edit", "Delete"} /\ (row'[g].status = "Failed" \/ g \in overtaken')
  BY <1>1, <1>4 DEF Explained, StandsInTheWay
<1>5. CASE request[g].type \in {"Edit", "Delete"} /\ s # Idle /\ s.pc # "reject"
  <2>1. w \in Busy' /\ flow'[w].g = g /\ flow'[w].pc # "reject"
    BY <1>5 DEF Steps
  <2>2. QED
    BY <1>1, <1>5, <2>1 DEF Explained, StandsInTheWay
<1>6. QED
  BY <1>2, <1>3, <1>4, <1>5

LEMMA CreatedStands ==
  ASSUME NEW g, request[g].type \in Created, StandsInTheWay(g)
  PROVE  g \in interrupted
  BY ApprovalAssumption DEF StandsInTheWay

\* Where an undisturbed approval is.
LEMMA AtStage ==
  ASSUME ApprovalInv, FilesInv, NEW w \in Busy, NEW g \in Groups, g = flow[w].g, g \notin interrupted,
         NEW m \in ModelsOf(w) \ unchecked
  PROVE  /\ flow[w].pc \in {"exist", "copy source", "copy live", "move"} =>
              flow[w].mem.stage = "Pending" /\ AtCopyStage(w)
         /\ flow[w].pc \in {"populate", "unregister"} => flow[w].mem.stage = "DB Population"
         /\ ProgressOn(flow[w], m)
<1>1. EarlyInv(flow[w]) /\ ProgressInv(flow[w])
  BY DEF FilesInv, FlowFiles
<1>2. QED
  BY <1>1 DEF EarlyInv, ProgressInv, ModelsOf, AtCopyStage

\* An approval goes on, its row and copy as they are.
LEMMA GoFiles ==
  ASSUME ApprovalInv, FilesInv, NEW w \in Busy, NEW g \in Groups, g = flow[w].g,
         NEW s \in FlowState, flow' = [flow EXCEPT ![w] = s],
         s.pc # "idle", s.g = flow[w].g, s.mem = flow[w].mem, s.fresh = flow[w].fresh,
         UNCHANGED <<request, row, interrupted, overtaken>>, unchecked \subseteq unchecked',
         OnlyOwn(w), \A i \in DOMAIN configs' : i \in DOMAIN configs /\ configs'[i].active = configs[i].active,
         s.pc \notin Undoing,
         flow[w].pc \in Past => s.pc \in Past,
         s.pc \in {"exist", "copy source", "copy live", "move"} =>
            flow[w].pc \in {"exist", "copy source", "copy live", "move"},
         s.pc \in {"populate", "unregister"} => flow[w].pc \in {"copy live", "move"} /\ ~AtCopyStage(w),
         s.pc = "reject" => request[g].type \in Created,
         \A m \in ModelsOf(w) \ unchecked' : g \notin interrupted => ProgressOn(s, m)',
         request[g].type \in Created => \A m \in ModelsOf(w) \ unchecked' : FilesMatch(m) => FilesMatch(m)'
  PROVE  FilesInv'
<1>1. /\ request' = request /\ row' = row /\ interrupted' = interrupted /\ overtaken' = overtaken
      /\ ApprovalTypeOK /\ ModelsOf(w) = request[g].models
  BY DEF ApprovalInv, ModelsOf
<1>2. Steps(w, s) /\ s # Idle
  <2>1. Moves(w, s)
    BY <1>1 DEF Moves
  <2>2. QED
    BY <2>1, MovesSteps, ConstantsAre
<1>3. Final
  BY <1>1 DEF Final
<1>4. FlowFiles(s)'
  <2>1. EarlyInv(flow[w])
    BY DEF FilesInv, FlowFiles
  <2>2. EarlyInv(s)'
    BY <1>1, <2>1 DEF EarlyInv, AtCopyStage
  <2>3. UndoInv(s)'
    BY DEF UndoInv
  <2>4. ProgressInv(s)'
    BY <1>1 DEF ProgressInv
  <2>5. QED
    BY <2>2, <2>3, <2>4 DEF FlowFiles
<1>5. ASSUME NEW m \in ModelsOf(w) \ unchecked', FilesMatch(m) \/ StandsInTheWay(g)
      PROVE  Explained(m)'
  <2>1. request[g].type \in Created \union {"Edit", "Delete"}
    BY TypesAre DEF Types
  <2>2. CASE request[g].type \in Created
    <3>1. FilesMatch(m)' \/ g \in interrupted'
      BY <1>1, <1>5, <2>2, CreatedStands
    <3>2. QED
      BY <1>2, <1>5, <3>1, Explains
  <2>3. CASE request[g].type \in {"Edit", "Delete"}
    <3>1. s.pc # "reject"
      BY <2>3, ApprovalAssumption
    <3>2. QED
      BY <1>2, <1>5, <2>3, <3>1, Explains
  <2>4. QED
    BY <2>1, <2>2, <2>3
<1>6. \A i \in DOMAIN configs' : ~configs'[i].active => i \in DOMAIN configs /\ ~configs[i].active
  OBVIOUS
<1>7. flow[w].pc \in Past => s.pc \in Past \/ g \in interrupted' \/ row'[g].status \in {"Approved", "Failed"}
  OBVIOUS
<1>8. QED
  BY <1>2, <1>3, <1>4, <1>5, <1>6, <1>7, FilesFrame

LEMMA GoToFiles ==
  ASSUME ApprovalInv, FilesInv, NEW w \in Busy, NEW pc \in Pcs, GoTo(w, pc),
         pc \notin {"idle", "update"} \union Undoing, flow[w].pc \notin Past,
         pc \in {"exist", "copy source", "copy live", "move"} =>
            flow[w].pc \in {"exist", "copy source", "copy live", "move"},
         pc \in {"populate", "unregister"} => flow[w].pc \in {"copy live", "move"} /\ ~AtCopyStage(w),
         pc = "reject" => request[flow[w].g].type \in Created,
         pc = "copy live" => request[flow[w].g].type # "ScaleUp",
         pc \in Past => \/ request[flow[w].g].type \in Created
                        \/ flow[w].pc = "unregister" /\ flow[w].mem.stage # "DB Population"
  PROVE  FilesInv'
<1>1. PICK s : s = [flow[w] EXCEPT !.pc = pc, !.todo = ModelsOf(w)]
  OBVIOUS
<1>2. PICK g \in Groups : g = flow[w].g
  BY BusyIs
<1>3. flow[w] \in FlowState /\ ModelsOf(w) \subseteq Models /\ ModelsOf(w) = request[g].models
  BY <1>2, BusyIs DEF ModelsOf
<1>4. /\ s \in FlowState /\ s.pc = pc /\ s.todo = ModelsOf(w)
      /\ s.g = flow[w].g /\ s.mem = flow[w].mem /\ s.fresh = flow[w].fresh
  BY <1>1, <1>3 DEF FlowState
<1>5. flow' = [flow EXCEPT ![w] = s] /\ UNCHANGED <<request, row, configs, files, history>>
  BY <1>1 DEF GoTo
<1>6. /\ unchecked' = unchecked /\ interrupted' = interrupted /\ overtaken' = overtaken
      /\ request' = request /\ row' = row /\ configs' = configs /\ files' = files
  BY <1>5 DEF history
<1>7. /\ OnlyOwn(w) /\ \A m : FilesMatch(m)' <=> FilesMatch(m)
      /\ \A i \in DOMAIN configs' : i \in DOMAIN configs /\ configs'[i].active = configs[i].active
  BY <1>6, SameWorld DEF ApprovalInv
<1>8. ASSUME NEW m \in ModelsOf(w) \ unchecked, g \notin interrupted PROVE ProgressOn(s, m)'
  <2>1. /\ flow[w].pc \in {"exist", "copy source", "copy live", "move"} => AtCopyStage(w)
        /\ flow[w].pc \in {"populate", "unregister"} => flow[w].mem.stage = "DB Population"
    BY <1>2, <1>8, AtStage
  <2>2. /\ pc \notin {"populate", "update"} /\ (pc \in {"copy source", "copy live"} => m \in s.todo)
        /\ pc = "copy live" => request'[s.g].type # "ScaleUp"
    BY <1>4, <1>6, <1>8, <2>1
  <2>3. pc \in Past => request'[s.g].type \notin {"Edit", "Delete"}
    BY <1>2, <1>4, <1>6, <2>1, ApprovalAssumption
  <2>4. QED
    BY <1>4, <2>2, <2>3 DEF ProgressOn
<1>9. s.pc \notin {"idle"} \union Undoing
  BY <1>4
<1>10. QED
  BY <1>2, <1>4, <1>5, <1>6, <1>7, <1>8, <1>9, GoFiles

\* The same, for a change of the place only.
LEMMA PlaceFiles ==
  ASSUME ApprovalInv, FilesInv, NEW w \in Busy, NEW pc \in Pcs, flow' = [flow EXCEPT ![w].pc = pc],
         UNCHANGED <<request, row, interrupted, overtaken>>, unchecked \subseteq unchecked',
         OnlyOwn(w), \A i \in DOMAIN configs' : i \in DOMAIN configs /\ configs'[i].active = configs[i].active,
         pc \in {"fail copy", "fail move", "fail db", "fail restart"}
            \/ (flow[w].pc = "exist" /\ pc \in {"copy source", "copy live"} /\ ModelsOf(w) \subseteq unchecked'),
         flow[w].pc \notin Past \/ (pc = "fail restart" /\ flow[w].pc = "restart" /\ UNCHANGED <<configs, files>>),
         pc = "fail restart" => flow[w].pc = "restart",
         request[flow[w].g].type \in Created =>
            \A m \in ModelsOf(w) \ unchecked' : FilesMatch(m) => FilesMatch(m)'
  PROVE  FilesInv'
<1>1. PICK s : s = [flow[w] EXCEPT !.pc = pc]
  OBVIOUS
<1>2. PICK g \in Groups : g = flow[w].g
  BY BusyIs
<1>3. flow[w] \in FlowState /\ ModelsOf(w) = request[g].models
  BY <1>2, BusyIs DEF ModelsOf
<1>4. /\ s \in FlowState /\ s.pc = pc /\ s.g = g
      /\ s.mem = flow[w].mem /\ s.fresh = flow[w].fresh
  BY <1>1, <1>2, <1>3 DEF FlowState
<1>5. flow' = [flow EXCEPT ![w] = s] /\ request' = request /\ overtaken' = overtaken
  BY <1>1
<1>6. /\ pc \notin {"idle", "reject", "populate", "unregister", "exist", "move"} \union Undoing
      /\ pc \in {"copy source", "copy live"} => flow[w].pc = "exist"
      /\ flow[w].pc \in Past => pc \in Past
  BY DEF Undoing, Past
<1>7. ASSUME NEW m \in ModelsOf(w) \ unchecked', g \notin interrupted PROVE ProgressOn(s, m)'
  <2>1. pc \in {"fail copy", "fail move", "fail db", "fail restart"}
    BY <1>7
  <2>2. CASE pc # "fail restart"
    BY <1>4, <2>1, <2>2 DEF ProgressOn, Past
  <2>3. CASE pc = "fail restart"
    <3>1. flow[w].pc = "restart" /\ configs' = configs /\ files' = files /\ m \notin unchecked
      BY <1>7, <2>3 DEF Past
    <3>2. ProgressOn(flow[w], m)
      BY <1>2, <1>7, <3>1, AtStage
    <3>3. (FilesMatch(m)' <=> FilesMatch(m)) /\ ConfigsStay /\ ApprovalTypeOK
      BY <3>1, SameWorld DEF ApprovalInv, OnlyOwn
    <3>4. (ActiveConfigs(m) = {})' <=> ActiveConfigs(m) = {}
      BY <3>1 DEF ActiveConfigs
    <3>5. Steps(w, s)
      <4>1. Moves(w, s)
        BY <1>2, <1>4, <1>5, <1>6 DEF Moves
      <4>2. QED
        BY <4>1, MovesSteps
    <3>6. Final /\ s.pc \in Past
      BY <1>4, <2>3 DEF Final, Past
    <3>7. \A h \in Groups : Finished(h) => Finished(h)'
      BY <3>5, <3>6, FinishedSteps
    <3>8. Again(g, m) => Again(g, m)'
      BY <1>5, <3>3, <3>7, AgainStays
    <3>9. QED
      BY <1>2, <1>4, <1>5, <2>3, <3>1, <3>2, <3>3, <3>4, <3>8 DEF ProgressOn, Past
  <2>4. QED
    BY <2>2, <2>3
<1>8. QED
  BY <1>2, <1>4, <1>5, <1>6, <1>7, GoFiles

LEMMA FolderAt ==
  ASSUME ApprovalTypeOK, NEW p \in Places, NEW q \in Places, NEW m \in Models
  PROVE  /\ \A x : files' = [files EXCEPT ![p][m] = x] =>
                files'[p][m] = x /\ \A r \in Places \ {p} : files'[r][m] = files[r][m]
         /\ \/ \E x : files' = [files EXCEPT ![p][m] = x]
            \/ TransferAndDelete(p, q, m) \/ TransferAndDeleteFails(p, q, m)
            => \A n \in Models \ {m}, r \in Places : files'[r][n] = files[r][n]
<1>1. files \in [Places -> [Models -> Folder]]
  BY DEF ApprovalTypeOK
<1>2. ASSUME NEW x, files' = [files EXCEPT ![p][m] = x]
      PROVE  /\ files'[p][m] = x /\ \A r \in Places \ {p} : files'[r][m] = files[r][m]
             /\ \A n \in Models \ {m}, r \in Places : files'[r][n] = files[r][n]
  BY <1>1, <1>2
<1>3. ASSUME NEW x, NEW y, files' = [files EXCEPT ![q][m] = x, ![p][m] = y]
      PROVE  \A n \in Models \ {m}, r \in Places : files'[r][n] = files[r][n]
  BY <1>1, <1>3
<1>4. ASSUME NEW c, NEW y, files' = Moved(p, q, m, c, y)
      PROVE  \A n \in Models \ {m}, r \in Places : files'[r][n] = files[r][n]
  <2>1. PICK x : x = CopyOf(files[p][m], c)
    OBVIOUS
  <2>2. files' = [files EXCEPT ![q][m] = x, ![p][m] = y]
    BY <1>4, <2>1 DEF Moved
  <2>3. QED
    BY <1>3, <2>2
<1>5. ASSUME TransferAndDelete(p, q, m) \/ TransferAndDeleteFails(p, q, m)
      PROVE  \E c, y : files' = Moved(p, q, m, c, y)
  BY <1>5 DEF TransferAndDelete, TransferAndDeleteFails
<1>6. QED
  BY <1>2, <1>4, <1>5

\* Only folders of a model of its own change.
LEMMA OwnFiles ==
  ASSUME ApprovalInv, NEW w \in Busy, NEW m \in ModelsOf(w), configs' = configs,
         \A n \in Models \ {m}, r \in Places : files'[r][n] = files[r][n]
  PROVE  /\ OnlyOwn(w) /\ \A n \in Models \ {m} : SameModel(n)
         /\ \A i \in DOMAIN configs' : i \in DOMAIN configs /\ configs'[i].active = configs[i].active
         /\ \A n : ActiveConfigs(n)' = ActiveConfigs(n)
<1>1. ConfigsStay
  BY ConfigsSame DEF ApprovalInv
<1>2. \A n \in Models \ {m} : SameModel(n)
  BY SameConfigs DEF SameModel
<1>3. QED
  BY <1>1, <1>2, SameConfigs DEF OnlyOwn

\* Until a request that creates is in the database, nothing is served of it.
LEMMA NothingServed ==
  ASSUME ApprovalInv, NEW w \in Busy, request[flow[w].g].type \in Created, flow[w].pc \in Building,
         \A n : ActiveConfigs(n)' = ActiveConfigs(n), NEW m \in ModelsOf(w) \ unchecked
  PROVE  FilesMatch(m)'
<1>1. ActiveConfigs(m)' = {}
  BY DEF ApprovalInv, NoConfigYet
<1>2. QED
  BY <1>1 DEF FilesMatch

LEMMA TransferFiles ==
  ASSUME ApprovalInv, FilesInv, NEW w \in Busy, NEW m \in Models, TransferFolder(w, m) PROVE FilesInv'
<1>1. /\ flow[w].pc \in {"copy source", "copy live"} /\ m \in flow[w].todo
      /\ UNCHANGED <<request, row, configs, unchecked, interrupted, overtaken>>
  BY DEF TransferFolder
<1>2. PICK g \in Groups : g = flow[w].g
  BY BusyIs
<1>3. /\ Into(w) \in Places /\ m \in ModelsOf(w) /\ {"live", "source"} \subseteq Places
      /\ Into(w) = IF flow[w].pc = "copy source" THEN "source" ELSE "live"
  BY <1>1, TypesAre DEF Into, Places, MovedInv, ModelsOf
<1>4. flow[w].pc \in Building /\ flow[w].pc \notin Past \union Undoing /\ ApprovalTypeOK
  BY <1>1 DEF Building, Past, Undoing, ApprovalInv
<1>5. ASSUME NEW x, files' = [files EXCEPT ![Into(w)][m] = x]
      PROVE  /\ OnlyOwn(w) /\ \A n \in Models \ {m} : SameModel(n)
             /\ \A i \in DOMAIN configs' : i \in DOMAIN configs /\ configs'[i].active = configs[i].active
             /\ request[flow[w].g].type \in Created =>
                  \A n \in ModelsOf(w) \ unchecked' : FilesMatch(n) => FilesMatch(n)'
             /\ files'[Into(w)][m] = x /\ \A p \in Places \ {Into(w)} : files'[p][m] = files[p][m]
  <2>1. /\ \A n \in Models \ {m}, p \in Places : files'[p][n] = files[p][n]
        /\ files'[Into(w)][m] = x /\ \A p \in Places \ {Into(w)} : files'[p][m] = files[p][m]
    <3>1. PICK p \in Places : p = Into(w)
      BY <1>3
    <3>2. files' = [files EXCEPT ![p][m] = x]
      BY <1>5, <3>1
    <3>3. \A n \in Models \ {m}, r \in Places : files'[r][n] = files[r][n]
      BY <1>4, <3>2, FolderAt
    <3>4. files'[p][m] = x /\ \A r \in Places \ {p} : files'[r][m] = files[r][m]
      BY <1>4, <3>2 DEF ApprovalTypeOK
    <3>5. QED
      BY <3>1, <3>3, <3>4
  <2>2. /\ OnlyOwn(w) /\ \A n \in Models \ {m} : SameModel(n)
        /\ \A i \in DOMAIN configs' : i \in DOMAIN configs /\ configs'[i].active = configs[i].active
        /\ \A n : ActiveConfigs(n)' = ActiveConfigs(n)
    BY <1>1, <1>3, <2>1, OwnFiles
  <2>3. request[flow[w].g].type \in Created =>
           \A n \in ModelsOf(w) \ unchecked' : FilesMatch(n) => FilesMatch(n)'
    BY <1>1, <1>4, <2>2, NothingServed
  <2>4. QED
    BY <2>1, <2>2, <2>3
<1>6. ASSUME NEW x, x = From(w, m), x # NoFiles, NEW c \in {"whole", "unclosed"},
             files' = [files EXCEPT ![Into(w)][m] = CopyOf(x, c)],
             flow' = [flow EXCEPT ![w].todo = @ \ {m}, ![w].moved = @ \union {<<Into(w), m>>}]
      PROVE  FilesInv'
  <2>1. PICK moved \in SUBSET (Places \X Models) : moved = flow[w].moved \union {<<Into(w), m>>}
    <3>1. PICK y \in Places \X Models : y = <<Into(w), m>>
      BY <1>3
    <3>2. flow[w].moved \in SUBSET (Places \X Models)
      BY BusyIs
    <3>3. flow[w].moved \union {y} \in SUBSET (Places \X Models)
      BY <3>2, Zenon
    <3>4. QED
      BY <3>1, <3>3, Zenon
  <2>2. PICK s : s = [flow[w] EXCEPT !.todo = flow[w].todo \ {m}, !.moved = moved]
    OBVIOUS
  <2>3. /\ s \in FlowState /\ s.pc = flow[w].pc /\ s.todo = flow[w].todo \ {m}
        /\ s.g = flow[w].g /\ s.mem = flow[w].mem /\ s.fresh = flow[w].fresh
    BY <2>2, BusyIs DEF FlowState
  <2>4. flow' = [flow EXCEPT ![w] = s]
    BY <1>6, <2>1, <2>2
  <2>5. ASSUME NEW n \in ModelsOf(w) \ unchecked', g \notin interrupted PROVE ProgressOn(s, n)'
    <3>1. ProgressOn(flow[w], n) /\ n \in Models
      BY <1>1, <1>2, <2>5, AtStage, BusyIs DEF ModelsOf
    <3>0. PICK q \in Places : q = Into(w)
      BY <1>3
    <3>2. n = m => Stands(q, m, g)'
      <4>1. SUFFICES ASSUME n = m PROVE Stands(q, m, g)'
        OBVIOUS
      <4>2. x \in [by : {g}, copied : {"whole", "unclosed"}]
        <5>1. CASE request[g].type = "ScaleUp" /\ flow[w].pc = "copy live"
          BY <1>2, <1>6, <3>1, <4>1, <5>1 DEF From, ProgressOn, Stands
        <5>2. CASE ~(request[g].type = "ScaleUp" /\ flow[w].pc = "copy live")
          BY <1>2, <1>6, <5>2 DEF From
        <5>3. QED
          BY <5>1, <5>2
      <4>3. CopyOf(x, c) \in [by : {g}, copied : {"whole", "unclosed"}]
        BY <1>6, <4>2 DEF CopyOf
      <4>4. files'[q][m] = CopyOf(x, c)
        BY <1>5, <1>6, <3>0
      <4>5. QED
        BY <4>3, <4>4 DEF Stands
    <3>3. n = m => \A p \in Places \ {q} : Stands(p, m, g)' <=> Stands(p, m, g)
      <4>1. \A p \in Places \ {q} : files'[p][m] = files[p][m]
        BY <1>5, <1>6, <3>0
      <4>2. QED
        BY <4>1 DEF Stands
    <3>4. n # m => \A p \in Places : Stands(p, n, g)' <=> Stands(p, n, g)
      <4>1. SUFFICES ASSUME n # m PROVE \A p \in Places : Stands(p, n, g)' <=> Stands(p, n, g)
        OBVIOUS
      <4>2. SameModel(n)
        BY <1>5, <1>6, <3>1, <4>1
      <4>3. QED
        BY <4>2, SameModelIs
    <3>5. n # m => (n \notin s.todo => n \notin flow[w].todo)
      BY <2>3
    <3>6. CASE flow[w].pc = "copy source"
      <4>1. q = "source" /\ s.pc = "copy source" /\ s.g = g
        BY <1>2, <1>3, <2>3, <3>0, <3>6
      <4>2. n \notin s.todo => Stands(q, n, g)'
        BY <1>2, <3>1, <3>2, <3>4, <3>5, <3>6, <4>1 DEF ProgressOn
      <4>3. QED
        BY <4>1, <4>2 DEF ProgressOn, Past
    <3>7. CASE flow[w].pc = "copy live"
      <4>1. request'[s.g].type = request[g].type
        BY <1>1, <1>2, <2>3
      <4>2. s.todo \subseteq flow[w].todo /\ s.pc = "copy live" /\ s.g = g
        BY <1>2, <2>3, <3>7
      <4>3. n \notin s.todo => Live(n, g)'
        <5>1. SUFFICES ASSUME n \notin s.todo PROVE Stands("live", n, g)'
          BY DEF Live
        <5>2. q = "live"
          BY <1>3, <3>0, <3>7
        <5>3. n # m => Stands("live", n, g)
          BY <1>2, <3>1, <3>5, <3>7, <5>1 DEF ProgressOn, Live
        <5>4. QED
          BY <3>2, <3>4, <5>2, <5>3
      <4>4. request[g].type = "ScaleUp" => Stands("source", n, g)'
        BY <1>2, <1>3, <3>0, <3>1, <3>3, <3>4, <3>7 DEF ProgressOn
      <4>5. QED
        BY <4>1, <4>2, <4>3, <4>4 DEF ProgressOn, Past
    <3>8. QED
      BY <1>1, <3>6, <3>7
  <2>6. /\ OnlyOwn(w)
        /\ \A i \in DOMAIN configs' : i \in DOMAIN configs /\ configs'[i].active = configs[i].active
        /\ request[flow[w].g].type \in Created =>
             \A n \in ModelsOf(w) \ unchecked' : FilesMatch(n) => FilesMatch(n)'
    BY <1>5, <1>6
  <2>7. s.pc \in {"copy source", "copy live"} /\ s.pc \notin Undoing /\ unchecked' = unchecked
    BY <1>1, <1>4, <2>3
  <2>8. QED
    BY <1>1, <1>2, <1>4, <2>3, <2>4, <2>5, <2>6, <2>7, GoFiles
<1>7. CASE /\ files' = files \/ \E x : files' = [files EXCEPT ![Into(w)][m] = x]
           /\ flow' = [flow EXCEPT ![w].pc = "fail copy"]
  <2>1. /\ OnlyOwn(w)
        /\ \A i \in DOMAIN configs' : i \in DOMAIN configs /\ configs'[i].active = configs[i].active
        /\ request[flow[w].g].type \in Created =>
             \A n \in ModelsOf(w) \ unchecked' : FilesMatch(n) => FilesMatch(n)'
    BY <1>1, <1>4, <1>5, <1>7, SameWorld
  <2>2. "fail copy" \in Pcs /\ unchecked \subseteq unchecked'
    BY <1>1 DEF Pcs
  <2>3. QED
    BY <1>1, <1>4, <1>7, <2>1, <2>2, PlaceFiles
<1>8. QED
  BY <1>6, <1>7 DEF TransferFolder

LEMMA ExistFiles ==
  ASSUME ApprovalInv, FilesInv, NEW w \in Busy, CheckIfModelsExist(w) PROVE FilesInv'
<1> DEFINE found == \E m \in ModelsOf(w) : ActiveConfigs(m) # {}
           pc == IF request[flow[w].g].type = "ScaleUp" THEN "copy source" ELSE "copy live"
<1>1. flow[w].pc = "exist" /\ request[flow[w].g].type \in Created
  BY TypesAre DEF CheckIfModelsExist, TypeAt
<1>2. /\ flow[w].pc \notin Undoing /\ flow[w].pc \notin Past /\ {pc, "reject"} \subseteq Pcs
      /\ pc \notin {"idle", "update"} \union Undoing \union Past
      /\ "reject" \notin {"idle", "update"} \union Undoing \union Past
  BY <1>1 DEF Undoing, Past, Pcs
<1>3. CASE GoTo(w, "reject")
  BY <1>1, <1>2, <1>3, GoToFiles
<1>4. CASE GoTo(w, pc)
  BY <1>1, <1>2, <1>4, GoToFiles
<1>5. CASE /\ Fault /\ flow' = [flow EXCEPT ![w].pc = pc]
           /\ unchecked' = unchecked \union ModelsOf(w)
           /\ UNCHANGED <<request, row, configs, files, interrupted, overtaken>>
  <2>1. /\ OnlyOwn(w) /\ \A m : FilesMatch(m)' <=> FilesMatch(m)
        /\ \A i \in DOMAIN configs' : i \in DOMAIN configs /\ configs'[i].active = configs[i].active
    BY <1>5, SameWorld DEF ApprovalInv
  <2>2. ModelsOf(w) \subseteq unchecked' /\ unchecked \subseteq unchecked'
    BY <1>5
  <2>3. QED
    BY <1>1, <1>2, <1>5, <2>1, <2>2, PlaceFiles
<1>6. QED
  BY <1>3, <1>4, <1>5 DEF CheckIfModelsExist

LEMMA EndCopySourceFiles ==
  ASSUME ApprovalInv, FilesInv, NEW w \in Busy, EndCopySource(w) PROVE FilesInv'
<1>1. flow[w].pc = "copy source" /\ UNCHANGED <<request, row, configs, files, history>>
  BY DEF EndCopySource
<1>2. PICK s : s = [flow[w] EXCEPT !.pc = "copy live", !.todo = ModelsOf(w), !.moved = {}]
  OBVIOUS
<1>3. PICK g \in Groups : g = flow[w].g
  BY BusyIs
<1>4. /\ s \in FlowState /\ s.pc = "copy live" /\ s.todo = ModelsOf(w)
      /\ s.g = flow[w].g /\ s.mem = flow[w].mem /\ s.fresh = flow[w].fresh
  BY <1>2, BusyIs DEF FlowState, Pcs, ModelsOf
<1>5. flow' = [flow EXCEPT ![w] = s]
  BY <1>2 DEF EndCopySource
<1>6. /\ unchecked' = unchecked /\ interrupted' = interrupted /\ overtaken' = overtaken
      /\ request' = request /\ row' = row /\ configs' = configs /\ files' = files
  BY <1>1 DEF history
<1>7. /\ OnlyOwn(w) /\ \A m : FilesMatch(m)' <=> FilesMatch(m)
      /\ \A i \in DOMAIN configs' : i \in DOMAIN configs /\ configs'[i].active = configs[i].active
  BY <1>6, SameWorld DEF ApprovalInv
<1>8. ASSUME NEW m \in ModelsOf(w) \ unchecked', g \notin interrupted PROVE ProgressOn(s, m)'
  <2>1. AtCopyStage(w) /\ ProgressOn(flow[w], m)
    BY <1>1, <1>3, <1>6, <1>8, AtStage
  <2>2. flow[w].todo = {}
    BY <2>1 DEF EndCopySource
  <2>3. Stands("source", m, g)'
    BY <1>1, <1>3, <1>6, <2>1, <2>2 DEF ProgressOn, Stands
  <2>4. QED
    BY <1>3, <1>4, <1>8, <2>3 DEF ProgressOn, Past
<1>9. s.pc \notin Undoing /\ flow[w].pc \notin Past
  BY <1>1, <1>4 DEF Undoing, Past
<1>10. QED
  BY <1>1, <1>3, <1>4, <1>5, <1>6, <1>7, <1>8, <1>9, GoFiles

LEMMA MoveFiles ==
  ASSUME ApprovalInv, FilesInv, NEW w \in Busy, NEW m \in Models, MoveToDeleteBucket(w, m) PROVE FilesInv'
<1>1. /\ flow[w].pc = "move" /\ m \in flow[w].todo
      /\ UNCHANGED <<request, row, configs, unchecked, interrupted, overtaken>>
  BY DEF MoveToDeleteBucket
<1>2. PICK g \in Groups : g = flow[w].g
  BY BusyIs
<1>3. /\ m \in ModelsOf(w) /\ {"live", "deleted"} \subseteq Places /\ ApprovalTypeOK
      /\ flow[w].pc \notin Past \union Undoing /\ request[flow[w].g].type \notin Created
  BY <1>1, TypesAre, ApprovalAssumption DEF Places, MovedInv, ModelsOf, Past, Undoing, TypeAt, ApprovalInv
<1>4. \A n \in Models \ {m}, r \in Places : files'[r][n] = files[r][n]
  <2>1. CASE TransferAndDelete("live", "deleted", m) \/ TransferAndDeleteFails("live", "deleted", m)
    BY <1>3, <2>1, FolderAt
  <2>2. CASE files' = files
    BY <2>2
  <2>3. QED
    BY <2>1, <2>2 DEF MoveToDeleteBucket
<1>5. /\ OnlyOwn(w)
      /\ \A i \in DOMAIN configs' : i \in DOMAIN configs /\ configs'[i].active = configs[i].active
  BY <1>1, <1>3, <1>4, OwnFiles
<1>6. CASE flow' = [flow EXCEPT ![w].todo = @ \ {m}, ![w].moved = @ \union {<<"live", m>>}]
  <2>1. PICK x \in Places \X Models : x = <<"live", m>>
    BY <1>3
  <2>2. PICK s : s = [flow[w] EXCEPT !.todo = @ \ {m}, !.moved = @ \union {x}]
    OBVIOUS
  <2>3. flow[w] \in FlowState
    BY BusyIs
  <2>4. /\ s \in FlowState /\ s.pc = "move" /\ s.g = flow[w].g /\ s.mem = flow[w].mem
        /\ s.fresh = flow[w].fresh
    BY <1>1, <2>2, <2>3 DEF FlowState
  <2>5. flow' = [flow EXCEPT ![w] = s]
    BY <1>6, <2>1, <2>2
  <2>6. \A n \in ModelsOf(w) : ProgressOn(s, n)'
    BY <2>4 DEF ProgressOn, Past
  <2>7. s.pc \notin Undoing /\ unchecked' = unchecked
    BY <1>1, <1>3, <2>4
  <2>8. QED
    BY <1>1, <1>2, <1>3, <1>5, <2>4, <2>5, <2>6, <2>7, GoFiles
<1>7. CASE flow' = [flow EXCEPT ![w].pc = "fail move"]
  <2>1. "fail move" \in Pcs /\ unchecked \subseteq unchecked'
    BY <1>1 DEF Pcs
  <2>2. QED
    BY <1>1, <1>3, <1>5, <1>7, <2>1, PlaceFiles
<1>8. QED
  BY <1>6, <1>7 DEF MoveToDeleteBucket

LEMMA UpdateConfigFiles ==
  ASSUME ApprovalInv, FilesInv, NEW w \in Busy, NEW m \in Models, UpdateConfig(w, m) PROVE FilesInv'
<1>1. /\ flow[w].pc = "update" /\ m \in flow[w].todo
      /\ UNCHANGED <<request, row, files, unchecked, interrupted, overtaken>>
  BY DEF UpdateConfig
<1>2. PICK g \in Groups : g = flow[w].g
  BY BusyIs
<1>3. /\ m \in ModelsOf(w) /\ ApprovalTypeOK /\ flow[w].pc \notin Past \union Undoing
      /\ request[flow[w].g].type \notin Created
  BY <1>1, TypesAre, ApprovalAssumption DEF MovedInv, ModelsOf, Past, Undoing, TypeAt, ApprovalInv
<1>4. CASE /\ \E i \in ActiveConfigs(m) : configs' = [configs EXCEPT ![i].meta = flow[w].g]
           /\ flow' = [flow EXCEPT ![w].todo = @ \ {m}]
  <2>1. PICK i \in ActiveConfigs(m) : configs' = [configs EXCEPT ![i].meta = g]
    BY <1>2, <1>4
  <2>2. PICK c : c = [configs[i] EXCEPT !.meta = g]
    OBVIOUS
  <2>3. /\ i \in DOMAIN configs /\ configs \in Seq(Config) /\ configs[i] \in Config
        /\ configs[i].model = m /\ configs[i].active
    BY <1>3 DEF ApprovalTypeOK, ActiveConfigs
  <2>4. c \in Config /\ c.model = m /\ c.active = configs[i].active /\ c.meta = g
    BY <2>2, <2>3 DEF Config
  <2>5. configs' = [configs EXCEPT ![i] = c]
    BY <2>1, <2>2
  <2>6. /\ DOMAIN configs' = DOMAIN configs /\ configs'[i] = c
        /\ \A j \in DOMAIN configs \ {i} : configs'[j] = configs[j]
    BY <2>3, <2>5
  <2>7. ConfigsStay
    BY <1>1, UpdateConfigKeeps
  <2>8. /\ \A j \in DOMAIN configs' : j \in DOMAIN configs /\ configs'[j].active = configs[j].active
        /\ \A n : ActiveConfigs(n)' = ActiveConfigs(n)
    <3>1. \A j \in DOMAIN configs : configs'[j].active = configs[j].active /\ configs'[j].model = configs[j].model
      BY <2>3, <2>4, <2>6
    <3>2. QED
      BY <2>6, <3>1 DEF ActiveConfigs
  <2>9. \A n \in Models \ {m} : SameModel(n)
    BY <1>1, <2>3, <2>6, <2>8 DEF SameModel, ActiveConfigs
  <2>10. OnlyOwn(w)
    BY <1>3, <2>7, <2>9 DEF OnlyOwn
  <2>11. PICK s : s = [flow[w] EXCEPT !.todo = @ \ {m}]
    OBVIOUS
  <2>12. flow[w] \in FlowState
    BY BusyIs
  <2>13. /\ s \in FlowState /\ s.pc = "update" /\ s.g = flow[w].g /\ s.mem = flow[w].mem
         /\ s.fresh = flow[w].fresh /\ s.todo = flow[w].todo \ {m}
    BY <1>1, <2>11, <2>12 DEF FlowState
  <2>14. flow' = [flow EXCEPT ![w] = s]
    BY <1>4, <2>11
  <2>15. ASSUME NEW n \in ModelsOf(w) \ unchecked', g \notin interrupted PROVE ProgressOn(s, n)'
    <3>1. n \notin unchecked /\ n \in Models
      BY <1>1, <2>15, BusyIs DEF ModelsOf
    <3>2. Live(n, g) /\ (n \notin flow[w].todo => Described(n, g))
      BY <1>1, <1>2, <2>15, <3>1, AtStage DEF ProgressOn
    <3>3. Live(n, g)'
      BY <1>1, <3>2 DEF Live, Stands
    <3>4. n \notin s.todo => Described(n, g)'
      <4>1. CASE n = m
        <5>1. \A j \in ActiveConfigs(m) : j = i
          BY <3>1, <4>1 DEF ApprovalInv, OneConfigPerModel
        <5>2. QED
          BY <2>4, <2>6, <2>8, <4>1, <5>1 DEF Described
      <4>2. CASE n # m
        BY <2>9, <2>13, <3>1, <3>2, <4>2, SameModelIs
      <4>3. QED
        BY <4>1, <4>2
    <3>5. QED
      BY <1>2, <2>13, <3>3, <3>4 DEF ProgressOn, Past
  <2>16. s.pc \notin Undoing /\ unchecked' = unchecked
    BY <1>1, <1>3, <2>13
  <2>17. QED
    BY <1>1, <1>2, <1>3, <2>8, <2>10, <2>13, <2>14, <2>15, <2>16, GoFiles
<1>5. CASE flow' = [flow EXCEPT ![w].pc = "fail db"] /\ configs' = configs
  <2>1. /\ OnlyOwn(w)
        /\ \A i \in DOMAIN configs' : i \in DOMAIN configs /\ configs'[i].active = configs[i].active
    BY <1>1, <1>5, SameWorld DEF ApprovalInv
  <2>2. "fail db" \in Pcs /\ unchecked \subseteq unchecked'
    BY <1>1 DEF Pcs
  <2>3. QED
    BY <1>1, <1>3, <1>5, <2>1, <2>2, PlaceFiles
<1>6. QED
  BY <1>4, <1>5 DEF UpdateConfig

\* One of the folders is put back, or that fails.
LEMMA UndoFiles ==
  ASSUME ApprovalInv, FilesInv, NEW w \in Busy, flow[w].pc \in Undoing, NEW f \in flow[w].moved,
         UNCHANGED <<request, row, configs, unchecked, overtaken>>,
         \A n \in Models \ {f[2]}, r \in Places : files'[r][n] = files[r][n],
         \/ flow' = [flow EXCEPT ![w] = Done(w, f)] /\ interrupted' = interrupted
         \/ flow' = [flow EXCEPT ![w] = Idle] /\ interrupted' = interrupted \union {flow[w].g}
  PROVE  FilesInv'
<1>1. PICK g \in Groups : g = flow[w].g
  BY BusyIs
<1>2. /\ flow[w] \in FlowState /\ f[2] \in ModelsOf(w) /\ flow[w].pc \notin Past
      /\ request' = request /\ row' = row /\ configs' = configs /\ unchecked' = unchecked /\ overtaken' = overtaken
  BY BusyIs, TypesAre DEF MovedInv, ModelsOf, Undoing, Past
<1>3. PICK s \in FlowState : /\ Moves(w, s)
                             /\ s = Idle \/ s.pc = flow[w].pc
  <2>1. CASE flow' = [flow EXCEPT ![w] = Idle] /\ interrupted' \in {interrupted, interrupted \union {flow[w].g}}
    <3>1. Moves(w, Idle)
      BY <1>2, <2>1, ConstantsAre DEF Moves
    <3>2. QED
      BY <3>1, ConstantsAre
  <2>2. CASE flow' = [flow EXCEPT ![w] = [flow[w] EXCEPT !.moved = @ \ {f}]] /\ interrupted' = interrupted
    <3>1. PICK s : s = [flow[w] EXCEPT !.moved = @ \ {f}]
      OBVIOUS
    <3>2. s \in FlowState /\ s.pc = flow[w].pc /\ s.g = flow[w].g /\ s.fresh = flow[w].fresh
      BY <1>2, <3>1 DEF FlowState
    <3>3. Moves(w, s)
      BY <1>2, <2>2, <3>1, <3>2 DEF Moves, Undoing
    <3>4. QED
      BY <3>2, <3>3
  <2>3. QED
    BY <2>1, <2>2 DEF Done
<1>4. Steps(w, s)
  BY <1>2, <1>3, MovesSteps
<1>5. Final
  BY <1>2 DEF Final
<1>6. /\ OnlyOwn(w) /\ \A n : ActiveConfigs(n)' = ActiveConfigs(n)
      /\ \A i \in DOMAIN configs' : i \in DOMAIN configs /\ configs'[i].active = configs[i].active
  BY <1>2, OwnFiles
<1>7. UndoInv(flow[w]) /\ (s # Idle => s.g = flow[w].g /\ s.pc \in Undoing)
  BY <1>3 DEF FilesInv, FlowFiles, Moves
<1>8. s # Idle => FlowFiles(s)'
  <2>1. SUFFICES ASSUME s # Idle PROVE FlowFiles(s)'
    OBVIOUS
  <2>2. interrupted \subseteq interrupted'
    BY <1>4 DEF Steps
  <2>3. UndoInv(s)'
    BY <1>2, <1>7, <2>1, <2>2 DEF UndoInv
  <2>4. s.pc \in {"revert", "move back"}
    BY <1>7, <2>1 DEF Undoing
  <2>5. EarlyInv(s)'
    BY <2>4 DEF EarlyInv
  <2>6. ProgressInv(s)'
    BY <2>4 DEF ProgressInv, ProgressOn, Past
  <2>7. QED
    BY <2>3, <2>5, <2>6 DEF FlowFiles
<1>9. ASSUME NEW m \in ModelsOf(w) \ unchecked', FilesMatch(m) \/ StandsInTheWay(g)
      PROVE  Explained(m)'
  <2>1. request[g].type \in Created \union {"Edit", "Delete"}
    BY <1>1, TypesAre DEF Types
  <2>2. CASE request[g].type \in Created
    <3>1. flow[w].pc \in Building
      BY <1>1, <2>2, TypesAre, ApprovalAssumption DEF TypeAt, Undoing, Building
    <3>2. FilesMatch(m)'
      BY <1>1, <1>2, <1>6, <1>9, <2>2, <3>1, NothingServed
    <3>3. QED
      BY <1>1, <1>4, <1>9, <3>2, Explains
  <2>3. CASE request[g].type \in {"Edit", "Delete"}
    <3>1. row'[g].status = "Failed" \/ g \in interrupted' \/ g \in overtaken'
      BY <1>1, <1>2, <1>4, <1>7 DEF UndoInv, Steps
    <3>2. QED
      BY <1>1, <1>4, <1>9, <2>3, <3>1, Explains
  <2>4. QED
    BY <2>1, <2>2, <2>3
<1>10. \A i \in DOMAIN configs' : ~configs'[i].active => i \in DOMAIN configs /\ ~configs[i].active
  BY <1>6
<1>11. QED
  BY <1>1, <1>2, <1>4, <1>5, <1>6, <1>8, <1>9, <1>10, FilesFrame

LEMMA RevertFiles ==
  ASSUME ApprovalInv, FilesInv, NEW w \in Busy, NEW f \in flow[w].moved, Revert(w, f) PROVE FilesInv'
<1>1. /\ flow[w].pc \in Undoing /\ ApprovalTypeOK /\ f[1] \in Places /\ f[2] \in Models
      /\ UNCHANGED <<request, row, configs, unchecked, overtaken>>
  BY BusyIs DEF Revert, Undoing, ApprovalInv
<1>2. \E x : files' = [files EXCEPT ![f[1]][f[2]] = x]
  BY DEF Revert
<1>3. \A n \in Models \ {f[2]}, r \in Places : files'[r][n] = files[r][n]
  BY <1>1, <1>2, FolderAt
<1>4. \/ flow' = [flow EXCEPT ![w] = Done(w, f)] /\ interrupted' = interrupted
      \/ flow' = [flow EXCEPT ![w] = Idle] /\ interrupted' = interrupted \union {flow[w].g}
  BY DEF Revert
<1>5. QED
  BY <1>1, <1>3, <1>4, UndoFiles

LEMMA RevertForDeleteFiles ==
  ASSUME ApprovalInv, FilesInv, NEW w \in Busy, NEW f \in flow[w].moved, RevertForDelete(w, f) PROVE FilesInv'
<1>1. /\ flow[w].pc \in Undoing /\ ApprovalTypeOK /\ f[2] \in Models /\ {"deleted", "live"} \subseteq Places
      /\ UNCHANGED <<request, row, configs, unchecked, overtaken>>
  BY BusyIs DEF RevertForDelete, Undoing, ApprovalInv, Places
<1>2. \/ TransferAndDelete("deleted", "live", f[2]) \/ TransferAndDeleteFails("deleted", "live", f[2])
      \/ files' = files
  BY DEF RevertForDelete
<1>3. \A n \in Models \ {f[2]}, r \in Places : files'[r][n] = files[r][n]
  BY <1>1, <1>2, FolderAt
<1>4. \/ flow' = [flow EXCEPT ![w] = Done(w, f)] /\ interrupted' = interrupted
      \/ flow' = [flow EXCEPT ![w] = Idle] /\ interrupted' = interrupted \union {flow[w].g}
  BY DEF RevertForDelete
<1>5. QED
  BY <1>1, <1>3, <1>4, UndoFiles

LEMMA ProgressStays ==
  ASSUME ApprovalTypeOK, configs' = configs, files' = files, overtaken \subseteq overtaken',
         \A h \in Groups : Finished(h) => Finished(h)',
         \A h \in Groups : request[h].type = "Delete" => request'[h] = request[h],
         NEW f, NEW s, f.g \in Groups, request'[f.g] = request[f.g],
         s.pc = f.pc, s.g = f.g, s.todo = f.todo, NEW m, ProgressOn(f, m)
  PROVE  ProgressOn(s, m)'
<1>1. (FilesMatch(m)' <=> FilesMatch(m)) /\ ConfigsStay
  BY SameWorld DEF OnlyOwn
<1>2. (ActiveConfigs(m) = {})' <=> ActiveConfigs(m) = {}
  BY DEF ActiveConfigs
<1>3. Again(f.g, m) => Again(f.g, m)'
  BY <1>1, AgainStays
<1>4. \A h : /\ Live(m, h)' <=> Live(m, h)
             /\ Described(m, h)' <=> Described(m, h)
             /\ Stands("source", m, h)' <=> Stands("source", m, h)
  <2>1. \A h, p : Stands(p, m, h)' <=> Stands(p, m, h)
    BY DEF Stands
  <2>2. \A h : Described(m, h)' <=> Described(m, h)
    BY DEF Described, ActiveConfigs
  <2>3. QED
    BY <2>1, <2>2 DEF Live
<1>5. QED
  BY <1>1, <1>2, <1>3, <1>4 DEF ProgressOn

\* What the row and the copy have after a write of status and stage.
Takes(mem, r, status, stage) ==
    r.status = status /\ (status \in Terminal => ~r.active) /\ mem.stage = stage

LEMMA UpdatedIs ==
  ASSUME ApprovalInv, NEW w \in Busy, NEW status \in {"In Progress"} \union Terminal,
         NEW stage \in {"Pending", "Clone To Bucket", "DB Population", "Restart Deployable"},
         NEW step, NEW mem \in Row, NEW r \in Row, NEW s, Updates(w, status, stage, step, mem, r, s)
  PROVE  Takes(mem, r, status, stage)
<1>1. PICK b \in BOOLEAN : b = row[flow[w].g].valid
  <2>1. row[flow[w].g] \in Row
    BY BusyIs
  <2>2. QED
    BY <2>1, RowIs
<1>2. PICK k \in Row : k = flow[w].mem
  BY BusyIs
<1>3. mem = Marked(k, status, stage) /\ r = [mem EXCEPT !.valid = b]
  BY <1>1, <1>2 DEF Updates
<1>4. mem.status = status /\ mem.stage = stage
  BY <1>3, ZenonT(30) DEF Marked, Row
<1>5. mem.active = (k.active /\ status \notin Terminal)
  BY <1>3 DEF Marked, Row
<1>6. r.status = mem.status
  BY <1>3 DEF Row
<1>7. r.active = mem.active
  BY <1>3 DEF Row
<1>8. status \in Terminal => ~r.active
  BY <1>5, <1>7
<1>9. QED
  BY <1>4, <1>6, <1>8 DEF Takes

\* What an approval that ends leaves of a request that edits or deletes.
Leaves(w, g, status) ==
    \A m \in ModelsOf(w) \ unchecked :
        StandsInTheWay(g) /\ g \notin interrupted' /\ row'[g].status = status
            => Explained(m)' \/ g \in overtaken'

\* A write of status and stage.
LEMMA UpdateFiles ==
  ASSUME ApprovalInv, FilesInv, Final, NEW w \in Busy, NEW g \in Groups, g = flow[w].g,
         NEW status \in {"In Progress"} \union Terminal,
         NEW stage \in {"Pending", "Clone To Bucket", "DB Population", "Restart Deployable"},
         NEW step \in FlowState,
         step = Idle \/ (step.pc # "idle" /\ step.g = flow[w].g /\ step.fresh = flow[w].fresh),
         UpdateStatusAndStage(w, status, stage, step),
         flow[w].pc \in Past => step.pc \in Past \/ status \in {"Approved", "Failed"},
         status \in Terminal \/ (step # Idle /\ step.pc \notin Undoing),
         step.pc \in Undoing => status = "Failed",
         step.pc \notin {"exist", "copy source", "copy live", "move", "reject"},
         step.pc \in {"populate", "unregister"} => stage = "DB Population",
         step # Idle => \A m \in ModelsOf(w) \ unchecked : g \notin interrupted => ProgressOn(step, m),
         step = Idle /\ status # "Failed" /\ request[g].type \in {"Edit", "Delete"} => Leaves(w, g, status)
  PROVE  FilesInv'
<1>1. PICK mem \in Row, r \in Row, s \in FlowState : Updates(w, status, stage, step, mem, r, s)
  BY UpdateIs
<1>2. /\ request' = request /\ configs' = configs /\ files' = files /\ unchecked' = unchecked
      /\ ApprovalTypeOK /\ ModelsOf(w) = request[g].models
  BY <1>1 DEF Updates, ApprovalInv, ModelsOf
<1>3. /\ Steps(w, s)
      /\ g \in interrupted' \/ row'[g] = r
  <2>1. CASE Writes(w, r, s)
    <3>1. row'[g] = r
      BY <2>1, RowWritten
    <3>2. QED
      BY <1>2, <2>1, <3>1, WritesSteps
  <2>2. CASE Moves(w, s) /\ interrupted' = interrupted \union {flow[w].g}
    <3>1. Steps(w, s)
      BY <1>2, <2>2, MovesSteps
    <3>2. QED
      BY <2>2, <3>1
  <2>3. QED
    BY <1>1, <2>1, <2>2 DEF Updates
<1>4. r.status = status /\ (status \in Terminal => ~r.active) /\ mem.stage = stage
  <2>1. Takes(mem, r, status, stage)
    BY <1>1, UpdatedIs
  <2>2. QED
    BY <2>1 DEF Takes
<1>5. /\ step = Idle => s = Idle
      /\ step # Idle => /\ s.pc = step.pc /\ s.g = g /\ s.todo = step.todo /\ s.mem = mem
                        /\ s # Idle /\ step.g = g
  BY <1>1, ConstantsAre DEF Updates
<1>6. /\ interrupted \subseteq interrupted' /\ overtaken \subseteq overtaken'
  BY <1>3 DEF Steps
<1>7. /\ OnlyOwn(w) /\ \A m : FilesMatch(m)' <=> FilesMatch(m)
      /\ \A i \in DOMAIN configs' : i \in DOMAIN configs /\ configs'[i].active = configs[i].active
  BY <1>2, SameWorld
<1>8. flow[w].pc \in Past => s.pc \in Past \/ g \in interrupted' \/ row'[g].status \in {"Approved", "Failed"}
  <2>1. step = Idle => step.pc \notin Past
    BY ConstantsAre DEF Past
  <2>2. QED
    BY <1>3, <1>4, <1>5, <2>1
<1>9. s # Idle => FlowFiles(s)'
  <2>1. SUFFICES ASSUME step # Idle PROVE FlowFiles(s)'
    BY <1>5
  <2>2. EarlyInv(s)'
    BY <1>4, <1>5, <2>1 DEF EarlyInv
  <2>3. UndoInv(s)'
    BY <1>3, <1>4, <1>5, <2>1 DEF UndoInv
  <2>4. ProgressInv(s)'
    <3>1. \A h \in Groups : Finished(h) => Finished(h)'
      BY <1>3, <1>8, FinishedSteps
    <3>2. ASSUME NEW m \in ModelsOf(w) \ unchecked, g \notin interrupted' PROVE ProgressOn(s, m)'
      <4>1. ProgressOn(step, m)
        BY <1>6, <2>1, <3>2
      <4>2. QED
        BY <1>2, <1>5, <1>6, <2>1, <3>1, <4>1, ProgressStays
    <3>3. QED
      BY <1>2, <1>5, <2>1, <3>2 DEF ProgressInv
  <2>5. QED
    BY <2>2, <2>3, <2>4 DEF FlowFiles
<1>10. ASSUME NEW m \in ModelsOf(w) \ unchecked', FilesMatch(m) \/ StandsInTheWay(g)
       PROVE  Explained(m)'
  <2>1. request[g].type \in Created \union {"Edit", "Delete"} /\ m \in ModelsOf(w)
    BY TypesAre DEF Types
  <2>2. CASE FilesMatch(m) \/ g \in interrupted' \/ (g \in overtaken' /\ request[g].type \in {"Edit", "Delete"})
    BY <1>3, <1>7, <2>1, <2>2, Explains
  <2>3. CASE request[g].type \in Created
    BY <1>6, <1>10, <2>2, <2>3, CreatedStands
  <2>4. ASSUME request[g].type \in {"Edit", "Delete"}, g \notin interrupted', g \notin overtaken', StandsInTheWay(g)
        PROVE  Explained(m)'
    <3>1. row'[g].status = status
      BY <1>3, <1>4, <2>4
    <3>2. CASE status = "Failed"
      BY <1>3, <2>1, <2>4, <3>1, <3>2, Explains
    <3>3. CASE step # Idle
      BY <1>3, <1>5, <2>1, <2>4, <3>3, Explains
    <3>4. CASE step = Idle /\ status # "Failed"
      BY <1>2, <1>10, <2>4, <3>1, <3>4 DEF Leaves
    <3>5. QED
      BY <3>2, <3>3, <3>4
  <2>5. QED
    BY <1>10, <2>1, <2>2, <2>3, <2>4
<1>11. \/ s # Idle /\ s.pc \notin Undoing
       \/ g \in interrupted' \/ ~row'[g].active
  BY <1>3, <1>4, <1>5
<1>12. \A i \in DOMAIN configs' : ~configs'[i].active => i \in DOMAIN configs /\ ~configs[i].active
  BY <1>7
<1>13. QED
  BY <1>3, <1>7, <1>8, <1>9, <1>10, <1>11, <1>12, FilesFrame

\* No other approval works on a model that is not written down.
LEMMA WorkedOnOnce ==
  ASSUME ApprovalInv, NEW w \in Busy, NEW m \in ModelsOf(w) \ unchecked, NEW v \in Busy, m \in ModelsOf(v)
  PROVE  v = w
BY DEF ApprovalInv, Alone

LEMMA RejectFiles ==
  ASSUME ApprovalInv, FilesInv, Final, NEW w \in Busy, ProcessRejectRequest(w) PROVE FilesInv'
<1>1. flow[w].pc = "reject" /\ UpdateStatusAndStage(w, "Rejected", flow[w].mem.stage, Idle)
  BY DEF ProcessRejectRequest
<1>2. PICK stage \in {"Pending", "Clone To Bucket", "DB Population", "Restart Deployable"} :
        stage = flow[w].mem.stage
  BY BusyIs DEF Row
<1>3. PICK g \in Groups : g = flow[w].g
  BY BusyIs
<1>4. UpdateStatusAndStage(w, "Rejected", stage, Idle)
  BY <1>1, <1>2
<1>5. interrupted \subseteq interrupted' /\ overtaken \subseteq overtaken'
  BY <1>4 DEF UpdateStatusAndStage, Overtake
<1>6. ASSUME NEW m \in ModelsOf(w) \ unchecked, StandsInTheWay(g), g \notin interrupted',
             row'[g].status = "Rejected"
      PROVE  g \in overtaken'
  <2>1. ~ \E v \in Busy : flow[v].g = g /\ flow[v].pc # "reject"
    <3>1. SUFFICES ASSUME NEW v \in Busy, flow[v].g = g PROVE v = w
      BY <1>1
    <3>2. m \in ModelsOf(v)
      BY <1>3, <1>6, <3>1 DEF ModelsOf
    <3>3. QED
      BY <1>6, <3>2, WorkedOnOnce
  <2>2. row[g].status = "Failed" => g \in overtaken'
    BY <1>6 DEF Final, Terminal
  <2>3. QED
    BY <1>5, <1>6, <2>1, <2>2 DEF StandsInTheWay
<1>7. PICK s \in FlowState : s = Idle /\ s.pc = "idle"
  BY ConstantsAre
<1>8. /\ flow[w].pc \notin Past /\ s.pc \notin Undoing /\ "Rejected" \in Terminal
      /\ UpdateStatusAndStage(w, "Rejected", stage, s)
  BY <1>1, <1>4, <1>7 DEF Past, Undoing, Terminal
<1>9. Leaves(w, g, "Rejected")
  BY <1>6 DEF Leaves
<1>10. "Rejected" \in {"In Progress"} \union Terminal /\ s.pc \notin Past
       /\ s.pc \notin {"exist", "copy source", "copy live", "move", "reject", "populate", "unregister"}
  BY <1>7, <1>8 DEF Past
<1>11. QED
  BY <1>3, <1>7, <1>8, <1>9, <1>10, UpdateFiles

LEMMA EndCopyLiveFiles ==
  ASSUME ApprovalInv, FilesInv, Final, NEW w \in Busy, EndCopyLive(w) PROVE FilesInv'
<1> DEFINE edit == request[flow[w].g].type = "Edit"
           pc == IF edit THEN "update" ELSE "populate"
<1>1. flow[w].pc = "copy live" /\ (flow[w].todo = {} \/ ~AtCopyStage(w))
  BY DEF EndCopyLive
<1>2. /\ flow[w].pc \notin Undoing /\ flow[w].pc \notin Past /\ pc \in Pcs
      /\ pc \notin {"idle", "exist", "copy source", "copy live", "move", "reject", "unregister"}
      /\ flow[w] \in FlowState /\ ModelsOf(w) \subseteq Models
  BY <1>1, BusyIs DEF Undoing, Past, Pcs, ModelsOf
<1>3. PICK g \in Groups : g = flow[w].g
  BY BusyIs
<1>4. CASE ~AtCopyStage(w) /\ ~edit /\ GoTo(w, pc)
  <2>1. pc = "populate" /\ pc \notin {"idle", "update"} \union Undoing /\ pc \notin Past
    BY <1>4 DEF Undoing, Past
  <2>2. QED
    BY <1>1, <1>2, <1>4, <2>1, GoToFiles
<1>5. CASE UpdateStatusAndStage(w, "In Progress", "DB Population",
                                [flow[w] EXCEPT !.pc = pc, !.todo = ModelsOf(w)])
  <2>1. PICK s : s = [flow[w] EXCEPT !.pc = pc, !.todo = ModelsOf(w)]
    OBVIOUS
  <2>2. /\ s \in FlowState /\ s.pc = pc /\ s.todo = ModelsOf(w)
        /\ s.g = flow[w].g /\ s.fresh = flow[w].fresh
    BY <1>2, <2>1 DEF FlowState
  <2>3. UpdateStatusAndStage(w, "In Progress", "DB Population", s)
    BY <1>5, <2>1
  <2>4. s.pc \in {"update", "populate"} /\ s # Idle /\ s.pc \notin Undoing
    BY <2>2, ConstantsAre DEF Undoing
  <2>5. ASSUME NEW m \in ModelsOf(w) \ unchecked, g \notin interrupted PROVE ProgressOn(s, m)
    <3>1. ProgressOn(flow[w], m) /\ flow[w].todo = {}
      BY <1>1, <1>3, <2>5, AtStage
    <3>2. Live(m, g)
      BY <1>1, <1>3, <3>1 DEF ProgressOn
    <3>3. QED
      BY <1>3, <2>2, <2>4, <2>5, <3>2 DEF ProgressOn, Past
  <2>6. QED
    BY <1>2, <1>3, <2>2, <2>3, <2>4, <2>5, UpdateFiles
<1>6. QED
  BY <1>4, <1>5 DEF EndCopyLive

LEMMA FailFiles ==
  ASSUME ApprovalInv, FilesInv, Final, NEW w \in Busy, Fail(w) PROVE FilesInv'
<1> DEFINE stage == CASE flow[w].pc = "fail db" -> "DB Population"
                      [] flow[w].pc = "fail restart" -> "Restart Deployable"
                      [] OTHER -> "Clone To Bucket"
           undo == IF flow[w].pc = "fail move" THEN "move back" ELSE "revert"
           step == IF flow[w].moved = {} THEN Idle ELSE [flow[w] EXCEPT !.pc = undo]
<1>1. flow[w].pc \in {"fail copy", "fail move", "fail db", "fail restart"}
      /\ UpdateStatusAndStage(w, "Failed", stage, step)
  BY DEF Fail
<1>2. PICK st, s : st = stage /\ s = step
  OBVIOUS
<1>3. PICK g \in Groups : g = flow[w].g
  BY BusyIs
<1>4. st \in {"Pending", "Clone To Bucket", "DB Population", "Restart Deployable"}
      /\ undo \in Pcs /\ undo \in {"revert", "move back"}
  BY <1>2 DEF Pcs
<1>5. s = Idle \/ (s # Idle /\ s = [flow[w] EXCEPT !.pc = undo])
  BY <1>2
<1>6. flow[w] \in FlowState
  BY BusyIs
<1>7. s \in FlowState
  BY <1>4, <1>5, <1>6, ConstantsAre DEF FlowState
<1>8. s # Idle => s.pc = undo /\ s.g = flow[w].g /\ s.fresh = flow[w].fresh
  BY <1>5, <1>6 DEF FlowState
<1>9. UpdateStatusAndStage(w, "Failed", st, s)
  BY <1>1, <1>2
<1> HIDE DEF stage, undo, step
<1>10. s.pc \in {"idle", "revert", "move back"} /\ (s # Idle => s.pc # "idle")
  BY <1>4, <1>8, ConstantsAre
<1>11. \A m : s # Idle => ProgressOn(s, m)
  BY <1>10 DEF ProgressOn, Past
<1>12. "Failed" \in Terminal
  BY DEF Terminal
<1>13. s = Idle \/ (s.pc # "idle" /\ s.g = flow[w].g /\ s.fresh = flow[w].fresh)
  BY <1>8, <1>10
<1>14. QED
  BY <1>3, <1>4, <1>7, <1>9, <1>10, <1>11, <1>12, <1>13, UpdateFiles

LEMMA EndUpdateFiles ==
  ASSUME ApprovalInv, FilesInv, Final, NEW w \in Busy, EndUpdate(w) PROVE FilesInv'
<1>1. flow[w].pc = "update" /\ flow[w].todo = {}
  BY DEF EndUpdate
<1>2. PICK g \in Groups : g = flow[w].g
  BY BusyIs
<1>3. PICK s : s = [flow[w] EXCEPT !.pc = "restart", !.moved = {}]
  OBVIOUS
<1>4. /\ s \in FlowState /\ s.pc = "restart" /\ s.g = flow[w].g /\ s.fresh = flow[w].fresh
  BY <1>1, <1>3, BusyIs DEF FlowState, Pcs
<1>5. UpdateStatusAndStage(w, "In Progress", "Restart Deployable", s)
  BY <1>3 DEF EndUpdate
<1>6. flow[w].pc \notin Past /\ s # Idle /\ s.pc \notin Undoing
  BY <1>1, <1>4, ConstantsAre DEF Past, Undoing
<1>7. request[g].type = "Edit"
  BY <1>1, <1>2, TypesAre DEF TypeAt
<1>8. ASSUME NEW m \in ModelsOf(w) \ unchecked, g \notin interrupted PROVE ProgressOn(s, m)
  <2>1. Live(m, g) /\ Described(m, g)
    BY <1>1, <1>2, <1>8, AtStage DEF ProgressOn
  <2>2. FilesMatch(m)
    BY <2>1 DEF FilesMatch, Live, Described
  <2>3. QED
    BY <1>2, <1>4, <1>7, <2>2 DEF ProgressOn
<1>9. QED
  BY <1>2, <1>4, <1>5, <1>6, <1>8, UpdateFiles

LEMMA EndMoveFiles ==
  ASSUME ApprovalInv, FilesInv, Final, NEW w \in Busy, EndMove(w) PROVE FilesInv'
<1>1. flow[w].pc = "move"
  BY DEF EndMove
<1>2. PICK g \in Groups : g = flow[w].g
  BY BusyIs
<1>3. flow[w].pc \notin Past /\ "unregister" \notin {"idle", "update"} \union Undoing \union Past /\ "unregister" \in Pcs
  BY <1>1 DEF Past, Undoing, Pcs
<1>4. CASE ~AtCopyStage(w) /\ GoTo(w, "unregister")
  BY <1>1, <1>3, <1>4, GoToFiles
<1>5. CASE UpdateStatusAndStage(w, "In Progress", "DB Population",
                                [flow[w] EXCEPT !.pc = "unregister", !.moved = {}])
  <2>1. PICK s : s = [flow[w] EXCEPT !.pc = "unregister", !.moved = {}]
    OBVIOUS
  <2>2. s \in FlowState /\ s.pc = "unregister" /\ s.g = flow[w].g /\ s.fresh = flow[w].fresh
    BY <2>1, BusyIs DEF FlowState, Pcs
  <2>3. UpdateStatusAndStage(w, "In Progress", "DB Population", s)
    BY <1>5, <2>1
  <2>4. s # Idle /\ s.pc \notin Undoing
    BY <2>2, ConstantsAre DEF Undoing
  <2>5. \A m : ProgressOn(s, m)
    BY <2>2 DEF ProgressOn, Past
  <2>6. QED
    BY <1>2, <1>3, <2>2, <2>3, <2>4, <2>5, UpdateFiles
<1>6. QED
  BY <1>4, <1>5 DEF EndMove

LEMMA ApproveEditFiles ==
  ASSUME ApprovalInv, FilesInv, Final, NEW w \in Busy, ApproveEdit(w) PROVE FilesInv'
<1>1. flow[w].pc = "approve" /\ UpdateStatusAndStage(w, "Approved", flow[w].mem.stage, Idle)
  BY DEF ApproveEdit
<1>2. PICK g \in Groups : g = flow[w].g
  BY BusyIs
<1>3. flow[w].mem.stage = "Restart Deployable" /\ request[g].type = "Edit"
  BY <1>1, <1>2, TypesAre, BusyIs DEF FlowInv, Fits, TypeAt
<1>4. PICK s \in FlowState : s = Idle /\ s.pc = "idle"
  BY ConstantsAre
<1>5. UpdateStatusAndStage(w, "Approved", "Restart Deployable", s)
  BY <1>1, <1>3, <1>4
<1>6. interrupted \subseteq interrupted' /\ configs' = configs /\ files' = files /\ ApprovalTypeOK
  BY <1>5 DEF UpdateStatusAndStage, ApprovalInv
<1>7. Leaves(w, g, "Approved")
  <2>1. SUFFICES ASSUME NEW m \in ModelsOf(w) \ unchecked, g \notin interrupted PROVE Explained(m)'
    BY <1>6 DEF Leaves
  <2>2. FilesMatch(m)
    BY <1>1, <1>2, <1>3, <2>1, AtStage DEF ProgressOn, Past
  <2>3. FilesMatch(m)'
    BY <1>6, <2>2, SameWorld
  <2>4. QED
    BY <2>3 DEF Explained
<1>8. s.pc \notin Undoing /\ "Approved" \in Terminal
  BY <1>4 DEF Undoing, Terminal
<1>9. "Approved" \in {"In Progress"} \union Terminal /\ s.pc \notin Past
  BY <1>4, <1>8 DEF Past
<1>10. QED
  BY <1>2, <1>4, <1>5, <1>7, <1>8, <1>9, UpdateFiles

\* The configs of a Delete that ends Approved are retired, or another Delete
\* that names one of them has changed it, or stands in the way.
LEMMA DeleteLeaves ==
  ASSUME ApprovalInv, FilesInv, Final, NEW w \in Busy, NEW g \in Groups, g = flow[w].g,
         request[g].type = "Delete", flow[w].pc \in Past,
         configs' = configs, files' = files, request' = request,
         interrupted \subseteq interrupted', overtaken \subseteq overtaken'
  PROVE  Leaves(w, g, "Approved")
<1>1. SUFFICES ASSUME NEW m \in ModelsOf(w) \ unchecked, g \notin interrupted, g \notin overtaken,
                      row'[g].status = "Approved"
               PROVE  Explained(m)'
  BY DEF Leaves
<1>2. ActiveConfigs(m) = {} \/ Again(g, m)
  BY <1>1, AtStage DEF ProgressOn
<1>3. CASE ActiveConfigs(m) = {}
  <2>1. FilesMatch(m) /\ ApprovalTypeOK
    BY <1>3 DEF FilesMatch, ApprovalInv
  <2>2. FilesMatch(m)'
    BY <2>1, SameWorld
  <2>3. QED
    BY <2>2 DEF Explained
<1>4. CASE Again(g, m)
  <2>1. PICK h \in Groups \ {g} :
          /\ request[h].type = "Delete" /\ Finished(h)
          /\ \E i \in request[g].ids \intersect request[h].ids : configs[i].model = m
    BY <1>4 DEF Again
  <2>2. PICK i \in request[g].ids \intersect request[h].ids : configs[i].model = m
    BY <2>1
  <2>3. m \in request[h].models
    BY <2>1, <2>2 DEF FilesInv, DeleteInv
  <2>4. CASE row'[h].status = "Failed" \/ h \in interrupted' \union overtaken'
    BY <2>1, <2>3, <2>4 DEF Explained, StandsInTheWay
  <2>5. CASE row'[h].status = "Approved"
    <3>1. DeletedTwice(m)'
      BY <1>1, <2>1, <2>2, <2>5 DEF DeletedTwice
    <3>2. QED
      BY <3>1 DEF Explained
  <2>6. ASSUME NEW v \in Busy PROVE flow[v].g # h
    <3>1. SUFFICES ASSUME flow[v].g = h PROVE v = w
      BY <2>1
    <3>2. m \in ModelsOf(v)
      BY <2>3, <3>1 DEF ModelsOf
    <3>3. QED
      BY <1>1, <3>2, WorkedOnOnce
  <2>7. h \in interrupted \union overtaken \/ row[h].status \in {"Approved", "Failed"}
    BY <2>1, <2>6 DEF Finished
  <2>8. row[h].status \in {"Approved", "Failed"} => row'[h] = row[h] \/ h \in overtaken'
    BY <2>1 DEF Final, Terminal
  <2>9. QED
    BY <2>4, <2>5, <2>7, <2>8
<1>5. QED
  BY <1>2, <1>3, <1>4

LEMMA RestartFiles ==
  ASSUME ApprovalInv, FilesInv, Final, NEW w \in Busy, ProcessRestartDeployable(w) PROVE FilesInv'
<1> DEFINE next == IF request[flow[w].g].type = "Edit" THEN [flow[w] EXCEPT !.pc = "approve"] ELSE Idle
<1>1. flow[w].pc = "restart" /\ flow[w].mem.stage = "Restart Deployable" /\ flow[w] \in FlowState
  BY BusyIs DEF ProcessRestartDeployable
<1>2. PICK g \in Groups : g = flow[w].g
  BY BusyIs
<1>3. flow[w].pc \in Past
  BY <1>1 DEF Past
<1>4. CASE UpdateStatusAndStage(w, "Approved", flow[w].mem.stage, next)
  <2>1. PICK s : s = next
    OBVIOUS
  <2>2. \/ s = Idle /\ request[g].type # "Edit"
        \/ request[g].type = "Edit" /\ s = [flow[w] EXCEPT !.pc = "approve"]
    BY <1>2, <2>1
  <2>3. s \in FlowState
    BY <1>1, <2>2, ConstantsAre DEF FlowState, Pcs
  <2>4. \/ s = Idle /\ s.pc = "idle" /\ request[g].type # "Edit"
        \/ /\ request[g].type = "Edit" /\ s.pc = "approve" /\ s.g = flow[w].g
           /\ s.fresh = flow[w].fresh /\ s # Idle
    BY <1>1, <2>2, ConstantsAre DEF FlowState
  <2>5. UpdateStatusAndStage(w, "Approved", "Restart Deployable", s)
    BY <1>1, <1>4, <2>1
  <2>6. /\ interrupted \subseteq interrupted' /\ overtaken \subseteq overtaken'
        /\ configs' = configs /\ files' = files /\ request' = request
    BY <2>5 DEF UpdateStatusAndStage, Overtake
  <2>7. s = Idle /\ request[g].type \in {"Edit", "Delete"} => Leaves(w, g, "Approved")
    BY <1>2, <1>3, <2>4, <2>6, DeleteLeaves
  <2>8. ASSUME s # Idle, NEW m \in ModelsOf(w) \ unchecked, g \notin interrupted PROVE ProgressOn(s, m)
    <3>1. FilesMatch(m)
      BY <1>2, <1>3, <2>4, <2>8, AtStage DEF ProgressOn
    <3>2. QED
      BY <1>2, <2>4, <2>8, <3>1 DEF ProgressOn
  <2>9. "Approved" \in {"In Progress"} \union Terminal /\ s.pc \notin Undoing /\ "Approved" \in Terminal
    BY <2>4 DEF Terminal, Undoing
  <2>10. s = Idle \/ (s.pc # "idle" /\ s.g = flow[w].g /\ s.fresh = flow[w].fresh)
    BY <2>4
  <2>11. s.pc \in {"idle", "approve"}
    BY <2>4
  <2>12. QED
    BY <1>2, <2>3, <2>5, <2>7, <2>8, <2>9, <2>10, <2>11, UpdateFiles
<1>5. CASE /\ flow' = [flow EXCEPT ![w].pc = "fail restart"]
           /\ UNCHANGED <<request, row, configs, files, unchecked, interrupted, overtaken>>
  <2>1. /\ OnlyOwn(w) /\ \A m : FilesMatch(m)' <=> FilesMatch(m)
        /\ \A i \in DOMAIN configs' : i \in DOMAIN configs /\ configs'[i].active = configs[i].active
    BY <1>5, SameWorld DEF ApprovalInv
  <2>2. "fail restart" \in Pcs /\ unchecked \subseteq unchecked'
    BY <1>5 DEF Pcs
  <2>3. QED
    BY <1>1, <1>5, <2>1, <2>2, PlaceFiles
<1>6. QED
  BY <1>4, <1>5 DEF ProcessRestartDeployable

\* A transaction of the database stage.
LEMMA CommitFiles ==
  ASSUME ApprovalInv, FilesInv, Final, NEW w \in Busy, NEW g \in Groups, g = flow[w].g,
         NEW mem \in Row, NEW r \in Row, NEW s \in FlowState, Transacts(w, mem, r, s),
         unchecked' = unchecked, OnlyOwn(w),
         \A i \in DOMAIN configs' : ~configs'[i].active =>
            \/ i \in DOMAIN configs /\ ~configs[i].active
            \/ request[g].type = "Delete" /\ i \in request[g].ids,
         \A m \in ModelsOf(w) \ unchecked : g \notin interrupted => ProgressOn(s, m)',
         request[g].type \in Created =>
            \A m \in ModelsOf(w) \ unchecked : g \notin interrupted => FilesMatch(m)'
  PROVE  FilesInv'
<1>1. /\ Writes(w, r, s) /\ s.pc = "restart" /\ s.g = g /\ s.pc \in Past
      /\ request' = request /\ interrupted' = interrupted /\ ModelsOf(w) = request[g].models
  <2>1. Writes(w, r, s) /\ s.pc = "restart" /\ s.g = flow[w].g /\ s.pc \in Past
    BY TransactionIs
  <2>2. request' = request /\ interrupted' = interrupted
    BY DEF Transacts
  <2>3. QED
    BY <2>1, <2>2 DEF ModelsOf
<1>2. Steps(w, s)
  BY <1>1, WritesSteps
<1>3. s # Idle /\ s.pc \notin Undoing
  BY <1>1, ConstantsAre DEF Undoing
<1>4. Finished(g)'
  <2>1. w \in Busy' /\ flow'[w] = s
    BY <1>2, <1>3 DEF Steps
  <2>2. QED
    BY <1>1, <2>1 DEF Finished
<1>5. FlowFiles(s)'
  <2>1. EarlyInv(s)' /\ UndoInv(s)'
    BY <1>1, <1>3 DEF EarlyInv, UndoInv
  <2>2. ProgressInv(s)'
    BY <1>1 DEF ProgressInv
  <2>3. QED
    BY <2>1, <2>2 DEF FlowFiles
<1>6. ASSUME NEW m \in ModelsOf(w) \ unchecked', FilesMatch(m) \/ StandsInTheWay(g)
      PROVE  Explained(m)'
  <2>1. request[g].type \in Created \union {"Edit", "Delete"} /\ m \in ModelsOf(w) \ unchecked
    BY <1>6, TypesAre DEF Types
  <2>2. CASE request[g].type \in Created
    <3>1. FilesMatch(m)' \/ g \in interrupted'
      BY <1>1, <2>1, <2>2
    <3>2. QED
      BY <1>2, <2>1, <3>1, Explains
  <2>3. CASE request[g].type \in {"Edit", "Delete"}
    BY <1>1, <1>2, <1>3, <2>1, <2>3, Explains
  <2>4. QED
    BY <2>1, <2>2, <2>3
<1>7. \A i \in DOMAIN configs' : ~configs'[i].active =>
         \/ i \in DOMAIN configs /\ ~configs[i].active
         \/ /\ request[g].type = "Delete" /\ i \in request[g].ids
            /\ Finished(g)'
  BY <1>4
<1>8. QED
  BY <1>1, <1>2, <1>3, <1>5, <1>6, <1>7, FilesFrame

\* What the registration of a request adds to the configs.
LEMMA RegisteredAre ==
  ASSUME ApprovalInv, NEW w \in Busy, NEW g \in Groups, g = flow[w].g,
         configs' = configs \o SetToSeq(NewConfigs(g, ModelsOf(w)))
  PROVE  /\ DOMAIN configs \subseteq DOMAIN configs'
         /\ \A i \in DOMAIN configs : configs'[i] = configs[i]
         /\ \A i \in DOMAIN configs' \ DOMAIN configs :
              configs'[i].model \in ModelsOf(w) /\ configs'[i].meta = g /\ configs'[i].active
<1>1. PICK models \in SUBSET Models : models = ModelsOf(w)
  BY BusyIs DEF ModelsOf
<1>2. PICK q : q = SetToSeq(NewConfigs(g, models))
  OBVIOUS
<1>3. /\ q \in Seq(Config)
      /\ \A i \in DOMAIN q : q[i].model \in models /\ q[i].meta = g /\ q[i].active
  BY <1>2, NewConfigsAre
<1>4. configs \in Seq(Config) /\ configs' = configs \o q
  BY <1>1, <1>2 DEF ApprovalInv, ApprovalTypeOK
<1>5. /\ \A i \in DOMAIN configs : i \in DOMAIN configs' /\ configs'[i] = configs[i]
      /\ \A i \in DOMAIN configs' \ DOMAIN configs :
           i - Len(configs) \in DOMAIN q /\ configs'[i] = q[i - Len(configs)]
  BY <1>3, <1>4, AppendedAre
<1>6. QED
  BY <1>1, <1>3, <1>5

LEMMA PopulationFiles ==
  ASSUME ApprovalInv, FilesInv, Final, NEW w \in Busy, ProcessDBPopulation(w) PROVE FilesInv'
<1>1. flow[w].pc = "populate"
  BY DEF ProcessDBPopulation
<1>2. PICK g \in Groups : g = flow[w].g
  BY BusyIs
<1>3. PICK mem \in Row : mem = Marked(flow[w].mem, "In Progress", "Restart Deployable")
  BY BusyIs DEF Marked, Row
<1>4. request[g].type \in Created
  BY <1>1, <1>2, TypesAre DEF TypeAt
<1>5. flow[w].pc \notin Past \union Undoing /\ {"restart", "fail db"} \subseteq Pcs /\ "restart" \notin Undoing
  BY <1>1 DEF Past, Undoing, Pcs
<1>6. CASE GoTo(w, "restart")
  BY <1>2, <1>4, <1>5, <1>6, GoToFiles
<1>7. CASE /\ flow' = [flow EXCEPT ![w].pc = "fail db"]
           /\ UNCHANGED <<row, configs, overtaken>> /\ UNCHANGED <<request, files, unchecked, interrupted>>
  <2>1. /\ OnlyOwn(w) /\ \A m : FilesMatch(m)' <=> FilesMatch(m)
        /\ \A i \in DOMAIN configs' : i \in DOMAIN configs /\ configs'[i].active = configs[i].active
    BY <1>7, SameWorld DEF ApprovalInv
  <2>2. unchecked \subseteq unchecked'
    BY <1>7
  <2>3. QED
    BY <1>5, <1>7, <2>1, <2>2, PlaceFiles
<1>8. CASE /\ configs' = configs \o SetToSeq(NewConfigs(g, ModelsOf(w)))
           /\ row' = [row EXCEPT ![g] = [mem EXCEPT !.valid = @ \/ row[g].valid]]
           /\ flow' = FlowsAfter(w, [flow[w] EXCEPT !.pc = "restart", !.mem = mem, !.moved = {}, !.fresh = TRUE])
           /\ Overtake(w)
           /\ UNCHANGED <<starts, faults>> /\ UNCHANGED <<request, files, unchecked, interrupted>>
  <2>1. PICK s \in FlowState : s = [flow[w] EXCEPT !.pc = "restart", !.mem = mem, !.moved = {}, !.fresh = TRUE]
    BY BusyIs DEF FlowState, Pcs
  <2>2. PICK r \in Row : r = [mem EXCEPT !.valid = @ \/ row[g].valid]
    BY DEF Row
  <2>3. mem.status = "In Progress" /\ mem.stage = "Restart Deployable"
    BY <1>3, BusyIs, ZenonT(30) DEF Marked, Row, Terminal
  <2>4. r \in Row /\ r.status = "In Progress" /\ r.stage = "Restart Deployable"
    BY <2>2, <2>3 DEF Row
  <2>5. Transacts(w, mem, r, s)
    <3>1. row' = [row EXCEPT ![flow[w].g] = r] /\ flow' = FlowsAfter(w, s)
      BY <1>2, <1>8, <2>1, <2>2
    <3>2. Overtake(w) /\ UNCHANGED <<request, interrupted>>
      BY <1>8
    <3>3. QED
      BY <1>1, <1>3, <2>1, <2>4, <3>1, <3>2 DEF Transacts
  <2>6. /\ DOMAIN configs \subseteq DOMAIN configs'
        /\ \A i \in DOMAIN configs : configs'[i] = configs[i]
        /\ \A i \in DOMAIN configs' \ DOMAIN configs :
             configs'[i].model \in ModelsOf(w) /\ configs'[i].meta = g /\ configs'[i].active
    BY <1>2, <1>8, RegisteredAre
  <2>7. ConfigsStay /\ files' = files /\ unchecked' = unchecked
    BY <1>8, PopulationKeeps
  <2>8. ASSUME NEW m \in Models \ ModelsOf(w) PROVE SameModel(m)
    <3>1. ActiveConfigs(m)' = ActiveConfigs(m)
      BY <2>6 DEF ActiveConfigs
    <3>2. \A i \in ActiveConfigs(m) : configs'[i].meta = configs[i].meta
      BY <2>6 DEF ActiveConfigs
    <3>3. QED
      BY <2>7, <3>1, <3>2 DEF SameModel
  <2>9. ASSUME NEW m \in ModelsOf(w) \ unchecked, g \notin interrupted
        PROVE  FilesMatch(m)'
    <3>1. Live(m, g)
      BY <1>1, <1>2, <2>9, AtStage DEF ProgressOn
    <3>2. ActiveConfigs(m) = {}
      BY <1>1, <1>2, <1>4 DEF ApprovalInv, NoConfigYet, Building
    <3>3. \A i \in ActiveConfigs(m)' : configs'[i].meta = g
      BY <2>6, <3>2 DEF ActiveConfigs
    <3>4. QED
      BY <2>7, <3>1, <3>3 DEF FilesMatch, Live, Stands
  <2>10. \A m : ProgressOn(s, m)'
    <3>1. s.pc = "restart" /\ s.g = g /\ request' = request
      BY <1>2, <1>8, <2>5, TransactionIs
    <3>2. request'[g].type \notin {"Edit", "Delete"}
      BY <1>4, <3>1, ApprovalAssumption
    <3>3. QED
      BY <3>1, <3>2 DEF ProgressOn
  <2>11. OnlyOwn(w)
    BY <2>7, <2>8 DEF OnlyOwn
  <2>12. \A i \in DOMAIN configs' : ~configs'[i].active => i \in DOMAIN configs /\ ~configs[i].active
    BY <2>6
  <2>13. QED
    BY <1>2, <2>4, <2>5, <2>7, <2>9, <2>10, <2>11, <2>12, CommitFiles
<1>9. QED
  BY <1>2, <1>3, <1>6, <1>7, <1>8, ZenonT(30) DEF ProcessDBPopulation, NewConfigs

\* What a retirement leaves of the configs.
LEMMA RetiredAre ==
  ASSUME ApprovalTypeOK, NEW g \in Groups,
         configs' = [i \in DOMAIN configs |-> [configs[i] EXCEPT !.active = @ /\ i \notin request[g].ids]]
  PROVE  /\ DOMAIN configs' = DOMAIN configs
         /\ \A i \in DOMAIN configs :
              /\ configs'[i].model = configs[i].model /\ configs'[i].meta = configs[i].meta
              /\ configs'[i].active <=> configs[i].active /\ i \notin request[g].ids
<1>1. DOMAIN configs' = DOMAIN configs
  OBVIOUS
<1>2. ASSUME NEW i \in DOMAIN configs
      PROVE  /\ configs'[i].model = configs[i].model /\ configs'[i].meta = configs[i].meta
             /\ configs'[i].active <=> configs[i].active /\ i \notin request[g].ids
  <2>1. PICK b \in BOOLEAN : b <=> i \notin request[g].ids
    OBVIOUS
  <2>2. PICK c \in Config : c = configs[i]
    BY DEF ApprovalTypeOK
  <2>3. PICK d : d = [c EXCEPT !.active = c.active /\ b]
    OBVIOUS
  <2>4. configs'[i] = d
    BY <2>1, <2>2, <2>3
  <2>5. d.model = c.model /\ d.meta = c.meta
    BY <2>3 DEF Config
  <2>6. d.active <=> c.active /\ b
    BY <2>3 DEF Config
  <2>7. QED
    BY <2>1, <2>2, <2>4, <2>5, <2>6
<1>3. QED
  BY <1>1, <1>2

\* A config that an undisturbed Delete finds retired was retired by another.
LEMMA RetiredByAnother ==
  ASSUME ApprovalInv, FilesInv, NEW w \in Busy, NEW g \in Groups, g = flow[w].g,
         flow[w].pc = "unregister", Overtake(w), g \notin interrupted, g \notin overtaken',
         NEW m \in ModelsOf(w) \ unchecked,
         NEW i \in request[g].ids, configs[i].model = m, ~configs[i].active
  PROVE  Again(g, m)
<1>1. flow[w].pc \notin Past \union Undoing /\ i \in DOMAIN configs
  BY DeletedIs DEF Past, Undoing, FilesInv
<1>2. PICK h \in Groups : request[h].type = "Delete" /\ i \in request[h].ids /\ Finished(h)
  BY <1>1 DEF FilesInv, RetiredInv
<1>3. flow[w].fresh /\ g \notin overtaken
  BY DEF Overtake
<1>4. row[g].status \notin Terminal
  BY <1>1, <1>3, BusyIs DEF FlowInv, FreshInv, Repeats
<1>5. \A v \in Busy : flow[v].g = g => v = w
  BY WorkedOnOnce DEF ModelsOf
<1>6. ~Finished(g)
  BY <1>1, <1>3, <1>4, <1>5 DEF Finished, Terminal
<1>7. h # g
  BY <1>2, <1>6
<1>8. QED
  BY <1>2, <1>7 DEF Again

LEMMA DeleteFiles ==
  ASSUME ApprovalInv, FilesInv, Final, NEW w \in Busy, DeleteDiscoveryAndConfig(w) PROVE FilesInv'
<1>1. flow[w].pc = "unregister"
  BY DEF DeleteDiscoveryAndConfig
<1>2. PICK g \in Groups : g = flow[w].g
  BY BusyIs
<1>3. PICK mem \in Row : mem = Marked(flow[w].mem, "In Progress", "Restart Deployable")
  BY BusyIs DEF Marked, Row
<1>4. request[g].type = "Delete" /\ request[g].type \notin Created
  BY <1>1, <1>2, TypesAre, ApprovalAssumption DEF TypeAt
<1>5. flow[w].pc \notin Past \union Undoing /\ {"restart", "fail db"} \subseteq Pcs /\ "restart" \notin Undoing
  BY <1>1 DEF Past, Undoing, Pcs
<1>6. CASE flow[w].mem.stage # "DB Population" /\ GoTo(w, "restart")
  BY <1>1, <1>5, <1>6, GoToFiles
<1>7. CASE /\ flow' = [flow EXCEPT ![w].pc = "fail db"]
           /\ UNCHANGED <<row, configs, overtaken>> /\ UNCHANGED <<request, files, unchecked, interrupted>>
  <2>1. /\ OnlyOwn(w) /\ \A m : FilesMatch(m)' <=> FilesMatch(m)
        /\ \A i \in DOMAIN configs' : i \in DOMAIN configs /\ configs'[i].active = configs[i].active
    BY <1>7, SameWorld DEF ApprovalInv
  <2>2. unchecked \subseteq unchecked'
    BY <1>7
  <2>3. QED
    BY <1>5, <1>7, <2>1, <2>2, PlaceFiles
<1>8. CASE /\ configs' = [i \in DOMAIN configs |->
                              [configs[i] EXCEPT !.active = @ /\ i \notin request[g].ids]]
           /\ row' = [row EXCEPT ![g] = mem]
           /\ flow' = FlowsAfter(w, [flow[w] EXCEPT !.pc = "restart", !.mem = mem, !.fresh = TRUE])
           /\ Overtake(w)
           /\ UNCHANGED <<starts, faults>> /\ UNCHANGED <<request, files, unchecked, interrupted>>
  <2>1. PICK s \in FlowState : s = [flow[w] EXCEPT !.pc = "restart", !.mem = mem, !.fresh = TRUE]
    BY BusyIs DEF FlowState, Pcs
  <2>2. flow[w].moved = {}
    BY <1>1, TypesAre DEF MovedInv, Undoing
  <2>3. mem.status = "In Progress" /\ mem.stage = "Restart Deployable"
    BY <1>3, BusyIs DEF Marked, Row, Terminal
  <2>4. Transacts(w, mem, mem, s)
    <3>1. row' = [row EXCEPT ![flow[w].g] = mem] /\ flow' = FlowsAfter(w, s)
      BY <1>2, <1>8, <2>1
    <3>2. Overtake(w) /\ UNCHANGED <<request, interrupted>>
      BY <1>8
    <3>3. QED
      BY <1>1, <1>3, <2>1, <2>2, <2>3, <3>1, <3>2 DEF Transacts
  <2>5. /\ DOMAIN configs' = DOMAIN configs
        /\ \A i \in DOMAIN configs :
             /\ configs'[i].model = configs[i].model /\ configs'[i].meta = configs[i].meta
             /\ configs'[i].active <=> configs[i].active /\ i \notin request[g].ids
    BY <1>8, RetiredAre DEF ApprovalInv
  <2>6. ConfigsStay /\ files' = files /\ unchecked' = unchecked /\ request' = request /\ interrupted' = interrupted
    BY <1>8, DeleteKeeps
  <2>7. ASSUME NEW m \in Models \ ModelsOf(w) PROVE SameModel(m)
    <3>1. \A i \in request[g].ids : configs[i].model # m
      BY <1>2, DeletedIs DEF FilesInv, ModelsOf
    <3>2. ActiveConfigs(m)' = ActiveConfigs(m)
      BY <2>5, <3>1 DEF ActiveConfigs
    <3>3. \A i \in ActiveConfigs(m) : configs'[i].meta = configs[i].meta
      BY <2>5 DEF ActiveConfigs
    <3>4. QED
      BY <2>6, <3>2, <3>3 DEF SameModel
  <2>8. OnlyOwn(w)
    BY <2>6, <2>7 DEF OnlyOwn
  <2>9. s.pc = "restart" /\ s.g = g /\ Writes(w, mem, s) /\ s.pc \in Past
    <3>1. Writes(w, mem, s) /\ s.pc = "restart" /\ s.g = flow[w].g /\ s.pc \in Past
      BY <2>4, TransactionIs
    <3>2. QED
      BY <1>2, <3>1
  <2>10. ASSUME NEW m \in ModelsOf(w) \ unchecked, g \notin interrupted, g \notin overtaken'
         PROVE  (ActiveConfigs(m) = {})' \/ Again(g, m)'
    <3>1. PICK i \in request[g].ids : configs[i].model = m
      BY <1>2, <1>4, <2>10 DEF FilesInv, DeleteInv, ModelsOf
    <3>2. i \in DOMAIN configs /\ m \in Models
      BY <2>10, <3>1, DeletedIs, BusyIs DEF FilesInv, ModelsOf
    <3>3. CASE configs[i].active
      <4>1. \A j \in ActiveConfigs(m) : j = i
        BY <2>10, <3>1, <3>2, <3>3 DEF ApprovalInv, OneConfigPerModel, ActiveConfigs
      <4>2. ActiveConfigs(m)' = {}
        BY <2>5, <3>1, <4>1 DEF ActiveConfigs
      <4>3. QED
        BY <4>2
    <3>4. CASE ~configs[i].active
      <4>1. Again(g, m)
        BY <1>1, <1>2, <1>8, <2>10, <3>1, <3>4, RetiredByAnother
      <4>2. Steps(w, s)
        BY <2>6, <2>9, WritesSteps
      <4>3. \A h \in Groups : Finished(h) => Finished(h)'
        BY <2>9, <4>2, FinishedSteps
      <4>4. QED
        BY <2>6, <4>1, <4>3, AgainStays DEF ApprovalInv
    <3>5. QED
      BY <3>3, <3>4
  <2>11. ASSUME NEW m \in ModelsOf(w) \ unchecked, g \notin interrupted PROVE ProgressOn(s, m)'
    <3>1. request'[g].type # "Edit"
      BY <1>4, <2>6
    <3>2. g \notin overtaken' => (ActiveConfigs(m) = {})' \/ Again(g, m)'
      BY <2>10, <2>11
    <3>3. QED
      BY <2>9, <3>1, <3>2 DEF ProgressOn
  <2>12. \A i \in DOMAIN configs' : ~configs'[i].active =>
            \/ i \in DOMAIN configs /\ ~configs[i].active
            \/ request[g].type = "Delete" /\ i \in request[g].ids
    BY <1>4, <2>5
  <2>13. QED
    BY <1>2, <1>4, <2>3, <2>4, <2>6, <2>8, <2>11, <2>12, CommitFiles
<1>9. QED
  BY <1>2, <1>3, <1>6, <1>7, <1>8 DEF DeleteDiscoveryAndConfig

LEMMA FlowStepFiles ==
  ASSUME ApprovalInv, FilesInv, NEW w \in Workers, FlowStep(w) PROVE FilesInv'
<1>1. w \in Busy
  BY FlowStepKeeps
<1>2. Final
  BY <1>1, FlowRows, FlowIsFinal DEF Final
<1>3. ASSUME NEW m \in Models, TransferFolder(w, m) \/ UpdateConfig(w, m) \/ MoveToDeleteBucket(w, m)
      PROVE  FilesInv'
  BY <1>1, <1>3, TransferFiles, UpdateConfigFiles, MoveFiles
<1>4. ASSUME NEW f \in flow[w].moved, Revert(w, f) \/ RevertForDelete(w, f) PROVE FilesInv'
  BY <1>1, <1>4, RevertFiles, RevertForDeleteFiles
<1>5. ProcessRejectRequest(w) \/ CheckIfModelsExist(w) \/ EndCopySource(w) \/ EndCopyLive(w) \/ Fail(w)
      => FilesInv'
  BY <1>1, <1>2, RejectFiles, ExistFiles, EndCopySourceFiles, EndCopyLiveFiles, FailFiles
<1>6. ProcessDBPopulation(w) \/ EndUpdate(w) \/ ProcessRestartDeployable(w) \/ ApproveEdit(w)
      \/ EndMove(w) \/ DeleteDiscoveryAndConfig(w)
      => FilesInv'
  BY <1>1, <1>2, PopulationFiles, EndUpdateFiles, RestartFiles, ApproveEditFiles, EndMoveFiles, DeleteFiles
<1>7. QED
  BY <1>3, <1>4, <1>5, <1>6 DEF FlowStep

\* What a step keeps that writes neither configs nor files: an approval that
\* was at work still is or was interrupted, and one that was not has begun.
SameFlow(v) ==
    /\ v \in Busy /\ v \in Busy' /\ flow'[v].pc = flow[v].pc /\ flow'[v].g = flow[v].g
    /\ flow'[v].mem = flow[v].mem /\ flow'[v].todo = flow[v].todo

LEMMA FilesKept ==
  ASSUME ApprovalInv, FilesInv, Final, configs' = configs, files' = files,
         unchecked \subseteq unchecked', interrupted \subseteq interrupted', overtaken \subseteq overtaken',
         \A h \in Groups : request[h] # NoRequest => request'[h] = request[h],
         \A h \in Groups : DeleteInv(h)',
         \A h \in Groups : row'[h].active /\ row'[h].stage # "Pending" => row[h].active /\ row[h].stage # "Pending",
         \A v \in Busy : SameFlow(v) \/ flow[v].g \in interrupted',
         \A v \in Busy' : SameFlow(v) \/ FlowFiles(flow[v])'
  PROVE  FilesInv'
<1>1. /\ ApprovalTypeOK /\ ConfigsStay
      /\ \A h \in Groups : request[h].type = "Delete" => request'[h] = request[h]
      /\ \A h \in Groups : \A m \in request[h].models : request'[h] = request[h]
  BY ConfigsSame DEF ApprovalInv, NoRequest
<1>2. ASSUME NEW h \in Groups, Finished(h) PROVE Finished(h)'
  <2>1. CASE h \in interrupted' \union overtaken'
    BY <2>1 DEF Finished
  <2>2. CASE row[h].status \in {"Approved", "Failed"}
    BY <2>2 DEF Final, Finished, Terminal
  <2>3. CASE \E v \in Busy : flow[v].g = h /\ flow[v].pc \in Past
    BY <2>1, <2>3 DEF Finished, SameFlow
  <2>4. QED
    BY <1>2, <2>1, <2>2, <2>3 DEF Finished
<1>3. ASSUME NEW h \in Groups PROVE StageInv(h)'
  <2>1. StageInv(h)
    BY DEF FilesInv
  <2>2. QED
    BY <2>1 DEF StageInv, SameFlow
<1>4. RetiredInv'
  <2>1. SUFFICES ASSUME NEW i \in DOMAIN configs, ~configs[i].active
                 PROVE  \E h \in Groups : request'[h].type = "Delete" /\ i \in request'[h].ids /\ Finished(h)'
    BY DEF RetiredInv
  <2>2. PICK h \in Groups : request[h].type = "Delete" /\ i \in request[h].ids /\ Finished(h)
    BY <2>1 DEF FilesInv, RetiredInv
  <2>3. QED
    BY <1>1, <1>2, <2>2
<1>5. ASSUME NEW v \in Busy' PROVE FlowFiles(flow[v])'
  <2>1. SUFFICES ASSUME SameFlow(v) PROVE FlowFiles(flow[v])'
    OBVIOUS
  <2>2. PICK f : f = flow'[v]
    OBVIOUS
  <2>3. /\ v \in Busy /\ f.pc = flow[v].pc /\ f.g = flow[v].g /\ f.mem = flow[v].mem
        /\ f.todo = flow[v].todo /\ f.g \in Groups /\ FlowFiles(flow[v]) /\ request'[f.g] = request[f.g]
    BY <2>1, <2>2, BusyIs DEF FilesInv, SameFlow, FlowInv, Fits
  <2>4. EarlyInv(f)'
    BY <2>3 DEF FlowFiles, EarlyInv
  <2>5. UndoInv(f)'
    <3>1. f.pc \in Undoing => row[f.g].status = "Failed" \/ f.g \in interrupted \union overtaken
      BY <2>3 DEF FlowFiles, UndoInv
    <3>2. row[f.g].status = "Failed" => row'[f.g].status = "Failed" \/ f.g \in overtaken'
      BY <2>3 DEF Final, Terminal
    <3>3. QED
      BY <3>1, <3>2 DEF UndoInv
  <2>6. ProgressInv(f)'
    <3>1. SUFFICES ASSUME f.g \notin interrupted', NEW m \in request[f.g].models \ unchecked'
                   PROVE  ProgressOn(f, m)'
      BY <2>3 DEF ProgressInv
    <3>2. PICK e : e = flow[v]
      OBVIOUS
    <3>3. ProgressOn(e, m) /\ e.g = f.g /\ e.pc = f.pc /\ e.todo = f.todo
      BY <2>3, <3>1, <3>2 DEF FlowFiles, ProgressInv
    <3>4. QED
      BY <1>1, <1>2, <2>3, <3>3, ProgressStays
  <2>7. FlowFiles(f)'
    BY <2>4, <2>5, <2>6 DEF FlowFiles
  <2>8. QED
    BY <2>2, <2>7, FlowFilesAt
<1>6. ASSUME NEW m \in Models \ unchecked' PROVE Explained(m)'
  <2>1. Explained(m)
    BY DEF FilesInv
  <2>2. CASE FilesMatch(m)
    BY <1>1, <2>2, SameWorld DEF Explained
  <2>3. CASE DeletedTwice(m)
    <3>1. \A h \in Groups : DeleteInv(h)
      BY DEF FilesInv
    <3>2. DeletedTwice(m)' \/ \E h \in Groups : m \in request'[h].models /\ StandsInTheWay(h)'
      BY <1>1, <2>3, <3>1, DeletedTwiceStays
    <3>3. QED
      BY <3>2 DEF Explained
  <2>4. ASSUME NEW h \in Groups, m \in request[h].models, StandsInTheWay(h) PROVE Explained(m)'
    <3>1. request'[h] = request[h]
      BY <1>1, <2>4
    <3>2. row[h].status = "Failed" => row'[h].status = "Failed" \/ h \in overtaken'
      BY DEF Final, Terminal
    <3>3. \A v \in Busy : flow[v].g = h /\ flow[v].pc # "reject" =>
             h \in interrupted' \/ (v \in Busy' /\ flow'[v].g = h /\ flow'[v].pc # "reject")
      BY DEF SameFlow
    <3>4. StandsInTheWay(h)'
      BY <2>4, <3>1, <3>2, <3>3 DEF StandsInTheWay
    <3>5. QED
      BY <2>4, <3>1, <3>4 DEF Explained
  <2>5. QED
    BY <2>1, <2>2, <2>3, <2>4 DEF Explained
<1>7. QED
  BY <1>3, <1>4, <1>5, <1>6 DEF FilesInv

LEMMA SubmitFiles ==
  ASSUME ApprovalInv, FilesInv, NEW g \in Groups, NEW type \in Types, NEW models \in SUBSET Models,
         NEW ids \in SUBSET DOMAIN configs, Submit(g, type, models, ids),
         type = "Delete" => models = {configs[i].model : i \in ids}
  PROVE  FilesInv'
<1>1. /\ request[g] = NoRequest /\ configs' = configs /\ files' = files /\ flow' = flow
      /\ unchecked' = unchecked /\ interrupted' = interrupted /\ overtaken' = overtaken
  BY DEF Submit, history
<1>2. /\ request'[g].type = type /\ request'[g].models = models /\ request'[g].ids = ids
      /\ \A h \in Groups \ {g} : request'[h] = request[h] /\ row'[h] = row[h]
      /\ row'[g].stage = "Pending"
  BY DEF Submit, ApprovalInv, ApprovalTypeOK
<1>3. row[g].status \notin Terminal
  BY <1>1 DEF ApprovalInv, RequestInv, NoRow, Terminal
<1>4. Final
  BY <1>2, <1>3 DEF Final
<1>5. \A h \in Groups : request[h] # NoRequest => request'[h] = request[h]
  BY <1>1, <1>2
<1>6. ASSUME NEW h \in Groups PROVE DeleteInv(h)'
  <2>1. CASE h = g
    BY <1>1, <1>2, <2>1 DEF DeleteInv
  <2>2. CASE h # g
    BY <1>1, <1>2, <2>2 DEF FilesInv, DeleteInv
  <2>3. QED
    BY <2>1, <2>2
<1>7. \A h \in Groups : row'[h].active /\ row'[h].stage # "Pending" => row[h].active /\ row[h].stage # "Pending"
  BY <1>2
<1>8. Busy' = Busy /\ \A v \in Busy : SameFlow(v)
  BY <1>1 DEF Busy, SameFlow
<1>9. QED
  BY <1>1, <1>4, <1>5, <1>6, <1>7, <1>8, FilesKept

LEMMA HandlersFiles ==
  ASSUME ApprovalInv, FilesInv, NEW g \in Groups,
         HandleModelRequest(g) \/ HandleEditModel(g) \/ HandleDeleteModel(g)
  PROVE  FilesInv'
<1>1. CASE HandleModelRequest(g)
  <2>1. PICK type \in Created, models \in Batches : Submit(g, type, models, {})
    BY <1>1 DEF HandleModelRequest
  <2>2. type \in Types /\ models \in SUBSET Models /\ type # "Delete"
    BY ApprovalAssumption DEF Types
  <2>3. QED
    BY <2>1, <2>2, SubmitFiles
<1>2. CASE HandleEditModel(g)
  <2>1. PICK models \in Batches : Submit(g, "Edit", models, {})
    BY <1>2 DEF HandleEditModel
  <2>2. "Edit" \in Types /\ models \in SUBSET Models
    BY ApprovalAssumption DEF Types
  <2>3. QED
    BY <2>1, <2>2, SubmitFiles
<1>3. CASE HandleDeleteModel(g)
  <2>1. PICK ids \in SUBSET {i \in DOMAIN configs : configs[i].active} :
          Submit(g, "Delete", {configs[i].model : i \in ids}, ids)
    BY <1>3 DEF HandleDeleteModel
  <2>2. PICK models : models = {configs[i].model : i \in ids}
    OBVIOUS
  <2>3. models \in SUBSET Models /\ "Delete" \in Types
    <3>1. \A i \in DOMAIN configs : configs[i] \in Config
      BY DEF ApprovalInv, ApprovalTypeOK
    <3>2. \A c \in Config : c.model \in Models
      BY DEF Config
    <3>3. QED
      BY <2>2, <3>1, <3>2 DEF Types
  <2>4. QED
    BY <2>1, <2>2, <2>3, SubmitFiles
<1>4. QED
  BY <1>1, <1>2, <1>3

LEMMA StartFiles ==
  ASSUME ApprovalInv, FilesInv, NEW w \in Workers, NEW g \in Groups, NEW pc \in Pcs, StartFlow(w, g, pc),
         pc \in {"exist", "copy live", "move", "reject"}, pc = "copy live" => request[g].type # "ScaleUp"
  PROVE  FilesInv'
<1>1. PICK s : s = [pc |-> pc, g |-> g, mem |-> row[g], todo |-> request[g].models, moved |-> {}, fresh |-> TRUE]
  OBVIOUS
<1>2. /\ w \notin Busy /\ row[g].active /\ flow' = [flow EXCEPT ![w] = s]
      /\ unchecked' = unchecked \union (request[g].models \intersect UNION {ModelsOf(v) : v \in Busy})
      /\ request' = request /\ row' = row /\ configs' = configs /\ files' = files
      /\ interrupted' = interrupted /\ overtaken' = overtaken
  BY <1>1 DEF StartFlow
<1>3. s.pc = pc /\ s.g = g /\ s.mem = row[g] /\ s.todo = request[g].models
  BY <1>1
<1>4. flow'[w] = s /\ \A v \in Workers \ {w} : flow'[v] = flow[v]
  BY <1>2 DEF ApprovalInv, ApprovalTypeOK
<1>5. (\A v \in Busy : SameFlow(v)) /\ Busy' \subseteq Busy \union {w}
  BY <1>2, <1>4 DEF Busy, SameFlow
<1>6. FlowFiles(s)'
  <2>1. EarlyInv(s)'
    <3>1. row[g].stage = "Pending" \/ g \in interrupted \/ \E v \in Busy : flow[v].g = g
      BY <1>2 DEF FilesInv, StageInv
    <3>2. ASSUME NEW v \in Busy, flow[v].g = g PROVE request[g].models \subseteq unchecked'
      BY <1>2, <3>2 DEF ModelsOf
    <3>3. s.pc \notin {"populate", "unregister"}
      BY <1>3
    <3>4. QED
      BY <1>2, <1>3, <3>1, <3>2, <3>3 DEF EarlyInv
  <2>2. UndoInv(s)'
    BY <1>3 DEF UndoInv, Undoing
  <2>3. ProgressInv(s)'
    BY <1>2, <1>3 DEF ProgressInv, ProgressOn, Past
  <2>4. QED
    BY <2>1, <2>2, <2>3 DEF FlowFiles
<1>7. FlowFiles(flow[w])'
  BY <1>4, <1>6, FlowFilesAt
<1>8. Final /\ unchecked \subseteq unchecked'
  BY <1>2 DEF Final
<1>9. \A h \in Groups : DeleteInv(h)'
  BY <1>2 DEF FilesInv, DeleteInv
<1>10. QED
  BY <1>2, <1>5, <1>7, <1>8, <1>9, FilesKept

LEMMA ApprovalsFiles ==
  ASSUME ApprovalInv, FilesInv, NEW w \in Workers, NEW g \in Groups, Approve(w, g) \/ Reject(w, g)
  PROVE  FilesInv'
<1>1. PICK pc \in {"exist", "copy live", "move", "reject"} :
        StartFlow(w, g, pc) /\ (pc = "copy live" => request[g].type # "ScaleUp")
  <2>1. CASE Reject(w, g)
    BY <2>1 DEF Reject
  <2>2. CASE Approve(w, g)
    <3>1. PICK pc : /\ pc = CASE request[g].type \in Created -> "exist"
                              [] request[g].type = "Edit" -> "copy live"
                              [] OTHER -> "move"
                    /\ StartFlow(w, g, pc)
      BY <2>2 DEF Approve
    <3>2. /\ pc \in {"exist", "copy live", "move"}
          /\ pc = "copy live" => request[g].type # "ScaleUp"
      BY <3>1
    <3>3. QED
      BY <3>1, <3>2
  <2>3. QED
    BY <2>1, <2>2
<1>2. pc \in Pcs
  BY DEF Pcs
<1>3. QED
  BY <1>1, <1>2, StartFiles

LEMMA ValidateFiles ==
  ASSUME ApprovalInv, FilesInv, NEW g \in Groups, Validate(g) PROVE FilesInv'
<1>1. PICK ok \in BOOLEAN : WriteRow(g, Result(row[g], ok))
  BY DEF Validate
<1>2. PICK c \in Row : c = row[g] /\ c.active /\ c.status \notin Terminal
  BY DEF ApprovalInv, ApprovalTypeOK, RequestInv, CopyInv, Validate
<1>3. PICK r : r = Result(c, ok)
  OBVIOUS
<1>4. r.stage = c.stage
  BY <1>2, <1>3 DEF Result, Row
<1>5. row' = [row EXCEPT ![g] = r]
  BY <1>1, <1>2, <1>3 DEF WriteRow
<1>6. row'[g] = r /\ \A h \in Groups \ {g} : row'[h] = row[h]
  BY <1>5 DEF ApprovalInv, ApprovalTypeOK
<1>7. /\ request' = request /\ configs' = configs /\ files' = files /\ unchecked' = unchecked
      /\ interrupted' = interrupted /\ overtaken' = overtaken
  BY DEF Validate, history
<1>8. Final
  BY <1>2, <1>6 DEF Final
<1>9. \A h \in Groups : row'[h].active /\ row'[h].stage # "Pending" => row[h].active /\ row[h].stage # "Pending"
  BY <1>2, <1>4, <1>6
<1>10. \A h \in Groups : DeleteInv(h)'
  BY <1>7 DEF FilesInv, DeleteInv
<1>11. ASSUME NEW v \in Workers
       PROVE  /\ flow'[v].pc = flow[v].pc /\ flow'[v].g = flow[v].g
              /\ flow'[v].mem = flow[v].mem /\ flow'[v].todo = flow[v].todo
  <2>1. PICK f \in FlowState : f = flow[v]
    BY DEF ApprovalInv, ApprovalTypeOK
  <2>2. flow'[v] = f \/ flow'[v] = [f EXCEPT !.fresh = FALSE]
    BY <1>1, <2>1 DEF WriteRow
  <2>3. QED
    BY <2>1, <2>2 DEF FlowState
<1>12. Busy' = Busy /\ \A v \in Busy : SameFlow(v)
  BY <1>11 DEF Busy, SameFlow
<1>13. QED
  BY <1>7, <1>8, <1>9, <1>10, <1>12, FilesKept

LEMMA CrashFiles ==
  ASSUME ApprovalInv, FilesInv, CrashFlows PROVE FilesInv'
<1>1. /\ flow' = [w \in Workers |-> Idle] /\ interrupted' = interrupted \union {flow[w].g : w \in Busy}
      /\ request' = request /\ row' = row /\ configs' = configs /\ files' = files
      /\ unchecked' = unchecked /\ overtaken' = overtaken
  BY DEF CrashFlows
<1>2. Busy' = {} /\ \A v \in Busy : flow[v].g \in interrupted'
  BY <1>1, ConstantsAre DEF Busy
<1>3. Final
  BY <1>1 DEF Final
<1>4. \A h \in Groups : DeleteInv(h)'
  BY <1>1 DEF FilesInv, DeleteInv
<1>5. QED
  BY <1>1, <1>2, <1>3, <1>4, FilesKept

LEMMA StutterFiles ==
  ASSUME ApprovalInv, FilesInv, UNCHANGED avars PROVE FilesInv'
<1>1. /\ flow' = flow /\ interrupted' = interrupted
      /\ request' = request /\ row' = row /\ configs' = configs /\ files' = files
      /\ unchecked' = unchecked /\ overtaken' = overtaken
  BY DEF avars, history
<1>2. Busy' = Busy /\ \A v \in Busy : SameFlow(v)
  BY <1>1 DEF Busy, SameFlow
<1>3. Final
  BY <1>1 DEF Final
<1>4. \A h \in Groups : DeleteInv(h)'
  BY <1>1 DEF FilesInv, DeleteInv
<1>5. QED
  BY <1>1, <1>2, <1>3, <1>4, FilesKept

LEMMA InitFiles == Init => FilesInv
<1> SUFFICES ASSUME Init PROVE FilesInv
  OBVIOUS
<1>1. PICK q : q = SetToSeq(NewConfigs(Base, Served))
  OBVIOUS
<1>2. configs = q
  BY <1>1 DEF Init, NewConfigs
<1>3. \A i \in DOMAIN configs : configs[i].model \in Served /\ configs[i].meta = Base /\ configs[i].active
  BY <1>1, <1>2, NewConfigsAre, ApprovalAssumption
<1>4. /\ request = [g \in Groups |-> NoRequest] /\ row = [g \in Groups |-> NoRow] /\ Busy = {}
  BY ConstantsAre DEF Init, Busy
<1>5. \A g \in Groups : StageInv(g) /\ DeleteInv(g)
  BY <1>4 DEF StageInv, DeleteInv, NoRequest, NoRow
<1>6. RetiredInv
  BY <1>3 DEF RetiredInv
<1>7. \A m \in Served : Live(m, Base)
  BY ApprovalAssumption DEF Init, Live, Stands, Places
<1>8. \A m \in Models : Explained(m)
  BY <1>3, <1>7 DEF Explained, FilesMatch, ActiveConfigs
<1>9. QED
  BY <1>4, <1>5, <1>6, <1>8 DEF FilesInv

LEMMA StepFiles ==
  ASSUME ApprovalInv, FilesInv, [ANext]_avars PROVE FilesInv'
<1>1. CASE RequestStep
  BY <1>1, HandlersFiles, ApprovalsFiles DEF RequestStep
<1>2. CASE \E w \in Workers : FlowStep(w)
  BY <1>2, FlowStepFiles
<1>3. CASE \E g \in Groups : Validate(g)
  BY <1>3, ValidateFiles
<1>4. CASE CrashFlows
  BY <1>4, CrashFiles
<1>5. CASE UNCHANGED avars
  BY <1>5, StutterFiles
<1>6. QED
  BY <1>1, <1>2, <1>3, <1>4, <1>5 DEF ANext

\* What the invariant says of the models is what the property says.
LEMMA FilesFollow == ApprovalInv /\ FilesInv => ServedFilesMatch
<1> SUFFICES ASSUME FilesInv, NEW m \in Models \ unchecked, NEW i \in ActiveConfigs(m)
             PROVE  \/ files["live"][m] \in [by : {configs[i].meta}, copied : {"whole", "unclosed"}]
                    \/ Disturbed(m) \/ DeletedTwice(m)
  BY DEF ServedFilesMatch
<1>1. Explained(m)
  BY DEF FilesInv
<1>2. FilesMatch(m) => files["live"][m] \in [by : {configs[i].meta}, copied : {"whole", "unclosed"}]
  BY DEF FilesMatch, Live, Stands
<1>3. ASSUME NEW g \in Groups, m \in request[g].models, StandsInTheWay(g) PROVE Disturbed(m)
  BY <1>3 DEF Disturbed, StandsInTheWay
<1>4. QED
  BY <1>1, <1>2, <1>3 DEF Explained

\* An active config describes the files that are live, for any number of
\* requests, approvals and faults; the ways out that ServedFilesMatch names
\* are the only ones.
THEOREM ServedFilesAlwaysMatch == ASpec => []ServedFilesMatch
<1>1. Init => FilesInv
  BY InitFiles
<1>2. ApprovalInv /\ FilesInv /\ [ANext]_avars => FilesInv'
  BY StepFiles
<1>3. ApprovalInv /\ FilesInv => ServedFilesMatch
  BY FilesFollow
<1>4. QED
  BY <1>1, <1>2, <1>3, ApprovalInvariant, PTL DEF ASpec

-----------------------------------------------------------------------------
(* The validations.                                                         *)
ValTypeOK ==
    /\ lock \in 0 .. locks /\ locks \in 0 .. MaxLocks
    /\ outlived \subseteq expired /\ expired \subseteq 1 .. locks
    /\ val \in [Validators -> ValidationState]
    /\ temp \subseteq Groups \union {Base} /\ running \subseteq Groups \union {Base}
    /\ tested \subseteq Groups

LEMMA TypeIs == TypeOK <=> ApprovalTypeOK /\ ValTypeOK
  BY DEF TypeOK, ValTypeOK

LEMMA RestingIs ==
  ASSUME locks \in Nat
  PROVE  /\ Resting \in ValidationState /\ Resting.pc = "idle" /\ Resting.lock = 0
         /\ ~Resting.fresh /\ ~Resting.ok
<1>1. 0 \in 0 .. locks /\ 0 \in 0 .. MaxHealthChecks
  BY ValidationAssumption
<1>2. QED
  BY <1>1, ConstantsAre DEF Resting, ValidationState

\* A validation at work.
LEMMA ValidatingIs ==
  ASSUME IInv, NEW v \in Validating
  PROVE  /\ v \in Validators /\ val[v] \in ValidationState /\ ValidatorInv(v)
         /\ val[v].g \in Groups /\ val[v].copy \in Row /\ val[v].ok \in BOOLEAN /\ val[v].pc # "idle"
<1>1. v \in Validators /\ val[v] \in ValidationState /\ ValidatorInv(v) /\ val[v].pc # "idle"
  BY DEF IInv, TypeOK, Validating
<1>2. QED
  BY <1>1 DEF ValidationState, ValidatorInv

\* More locks, more states.
LEMMA StatesGrow ==
  ASSUME locks \in Nat, locks' \in Nat, locks <= locks', NEW s \in ValidationState
  PROVE  s \in ValidationState'
<1>1. 0 .. locks \subseteq 0 .. locks'
  OBVIOUS
<1>2. QED
  BY <1>1 DEF ValidationState

\* Ages: only freshness goes.
LEMMA AgedIs ==
  ASSUME ValTypeOK
  PROVE  /\ Aged \in [Validators -> ValidationState]
         /\ \A v \in Validators :
              /\ Aged[v].pc = val[v].pc /\ Aged[v].g = val[v].g /\ Aged[v].copy = val[v].copy
              /\ Aged[v].lock = val[v].lock /\ Aged[v].ok = val[v].ok
              /\ v \in Validating /\ Aged[v].fresh => val[v].fresh /\ row'[val[v].g] = row[val[v].g]
<1>1. \A s \in ValidationState :
         LET t == [s EXCEPT !.fresh = FALSE]
         IN  /\ t \in ValidationState /\ t.pc = s.pc /\ t.g = s.g /\ t.copy = s.copy
             /\ t.lock = s.lock /\ t.ok = s.ok /\ ~t.fresh
  BY DEF ValidationState
<1>2. val \in [Validators -> ValidationState]
  BY DEF ValTypeOK
<1>3. ASSUME NEW v \in Validators
      PROVE  /\ Aged[v] \in ValidationState
             /\ Aged[v].pc = val[v].pc /\ Aged[v].g = val[v].g /\ Aged[v].copy = val[v].copy
             /\ Aged[v].lock = val[v].lock /\ Aged[v].ok = val[v].ok
             /\ v \in Validating /\ Aged[v].fresh => val[v].fresh /\ row'[val[v].g] = row[val[v].g]
  <2>1. Aged[v] = IF v \in Validating /\ row'[val[v].g] # row[val[v].g]
                  THEN [val[v] EXCEPT !.fresh = FALSE] ELSE val[v]
    BY DEF Aged
  <2>2. QED
    BY <1>1, <1>2, <2>1
<1>4. Aged = [v \in Validators |-> Aged[v]]
  BY DEF Aged
<1>5. QED
  BY <1>3, <1>4

-----------------------------------------------------------------------------
(* The lock.                                                                *)
LocksInv == LockInv /\ LockOfWorkerStands

\* Nobody took or left the lock.
LEMMA LocksStay ==
  ASSUME LocksInv, UNCHANGED <<lock, expired, outlived, locks>>,
         \A v \in Validators : val'[v].lock = val[v].lock, Working' = Working
  PROVE  LocksInv'
  BY DEF LocksInv, LockInv, LockOfWorkerStands, Working

\* One left it: it does not take the lock of another away.
LEMMA LocksReleased ==
  ASSUME LocksInv, NEW v \in Validators, lock' = ReleaseLock(v), UNCHANGED <<expired, outlived, locks>>,
         \A u \in Validators \ {v} : val'[u].lock = val[u].lock /\ val'[u].pc = val[u].pc,
         val'[v].lock = 0, val'[v].pc = "idle", v \in Working
  PROVE  LocksInv'
<1>1. Working' = Working \ {v}
  BY DEF Working
<1>2. LockInv'
  <2>1. \A u \in Working \ {v} : u \in Validators /\ val'[u].lock = val[u].lock
    BY DEF Working
  <2>2. \A u \in Working' : val'[u].lock \in 1 .. locks' /\ (val'[u].lock \in expired' => val'[u].lock \in outlived')
    BY <1>1, <2>1 DEF LocksInv, LockInv
  <2>3. \A t, u \in Working' : val'[t].lock = val'[u].lock => t = u
    BY <1>1, <2>1 DEF LocksInv, LockInv
  <2>4. \A u \in Validators \ Working' : val'[u].lock = 0
    BY <1>1, <2>1 DEF LocksInv, LockInv
  <2>5. QED
    BY <2>2, <2>3, <2>4 DEF LockInv
<1>3. LockOfWorkerStands'
  <2>1. SUFFICES ASSUME NEW u \in Working \ {v}, val[u].lock \notin expired PROVE lock' = val[u].lock
    BY <1>1 DEF LockOfWorkerStands, Working
  <2>2. lock = val[u].lock /\ lock # val[v].lock
    BY <2>1 DEF LocksInv, LockInv, LockOfWorkerStands
  <2>3. QED
    BY <2>2 DEF ReleaseLock
<1>4. QED
  BY <1>2, <1>3 DEF LocksInv

\* With no lock outlived one validation works.
LEMMA WorksAlone ==
  ASSUME LocksInv, outlived = {}, NEW u \in Working, NEW v \in Working PROVE u = v
  BY DEF LocksInv, LockInv, LockOfWorkerStands

-----------------------------------------------------------------------------
(* What the steps keep of the validations.                                  *)
Kept(v) ==
    /\ val'[v].pc = val[v].pc /\ val'[v].g = val[v].g /\ val'[v].copy = val[v].copy
    /\ val'[v].lock = val[v].lock /\ val'[v].ok = val[v].ok

LEMMA ValidatorStays ==
  ASSUME IInv, NEW v \in Validating, ConfigsStay, request'[val[v].g] = request[val[v].g],
         val'[v].g = val[v].g, val'[v].copy = val[v].copy,
         val'[v].fresh => val[v].fresh /\ row'[val[v].g] = row[val[v].g]
  PROVE  ValidatorInv(v)'
<1>1. PICK g \in Groups : g = val[v].g
  BY ValidatingIs
<1>2. PICK c \in Row : c = val[v].copy
  BY ValidatingIs
<1>3. CopyInv(g, c) /\ request[g] # NoRequest /\ (val[v].fresh => row[g].status \notin Terminal)
  BY <1>1, <1>2, ValidatingIs DEF ValidatorInv
<1>4. CopyInv(g, c)'
  BY <1>1, <1>3, CopyStays DEF IInv, ApprovalInv
<1>5. val'[v].g = g /\ val'[v].copy = c
  BY <1>1, <1>2
<1>6. CopyInv(val[v].g, val[v].copy)'
  BY <1>4, <1>5 DEF CopyInv, Recorded, Own
<1>7. QED
  BY <1>1, <1>3, <1>5, <1>6 DEF ValidatorInv

\* One validation takes a step and the rest of the program none.
LEMMA OneValidates ==
  ASSUME IInv, NEW v \in Validators, NEW s, val' = [val EXCEPT ![v] = s],
         UNCHANGED <<request, row, configs>>,
         s.pc # "idle" => \/ /\ v \in Validating /\ s.g = val[v].g
                             /\ s.copy = val[v].copy /\ s.fresh = val[v].fresh
                          \/ row[s.g].active /\ s.g \in Groups /\ s.copy = row[s.g]
  PROVE  /\ val'[v] = s /\ \A u \in Validators \ {v} : val'[u] = val[u]
         /\ \A u \in Validating' : ValidatorInv(u)'
<1>1. val \in [Validators -> ValidationState] /\ ConfigsStay /\ ApprovalInv
  BY ConfigsSame DEF IInv, TypeOK, ApprovalInv
<1>2. val'[v] = s /\ \A u \in Validators \ {v} : val'[u] = val[u]
  BY <1>1
<1>3. ASSUME NEW u \in Validating \ {v} PROVE ValidatorInv(u)'
  BY <1>1, <1>2, <1>3, ValidatorStays DEF Validating
<1>4. ASSUME s.pc # "idle" PROVE ValidatorInv(v)'
  <2>1. CASE v \in Validating /\ s.g = val[v].g /\ s.copy = val[v].copy /\ s.fresh = val[v].fresh
    BY <1>1, <1>2, <2>1, ValidatorStays
  <2>2. CASE row[s.g].active /\ s.g \in Groups /\ s.copy = row[s.g]
    <3>1. PICK g \in Groups : g = s.g
      BY <2>2
    <3>2. row[g] \in Row /\ row[g].active /\ request[g] # NoRequest /\ CopyInv(g, row[g])
      BY <1>1, <2>2, <3>1, NoRequestIs DEF ApprovalInv, ApprovalTypeOK, RequestInv
    <3>3. PICK c \in Row : c = row[g]
      BY <3>2
    <3>4. CopyInv(g, c)'
      BY <1>1, <3>2, <3>3, CopyStays DEF ApprovalInv
    <3>5. val'[v].g = g /\ val'[v].copy = c
      BY <1>2, <2>2, <3>1, <3>3
    <3>6. CopyInv(val[v].g, val[v].copy)'
      BY <3>4, <3>5 DEF CopyInv, Recorded, Own
    <3>7. row[g].status \notin Terminal /\ request'[g] # NoRequest /\ row'[g].status \notin Terminal
      BY <3>2 DEF CopyInv
    <3>8. QED
      BY <3>5, <3>6, <3>7 DEF ValidatorInv
  <2>3. QED
    BY <1>4, <2>1, <2>2
<1>5. Validating' \subseteq (Validating \ {v}) \union {v} /\ (v \in Validating' => s.pc # "idle")
  BY <1>2 DEF Validating
<1>6. QED
  BY <1>2, <1>3, <1>4, <1>5

LEMMA OneTested ==
  ASSUME IInv, NEW v \in Validators, NEW s, val' = [val EXCEPT ![v] = s],
         UNCHANGED <<request, row, flow>>, outlived \subseteq outlived', tested \subseteq tested',
         s.pc # "idle" => \/ v \in Validating /\ s.g = val[v].g /\ s.copy = val[v].copy
                          \/ s.g \in Groups /\ s.copy = row[s.g],
         v \in Working \/ UNCHANGED <<temp, running>>,
         outlived = {} /\ v \in Working' => Deployed(v)'
  PROVE  TestedInv'
<1> SUFFICES ASSUME outlived' = {}
             PROVE  /\ \A u \in Working' : Deployed(u)'
                    /\ \A u \in Validating' : TestedFor(val[u].g, val[u].copy)'
                    /\ \A w \in Busy' : TestedFor(flow[w].g, flow[w].mem)'
                    /\ \A g \in Groups : TestedFor(g, row[g])'
  BY DEF TestedInv
<1>1. /\ outlived = {} /\ LocksInv
      /\ \A u \in Working : Deployed(u)
      /\ \A u \in Validating : TestedFor(val[u].g, val[u].copy)
      /\ \A w \in Busy : TestedFor(flow[w].g, flow[w].mem)
      /\ \A g \in Groups : TestedFor(g, row[g])
  BY DEF IInv, TestedInv, LocksInv
<1>2. val'[v] = s /\ \A u \in Validators \ {v} : val'[u] = val[u]
  BY DEF IInv, TypeOK
<1>3. ASSUME NEW u \in Working' PROVE Deployed(u)'
  <2>1. CASE u = v
    BY <1>1, <1>3, <2>1
  <2>2. CASE u # v
    <3>1. u \in Working /\ val'[u] = val[u]
      BY <1>2, <1>3, <2>2 DEF Working
    <3>2. UNCHANGED <<temp, running>>
      BY <1>1, <2>2, <3>1, WorksAlone
    <3>3. QED
      BY <1>1, <3>1, <3>2 DEF Deployed
  <2>3. QED
    BY <2>1, <2>2
<1>4. ASSUME NEW u \in Validating' PROVE TestedFor(val[u].g, val[u].copy)'
  <2>1. CASE u = v
    BY <1>1, <1>2, <1>4, <2>1 DEF TestedFor, Validating
  <2>2. CASE u # v
    <3>1. u \in Validating /\ val'[u] = val[u]
      BY <1>2, <1>4, <2>2 DEF Validating
    <3>2. QED
      BY <1>1, <3>1 DEF TestedFor
  <2>3. QED
    BY <2>1, <2>2
<1>5. \A w \in Busy' : TestedFor(flow[w].g, flow[w].mem)'
  BY <1>1 DEF TestedFor, Busy
<1>6. \A g \in Groups : TestedFor(g, row[g])'
  BY <1>1 DEF TestedFor
<1>7. QED
  BY <1>3, <1>4, <1>5, <1>6

\* One validation goes on without the lock changing hands.
Goes(v, s) ==
    /\ s \in ValidationState /\ val' = [val EXCEPT ![v] = s] /\ s.pc # "idle" /\ s.lock = val[v].lock
    /\ UNCHANGED <<avars, lock, expired, outlived, locks>>
    /\ tested \subseteq tested' /\ tested' \subseteq Groups
    /\ temp' \subseteq Groups \union {Base} /\ running' \subseteq Groups \union {Base}
    /\ \/ v \in Validating /\ s.g = val[v].g /\ s.copy = val[v].copy /\ s.fresh = val[v].fresh
       \/ row[s.g].active /\ s.g \in Groups /\ s.copy = row[s.g]
    /\ \/ v \in Working /\ s.pc # "lock"
       \/ v \notin Working /\ s.pc = "lock" /\ UNCHANGED <<temp, running>>
    /\ outlived = {} /\ v \in Working' => Deployed(v)'

LEMMA GoesKeeps ==
  ASSUME IInv, NEW v \in Validators, NEW s, Goes(v, s) PROVE IInv'
<1>1. /\ s \in ValidationState /\ val' = [val EXCEPT ![v] = s] /\ s.pc # "idle" /\ s.lock = val[v].lock
      /\ UNCHANGED <<request, row, configs, files, flow, unchecked, interrupted, overtaken>>
      /\ UNCHANGED <<starts, faults>> /\ UNCHANGED <<lock, expired, outlived, locks>>
      /\ tested \subseteq tested' /\ tested' \subseteq Groups
      /\ temp' \subseteq Groups \union {Base} /\ running' \subseteq Groups \union {Base}
  BY DEF Goes, avars, history
<1>2. ValTypeOK /\ ApprovalInv /\ LocksInv
  BY TypeIs DEF IInv, LocksInv
<1>3. ApprovalInv'
  BY <1>1, <1>2, StutterKeeps
<1>4. val'[v] = s /\ (\A u \in Validators \ {v} : val'[u] = val[u]) /\ \A u \in Validating' : ValidatorInv(u)'
  BY <1>1, OneValidates DEF Goes
<1>5. ValTypeOK'
  <2>1. ValidationState' = ValidationState
    BY <1>1 DEF ValidationState
  <2>2. val' \in [Validators -> ValidationState]
    BY <1>1, <1>2 DEF ValTypeOK
  <2>3. QED
    BY <1>1, <1>2, <2>1, <2>2 DEF ValTypeOK
<1>6. LocksInv'
  <2>1. Working' = Working
    BY <1>1, <1>4 DEF Working, Goes
  <2>2. \A u \in Validators : val'[u].lock = val[u].lock
    BY <1>1, <1>4
  <2>3. QED
    BY <1>1, <1>2, <2>1, <2>2, LocksStay
<1>7. TestedInv'
  BY <1>1, OneTested DEF Goes
<1>8. QED
  BY <1>3, <1>4, <1>5, <1>6, <1>7, TypeIs DEF IInv, LocksInv, TypeOK, ValTypeOK, ApprovalInv

LEMMA FetchKeeps ==
  ASSUME IInv, NEW v \in Validators, NEW g \in Groups, Fetch(v, g) PROVE IInv'
<1>1. PICK s : s = [Resting EXCEPT !.pc = "lock", !.g = g, !.copy = row[g]]
  OBVIOUS
<1>2. ValTypeOK /\ ApprovalInv /\ LocksInv /\ row[g] \in Row /\ locks \in Nat
  BY TypeIs DEF IInv, LocksInv, ApprovalInv, ApprovalTypeOK, ValTypeOK
<1>3. s \in ValidationState /\ s.pc = "lock" /\ s.g = g /\ s.copy = row[g] /\ s.lock = 0
  BY <1>1, <1>2, RestingIs DEF ValidationState
<1>4. v \notin Working /\ val[v].lock = 0
  BY <1>2 DEF Fetch, Working, LocksInv, LockInv
<1>5. /\ val' = [val EXCEPT ![v] = s] /\ row[g].active
      /\ UNCHANGED <<avars, lock, expired, outlived, locks, temp, running, tested>>
  BY <1>1 DEF Fetch
<1>6. val'[v] = s
  BY <1>2, <1>5 DEF ValTypeOK
<1>7. v \notin Working'
  BY <1>3, <1>6 DEF Working
<1>8. /\ tested' \subseteq Groups
      /\ temp' \subseteq Groups \union {Base} /\ running' \subseteq Groups \union {Base}
  BY <1>2, <1>5 DEF ValTypeOK
<1>9. Goes(v, s)
  BY <1>3, <1>4, <1>5, <1>7, <1>8 DEF Goes
<1>10. QED
  BY <1>9, GoesKeeps

\* From one step of performAsyncValidation to another.
LEMMA JobKeeps ==
  ASSUME IInv, NEW v \in Working,
         NEW pc \in {"copy existing", "copy request", "restart", "check", "read"},
         NEW checks \in 0 .. MaxHealthChecks, NEW ok \in BOOLEAN,
         val' = [val EXCEPT ![v].pc = pc, ![v].checks = checks, ![v].ok = ok],
         UNCHANGED <<avars, lock, expired, outlived, locks>>,
         tested \subseteq tested', tested' \subseteq Groups,
         temp' \subseteq Groups \union {Base}, running' \subseteq Groups \union {Base},
         outlived = {} => /\ pc = "restart" => val[v].g \in temp'
                          /\ pc = "check" => val[v].g \in running'
                          /\ pc = "read" /\ ok => val[v].g \in tested'
  PROVE  IInv'
<1>1. v \in Validating
  BY DEF Working, Validating
<1>2. val \in [Validators -> ValidationState] /\ val[v] \in ValidationState
  BY <1>1, ValidatingIs DEF IInv, TypeOK
<1>3. PICK s : s = [val[v] EXCEPT !.pc = pc, !.checks = checks, !.ok = ok]
  OBVIOUS
<1>4. /\ s \in ValidationState /\ s.pc = pc /\ s.ok = ok /\ s.g = val[v].g /\ s.copy = val[v].copy
      /\ s.fresh = val[v].fresh /\ s.lock = val[v].lock
  BY <1>2, <1>3 DEF ValidationState
<1>5. val' = [val EXCEPT ![v] = s] /\ val'[v] = s
  BY <1>2, <1>3, <1>1 DEF Validating
<1>6. outlived = {} => Deployed(v)'
  BY <1>4, <1>5 DEF Deployed
<1>7. Goes(v, s)
  BY <1>1, <1>4, <1>5, <1>6 DEF Goes
<1>8. QED
  BY <1>1, <1>7, GoesKeeps DEF Validating

LEMMA DeploysKeep ==
  ASSUME IInv, NEW v \in Validators,
         \/ ClearTemporaryDeployable(v) \/ CopyExistingModels(v) \/ CopyRequestModels(v)
         \/ RestartTemporaryDeployable(v) \/ \E healthy \in BOOLEAN : CheckDeploymentHealth(v, healthy)
  PROVE  IInv'
<1>1. v \in Working /\ v \in Validating
  BY DEF ClearTemporaryDeployable, CopyExistingModels, CopyRequestModels, Deploy,
         RestartTemporaryDeployable, CheckDeploymentHealth, Working, Validating
<1>2. /\ val \in [Validators -> ValidationState] /\ val[v] \in ValidationState /\ val[v].g \in Groups
      /\ val[v].ok \in BOOLEAN /\ val[v].checks \in 0 .. MaxHealthChecks
  BY <1>1, ValidatingIs DEF IInv, TypeOK, ValidationState
<1>3. /\ temp \subseteq Groups \union {Base} /\ running \subseteq Groups \union {Base} /\ tested \subseteq Groups
      /\ outlived = {} => Deployed(v)
  BY <1>1 DEF IInv, TypeOK, TestedInv
<1>4. \A pc : Step(v, pc) => val' = [val EXCEPT ![v].pc = pc, ![v].checks = val[v].checks, ![v].ok = val[v].ok]
  BY <1>2 DEF Step, ValidationState
<1>5. CASE ClearTemporaryDeployable(v)
  <2>1. PICK left \in SUBSET temp : Deploy(v, "clear", "copy existing", left)
    BY <1>5 DEF ClearTemporaryDeployable
  <2>2. QED
    BY <1>1, <1>2, <1>3, <1>4, <2>1, JobKeeps DEF Deploy
<1>6. CASE CopyExistingModels(v)
  BY <1>1, <1>2, <1>3, <1>4, <1>6, JobKeeps DEF CopyExistingModels, Deploy
<1>7. CASE CopyRequestModels(v)
  <2>1. /\ Step(v, "restart") /\ temp' = temp \union {val[v].g}
        /\ UNCHANGED <<avars, lock, expired, outlived, locks, running, tested>>
    BY <1>7 DEF CopyRequestModels, Deploy
  <2>2. temp' \subseteq Groups \union {Base} /\ val[v].g \in temp'
    BY <1>2, <1>3, <2>1
  <2>3. val' = [val EXCEPT ![v].pc = "restart", ![v].checks = val[v].checks, ![v].ok = val[v].ok]
    BY <1>4, <2>1
  <2>4. QED
    BY <1>1, <1>2, <1>3, <2>1, <2>2, <2>3, JobKeeps
<1>8. CASE RestartTemporaryDeployable(v)
  <2>1. outlived = {} => val[v].g \in temp
    BY <1>3, <1>8 DEF RestartTemporaryDeployable, Deployed
  <2>2. QED
    BY <1>1, <1>2, <1>3, <1>4, <1>8, <2>1, JobKeeps DEF RestartTemporaryDeployable
<1>9. ASSUME NEW healthy \in BOOLEAN, CheckDeploymentHealth(v, healthy) PROVE IInv'
  <2>1. PICK pc \in {"read", "check"} :
          pc = IF healthy \/ val[v].checks + 1 = MaxHealthChecks THEN "read" ELSE "check"
    OBVIOUS
  <2>2. PICK checks \in 0 .. MaxHealthChecks : checks = val[v].checks + 1
    <3>1. val[v].checks < MaxHealthChecks /\ MaxHealthChecks \in Nat
      BY <1>9, ValidationAssumption DEF CheckDeploymentHealth
    <3>2. QED
      BY <1>2, <3>1, OneMore
  <2>3. val' = [val EXCEPT ![v].pc = pc, ![v].checks = checks, ![v].ok = healthy]
    <3>1. val' = [val EXCEPT ![v].checks = checks, ![v].ok = healthy, ![v].pc = pc]
      BY <1>9, <2>1, <2>2 DEF CheckDeploymentHealth
    <3>2. \A t \in ValidationState :
            [t EXCEPT !.checks = checks, !.ok = healthy, !.pc = pc] = [t EXCEPT !.pc = pc, !.checks = checks, !.ok = healthy]
      BY DEF ValidationState
    <3>3. [val[v] EXCEPT !.checks = checks, !.ok = healthy, !.pc = pc] = [val[v] EXCEPT !.pc = pc, !.checks = checks, !.ok = healthy]
      BY <1>2, <3>2
    <3>4. QED
      BY <3>1, <3>3
  <2>4. outlived = {} => val[v].g \in running
    BY <1>3, <1>9 DEF CheckDeploymentHealth, Deployed
  <2>5. /\ tested \subseteq tested' /\ tested' \subseteq Groups
        /\ outlived = {} /\ healthy => val[v].g \in tested'
    BY <1>2, <1>3, <1>9, <2>4 DEF CheckDeploymentHealth
  <2>6. UNCHANGED <<avars, lock, expired, outlived, locks, temp, running>>
    BY <1>9 DEF CheckDeploymentHealth
  <2>7. QED
    BY <1>1, <1>3, <2>1, <2>2, <2>3, <2>4, <2>5, <2>6, JobKeeps
<1>10. QED
  BY <1>5, <1>6, <1>7, <1>8, <1>9

\* A validation ends: its result is not written.
LEMMA RestKeeps ==
  ASSUME IInv, NEW v \in Working, val' = [val EXCEPT ![v] = Resting], lock' = ReleaseLock(v),
         UNCHANGED <<request, row, configs, files, flow, unchecked, interrupted, overtaken>>,
         Fault \/ UNCHANGED <<starts, faults>>,
         UNCHANGED <<expired, outlived, locks, temp, running, tested>>
  PROVE  IInv'
<1>1. ValTypeOK /\ ApprovalInv /\ LocksInv /\ locks \in Nat /\ v \in Validators /\ v \in Validating
  BY TypeIs DEF IInv, LocksInv, ValTypeOK, Working, Validating
<1>2. Resting \in ValidationState /\ Resting.pc = "idle" /\ Resting.lock = 0
  BY <1>1, RestingIs
<1>3. ApprovalInv'
  BY <1>1, StutterKeeps
<1>4. val'[v] = Resting /\ (\A u \in Validators \ {v} : val'[u] = val[u]) /\ \A u \in Validating' : ValidatorInv(u)'
  BY <1>1, <1>2, OneValidates
<1>5. ValTypeOK'
  <2>1. ValidationState' = ValidationState
    BY DEF ValidationState
  <2>2. val' \in [Validators -> ValidationState] /\ lock' \in 0 .. locks
    BY <1>1, <1>2 DEF ValTypeOK, ReleaseLock
  <2>3. QED
    BY <1>1, <2>1, <2>2 DEF ValTypeOK
<1>6. LocksInv'
  BY <1>1, <1>2, <1>4, LocksReleased
<1>7. TestedInv'
  <2>1. v \notin Working'
    BY <1>2, <1>4 DEF Working
  <2>2. QED
    BY <1>1, <1>2, <2>1, OneTested
<1>8. QED
  BY <1>3, <1>4, <1>5, <1>6, <1>7, TypeIs DEF IInv, LocksInv, TypeOK, ValTypeOK, ApprovalInv

LEMMA FailJobKeeps ==
  ASSUME IInv, NEW v \in Validators, FailValidationJob(v) PROVE IInv'
<1>1. v \in Working
  BY DEF FailValidationJob, Working
<1>2. QED
  BY <1>1, RestKeeps DEF FailValidationJob

LEMMA ReadKeeps ==
  ASSUME IInv, NEW v \in Validators, ReadForResult(v) PROVE IInv'
<1>1. v \in Working /\ v \in Validating /\ val[v].pc = "read"
  BY DEF ReadForResult, Working, Validating
<1>2. PICK g \in Groups : g = val[v].g
  BY <1>1, ValidatingIs
<1>3. CASE row[g].active
  <2>1. PICK s : s = [val[v] EXCEPT !.pc = "write", !.copy = row[g], !.fresh = TRUE]
    OBVIOUS
  <2>2. row[g] \in Row /\ val[v] \in ValidationState /\ ValTypeOK
    BY <1>1, ValidatingIs, TypeIs DEF IInv, TypeOK, ApprovalTypeOK
  <2>3. /\ s \in ValidationState /\ s.pc = "write" /\ s.g = g /\ s.copy = row[g] /\ s.ok = val[v].ok
        /\ s.lock = val[v].lock
    BY <1>2, <2>1, <2>2 DEF ValidationState
  <2>4. /\ val' = [val EXCEPT ![v] = s]
        /\ UNCHANGED <<avars, lock, expired, outlived, locks, temp, running, tested>>
    BY <1>2, <1>3, <2>1 DEF ReadForResult
  <2>5. outlived = {} => Deployed(v)'
    <3>1. val'[v] = s
      BY <2>2, <2>4 DEF ValTypeOK
    <3>2. outlived = {} /\ val[v].ok => g \in tested
      BY <1>1, <1>2 DEF IInv, TestedInv, Deployed
    <3>3. QED
      BY <2>3, <2>4, <3>1, <3>2 DEF Deployed
  <2>6. /\ tested' \subseteq Groups
        /\ temp' \subseteq Groups \union {Base} /\ running' \subseteq Groups \union {Base}
    BY <2>2, <2>4 DEF ValTypeOK
  <2>7. Goes(v, s)
    BY <1>1, <1>3, <2>3, <2>4, <2>5, <2>6 DEF Goes
  <2>8. QED
    BY <2>7, GoesKeeps
<1>4. CASE ~row[g].active
  BY <1>1, <1>2, <1>4, RestKeeps DEF ReadForResult, avars, history
<1>5. QED
  BY <1>3, <1>4

LEMMA AcquireKeeps ==
  ASSUME IInv, NEW v \in Validators, AcquireLock(v) PROVE IInv'
<1>1. /\ val[v].pc = "lock" /\ v \in Validating /\ v \notin Working
      /\ UNCHANGED <<request, row, configs, files, flow, unchecked, interrupted, overtaken>>
      /\ UNCHANGED <<starts, faults>> /\ UNCHANGED <<expired, outlived, temp, running, tested>>
  BY DEF AcquireLock, Working, Validating, avars, history
<1>2. ValTypeOK /\ ApprovalInv /\ LocksInv /\ locks \in 0 .. MaxLocks /\ val[v] \in ValidationState
  BY <1>1, ValidatingIs, TypeIs DEF IInv, LocksInv, ValTypeOK
<1>3. ApprovalInv'
  BY <1>1, <1>2, StutterKeeps
<1>4. CASE val' = [val EXCEPT ![v] = Resting] /\ UNCHANGED <<lock, locks>>
  <2>1. Resting \in ValidationState /\ Resting.pc = "idle" /\ Resting.lock = 0
    BY <1>2, RestingIs
  <2>2. val'[v] = Resting /\ (\A u \in Validators \ {v} : val'[u] = val[u]) /\ \A u \in Validating' : ValidatorInv(u)'
    BY <1>1, <1>4, <2>1, OneValidates
  <2>3. Working' = Working
    BY <1>1, <2>1, <2>2 DEF Working
  <2>4. ValTypeOK'
    <3>1. ValidationState' = ValidationState
      BY <1>4 DEF ValidationState
    <3>2. val' \in [Validators -> ValidationState]
      BY <1>2, <1>4, <2>1 DEF ValTypeOK
    <3>3. QED
      BY <1>1, <1>2, <1>4, <3>1, <3>2 DEF ValTypeOK
  <2>5. LocksInv'
    <3>1. val[v].lock = 0
      BY <1>1, <1>2 DEF LocksInv, LockInv
    <3>2. \A u \in Validators : val'[u].lock = val[u].lock
      BY <2>1, <2>2, <3>1
    <3>3. QED
      BY <1>1, <1>2, <1>4, <2>3, <3>2, LocksStay
  <2>6. TestedInv'
    BY <1>1, <1>4, <2>1, <2>3, OneTested
  <2>7. QED
    BY <1>3, <2>2, <2>4, <2>5, <2>6, TypeIs DEF IInv, LocksInv, TypeOK, ValTypeOK, ApprovalInv
<1>5. CASE /\ lock = 0 \/ lock \in expired
           /\ locks < MaxLocks /\ locks' = locks + 1 /\ lock' = locks'
           /\ val' = [val EXCEPT ![v].pc = "clear", ![v].lock = locks']
  <2>1. PICK n : n = locks + 1 /\ n = locks' /\ n = lock'
    BY <1>5
  <2>2. n \in 0 .. MaxLocks /\ n \in Nat /\ n \notin 0 .. locks /\ locks <= n /\ locks \in Nat /\ n \in 1 .. n
    BY <1>2, <1>5, <2>1, ValidationAssumption
  <2>3. PICK s : s = [val[v] EXCEPT !.pc = "clear", !.lock = n]
    OBVIOUS
  <2>4. \A t \in ValidationState : t \in ValidationState'
    BY <2>1, <2>2, StatesGrow
  <2>5. s \in ValidationState'
    <3>1. n \in 0 .. locks'
      BY <2>1, <2>2
    <3>2. PICK t \in ValidationState' : t = val[v]
      BY <1>2, <2>4
    <3>3. s = [t EXCEPT !.pc = "clear", !.lock = n]
      BY <2>3, <3>2
    <3>4. QED
      BY <3>1, <3>3 DEF ValidationState
  <2>6. s.pc = "clear" /\ s.lock = n /\ s.g = val[v].g /\ s.copy = val[v].copy /\ s.fresh = val[v].fresh
    BY <1>2, <2>3 DEF ValidationState
  <2>7. val' = [val EXCEPT ![v] = s]
    BY <1>5, <2>1, <2>3
  <2>8. val'[v] = s /\ (\A u \in Validators \ {v} : val'[u] = val[u]) /\ \A u \in Validating' : ValidatorInv(u)'
    BY <1>1, <2>6, <2>7, OneValidates
  <2>9. Working' = Working \union {v}
    BY <2>6, <2>8 DEF Working
  <2>10. ValTypeOK'
    <3>1. val' \in [Validators -> ValidationState']
      BY <1>2, <2>4, <2>5, <2>7 DEF ValTypeOK
    <3>2. expired \subseteq 1 .. locks' /\ lock' \in 0 .. locks'
      BY <1>2, <2>1, <2>2 DEF ValTypeOK
    <3>3. QED
      BY <1>1, <1>2, <2>1, <2>2, <3>1, <3>2 DEF ValTypeOK
  <2>11. LocksInv'
    <3>1. n \notin expired /\ n \notin 1 .. locks
      BY <1>2, <2>2 DEF ValTypeOK
    <3>2. \A u \in Working : u \in Validators /\ u # v /\ val'[u] = val[u] /\ val[u].lock \in 1 .. locks
      BY <1>1, <1>2, <2>8 DEF LocksInv, LockInv, Working
    <3>3. ASSUME NEW u \in Working' PROVE val'[u].lock \in 1 .. n /\ (val'[u].lock \in expired => val'[u].lock \in outlived)
      <4>1. CASE u = v
        BY <2>2, <2>6, <2>8, <3>1, <4>1
      <4>2. CASE u \in Working
        <5>1. 1 .. locks \subseteq 1 .. n
          BY <2>2
        <5>2. QED
          BY <1>2, <3>2, <4>2, <5>1 DEF LocksInv, LockInv
      <4>3. QED
        BY <2>9, <3>3, <4>1, <4>2
    <3>4. ASSUME NEW t \in Working', NEW u \in Working', val'[t].lock = val'[u].lock PROVE t = u
      <4>1. CASE t \in Working /\ u \in Working
        BY <1>2, <3>2, <3>4, <4>1 DEF LocksInv, LockInv
      <4>2. CASE t = v
        BY <2>6, <2>8, <2>9, <3>1, <3>2, <3>4, <4>2
      <4>3. CASE u = v
        BY <2>6, <2>8, <2>9, <3>1, <3>2, <3>4, <4>3
      <4>4. QED
        BY <2>9, <3>4, <4>1, <4>2, <4>3
    <3>5. \A u \in Validators \ Working' : val'[u].lock = 0
      BY <1>2, <2>8, <2>9 DEF LocksInv, LockInv
    <3>6. LockInv'
      BY <1>1, <2>1, <3>3, <3>4, <3>5 DEF LockInv
    <3>7. ASSUME NEW u \in Working', val'[u].lock \notin expired PROVE lock' = val'[u].lock
      <4>1. CASE u = v
        BY <2>1, <2>6, <2>8, <4>1
      <4>2. CASE u \in Working
        <5>1. lock = val[u].lock /\ lock \notin expired /\ lock \in 1 .. locks
          BY <1>2, <3>2, <3>7, <4>2 DEF LocksInv, LockOfWorkerStands
        <5>2. lock # 0
          BY <2>2, <5>1
        <5>3. QED
          BY <1>5, <5>1, <5>2
      <4>3. QED
        BY <2>9, <3>7, <4>1, <4>2
    <3>8. LockOfWorkerStands'
      BY <1>1, <3>7 DEF LockOfWorkerStands
    <3>9. QED
      BY <3>6, <3>8 DEF LocksInv
  <2>12. TestedInv'
    <3>1. Deployed(v)'
      BY <2>6, <2>8 DEF Deployed
    <3>2. QED
      BY <1>1, <2>6, <2>7, <3>1, OneTested
  <2>13. QED
    BY <1>3, <2>8, <2>10, <2>11, <2>12, TypeIs DEF IInv, LocksInv, TypeOK, ValTypeOK, ApprovalInv
<1>6. QED
  BY <1>4, <1>5 DEF AcquireLock

LEMMA CleanupKeeps ==
  ASSUME IInv, CleanupExpiredLocks PROVE IInv'
<1>1. /\ lock \in expired /\ lock' = 0 /\ val' = val
      /\ UNCHANGED <<request, row, configs, files, flow, unchecked, interrupted, overtaken>>
      /\ UNCHANGED <<starts, faults>> /\ UNCHANGED <<expired, outlived, locks, temp, running, tested>>
  BY DEF CleanupExpiredLocks, avars, history
<1>2. ValTypeOK /\ ApprovalInv /\ LocksInv
  BY TypeIs DEF IInv, LocksInv
<1>3. ApprovalInv'
  BY <1>1, <1>2, StutterKeeps
<1>4. ValTypeOK'
  <2>1. ValidationState' = ValidationState
    BY <1>1 DEF ValidationState
  <2>2. 0 \in 0 .. locks
    BY <1>2 DEF ValTypeOK
  <2>3. QED
    BY <1>1, <1>2, <2>1, <2>2 DEF ValTypeOK
<1>5. Working' = Working /\ Validating' = Validating /\ Busy' = Busy
  BY <1>1 DEF Working, Validating, Busy
<1>6. LocksInv'
  BY <1>1, <1>2, <1>5 DEF LocksInv, LockInv, LockOfWorkerStands
<1>7. ASSUME NEW u \in Validating PROVE ValidatorInv(u)'
  BY <1>1, <1>2, <1>7, ConfigsSame, ValidatorStays DEF ApprovalInv
<1>8. TestedInv'
  BY <1>1, <1>5 DEF IInv, TestedInv, Deployed, TestedFor
<1>9. QED
  BY <1>3, <1>4, <1>5, <1>6, <1>7, <1>8, TypeIs DEF IInv, LocksInv, TypeOK, ValTypeOK, ApprovalInv

LEMMA ExpireKeeps ==
  ASSUME IInv, Expire PROVE IInv'
<1>1. /\ lock # 0 /\ lock \notin expired /\ val' = val
      /\ expired' = expired \union {lock}
      /\ outlived' = IF \E v \in Validating : val[v].lock = lock THEN outlived \union {lock} ELSE outlived
      /\ UNCHANGED <<request, row, configs, files, flow, unchecked, interrupted, overtaken>>
      /\ UNCHANGED <<starts, faults>> /\ UNCHANGED <<lock, locks, temp, running, tested>>
  BY DEF Expire, avars, history
<1>2. ValTypeOK /\ ApprovalInv /\ LocksInv
  BY TypeIs DEF IInv, LocksInv
<1>3. ApprovalInv'
  BY <1>1, <1>2, StutterKeeps
<1>4. ValTypeOK'
  <2>1. ValidationState' = ValidationState
    BY <1>1 DEF ValidationState
  <2>2. lock \in 1 .. locks
    BY <1>1, <1>2 DEF ValTypeOK
  <2>3. QED
    BY <1>1, <1>2, <2>1, <2>2 DEF ValTypeOK
<1>5. Working' = Working /\ Validating' = Validating /\ Busy' = Busy /\ Working \subseteq Validating
  BY <1>1 DEF Working, Validating, Busy
<1>6. LocksInv'
  BY <1>1, <1>2, <1>5 DEF LocksInv, LockInv, LockOfWorkerStands
<1>7. ASSUME NEW u \in Validating PROVE ValidatorInv(u)'
  BY <1>1, <1>2, <1>7, ConfigsSame, ValidatorStays DEF ApprovalInv
<1>8. TestedInv'
  <2>1. outlived' = {} => outlived = {}
    BY <1>1
  <2>2. QED
    BY <1>1, <1>5, <2>1 DEF IInv, TestedInv, Deployed, TestedFor
<1>9. QED
  BY <1>3, <1>4, <1>5, <1>6, <1>7, <1>8, TypeIs DEF IInv, LocksInv, TypeOK, ValTypeOK, ApprovalInv

LEMMA CrashAllKeeps ==
  ASSUME IInv, Crash PROVE IInv'
<1>1. /\ CrashFlows /\ val' = [v \in Validators |-> Resting] /\ row' = row /\ request' = request
      /\ flow' = [w \in Workers |-> Idle]
      /\ UNCHANGED <<lock, expired, outlived, locks, temp, running, tested>>
  BY DEF Crash, CrashFlows
<1>2. ValTypeOK /\ ApprovalInv /\ LocksInv /\ locks \in Nat
  BY TypeIs DEF IInv, LocksInv, ValTypeOK
<1>3. ApprovalInv'
  BY <1>1, <1>2, CrashKeeps
<1>4. Working' = {} /\ Validating' = {} /\ Busy' = {} /\ \A v \in Validators : val'[v].lock = 0
  BY <1>1, <1>2, RestingIs, ConstantsAre DEF Working, Validating, Busy
<1>5. ValTypeOK'
  <2>1. ValidationState' = ValidationState
    BY <1>1 DEF ValidationState
  <2>2. QED
    BY <1>1, <1>2, <2>1, RestingIs DEF ValTypeOK
<1>6. LocksInv'
  BY <1>4 DEF LocksInv, LockInv, LockOfWorkerStands
<1>7. TestedInv'
  BY <1>1, <1>4 DEF IInv, TestedInv, TestedFor
<1>8. QED
  BY <1>3, <1>4, <1>5, <1>6, <1>7, TypeIs DEF IInv, LocksInv, TypeOK, ValTypeOK, ApprovalInv

\* The copies of the approvals and the rows hold no validity that was not there.
LEMMA ApprovalRows ==
  ASSUME IInv, tested' = tested, outlived = {}, RequestStep \/ \E w \in Workers : FlowStep(w)
  PROVE  /\ \A w \in Busy' : TestedFor(flow[w].g, flow[w].mem)'
         /\ \A g \in Groups : TestedFor(g, row[g])'
<1>1. /\ ApprovalInv /\ row \in [Groups -> Row] /\ flow \in [Workers -> FlowState] /\ Busy \subseteq Workers
      /\ request \in [Groups -> [type : Types \union {"none"}, models : SUBSET Models, ids : SUBSET DOMAIN configs]]
      /\ \A w \in Busy : TestedFor(flow[w].g, flow[w].mem)
      /\ \A g \in Groups : TestedFor(g, row[g])
      /\ \A w \in Busy : flow[w].g \in Groups /\ request[flow[w].g] # NoRequest
  BY DEF IInv, TestedInv, ApprovalInv, ApprovalTypeOK, Busy, FlowInv, Fits
<1>2. ASSUME NEW g \in Groups, NEW type, NEW models, NEW ids, Submit(g, type, models, ids)
      PROVE  /\ \A w \in Busy' : TestedFor(flow[w].g, flow[w].mem)'
             /\ \A h \in Groups : TestedFor(h, row[h])'
  <2>1. /\ request[g] = NoRequest /\ flow' = flow
        /\ request' = [request EXCEPT ![g] = [type |-> type, models |-> models, ids |-> ids]]
        /\ row' = [row EXCEPT ![g] = [status |-> "Pending Approval", stage |-> "Pending",
                                      active |-> TRUE, valid |-> type = "Delete"]]
    BY <1>2 DEF Submit
  <2>2. request'[g].type = type /\ row'[g].valid = (type = "Delete")
    BY <1>1, <2>1
  <2>3. \A h \in Groups \ {g} : request'[h] = request[h] /\ row'[h] = row[h]
    BY <1>1, <2>1
  <2>4. Busy' = Busy
    BY <2>1 DEF Busy
  <2>5. QED
    BY <1>1, <2>1, <2>2, <2>3, <2>4 DEF TestedFor
<1>3. ASSUME NEW w \in Workers, NEW g \in Groups, Approve(w, g) \/ Reject(w, g)
      PROVE  /\ \A v \in Busy' : TestedFor(flow[v].g, flow[v].mem)'
             /\ \A h \in Groups : TestedFor(h, row[h])'
  <2>1. PICK pc : StartFlow(w, g, pc)
    BY <1>3 DEF Approve, Reject
  <2>2. PICK s : s = [pc |-> pc, g |-> g, mem |-> row[g], todo |-> request[g].models, moved |-> {}, fresh |-> TRUE]
    OBVIOUS
  <2>3. flow' = [flow EXCEPT ![w] = s] /\ request' = request /\ row' = row
    BY <2>1, <2>2 DEF StartFlow
  <2>4. flow'[w].g = g /\ flow'[w].mem = row[g] /\ \A v \in Workers \ {w} : flow'[v] = flow[v]
    BY <1>1, <2>2, <2>3
  <2>5. \A v \in Busy' : v = w \/ (v \in Busy /\ v # w)
    BY <2>4 DEF Busy
  <2>6. QED
    BY <1>1, <2>3, <2>4, <2>5 DEF TestedFor
<1>4. ASSUME NEW w \in Workers, FlowStep(w)
      PROVE  /\ \A v \in Busy' : TestedFor(flow[v].g, flow[v].mem)'
             /\ \A h \in Groups : TestedFor(h, row[h])'
  <2>1. w \in Busy /\ RowsStay(w)
    BY <1>1, <1>4, FlowStepKeeps, FlowRows
  <2>2. request' = request /\ CopiesStay
    BY <2>1 DEF RowsStay
  <2>3. \A v \in Busy' : TestedFor(flow[v].g, flow[v].mem)'
    BY <1>1, <2>2 DEF CopiesStay, TestedFor
  <2>4. CASE row' = row
    BY <1>1, <2>2, <2>3, <2>4 DEF TestedFor
  <2>5. ASSUME NEW r \in Row, WritesRow(w, r) PROVE \A h \in Groups : TestedFor(h, row[h])'
    <3>1. PICK g \in Groups : g = flow[w].g
      BY <1>1, <2>1
    <3>2. row'[g] = r /\ \A h \in Groups \ {g} : row'[h] = row[h]
      BY <1>1, <2>5, <3>1 DEF WritesRow
    <3>3. r.valid => row[g].valid \/ flow[w].mem.valid
      BY <2>5, <3>1 DEF WritesRow
    <3>4. TestedFor(g, row[g]) /\ TestedFor(g, flow[w].mem)
      BY <1>1, <2>1, <3>1
    <3>5. QED
      BY <1>1, <2>2, <3>1, <3>2, <3>3, <3>4 DEF TestedFor
  <2>6. QED
    BY <2>1, <2>3, <2>4, <2>5 DEF RowsStay
<1>5. QED
  BY <1>2, <1>3, <1>4 DEF RequestStep, HandleModelRequest, HandleEditModel, HandleDeleteModel

LEMMA ApprovalStepKeeps ==
  ASSUME IInv, ApprovalStep PROVE IInv'
<1>1. /\ RequestStep \/ \E w \in Workers : FlowStep(w)
      /\ val' = Aged /\ UNCHANGED <<lock, expired, outlived, locks, temp, running, tested>>
  BY DEF ApprovalStep
<1>2. ValTypeOK /\ ApprovalInv /\ LocksInv
  BY TypeIs DEF IInv, LocksInv
<1>3. ApprovalInv'
  BY <1>1, <1>2, HandlersKeep, ApprovalsKeep, FlowStepKeeps DEF RequestStep
<1>4. ConfigsStay /\ \A g \in Groups : request[g] # NoRequest => request'[g] = request[g]
  <2>1. ASSUME NEW h \in Groups, NEW type, NEW models, NEW ids, Submit(h, type, models, ids)
        PROVE  configs' = configs /\ \A g \in Groups : request[g] # NoRequest => request'[g] = request[g]
    BY <1>2, <2>1 DEF Submit, ApprovalInv, ApprovalTypeOK
  <2>2. ASSUME NEW w \in Workers, NEW h \in Groups, Approve(w, h) \/ Reject(w, h)
        PROVE  configs' = configs /\ request' = request
    BY <2>2 DEF Approve, Reject, StartFlow
  <2>3. RequestStep => configs' = configs /\ \A g \in Groups : request[g] # NoRequest => request'[g] = request[g]
    BY <2>1, <2>2 DEF RequestStep, HandleModelRequest, HandleEditModel, HandleDeleteModel
  <2>4. ASSUME NEW w \in Workers, FlowStep(w) PROVE ConfigsStay /\ request' = request
    BY <1>2, <2>4, FlowStepKeeps, FlowRows DEF RowsStay
  <2>5. QED
    BY <1>1, <1>2, <2>3, <2>4, ConfigsSame DEF ApprovalInv
<1>5. /\ val' \in [Validators -> ValidationState]
      /\ \A v \in Validators : Kept(v) /\ (v \in Validating /\ val'[v].fresh => val[v].fresh /\ row'[val[v].g] = row[val[v].g])
  BY <1>1, <1>2, AgedIs DEF Kept
<1>6. ValTypeOK'
  <2>1. ValidationState' = ValidationState
    BY <1>1 DEF ValidationState
  <2>2. QED
    BY <1>1, <1>2, <1>5, <2>1 DEF ValTypeOK
<1>7. Working' = Working /\ Validating' = Validating
  BY <1>5 DEF Working, Validating, Kept
<1>8. LocksInv'
  BY <1>1, <1>2, <1>5, <1>7, LocksStay DEF Kept
<1>9. ASSUME NEW v \in Validating PROVE ValidatorInv(v)'
  <2>1. v \in Validators /\ val[v].g \in Groups /\ request[val[v].g] # NoRequest
    BY ValidatingIs DEF ValidatorInv
  <2>2. QED
    BY <1>4, <1>5, <2>1, ValidatorStays DEF Kept
<1>10. TestedInv'
  <2>1. SUFFICES ASSUME outlived' = {}
                 PROVE  /\ \A u \in Working' : Deployed(u)'
                        /\ \A u \in Validating' : TestedFor(val[u].g, val[u].copy)'
                        /\ \A w \in Busy' : TestedFor(flow[w].g, flow[w].mem)'
                        /\ \A g \in Groups : TestedFor(g, row[g])'
    BY DEF TestedInv
  <2>2. /\ outlived = {} /\ \A u \in Working : Deployed(u)
        /\ \A u \in Validating : TestedFor(val[u].g, val[u].copy)
    BY <1>1, <2>1 DEF IInv, TestedInv
  <2>3. \A u \in Working' : Deployed(u)'
    BY <1>1, <1>5, <1>7, <2>2 DEF Deployed, Kept, Working
  <2>4. ASSUME NEW u \in Validating PROVE TestedFor(val[u].g, val[u].copy)'
    <3>1. u \in Validators /\ val[u].g \in Groups /\ request[val[u].g] # NoRequest
      BY ValidatingIs DEF ValidatorInv
    <3>2. request'[val[u].g] = request[val[u].g] /\ val'[u].g = val[u].g /\ val'[u].copy = val[u].copy
      BY <1>4, <1>5, <3>1 DEF Kept
    <3>3. QED
      BY <1>1, <2>2, <3>2 DEF TestedFor
  <2>5. QED
    BY <1>1, <1>7, <2>2, <2>3, <2>4, ApprovalRows
<1>11. QED
  BY <1>3, <1>6, <1>7, <1>8, <1>9, <1>10, TypeIs DEF IInv, LocksInv, TypeOK, ValTypeOK, ApprovalInv

LEMMA WriteResultKeeps ==
  ASSUME IInv, NEW v \in Validators, WriteResult(v) PROVE IInv'
<1>1. v \in Working /\ v \in Validating
  BY DEF WriteResult, Working, Validating
<1>2. PICK g \in Groups, c \in Row, ok \in BOOLEAN : g = val[v].g /\ c = val[v].copy /\ ok = val[v].ok
  BY <1>1, ValidatingIs
<1>3. PICK r : r = Result(c, ok)
  OBVIOUS
<1>4. ValTypeOK /\ ApprovalInv /\ LocksInv /\ locks \in Nat
  BY TypeIs DEF IInv, LocksInv, ValTypeOK
<1>5. /\ WriteRow(g, r) /\ overtaken' = (IF val[v].fresh THEN overtaken ELSE overtaken \union {g})
      /\ lock' = ReleaseLock(v) /\ val' = [Aged EXCEPT ![v] = Resting] /\ val[v].pc = "write"
      /\ UNCHANGED <<request, configs, files, starts, faults, unchecked, interrupted>>
      /\ UNCHANGED <<expired, outlived, locks, temp, running, tested>>
  BY <1>2, <1>3 DEF WriteResult
<1>6. /\ CopyInv(g, c) /\ request[g] # NoRequest
      /\ val[v].fresh => row[g].status \notin Terminal
  BY <1>1, <1>2, ValidatingIs DEF ValidatorInv
<1>7. r \in Row /\ CopyInv(g, r)
  BY <1>2, <1>3, <1>6, ResultIs
<1>8. ApprovalInv'
  BY <1>4, <1>5, <1>6, <1>7, WriteRowKeeps
<1>9. ConfigsStay /\ row' = [row EXCEPT ![g] = r] /\ row \in [Groups -> Row]
  BY <1>4, <1>5, ConfigsSame DEF ApprovalInv, ApprovalTypeOK, WriteRow
<1>10. Resting \in ValidationState /\ Resting.pc = "idle" /\ Resting.lock = 0
  BY <1>4, RestingIs
<1>11. /\ val' \in [Validators -> ValidationState] /\ val'[v] = Resting
       /\ \A u \in Validators \ {v} :
            Kept(u) /\ (u \in Validating /\ val'[u].fresh => val[u].fresh /\ row'[val[u].g] = row[val[u].g])
  <2>1. PICK a : a = Aged
    OBVIOUS
  <2>2. /\ a \in [Validators -> ValidationState] /\ val' = [a EXCEPT ![v] = Resting]
        /\ \A u \in Validators :
              /\ a[u].pc = val[u].pc /\ a[u].g = val[u].g /\ a[u].copy = val[u].copy
              /\ a[u].lock = val[u].lock /\ a[u].ok = val[u].ok
              /\ u \in Validating /\ a[u].fresh => val[u].fresh /\ row'[val[u].g] = row[val[u].g]
    BY <1>4, <1>5, <2>1, AgedIs
  <2>3. val'[v] = Resting /\ val' \in [Validators -> ValidationState] /\ \A u \in Validators \ {v} : val'[u] = a[u]
    BY <1>10, <2>2
  <2>4. QED
    BY <2>2, <2>3 DEF Kept
<1>12. ValTypeOK'
  <2>1. ValidationState' = ValidationState
    BY <1>5 DEF ValidationState
  <2>2. lock' \in 0 .. locks
    BY <1>4, <1>5 DEF ValTypeOK, ReleaseLock
  <2>3. QED
    BY <1>4, <1>5, <1>11, <2>1, <2>2 DEF ValTypeOK
<1>13. LocksInv'
  BY <1>1, <1>4, <1>5, <1>10, <1>11, LocksReleased DEF Kept, Validating
<1>14. Validating' = Validating \ {v} /\ Working' = Working \ {v}
  BY <1>10, <1>11 DEF Validating, Working, Kept
<1>15. ASSUME NEW u \in Validating' PROVE ValidatorInv(u)'
  <2>1. u \in Validating /\ u \in Validators \ {v} /\ val[u].g \in Groups
    BY <1>14, ValidatingIs DEF Validating
  <2>2. request'[val[u].g] = request[val[u].g]
    BY <1>5
  <2>3. QED
    BY <1>9, <1>11, <2>1, <2>2, ValidatorStays DEF Kept
<1>16. TestedInv'
  <2>1. SUFFICES ASSUME outlived = {}
                 PROVE  /\ \A u \in Working' : Deployed(u)'
                        /\ \A u \in Validating' : TestedFor(val[u].g, val[u].copy)'
                        /\ \A w \in Busy' : TestedFor(flow[w].g, flow[w].mem)'
                        /\ \A h \in Groups : TestedFor(h, row[h])'
    BY <1>5 DEF TestedInv
  <2>2. /\ \A u \in Working : Deployed(u)
        /\ \A u \in Validating : TestedFor(val[u].g, val[u].copy)
        /\ \A w \in Busy : TestedFor(flow[w].g, flow[w].mem)
        /\ \A h \in Groups : TestedFor(h, row[h])
    BY <2>1 DEF IInv, TestedInv
  <2>3. \A u \in Working' : Deployed(u)'
    BY <1>5, <1>11, <1>14, <2>2 DEF Deployed, Kept, Working
  <2>4. \A u \in Validating' : TestedFor(val[u].g, val[u].copy)'
    BY <1>5, <1>11, <1>14, <2>2 DEF TestedFor, Kept, Validating
  <2>5. \A w \in Busy' : TestedFor(flow[w].g, flow[w].mem)'
    <3>1. \A f \in FlowState : /\ [f EXCEPT !.fresh = FALSE].pc = f.pc /\ [f EXCEPT !.fresh = FALSE].g = f.g
                               /\ [f EXCEPT !.fresh = FALSE].mem = f.mem
      BY DEF FlowState
    <3>2. \A w \in Workers : flow'[w].pc = flow[w].pc /\ flow'[w].g = flow[w].g /\ flow'[w].mem = flow[w].mem
      BY <1>4, <1>5, <3>1 DEF WriteRow, ApprovalInv, ApprovalTypeOK
    <3>3. QED
      BY <1>5, <2>2, <3>2 DEF TestedFor, Busy
  <2>6. TestedFor(g, row[g])'
    <3>1. row'[g] = r /\ r.valid = ok
      BY <1>2, <1>3, <1>9 DEF Result, Row
    <3>2. ok => g \in tested
      BY <1>1, <1>2, <1>5, <2>2 DEF Deployed
    <3>3. QED
      BY <1>5, <3>1, <3>2 DEF TestedFor
  <2>7. \A h \in Groups \ {g} : TestedFor(h, row[h])'
    BY <1>5, <1>9, <2>2 DEF TestedFor
  <2>8. QED
    BY <2>3, <2>4, <2>5, <2>6, <2>7
<1>17. QED
  BY <1>8, <1>12, <1>13, <1>15, <1>16, TypeIs DEF IInv, LocksInv, TypeOK, ValTypeOK, ApprovalInv

LEMMA UnchangedKeeps ==
  ASSUME IInv, UNCHANGED vars PROVE IInv'
<1>1. /\ UNCHANGED <<request, row, configs, files, flow, unchecked, interrupted, overtaken>>
      /\ UNCHANGED <<starts, faults>>
      /\ UNCHANGED <<lock, expired, outlived, locks, val, temp, running, tested>>
  BY DEF vars, avars, vvars, history
<1>2. ValTypeOK /\ ApprovalInv /\ LocksInv
  BY TypeIs DEF IInv, LocksInv
<1>3. ApprovalInv'
  BY <1>1, <1>2, StutterKeeps
<1>4. ValTypeOK' /\ Working' = Working /\ Validating' = Validating /\ Busy' = Busy
  <2>1. ValidationState' = ValidationState
    BY <1>1 DEF ValidationState
  <2>2. QED
    BY <1>1, <1>2, <2>1 DEF ValTypeOK, Working, Validating, Busy
<1>5. LocksInv'
  BY <1>1, <1>2, <1>4, LocksStay
<1>6. ASSUME NEW u \in Validating PROVE ValidatorInv(u)'
  BY <1>1, <1>2, <1>6, ConfigsSame, ValidatorStays DEF ApprovalInv
<1>7. TestedInv'
  BY <1>1, <1>4 DEF IInv, TestedInv, Deployed, TestedFor
<1>8. QED
  BY <1>3, <1>4, <1>5, <1>6, <1>7, TypeIs DEF IInv, LocksInv, TypeOK, ValTypeOK, ApprovalInv

LEMMA ValidationStarts == VInit => IInv
<1> SUFFICES ASSUME VInit PROVE IInv
  OBVIOUS
<1>1. ApprovalInv /\ Init
  BY InitIs DEF VInit
<1>2. /\ lock = 0 /\ locks = 0 /\ expired = {} /\ outlived = {} /\ temp = {} /\ running = {} /\ tested = {}
      /\ val = [v \in Validators |-> Resting] /\ Resting \in ValidationState /\ Resting.pc = "idle"
      /\ Resting.lock = 0
  BY RestingIs DEF VInit
<1>3. Validating = {} /\ Working = {} /\ Busy = {} /\ \A g \in Groups : ~row[g].valid
  BY <1>1, <1>2, ConstantsAre DEF Validating, Working, Busy, Init, NoRow
<1>4. ValTypeOK
  BY <1>2, ValidationAssumption DEF ValTypeOK
<1>5. LockInv /\ LockOfWorkerStands /\ TestedInv
  BY <1>2, <1>3 DEF LockInv, LockOfWorkerStands, TestedInv, TestedFor
<1>6. QED
  BY <1>1, <1>3, <1>4, <1>5, TypeIs DEF IInv, ApprovalInv

LEMMA NextKeeps ==
  ASSUME IInv, [Next]_vars PROVE IInv'
<1>1. CASE ApprovalStep
  BY <1>1, ApprovalStepKeeps
<1>2. ASSUME NEW v \in Validators, NEW g \in Groups, Fetch(v, g) PROVE IInv'
  BY <1>2, FetchKeeps
<1>3. ASSUME NEW v \in Validators,
             \/ AcquireLock(v) \/ FailValidationJob(v) \/ ReadForResult(v) \/ WriteResult(v)
      PROVE  IInv'
  BY <1>3, AcquireKeeps, FailJobKeeps, ReadKeeps, WriteResultKeeps
<1>4. ASSUME NEW v \in Validators,
             \/ ClearTemporaryDeployable(v) \/ CopyExistingModels(v) \/ CopyRequestModels(v)
             \/ RestartTemporaryDeployable(v) \/ \E healthy \in BOOLEAN : CheckDeploymentHealth(v, healthy)
      PROVE  IInv'
  BY <1>4, DeploysKeep
<1>5. CASE CleanupExpiredLocks \/ Expire \/ Crash
  BY <1>5, CleanupKeeps, ExpireKeeps, CrashAllKeeps
<1>6. CASE UNCHANGED vars
  BY <1>6, UnchangedKeeps
<1>7. QED
  BY <1>1, <1>2, <1>3, <1>4, <1>5, <1>6 DEF Next

-----------------------------------------------------------------------------
(* Theorems about the validations beside the approvals.                     *)

\* The inductive invariant of both.
THEOREM Invariant == Spec => []IInv
<1>1. VInit => IInv
  BY ValidationStarts
<1>2. IInv /\ [Next]_vars => IInv'
  BY NextKeeps
<1>3. QED
  BY <1>1, <1>2, PTL DEF Spec

\* The state has its type.
THEOREM TypeCorrect == Spec => []TypeOK
<1>1. IInv => TypeOK
  BY DEF IInv
<1>2. QED
  BY <1>1, Invariant, PTL

\* However many validations, locks and crashes: the lock row is that of the
\* validation at work until its thirty minutes are over.
THEOREM LocksOfWorkersStand == Spec => []LockOfWorkerStands
<1>1. IInv => LockOfWorkerStands
  BY DEF IInv
<1>2. QED
  BY <1>1, Invariant, PTL

\* No row of a created or edited model is valid, through every copy that is
\* read and written back, unless its models were found healthy in the test
\* deployable or a lock expired under its validation.
THEOREM ValidRowsWereTested == Spec => []ValidWasTested
<1>1. IInv => ValidWasTested
  BY DEF IInv, TestedInv, TestedFor, ValidWasTested
<1>2. QED
  BY <1>1, Invariant, PTL

\* With the steps of the validations between those of the approvals, too, a
\* model has one config and the outcome of a request is true.
THEOREM OutcomesBesideValidations == Spec => [](OneConfigPerModel /\ OutcomeIsTrue)
<1>1. IInv => OneConfigPerModel /\ OutcomeIsTrue
  BY OutcomesFollow DEF IInv, ApprovalInv
<1>2. QED
  BY <1>1, Invariant, PTL

\* A validation whose copy is not out of date does not write the row of a
\* request that has ended.
THEOREM EndedRequestsStayBesideValidations == Spec => TerminalIsFinal
<1>1. ASSUME IInv, [Next]_vars
      PROVE  [\A g \in Groups : row[g].status \in Terminal => row'[g] = row[g] \/ g \in overtaken']_avars
  <2>1. SUFFICES ASSUME Next, NEW g \in Groups, row[g].status \in Terminal, avars' # avars
                 PROVE  row'[g] = row[g] \/ g \in overtaken'
    BY <1>1 DEF vars
  <2>2. ApprovalInv /\ row \in [Groups -> Row]
    BY <1>1 DEF IInv, ApprovalInv, ApprovalTypeOK
  <2>3. CASE RequestStep
    BY <2>1, <2>2, <2>3, RequestIsFinal
  <2>4. ASSUME NEW w \in Workers, FlowStep(w) PROVE row'[g] = row[g] \/ g \in overtaken'
    BY <2>1, <2>2, <2>4, FlowStepKeeps, FlowRows, FlowIsFinal
  <2>5. ASSUME NEW v \in Validators, WriteResult(v) PROVE row'[g] = row[g] \/ g \in overtaken'
    <3>1. v \in Validating
      BY <2>5 DEF WriteResult, Validating
    <3>2. PICK h \in Groups : h = val[v].g
      BY <3>1, <1>1, ValidatingIs
    <3>3. /\ row' = [row EXCEPT ![h] = Result(val[v].copy, val[v].ok)]
          /\ overtaken' = (IF val[v].fresh THEN overtaken ELSE overtaken \union {h})
      BY <2>5, <3>2 DEF WriteResult, WriteRow
    <3>4. val[v].fresh => row[h].status \notin Terminal
      BY <1>1, <3>1, <3>2, ValidatingIs DEF ValidatorInv
    <3>5. QED
      BY <2>1, <2>2, <3>3, <3>4
  <2>6. ASSUME NEW v \in Validators, FailValidationJob(v) PROVE row' = row
    BY <2>6 DEF FailValidationJob
  <2>7. CASE Crash
    BY <2>7 DEF Crash, CrashFlows
  <2>8. QED
    BY <2>1, <2>3, <2>4, <2>5, <2>6, <2>7
       DEF Next, ApprovalStep, Fetch, AcquireLock, ClearTemporaryDeployable, CopyExistingModels,
           CopyRequestModels, Deploy, RestartTemporaryDeployable, CheckDeploymentHealth, ReadForResult,
           CleanupExpiredLocks, Expire
<1>2. QED
  BY <1>1, Invariant, PTL DEF Spec, TerminalIsFinal
=============================================================================
