----------------------- MODULE HorizonWorkflowProofs -----------------------
(***************************************************************************)
(* Theorems about HorizonWorkflow, for every set of workflows and workers, *)
(* every capacity of the queue and every number of retries and faults.     *)
(***************************************************************************)
EXTENDS HorizonWorkflow, SequenceTheorems, TLAPS

(* The inductive invariant.  An id is in one place: with its caller, on the *)
(* queue or with one worker; until a worker has got the document, nothing   *)
(* was done for it.                                                         *)
Queued == {jobQueue[n] : n \in DOMAIN jobQueue}
Busy == {w \in Workers : worker[w].pc # "idle"}
Untouched(id) == \A e \in edited : e[1] # id
Fresh(id) ==
    /\ Untouched(id)
    /\ \/ workflow[id] = NoWorkflow
       \/ workflow[id].state = "PENDING" /\ \A i \in DOMAIN workflow[id].steps : workflow[id].steps[i] = "PENDING"

OnePlace ==
    /\ \A m, n \in DOMAIN jobQueue : jobQueue[m] = jobQueue[n] => m = n
    /\ waiting \intersect Queued = {}
    /\ \A w \in Busy : worker[w].id \in Workflows \ (waiting \union Queued)
    /\ \A v, w \in Busy : worker[v].id = worker[w].id => v = w

NotStarted ==
    /\ \A id \in Workflows : workflow[id] = NoWorkflow =>
          /\ Untouched(id)
          /\ id \notin lost => id \notin waiting \union Queued \union {worker[w].id : w \in Busy}
    /\ \A id \in waiting \union Queued : Fresh(id)
    /\ \A w \in Busy : worker[w].pc = "get" =>
          Fresh(worker[w].id) /\ worker[w].i = 1 /\ worker[w].try = 1

(* A worker knows what it did: the steps before the one it is at are        *)
(* completed and their edits accepted, and so are the edits of this try.    *)
Done(id, kind, i) == \A j \in DOMAIN Edits(Steps(kind)[i]) : <<id, i, j>> \in edited

WorkerInv(w) ==
    LET me == worker[w]
        doc == me.mem
    IN  /\ workflow[me.id] # NoWorkflow /\ doc # NoWorkflow /\ doc.state = "RUNNING"
        /\ me.i \in DOMAIN Steps(doc.kind) /\ DOMAIN doc.steps = DOMAIN Steps(doc.kind)
        /\ \A p \in DOMAIN doc.steps :
              /\ p < me.i => doc.steps[p] = "COMPLETED" /\ Done(me.id, doc.kind, p)
              /\ p > me.i => doc.steps[p] = "PENDING"
        /\ doc.steps[me.i] = CASE me.pc = "step" -> "PENDING"
                               [] me.pc = "complete" -> "COMPLETED"
                               [] OTHER -> "RUNNING"
        /\ me.pc = "step" /\ me.i = 1 => Untouched(me.id)
        /\ me.pc \in {"call", "write"} =>
              /\ \A m \in 1..(me.j - 1) : <<me.id, me.i, m>> \in edited
              /\ Edits(Steps(doc.kind)[me.i]) # <<>> => me.j \in DOMAIN Edits(Steps(doc.kind)[me.i])
        /\ me.pc = "write" =>
              /\ Edits(Steps(doc.kind)[me.i]) # <<>>
              /\ me.read = NoFile => Edits(Steps(doc.kind)[me.i])[me.j].push
        /\ me.pc \in {"ended", "complete"} => Done(me.id, doc.kind, me.i)
        /\ me.pc = "complete" => me.i = Len(Steps(doc.kind))

DocumentInv(id) == workflow[id] # NoWorkflow => DOMAIN workflow[id].steps = DOMAIN Steps(workflow[id].kind)

(* While a workflow is alone no other worker and no update edits its        *)
(* triggers, so that what it wrote of them stands; and while a trigger is   *)
(* agreed nobody edits it.                                                  *)
TouchedBy(w) == Touches(worker[w].mem.kind)

AloneWorker(w) ==
    /\ ~ Updating
    /\ \A v \in Running : \A k \in TouchedBy(w) : k \in TouchedBy(v) => v = w
    /\ \A i \in DOMAIN Steps(worker[w].mem.kind) :
         LET edits == Edits(Steps(worker[w].mem.kind)[i])
         IN  \A j \in DOMAIN edits : \A k \in Triggers :
               <<worker[w].id, i, j>> \in edited /\ k \in edits[j].keys =>
                  file[edits[j].file] # NoFile /\ file[edits[j].file][k] = worker[w].id

AloneInv == \A w \in Running : worker[w].id \in alone => AloneWorker(w)

AgreedInv ==
    \A k \in Triggers : agreed[k] # Base => ~ Updating /\ \A w \in Running : k \notin TouchedBy(w)

TriggersInv == AloneInv /\ AgreedInv

IInv ==
    /\ TypeOK /\ OnePlace /\ NotStarted
    /\ \A w \in Running : WorkerInv(w)
    /\ \A id \in Workflows : DocumentInv(id)
    /\ DocumentIsTrue /\ NoEditLost /\ TriggersInv /\ FilesAgree

-----------------------------------------------------------------------------
(* The kinds of workflow, their steps and the edits of a step.              *)

LEMMA StepsOfKind ==
  ASSUME NEW kind
  PROVE  /\ Len(Steps(kind)) \in Nat \ {0} /\ DOMAIN Steps(kind) = 1..Len(Steps(kind))
         /\ ~ IsOnboarding(kind) => Steps(kind) = <<kind>>
<1> DEFINE names == {"CreateValuesYaml", "CreateApplicationYaml", "UpdateValuesProperties", "IamBinding"}
<1>1. OnboardingSteps \in Seq(names) /\ Len(OnboardingSteps) = 3 /\ "IamBinding" \in names
  BY DEF OnboardingSteps
<1> HIDE DEF names
<1>2. CASE kind = "onboarding"
  <2>1. Steps(kind) = OnboardingSteps
    BY <1>2 DEF Steps
  <2>2. Len(Steps(kind)) = 3 /\ DOMAIN Steps(kind) = 1..Len(Steps(kind))
    BY <1>1, <2>1, LenProperties
  <2>3. IsOnboarding(kind)
    BY <1>2 DEF IsOnboarding
  <2>4. QED
    BY <2>2, <2>3
<1>3. CASE kind = "onboarding with IAM"
  <2>1. Steps(kind) = Append(OnboardingSteps, "IamBinding")
    BY <1>3 DEF Steps
  <2>2. /\ Append(OnboardingSteps, "IamBinding") \in Seq(names)
        /\ Len(Append(OnboardingSteps, "IamBinding")) = Len(OnboardingSteps) + 1
    BY <1>1, AppendProperties, Zenon
  <2>3. Steps(kind) \in Seq(names) /\ Len(Steps(kind)) = 4
    BY <1>1, <2>1, <2>2
  <2>4. DOMAIN Steps(kind) = 1..4
    BY <2>3, LenProperties
  <2>5. Len(Steps(kind)) \in Nat \ {0} /\ DOMAIN Steps(kind) = 1..Len(Steps(kind))
    BY <2>3, <2>4
  <2>6. IsOnboarding(kind)
    BY <1>3 DEF IsOnboarding
  <2>7. QED
    BY <2>5, <2>6
<1>4. CASE ~ IsOnboarding(kind)
  <2>1. Steps(kind) = <<kind>>
    BY <1>4 DEF Steps, IsOnboarding
  <2>2. QED
    BY <1>4, <2>1
<1>5. QED
  BY <1>2, <1>3, <1>4 DEF IsOnboarding

\* What an edit may be.  A push writes all keys.
Edit == [file : Files, keys : SUBSET Keys, push : BOOLEAN]

LEMMA ThresholdEdits ==
  /\ UpdateThresholds \in Seq(Edit) /\ Len(UpdateThresholds) = 4
  /\ UpdateThresholds[1] = Change("values_properties.yaml", {"cpu"})
  /\ UpdateThresholds[2] = Change("values.yaml", {"cpu"})
  /\ UpdateThresholds[3] = Change("values_properties.yaml", {"gpu"})
  /\ UpdateThresholds[4] = Change("values.yaml", {"gpu"})
<1>1. ASSUME NEW keys \in SUBSET Keys
      PROVE  /\ UpdateTriggers(keys) \in Seq(Edit) /\ Len(UpdateTriggers(keys)) = 2
             /\ UpdateTriggers(keys)[1] = Change("values_properties.yaml", keys)
             /\ UpdateTriggers(keys)[2] = Change("values.yaml", keys)
  <2>1. Change("values_properties.yaml", keys) \in Edit /\ Change("values.yaml", keys) \in Edit
    BY DEF Change, Edit, Files
  <2>2. QED
    BY <2>1 DEF UpdateTriggers
<1>2. {"cpu"} \in SUBSET Keys /\ {"gpu"} \in SUBSET Keys
  BY DEF Keys, Triggers
<1> HIDE DEF UpdateTriggers
<1>3. QED
  BY <1>1, <1>2, ConcatProperties DEF UpdateThresholds

LEMMA EditsOfStep ==
  ASSUME NEW step
  PROVE  /\ Edits(step) \in Seq(Edit) /\ DOMAIN Edits(step) = 1..Len(Edits(step)) /\ Len(Edits(step)) \in Nat
         /\ \A j \in DOMAIN Edits(step) : Edits(step)[j] \in Edit
         /\ \A j \in DOMAIN Edits(step) : Edits(step)[j].push => Edits(step)[j].keys = Keys
<1>1. ASSUME NEW f \in Files, NEW keys \in SUBSET Keys
      PROVE  /\ Push(f) \in Edit /\ Push(f).keys = Keys
             /\ Change(f, keys) \in Edit /\ ~ Change(f, keys).push
  BY <1>1 DEF Push, Change, Edit
<1>2. "values.yaml" \in Files /\ "application.yaml" \in Files /\ "values_properties.yaml" \in Files
  BY DEF Files
<1>3. {"cpu"} \in SUBSET Keys /\ {"gpu"} \in SUBSET Keys /\ Triggers \in SUBSET Keys
      /\ {"size"} \in SUBSET Keys /\ {"annotations"} \in SUBSET Keys
  BY DEF Keys, Triggers
<1>4. \A j \in {1, 2, 3, 4} : UpdateThresholds[j] \in Edit /\ ~ UpdateThresholds[j].push
  BY <1>1, <1>2, <1>3, ThresholdEdits
<1> DEFINE Good(edits) == edits \in Seq(Edit) /\ \A j \in 1..Len(edits) : edits[j].push => edits[j].keys = Keys
<1>5. ASSUME NEW f \in Files PROVE Good(<<Push(f)>>)
  BY <1>1, <1>5
<1>6. ASSUME NEW f \in Files, NEW keys \in SUBSET Keys PROVE Good(<<Change(f, keys)>>)
  BY <1>1, <1>6
<1>7. ASSUME NEW keys \in SUBSET Keys PROVE Good(UpdateTriggers(keys))
  BY <1>1, <1>2, <1>7 DEF UpdateTriggers
<1>8. Good(UpdateThresholds)
  BY <1>4, ThresholdEdits
<1>9. Good(<< >>)
  OBVIOUS
<1>10. Good(Edits(step))
  <2> HIDE DEF Good
  <2>1. QED
    BY <1>2, <1>3, <1>5, <1>6, <1>7, <1>8, <1>9
       DEF Edits, CreateValuesYaml, CreateApplicationYaml, UpdateValuesProperties,
           UpdateAutoscalingTriggers, UpdateSharedMemory, UpdatePodAnnotations
<1>11. QED
  BY <1>10, LenProperties, ElementOfSeq

\* A trigger is edited by a workflow that touches it, and then in both files.
LEMMA TouchesWhatItEdits ==
  ASSUME NEW kind, NEW i \in DOMAIN Steps(kind), NEW j \in DOMAIN Edits(Steps(kind)[i]),
         NEW k \in Edits(Steps(kind)[i])[j].keys, k \in Triggers
  PROVE  k \in Touches(kind)
BY DEF Touches

EditsTrigger(kind, f, k) ==
    \E i \in DOMAIN Steps(kind) : \E j \in DOMAIN Edits(Steps(kind)[i]) :
        Edits(Steps(kind)[i])[j].file = f /\ k \in Edits(Steps(kind)[i])[j].keys

LEMMA TouchesBothFiles ==
  ASSUME NEW kind \in KnownKinds, NEW k \in Touches(kind)
  PROVE  EditsTrigger(kind, "values.yaml", k) /\ EditsTrigger(kind, "values_properties.yaml", k)
<1>1. k \in Triggers /\ k \in Keys
  BY DEF Touches, Keys, Triggers
<1>2. PICK i \in DOMAIN Steps(kind) : \E j \in DOMAIN Edits(Steps(kind)[i]) : k \in Edits(Steps(kind)[i])[j].keys
  BY DEF Touches
<1>3. CASE IsOnboarding(kind)
  <2>1. /\ 1 \in DOMAIN Steps(kind) /\ Steps(kind)[1] = "CreateValuesYaml"
        /\ 3 \in DOMAIN Steps(kind) /\ Steps(kind)[3] = "UpdateValuesProperties"
    <3>1. OnboardingSteps \in Seq({"CreateValuesYaml", "CreateApplicationYaml", "UpdateValuesProperties", "IamBinding"})
          /\ Len(OnboardingSteps) = 3 /\ OnboardingSteps[1] = "CreateValuesYaml"
          /\ OnboardingSteps[3] = "UpdateValuesProperties"
      BY DEF OnboardingSteps
    <3>2. CASE Steps(kind) = OnboardingSteps
      BY <3>1, <3>2, LenProperties
    <3>3. CASE Steps(kind) = Append(OnboardingSteps, "IamBinding")
      BY <3>1, <3>3, AppendProperties, LenProperties
    <3>4. QED
      BY <1>3, <3>2, <3>3 DEF Steps, IsOnboarding
  <2>2. Edits("CreateValuesYaml") = <<Push("values.yaml")>>
    BY DEF Edits, CreateValuesYaml
  <2>3. Edits("UpdateValuesProperties") = <<Push("values_properties.yaml")>>
    BY DEF Edits, UpdateValuesProperties
  <2>4. /\ 1 \in DOMAIN Edits(Steps(kind)[1]) /\ Edits(Steps(kind)[1])[1].file = "values.yaml"
        /\ Edits(Steps(kind)[1])[1].keys = Keys
    BY <2>1, <2>2 DEF Push
  <2>5. /\ 1 \in DOMAIN Edits(Steps(kind)[3]) /\ Edits(Steps(kind)[3])[1].file = "values_properties.yaml"
        /\ Edits(Steps(kind)[3])[1].keys = Keys
    BY <2>1, <2>3 DEF Push
  <2>6. QED
    BY <1>1, <2>1, <2>4, <2>5 DEF EditsTrigger
<1>4. CASE ~ IsOnboarding(kind)
  <2>1. DOMAIN Steps(kind) = {1} /\ Steps(kind)[1] = kind
    BY <1>4, StepsOfKind
  <2>2. PICK j \in DOMAIN Edits(kind) : k \in Edits(kind)[j].keys
    BY <1>2, <2>1
  <2>3. SUFFICES /\ \E m \in DOMAIN Edits(kind) : Edits(kind)[m].file = "values.yaml" /\ k \in Edits(kind)[m].keys
                 /\ \E m \in DOMAIN Edits(kind) : Edits(kind)[m].file = "values_properties.yaml" /\ k \in Edits(kind)[m].keys
    BY <2>1 DEF EditsTrigger
  <2>4. CASE Edits(kind) = UpdateThresholds
    <3>1. DOMAIN Edits(kind) = {1, 2, 3, 4}
      BY <2>4, ThresholdEdits, LenProperties
    <3>2. QED
      BY <2>2, <2>4, <3>1, ThresholdEdits DEF Change
  <2>5. ASSUME NEW keys, Edits(kind) = UpdateTriggers(keys)
        PROVE  /\ \E m \in DOMAIN Edits(kind) : Edits(kind)[m].file = "values.yaml" /\ k \in Edits(kind)[m].keys
               /\ \E m \in DOMAIN Edits(kind) : Edits(kind)[m].file = "values_properties.yaml" /\ k \in Edits(kind)[m].keys
    <3>1. /\ DOMAIN Edits(kind) = {1, 2} /\ Edits(kind)[1] = Change("values_properties.yaml", keys)
          /\ Edits(kind)[2] = Change("values.yaml", keys)
      BY <2>5 DEF UpdateTriggers
    <3>2. QED
      BY <2>2, <3>1 DEF Change
  <2>6. ASSUME NEW keys, k \notin keys, Edits(kind) = <<Change("values.yaml", keys)>> PROVE FALSE
    <3>1. DOMAIN Edits(kind) = {1} /\ Edits(kind)[1].keys = keys
      BY <2>6 DEF Change
    <3>2. QED
      BY <2>2, <2>6, <3>1
  <2>7. k \notin {"size"} /\ k \notin {"annotations"}
    BY <1>1 DEF Triggers
  <2>8. Edits(kind) # <<>>
    BY <2>2
  <2>9. QED
    <3>1. CASE kind = "UpdateThresholds"
      BY <2>4, <3>1 DEF Edits
    <3>2. CASE kind \in {"UpdateThresholds of cpu", "UpdateThresholds of gpu", "UpdateCPUThreshold",
                        "UpdateGPUThreshold", "UpdateAutoscalingTriggers"}
      BY <2>5, <3>2 DEF Edits, UpdateAutoscalingTriggers
    <3>3. CASE kind \in {"UpdateSharedMemory", "UpdatePodAnnotations"}
      BY <2>6, <2>7, <3>3 DEF Edits, UpdateSharedMemory, UpdatePodAnnotations
    <3>4. CASE kind = "RestartDeployment"
      BY <2>8, <3>4 DEF Edits
    <3>5. QED
      BY <1>4, <3>1, <3>2, <3>3, <3>4 DEF KnownKinds, IsOnboarding
<1>5. QED
  BY <1>3, <1>4

-----------------------------------------------------------------------------
(* Documents and workers.                                                   *)

Live == [kind : Kinds, state : Statuses, steps : Seq(Statuses)]

LEMMA LiveOrNone ==
  ASSUME NEW doc \in Documents
  PROVE  doc # NoWorkflow => doc \in Live
BY DEF Documents, Live

LEMMA LiveIsNotNone ==
  ASSUME NEW doc \in Live
  PROVE  doc \in Documents /\ doc # NoWorkflow
BY DEF Documents, Live, NoWorkflow, Statuses

\* Setting the status of one step of a document.
LEMMA SetStep ==
  ASSUME NEW doc \in Live, NEW i \in DOMAIN doc.steps, NEW status \in Statuses
  PROVE  LET new == [doc EXCEPT !.steps[i] = status]
         IN  /\ new \in Live /\ new.kind = doc.kind /\ new.state = doc.state
             /\ DOMAIN new.steps = DOMAIN doc.steps /\ new.steps[i] = status
             /\ \A p \in DOMAIN doc.steps : p # i => new.steps[p] = doc.steps[p]
<1>1. doc.steps \in Seq(Statuses)
  BY DEF Live
<1>2. [doc.steps EXCEPT ![i] = status] \in Seq(Statuses)
  BY <1>1, ExceptSeq
<1>3. QED
  BY <1>1, <1>2 DEF Live

LEMMA SetState ==
  ASSUME NEW doc \in Live, NEW state \in Statuses
  PROVE  LET new == [doc EXCEPT !.state = state]
         IN  new \in Live /\ new.kind = doc.kind /\ new.state = state /\ new.steps = doc.steps
BY DEF Live

\* What is known of a worker at work.
LEMMA RunningWorker ==
  ASSUME IInv, NEW w \in Running
  PROVE  /\ w \in Workers /\ worker[w] \in WorkerStates /\ worker[w].id \in Workflows
         /\ worker[w].mem \in Live /\ worker[w].mem.kind \in KnownKinds
         /\ worker[w].i \in DOMAIN worker[w].mem.steps /\ WorkerInv(w)
<1>1. w \in Workers /\ worker[w] \in WorkerStates /\ WorkerInv(w)
  BY DEF IInv, Running, TypeOK
<1>2. worker[w].id \in Workflows
  BY DEF Running, IInv, OnePlace, Busy
<1>3. worker[w].mem \in Documents
  BY <1>1 DEF WorkerStates
<1>4. worker[w].mem \in Live /\ worker[w].i \in DOMAIN worker[w].mem.steps
  BY <1>1, <1>3, LiveOrNone DEF WorkerInv
<1>5. QED
  BY <1>1, <1>2, <1>4, KindsAssumption DEF Live

\* A step of a worker leaves the other workers, and the documents and edits of
\* other workflows, as they are.
Acts(w) ==
    /\ \A v \in Workers \ {w} : worker'[v] = worker[v]
    /\ \A id \in Workflows : id # worker[w].id => workflow'[id] = workflow[id]
    /\ workflow'[worker[w].id] = NoWorkflow => workflow[worker[w].id] = NoWorkflow
    /\ edited \subseteq edited'
    /\ edited' # edited => w \in Running /\ \A e \in edited' \ edited : e[1] = worker[w].id

LEMMA StoreSets ==
  ASSUME TypeOK, NEW w \in Workers, worker[w].id \in Workflows, NEW doc \in Live,
         Store(w, doc) \/ StoreFails(w, doc)
  PROVE  /\ workflow' \in [Workflows -> Documents]
         /\ \A id \in Workflows : id # worker[w].id => workflow'[id] = workflow[id]
         /\ workflow'[worker[w].id] \in {workflow[worker[w].id], doc}
         /\ Store(w, doc) => workflow'[worker[w].id] = doc
         /\ workflow'[worker[w].id] = NoWorkflow => workflow[worker[w].id] = NoWorkflow
<1>1. doc \in Documents /\ doc # NoWorkflow
  BY LiveIsNotNone
<1>2. QED
  BY <1>1 DEF TypeOK, Store, StoreFails

\* What a worker may write of its workflow: the step it is at has no outcome,
\* or has failed, or its edits are accepted; then the document is true.
LEMMA WritesTheTruth ==
  ASSUME IInv, NEW w \in Running, NEW doc \in Live, doc.kind = worker[w].mem.kind,
         DOMAIN doc.steps = DOMAIN worker[w].mem.steps,
         \A p \in DOMAIN doc.steps : p # worker[w].i => doc.steps[p] = worker[w].mem.steps[p],
         \/ doc.steps[worker[w].i] \in {"PENDING", "RUNNING"} /\ doc.state = "RUNNING"
         \/ doc.steps[worker[w].i] = "FAILED" /\ doc.state = "FAILED"
         \/ /\ doc.steps[worker[w].i] = "COMPLETED" /\ Done(worker[w].id, doc.kind, worker[w].i)
            /\ doc.state = "RUNNING" \/ (doc.state = "COMPLETED" /\ worker[w].i = Len(Steps(doc.kind)))
  PROVE  TrueOf(worker[w].id, doc)
<1> DEFINE me == worker[w]
<1>1. /\ WorkerInv(w) /\ me.i \in DOMAIN doc.steps
      /\ DOMAIN doc.steps = 1..Len(Steps(doc.kind)) /\ Len(Steps(doc.kind)) \in Nat
  BY RunningWorker, StepsOfKind, ZenonT(30) DEF WorkerInv
<1>2. \A p \in DOMAIN doc.steps :
         /\ p < me.i => doc.steps[p] = "COMPLETED" /\ Done(me.id, doc.kind, p)
         /\ p > me.i => doc.steps[p] = "PENDING"
  BY <1>1 DEF WorkerInv
<1>3. \A i \in DOMAIN doc.steps : doc.steps[i] = "COMPLETED" => i <= me.i
  BY <1>1, <1>2
<1>4. ASSUME NEW i \in DOMAIN doc.steps, doc.steps[i] = "COMPLETED", NEW p \in 1..i
      PROVE  doc.steps[p] = "COMPLETED" /\ Done(me.id, doc.kind, p)
  <2>1. p \in DOMAIN doc.steps /\ p <= me.i /\ (p < me.i \/ (p = me.i /\ i = me.i))
    BY <1>1, <1>3, <1>4
  <2>2. QED
    BY <1>2, <1>4, <2>1
<1>5. doc.state = "COMPLETED" => \A i \in DOMAIN doc.steps : doc.steps[i] = "COMPLETED"
  BY <1>1, <1>2
<1>6. doc.state = "FAILED" <=> \E i \in DOMAIN doc.steps : doc.steps[i] = "FAILED"
  BY <1>1, <1>2
<1>7. QED
  BY <1>4, <1>5, <1>6 DEF TrueOf, Done

LEMMA TrueStays ==
  ASSUME NEW id, NEW doc, TrueOf(id, doc), edited \subseteq edited'
  PROVE  TrueOf(id, doc)'
BY DEF TrueOf

\* What a step of a worker must leave of itself and of its workflow.
Moves(w) ==
    /\ Acts(w)
    /\ workflow' \in [Workflows -> Documents] /\ worker' \in [Workers -> WorkerStates]
    /\ worker'[w].try <= Tries(worker'[w].mem.kind)
    /\ worker'[w].pc \in {"idle", "get"} \/ WorkerInv(w)'
    /\ \A id \in Workflows : DocumentInv(id)' /\ TrueOf(id, workflow[id])'

LEMMA OthersStay ==
  ASSUME TypeOK, NEW w \in Workers, NEW next \in WorkerStates, To(w, next)
  PROVE  /\ worker' \in [Workers -> WorkerStates] /\ worker'[w] = next
         /\ \A v \in Workers \ {w} : worker'[v] = worker[v]
BY DEF To, TypeOK

\* A worker moves from place to place, and counts from one.
LEMMA PlacesOfWorkers ==
  /\ \A pc \in {"idle", "get", "step", "call", "write", "failed", "ended", "complete"} : pc \in Pcs
  /\ 1 \in Positions /\ \A n \in Positions : n + 1 \in Positions
BY DEF Pcs, Positions

LEMMA IdleState == Idle \in WorkerStates /\ Idle.pc = "idle" /\ Idle.try <= Tries(Idle.mem.kind)
<1>1. NoWorkflow \in Documents /\ NoFile \in Contents /\ Base \in Workflows \union {Base}
  BY DEF Documents, Contents
<1>2. Idle \in WorkerStates
  BY <1>1, PlacesOfWorkers DEF Idle, WorkerStates
<1>3. Tries("none") = 1
  BY DEF Tries, IsOnboarding, IsThresholds
<1>4. QED
  BY <1>2, <1>3 DEF Idle, NoWorkflow

LEMMA DocumentsStay ==
  ASSUME IInv, NEW owner, NEW doc, edited \subseteq edited',
         \A id \in Workflows : workflow'[id] = workflow[id] \/ (id = owner /\ workflow'[id] = doc),
         DOMAIN doc.steps = DOMAIN Steps(doc.kind), TrueOf(owner, doc)
  PROVE  \A id \in Workflows : DocumentInv(id)' /\ TrueOf(id, workflow[id])'
<1> SUFFICES ASSUME NEW id \in Workflows PROVE DocumentInv(id)' /\ TrueOf(id, workflow[id])'
  OBVIOUS
<1>1. DocumentInv(id) /\ TrueOf(id, workflow[id])
  BY DEF IInv, DocumentIsTrue
<1>2. PICK d : /\ workflow'[id] = d /\ TrueOf(id, d)
               /\ d # NoWorkflow => DOMAIN d.steps = DOMAIN Steps(d.kind)
  BY <1>1 DEF DocumentInv
<1>3. TrueOf(id, d)'
  BY <1>2, TrueStays
<1>4. QED
  BY <1>2, <1>3 DEF DocumentInv, TrueOf

\* A worker that leaves its workflow as it is, or writes a true document.
LEMMA WorkerMoves ==
  ASSUME IInv, NEW w \in Running, NEW doc \in Live, NEW next \in WorkerStates,
         UNCHANGED workflow \/ Store(w, doc) \/ StoreFails(w, doc),
         doc.kind = worker[w].mem.kind, DOMAIN doc.steps = DOMAIN worker[w].mem.steps,
         TrueOf(worker[w].id, doc),
         edited \subseteq edited', \A e \in edited' \ edited : e[1] = worker[w].id,
         To(w, next), next.try <= Tries(next.mem.kind), next.pc = "idle" \/ WorkerInv(w)'
  PROVE  Moves(w)
<1>1. /\ TypeOK /\ w \in Workers /\ worker[w].id \in Workflows
      /\ DOMAIN doc.steps = DOMAIN Steps(doc.kind)
  BY RunningWorker, ZenonT(30) DEF IInv, WorkerInv
<1>2. worker' \in [Workers -> WorkerStates] /\ worker'[w] = next /\ \A v \in Workers \ {w} : worker'[v] = worker[v]
  BY <1>1, OthersStay
<1>3. /\ workflow' \in [Workflows -> Documents] /\ workflow'[worker[w].id] \in {workflow[worker[w].id], doc}
      /\ \A id \in Workflows : id # worker[w].id => workflow'[id] = workflow[id]
      /\ workflow'[worker[w].id] = NoWorkflow => workflow[worker[w].id] = NoWorkflow
  BY <1>1, StoreSets DEF TypeOK
<1>4. \A id \in Workflows : DocumentInv(id)' /\ TrueOf(id, workflow[id])'
  BY <1>1, <1>3, DocumentsStay
<1>5. QED
  BY <1>2, <1>3, <1>4 DEF Moves, Acts

LEMMA FirstTry == \A kind : 1 <= Tries(kind)
BY WorkflowAssumption DEF Tries

\* The next state of a worker that stays at work.
LEMMA StaysAtWork ==
  ASSUME IInv, NEW w \in Running, NEW doc \in Live, NEW next \in WorkerStates,
         UNCHANGED workflow \/ Store(w, doc) \/ StoreFails(w, doc), To(w, next)
  PROVE  worker'[w] = next /\ workflow'[worker[w].id] # NoWorkflow
<1>1. TypeOK /\ w \in Workers /\ worker[w].id \in Workflows /\ workflow[worker[w].id] # NoWorkflow
  BY RunningWorker DEF IInv, WorkerInv
<1>2. QED
  BY <1>1, OthersStay, StoreSets

LEMMA StartStepMoves ==
  ASSUME IInv, NEW w \in Running, StartStep(w)
  PROVE  Moves(w)
<1> DEFINE me == worker[w]
           doc == [me.mem EXCEPT !.steps[me.i] = "RUNNING"]
           next == [me EXCEPT !.pc = "call", !.mem = doc, !.j = 1, !.try = 1]
<1>1. /\ me \in WorkerStates /\ me.mem \in Live /\ me.i \in DOMAIN me.mem.steps /\ me.pc = "step"
      /\ WorkerInv(w)
  BY RunningWorker DEF StartStep
<1>2. "RUNNING" \in Statuses
  BY DEF Statuses
<1>3. /\ doc \in Live /\ doc.kind = me.mem.kind /\ doc.state = me.mem.state
      /\ DOMAIN doc.steps = DOMAIN me.mem.steps /\ doc.steps[me.i] = "RUNNING"
      /\ \A p \in DOMAIN me.mem.steps : p # me.i => doc.steps[p] = me.mem.steps[p]
  BY <1>1, <1>2, SetStep
<1> HIDE DEF doc
<1>4. TrueOf(me.id, doc)
  BY <1>1, <1>3, WritesTheTruth DEF WorkerInv
<1>5. doc \in Documents
  BY <1>3, LiveIsNotNone
<1>6. /\ next \in WorkerStates /\ next.pc = "call" /\ next.id = me.id /\ next.mem = doc /\ next.i = me.i
      /\ next.j = 1 /\ next.try = 1
  BY <1>1, <1>5, PlacesOfWorkers DEF WorkerStates
<1>7. (Store(w, doc) \/ StoreFails(w, doc)) /\ UNCHANGED edited /\ (To(w, next) \/ To(w, Idle))
  BY DEF StartStep, Drop, Leave, doc
<1> HIDE DEF next
<1>8. CASE To(w, Idle)
  BY <1>3, <1>4, <1>7, <1>8, IdleState, WorkerMoves
<1>9. CASE To(w, next)
  <2>1. worker'[w] = next /\ workflow'[me.id] # NoWorkflow
    BY <1>3, <1>6, <1>7, <1>9, StaysAtWork
  <2>2. Len(Edits(Steps(doc.kind)[me.i])) \in Nat
        /\ DOMAIN Edits(Steps(doc.kind)[me.i]) = 1..Len(Edits(Steps(doc.kind)[me.i]))
        /\ (Len(Edits(Steps(doc.kind)[me.i])) = 0 => Edits(Steps(doc.kind)[me.i]) = <<>>)
    BY EditsOfStep, EmptySeq
  <2>3. WorkerInv(w)'
    BY <1>1, <1>3, <1>5, <1>6, <1>7, <2>1, <2>2, LiveIsNotNone DEF WorkerInv, Done
  <2>4. next.try <= Tries(next.mem.kind)
    BY <1>6, FirstTry
  <2>5. QED
    BY <1>3, <1>4, <1>6, <1>7, <1>9, <2>3, <2>4, WorkerMoves
<1>10. QED
  BY <1>7, <1>8, <1>9

\* A worker that writes no document.
LEMMA WorksOn ==
  ASSUME IInv, NEW w \in Running, NEW next \in WorkerStates, UNCHANGED workflow, To(w, next),
         worker[w].pc \in {"call", "write", "failed", "ended"},
         edited \subseteq edited', \A e \in edited' \ edited : e[1] = worker[w].id,
         next.id = worker[w].id, next.mem = worker[w].mem, next.i = worker[w].i,
         next.try <= Tries(next.mem.kind), next.pc \in {"call", "write", "failed", "ended"},
         next.pc \in {"call", "write"} =>
            /\ \A m \in 1..(next.j - 1) : <<next.id, next.i, m>> \in edited'
            /\ Edits(Steps(next.mem.kind)[next.i]) # <<>> => next.j \in DOMAIN Edits(Steps(next.mem.kind)[next.i]),
         next.pc = "write" =>
            /\ Edits(Steps(next.mem.kind)[next.i]) # <<>>
            /\ next.read = NoFile => Edits(Steps(next.mem.kind)[next.i])[next.j].push,
         next.pc = "ended" =>
            \A m \in DOMAIN Edits(Steps(next.mem.kind)[next.i]) : <<next.id, next.i, m>> \in edited'
  PROVE  Moves(w)
<1>1. /\ worker[w].mem \in Live /\ WorkerInv(w) /\ w \in Workers /\ TypeOK
  BY RunningWorker DEF IInv
<1>2. TrueOf(worker[w].id, worker[w].mem)
  BY <1>1, WritesTheTruth DEF WorkerInv
<1>3. worker'[w] = next /\ workflow'[worker[w].id] # NoWorkflow
  BY <1>1, OthersStay DEF WorkerInv
<1>4. \A p \in DOMAIN next.mem.steps : p < next.i => Done(next.id, next.mem.kind, p)'
  BY <1>1 DEF WorkerInv, Done
<1>5. WorkerInv(w)'
  BY <1>1, <1>3, <1>4 DEF WorkerInv, Done
<1>6. QED
  BY <1>1, <1>2, <1>5, WorkerMoves

LEMMA ActivityFailsMoves ==
  ASSUME IInv, NEW w \in Running, worker[w].pc \in {"call", "write"}, ActivityFails(w), UNCHANGED workflow,
         edited \subseteq edited', \A e \in edited' \ edited : e[1] = worker[w].id
  PROVE  Moves(w)
<1> DEFINE me == worker[w]
           again == [me EXCEPT !.pc = "call", !.j = 1, !.try = @ + 1, !.read = NoFile]
           over == [me EXCEPT !.pc = "failed", !.read = NoFile]
<1>1. me \in WorkerStates /\ me.try \in Positions /\ NoFile \in Contents /\ me.try <= Tries(me.mem.kind)
  BY RunningWorker DEF WorkerStates, Contents, IInv, TypeOK
<1>2. /\ again \in WorkerStates /\ again.pc = "call" /\ again.id = me.id /\ again.mem = me.mem
      /\ again.i = me.i /\ again.j = 1 /\ again.try = me.try + 1
  BY <1>1, PlacesOfWorkers DEF WorkerStates
<1>3. /\ over \in WorkerStates /\ over.pc = "failed" /\ over.id = me.id /\ over.mem = me.mem
      /\ over.i = me.i /\ over.try = me.try
  BY <1>1, PlacesOfWorkers DEF WorkerStates
<1>4. CASE me.try < Tries(me.mem.kind)
  <2>1. To(w, again)
    BY <1>4 DEF ActivityFails
  <2>2. again.try <= Tries(again.mem.kind)
    BY <1>1, <1>2, <1>4, WorkflowAssumption DEF Tries, Positions
  <2>3. 1 \in DOMAIN Edits(Steps(me.mem.kind)[me.i]) \/ Edits(Steps(me.mem.kind)[me.i]) = <<>>
    BY EditsOfStep, EmptySeq
  <2> HIDE DEF again
  <2>4. QED
    BY <1>2, <2>1, <2>2, <2>3, WorksOn, SMTT(20)
<1>5. CASE ~ (me.try < Tries(me.mem.kind))
  <2>1. To(w, over)
    BY <1>5 DEF ActivityFails
  <2> HIDE DEF over
  <2>2. QED
    BY <1>1, <1>3, <2>1, WorksOn
<1>6. QED
  BY <1>4, <1>5

LEMMA CallMoves ==
  ASSUME IInv, NEW w \in Running, Call(w)
  PROVE  Moves(w)
<1> DEFINE me == worker[w]
           edits == EditsOf(w)
           missing == edits # <<>> /\ ~ edits[me.j].push /\ file[edits[me.j].file] = NoFile
           over == [me EXCEPT !.pc = "ended"]
           write == [me EXCEPT !.pc = "write", !.read = file[edits[me.j].file]]
<1>1. /\ me \in WorkerStates /\ me.pc = "call" /\ me.try <= Tries(me.mem.kind) /\ WorkerInv(w)
      /\ UNCHANGED <<workflow, edited>>
  BY RunningWorker DEF Call, IInv, TypeOK, ghosts
<1>2. CASE edits = <<>> /\ To(w, over)
  <2>1. /\ over \in WorkerStates /\ over.pc = "ended" /\ over.id = me.id /\ over.mem = me.mem
        /\ over.i = me.i /\ over.try = me.try
    BY <1>1, PlacesOfWorkers DEF WorkerStates
  <2> HIDE DEF over
  <2>2. QED
    BY <1>1, <1>2, <2>1, WorksOn, SMTT(20) DEF EditsOf
<1>3. CASE edits # <<>> /\ ~ missing /\ To(w, write)
  <2>1. me.j \in DOMAIN edits /\ edits[me.j].file \in Files
    BY <1>1, <1>3, EditsOfStep DEF WorkerInv, EditsOf, Edit
  <2>2. file[edits[me.j].file] \in Contents
    BY <2>1 DEF IInv, TypeOK
  <2>3. /\ write \in WorkerStates /\ write.pc = "write" /\ write.id = me.id /\ write.mem = me.mem
        /\ write.i = me.i /\ write.j = me.j /\ write.try = me.try /\ write.read = file[edits[me.j].file]
    BY <1>1, <2>2, PlacesOfWorkers DEF WorkerStates
  <2> HIDE DEF write
  <2>4. QED
    BY <1>1, <1>3, <2>1, <2>3, WorksOn DEF WorkerInv, EditsOf
<1>4. QED
  BY <1>1, <1>2, <1>3, ActivityFailsMoves DEF Call

LEMMA UpdateFileMoves ==
  ASSUME IInv, NEW w \in Running, UpdateFile(w)
  PROVE  Moves(w)
<1> DEFINE me == worker[w]
           edits == EditsOf(w)
           over == [me EXCEPT !.pc = "ended", !.read = NoFile]
           go == [me EXCEPT !.pc = "call", !.j = @ + 1, !.read = NoFile]
<1>1. /\ me \in WorkerStates /\ me.pc = "write" /\ me.try <= Tries(me.mem.kind) /\ WorkerInv(w)
      /\ UNCHANGED workflow /\ NoFile \in Contents /\ me.j \in Positions /\ me.i \in Positions
  BY RunningWorker DEF UpdateFile, IInv, TypeOK, Contents, WorkerStates
<1>2. edited \subseteq edited' /\ \A e \in edited' \ edited : e[1] = me.id
  BY SMTT(20) DEF UpdateFile, Commit
<1>3. CASE ActivityFails(w)
  BY <1>1, <1>2, <1>3, ActivityFailsMoves
<1>4. me.j \in DOMAIN edits /\ DOMAIN edits = 1..Len(edits) /\ Len(edits) \in Nat
  BY <1>1, EditsOfStep DEF WorkerInv, EditsOf
<1>5. CASE Commit(w) /\ me.j = Len(edits) /\ To(w, over)
  <2>1. /\ over \in WorkerStates /\ over.pc = "ended" /\ over.id = me.id /\ over.mem = me.mem
        /\ over.i = me.i /\ over.try = me.try
    BY <1>1, PlacesOfWorkers DEF WorkerStates
  <2>2. ASSUME NEW m \in DOMAIN edits PROVE <<me.id, me.i, m>> \in edited'
    <3>1. m = me.j \/ m \in 1..(me.j - 1)
      BY <1>4, <1>5
    <3>2. QED
      BY <1>1, <1>2, <1>5, <3>1 DEF Commit, WorkerInv
  <2> HIDE DEF over
  <2>3. QED
    BY <1>1, <1>2, <1>5, <2>1, <2>2, WorksOn DEF EditsOf
<1>6. CASE Commit(w) /\ me.j # Len(edits) /\ To(w, go)
  <2>1. /\ go \in WorkerStates /\ go.pc = "call" /\ go.id = me.id /\ go.mem = me.mem
        /\ go.i = me.i /\ go.j = me.j + 1 /\ go.try = me.try
    BY <1>1, PlacesOfWorkers DEF WorkerStates
  <2>2. ASSUME NEW m \in 1..(go.j - 1) PROVE <<me.id, me.i, m>> \in edited'
    <3>1. m = me.j \/ m \in 1..(me.j - 1)
      BY <1>4, <2>1
    <3>2. QED
      BY <1>1, <1>2, <1>6, <3>1 DEF Commit, WorkerInv
  <2>3. go.j \in DOMAIN edits
    BY <1>4, <1>6, <2>1
  <2> HIDE DEF go
  <2>4. QED
    BY <1>1, <1>2, <1>6, <2>1, <2>2, <2>3, WorksOn DEF EditsOf
<1>7. QED
  BY <1>3, <1>5, <1>6 DEF UpdateFile

LEMMA RecordFailureMoves ==
  ASSUME IInv, NEW w \in Running, RecordFailure(w)
  PROVE  Moves(w)
<1> DEFINE me == worker[w]
           failed == [me.mem EXCEPT !.steps[me.i] = "FAILED"]
           doc == [failed EXCEPT !.state = "FAILED"]
<1>1. me.mem \in Live /\ me.i \in DOMAIN me.mem.steps /\ "FAILED" \in Statuses
  BY RunningWorker DEF Statuses
<1>2. /\ failed \in Live /\ failed.kind = me.mem.kind
      /\ DOMAIN failed.steps = DOMAIN me.mem.steps /\ failed.steps[me.i] = "FAILED"
      /\ \A p \in DOMAIN me.mem.steps : p # me.i => failed.steps[p] = me.mem.steps[p]
  BY <1>1, SetStep
<1>3. /\ Store(w, doc) \/ StoreFails(w, doc)
      /\ UNCHANGED edited /\ To(w, Idle)
  BY DEF RecordFailure, Drop, Leave
<1> HIDE DEF failed
<1>4. doc \in Live /\ doc.kind = failed.kind /\ doc.steps = failed.steps /\ doc.state = "FAILED"
  BY <1>1, <1>2, SetState
<1> HIDE DEF doc
<1>5. TrueOf(me.id, doc)
  BY <1>1, <1>2, <1>4, WritesTheTruth
<1>6. QED
  BY <1>2, <1>3, <1>4, <1>5, IdleState, WorkerMoves

LEMMA CompleteWorkflowMoves ==
  ASSUME IInv, NEW w \in Running, CompleteWorkflow(w)
  PROVE  Moves(w)
<1> DEFINE me == worker[w]
           doc == [me.mem EXCEPT !.state = "COMPLETED"]
<1>1. /\ me.mem \in Live /\ me.i \in DOMAIN me.mem.steps /\ WorkerInv(w) /\ me.pc = "complete"
      /\ "COMPLETED" \in Statuses
  BY RunningWorker DEF Statuses, CompleteWorkflow
<1>2. /\ Store(w, doc) \/ StoreFails(w, doc)
      /\ UNCHANGED edited /\ To(w, Idle)
  BY DEF CompleteWorkflow, Drop, Leave
<1>3. doc \in Live /\ doc.kind = me.mem.kind /\ doc.steps = me.mem.steps /\ doc.state = "COMPLETED"
  BY <1>1, SetState
<1> HIDE DEF doc
<1>4. TrueOf(me.id, doc)
  BY <1>1, <1>3, WritesTheTruth DEF WorkerInv
<1>5. QED
  BY <1>2, <1>3, <1>4, IdleState, WorkerMoves

LEMMA RecordSuccessMoves ==
  ASSUME IInv, NEW w \in Running, RecordSuccess(w)
  PROVE  Moves(w)
<1> DEFINE me == worker[w]
           done == [me.mem EXCEPT !.steps[me.i] = "COMPLETED"]
           doc == IF IsOnboarding(done.kind) THEN done ELSE [done EXCEPT !.state = "COMPLETED"]
           complete == [me EXCEPT !.pc = "complete", !.mem = doc, !.j = 1, !.try = 1]
           step == [me EXCEPT !.pc = "step", !.mem = doc, !.i = @ + 1, !.j = 1, !.try = 1]
<1>1. /\ me \in WorkerStates /\ me.mem \in Live /\ me.i \in DOMAIN me.mem.steps /\ WorkerInv(w) /\ me.pc = "ended"
      /\ "COMPLETED" \in Statuses /\ me.i \in Positions
  BY RunningWorker DEF Statuses, RecordSuccess, WorkerStates
<1>2. /\ done \in Live /\ done.kind = me.mem.kind /\ done.state = me.mem.state
      /\ DOMAIN done.steps = DOMAIN me.mem.steps /\ done.steps[me.i] = "COMPLETED"
      /\ \A p \in DOMAIN me.mem.steps : p # me.i => done.steps[p] = me.mem.steps[p]
  BY <1>1, SetStep
<1>3. Done(me.id, done.kind, me.i)
  BY <1>1, <1>2 DEF WorkerInv
<1>4. /\ UNCHANGED edited /\ (Store(w, doc) \/ StoreFails(w, doc))
      /\ To(w, Idle) \/ (IsOnboarding(done.kind) /\ To(w, IF me.i = Len(Steps(done.kind)) THEN complete ELSE step))
  BY DEF RecordSuccess, Drop, Leave
<1> HIDE DEF done
<1>5. CASE ~ IsOnboarding(done.kind)
  <2>1. /\ doc \in Live /\ doc.kind = done.kind /\ doc.steps = done.steps /\ doc.state = "COMPLETED"
    BY <1>1, <1>2, <1>5, SetState
  <2>2. me.i = Len(Steps(done.kind))
    <3>1. Steps(done.kind) = <<done.kind>> /\ me.i \in DOMAIN Steps(done.kind)
      BY <1>1, <1>2, <1>5, StepsOfKind DEF WorkerInv
    <3>2. QED
      BY <3>1
  <2> HIDE DEF doc
  <2>3. TrueOf(me.id, doc)
    BY <1>2, <1>3, <2>1, <2>2, WritesTheTruth
  <2>4. QED
    BY <1>2, <1>4, <1>5, <2>1, <2>3, IdleState, WorkerMoves
<1>6. CASE IsOnboarding(done.kind)
  <2>1. doc = done
    BY <1>6
  <2> HIDE DEF doc
  <2>2. TrueOf(me.id, doc) /\ doc \in Documents /\ doc # NoWorkflow
    BY <1>1, <1>2, <1>3, <2>1, WritesTheTruth, LiveIsNotNone DEF WorkerInv
  <2>3. CASE To(w, Idle)
    BY <1>2, <1>4, <2>1, <2>2, <2>3, IdleState, WorkerMoves
  <2>4. CASE me.i = Len(Steps(done.kind)) /\ To(w, complete)
    <3>1. /\ complete \in WorkerStates /\ complete.pc = "complete" /\ complete.id = me.id
          /\ complete.mem = doc /\ complete.i = me.i /\ complete.try = 1
      BY <1>1, <2>2, PlacesOfWorkers DEF WorkerStates
    <3> HIDE DEF complete
    <3>2. worker'[w] = complete /\ workflow'[me.id] # NoWorkflow
      BY <1>2, <1>4, <2>1, <2>4, <3>1, StaysAtWork
    <3>3. WorkerInv(w)'
      BY <1>1, <1>2, <1>3, <1>4, <2>1, <2>2, <2>4, <3>1, <3>2, SMTT(20) DEF WorkerInv, Done
    <3>4. QED
      BY <1>2, <1>4, <2>1, <2>2, <2>4, <3>1, <3>3, FirstTry, WorkerMoves
  <2>5. CASE me.i # Len(Steps(done.kind)) /\ To(w, step)
    <3>1. /\ step \in WorkerStates /\ step.pc = "step" /\ step.id = me.id
          /\ step.mem = doc /\ step.i = me.i + 1 /\ step.try = 1
      BY <1>1, <2>2, PlacesOfWorkers DEF WorkerStates
    <3> HIDE DEF step
    <3>2. worker'[w] = step /\ workflow'[me.id] # NoWorkflow
      BY <1>2, <1>4, <2>1, <2>5, <3>1, StaysAtWork
    <3>3. DOMAIN doc.steps = 1..Len(Steps(doc.kind)) /\ Len(Steps(doc.kind)) \in Nat
      BY <1>1, <1>2, <2>1, StepsOfKind DEF WorkerInv
    <3>4. \A p \in DOMAIN doc.steps :
             /\ p <= me.i => doc.steps[p] = "COMPLETED" /\ Done(me.id, doc.kind, p)
             /\ p > me.i => doc.steps[p] = "PENDING"
      BY <1>1, <1>2, <1>3, <2>1, <3>3 DEF WorkerInv
    <3>5. step.i \in DOMAIN doc.steps /\ \A p \in DOMAIN doc.steps : p < step.i => p <= me.i
      BY <1>1, <1>2, <2>1, <2>5, <3>1, <3>3
    <3>6. \A p \in DOMAIN doc.steps : p > step.i => p > me.i
      BY <1>1, <1>2, <2>1, <3>1, <3>3
    <3>7. step.i > me.i /\ step.i # 1 /\ doc.state = "RUNNING"
      BY <1>1, <1>2, <2>1, <3>1 DEF Positions, WorkerInv
    <3>8. WorkerInv(w)'
      <4>1. DOMAIN doc.steps = DOMAIN Steps(doc.kind)
        BY <3>3, StepsOfKind
      <4>2. doc.steps[step.i] = "PENDING" /\ step.i \in DOMAIN Steps(doc.kind)
        BY <3>4, <3>5, <3>7, <4>1
      <4>3. edited' = edited
        BY <1>4
      <4>4. \A p \in DOMAIN doc.steps : p < step.i => doc.steps[p] = "COMPLETED" /\ Done(me.id, doc.kind, p)
        BY <3>4, <3>5
      <4>5. \A p \in DOMAIN doc.steps : p > step.i => doc.steps[p] = "PENDING"
        BY <3>4, <3>6
      <4>6. \A p \in DOMAIN doc.steps : p < step.i =>
               \A m \in DOMAIN Edits(Steps(doc.kind)[p]) : <<me.id, p, m>> \in edited'
        BY <4>3, <4>4 DEF Done
      <4>7. QED
        BY <2>2, <3>1, <3>2, <3>7, <4>1, <4>2, <4>4, <4>5, <4>6 DEF WorkerInv, Done
    <3>9. QED
      BY <1>2, <1>4, <2>1, <2>2, <2>5, <3>1, <3>8, FirstTry, WorkerMoves
  <2>6. QED
    BY <1>4, <2>3, <2>4, <2>5
<1>7. QED
  BY <1>5, <1>6

\* A worker that gets its document starts it from the first step.
LEMMA GetWorkflowMoves ==
  ASSUME IInv, NEW w \in Workers, GetWorkflow(w)
  PROVE  Moves(w)
<1> DEFINE me == worker[w]
           old == workflow[me.id]
           doc == [old EXCEPT !.state = "RUNNING"]
           next == [me EXCEPT !.pc = "step", !.mem = doc]
<1>1. /\ w \in Busy /\ me.id \in Workflows /\ Fresh(me.id) /\ me.i = 1 /\ me.try = 1
      /\ TypeOK /\ me \in WorkerStates /\ UNCHANGED edited /\ w \notin Running
  BY DEF IInv, GetWorkflow, Busy, Running, OnePlace, NotStarted, TypeOK
<1>2. \A id \in Workflows : DocumentInv(id) /\ TrueOf(id, workflow[id])
  BY DEF IInv, DocumentIsTrue
<1>3. CASE old = NoWorkflow
  <2>1. UNCHANGED workflow /\ To(w, Idle)
    BY <1>3 DEF GetWorkflow, Drop, Leave
  <2>2. worker' \in [Workers -> WorkerStates] /\ worker'[w] = Idle /\ \A v \in Workers \ {w} : worker'[v] = worker[v]
    BY <1>1, <2>1, IdleState, OthersStay
  <2>3. \A id \in Workflows : DocumentInv(id)' /\ TrueOf(id, workflow[id])'
    BY <1>1, <1>2, <2>1 DEF DocumentInv, TrueOf
  <2>4. QED
    BY <1>1, <2>1, <2>2, <2>3, IdleState DEF Moves, Acts, TypeOK
<1>4. CASE old # NoWorkflow
  <2>1. old \in Live /\ "RUNNING" \in Statuses
    BY <1>1, <1>4, LiveOrNone DEF TypeOK, Statuses
  <2>2. doc \in Live /\ doc.kind = old.kind /\ doc.steps = old.steps /\ doc.state = "RUNNING"
    BY <2>1, SetState
  <2>3. DOMAIN old.steps = DOMAIN Steps(old.kind) /\ \A i \in DOMAIN old.steps : old.steps[i] = "PENDING"
    BY <1>1, <1>2, <1>4 DEF DocumentInv, Fresh
  <2>4. Store(w, doc) \/ StoreFails(w, doc)
    BY <1>4 DEF GetWorkflow
  <2>5. To(w, Idle) \/ To(w, next)
    BY <1>4 DEF GetWorkflow, Drop, Leave
  <2> HIDE DEF doc
  <2>6. TrueOf(me.id, doc)
    BY <2>2, <2>3 DEF TrueOf
  <2>7. /\ next \in WorkerStates /\ next.pc = "step" /\ next.id = me.id /\ next.mem = doc
        /\ next.i = 1 /\ next.try = 1
    BY <1>1, <2>2, LiveIsNotNone, PlacesOfWorkers DEF WorkerStates
  <2>8. /\ workflow' \in [Workflows -> Documents] /\ workflow'[me.id] \in {old, doc}
        /\ \A id \in Workflows : id # me.id => workflow'[id] = workflow[id]
        /\ workflow'[me.id] # NoWorkflow
    BY <1>1, <1>4, <2>2, <2>4, StoreSets
  <2>9. \A id \in Workflows : DocumentInv(id)' /\ TrueOf(id, workflow[id])'
    BY <1>1, <2>2, <2>3, <2>6, <2>8, DocumentsStay
  <2> HIDE DEF next
  <2>10. Acts(w) <=> \A v \in Workers \ {w} : worker'[v] = worker[v]
    BY <1>1, <2>8 DEF Acts
  <2>11. CASE To(w, Idle)
    BY <1>1, <2>8, <2>9, <2>10, <2>11, IdleState, OthersStay DEF Moves
  <2>12. CASE To(w, next)
    <3>1. worker' \in [Workers -> WorkerStates] /\ worker'[w] = next /\ \A v \in Workers \ {w} : worker'[v] = worker[v]
      BY <1>1, <2>7, <2>12, OthersStay
    <3>2. 1 \in DOMAIN Steps(doc.kind) /\ \A p \in DOMAIN Steps(doc.kind) : ~ (p < 1)
      BY StepsOfKind
    <3>3. WorkerInv(w)'
      BY <1>1, <2>2, <2>3, <2>7, <2>8, <3>1, <3>2, LiveIsNotNone, SMTT(20) DEF WorkerInv, Fresh, Untouched
    <3>4. QED
      BY <2>7, <2>8, <2>9, <2>10, <3>1, <3>3, FirstTry DEF Moves
  <2>13. QED
    BY <2>5, <2>11, <2>12
<1>5. QED
  BY <1>3, <1>4

\* An id taken from the queue.
Taken(id) == [Idle EXCEPT !.pc = "get", !.id = id]

LEMMA TakenState ==
  ASSUME NEW id \in Workflows
  PROVE  /\ Taken(id) \in WorkerStates /\ Taken(id).pc = "get" /\ Taken(id).id = id
         /\ Taken(id).i = 1 /\ Taken(id).try = 1 /\ 1 <= Tries(Taken(id).mem.kind)
<1>1. Idle \in WorkerStates
  BY IdleState
<1>2. Taken(id) \in WorkerStates
  BY <1>1, PlacesOfWorkers DEF Taken, WorkerStates
<1>3. QED
  BY <1>1, <1>2, FirstTry DEF Taken, Idle

LEMMA TakeMoves ==
  ASSUME IInv, NEW w \in Workers, Take(w)
  PROVE  Moves(w) /\ worker'[w] = Taken(Head(jobQueue)) /\ Head(jobQueue) \in Workflows
<1>1. jobQueue \in Seq(Workflows) /\ jobQueue # <<>> /\ TypeOK /\ UNCHANGED <<workflow, edited>>
  BY DEF IInv, TypeOK, Take, ghosts
<1>2. Head(jobQueue) \in Workflows
  BY <1>1
<1>3. To(w, Taken(Head(jobQueue)))
  BY DEF Take, Taken
<1>4. /\ worker' \in [Workers -> WorkerStates] /\ worker'[w] = Taken(Head(jobQueue))
      /\ \A v \in Workers \ {w} : worker'[v] = worker[v]
  BY <1>1, <1>2, <1>3, TakenState, OthersStay
<1>5. \A id \in Workflows : DocumentInv(id)' /\ TrueOf(id, workflow[id])'
  BY <1>1 DEF IInv, DocumentIsTrue, DocumentInv, TrueOf
<1>6. QED
  BY <1>1, <1>2, <1>4, <1>5, TakenState DEF Moves, Acts, TypeOK

LEMMA WorkerStepMoves ==
  ASSUME IInv, NEW w \in Workers, WorkerStep(w)
  PROVE  Moves(w)
<1>1. CASE GetWorkflow(w)
  BY <1>1, GetWorkflowMoves
<1>2. CASE worker[w].pc \notin {"idle", "get"}
  <2>1. w \in Running /\ ~ GetWorkflow(w)
    BY <1>2 DEF Running, GetWorkflow
  <2>2. QED
    BY <2>1, StartStepMoves, CallMoves, UpdateFileMoves, RecordFailureMoves, RecordSuccessMoves,
       CompleteWorkflowMoves DEF WorkerStep
<1>3. QED
  BY <1>1, <1>2 DEF WorkerStep, StartStep, Call, UpdateFile, RecordFailure, RecordSuccess, CompleteWorkflow

-----------------------------------------------------------------------------
(* Where the ids are.                                                       *)

LEMMA OthersAtWork ==
  ASSUME IInv, NEW w \in Workers, Acts(w), NEW v \in Running, v # w
  PROVE  WorkerInv(v)' /\ worker'[v] = worker[v]
<1>1. v \in Busy /\ v \in Workers /\ worker'[v] = worker[v] /\ WorkerInv(v) /\ worker[v].id \in Workflows
  BY RunningWorker DEF Running, Busy, Acts
<1>2. workflow'[worker[v].id] # NoWorkflow
  BY <1>1 DEF Acts, WorkerInv
<1>3. Untouched(worker[v].id) => \A e \in edited' : e[1] # worker[v].id
  <2>1. CASE edited' = edited
    BY <2>1 DEF Untouched
  <2>2. CASE edited' # edited
    <3>1. w \in Busy /\ \A e \in edited' \ edited : e[1] = worker[w].id
      BY <2>2 DEF Acts, Running, Busy
    <3>2. worker[w].id # worker[v].id
      BY <1>1, <3>1 DEF IInv, OnePlace
    <3>3. QED
      BY <3>1, <3>2 DEF Untouched
  <2>3. QED
    BY <2>1, <2>2
<1>4. edited \subseteq edited'
  BY DEF Acts
<1>5. QED
  BY <1>1, <1>2, <1>3, <1>4, SMTT(20) DEF WorkerInv, Done, Untouched

LEMMA WorkersAtWork ==
  ASSUME IInv, NEW w \in Workers, Moves(w)
  PROVE  \A v \in Running' : WorkerInv(v)'
<1> SUFFICES ASSUME NEW v \in Running' PROVE WorkerInv(v)'
  OBVIOUS
<1>1. CASE v = w
  BY <1>1 DEF Moves, Running
<1>2. CASE v # w
  <2>1. v \in Running /\ Acts(w)
    BY <1>2 DEF Moves, Acts, Running
  <2>2. QED
    BY <1>2, <2>1, OthersAtWork
<1>3. QED
  BY <1>1, <1>2

\* Each step of a worker keeps its id or makes it idle.
LEMMA KeepsItsId ==
  ASSUME TypeOK, NEW w \in Workers, WorkerStep(w)
  PROVE  /\ w \in Busy /\ UNCHANGED <<waiting, jobQueue>> /\ lost \subseteq lost'
         /\ \/ worker' = [worker EXCEPT ![w] = Idle]
            \/ worker'[w].id = worker[w].id /\ worker'[w].pc \notin {"idle", "get"}
<1> DEFINE me == worker[w]
<1>1. me \in WorkerStates /\ me.pc \in Pcs
  BY DEF TypeOK, WorkerStates
<1>2. ASSUME NEW next, To(w, next) PROVE worker'[w] = next
  BY <1>2 DEF To, TypeOK
<1>3. CASE GetWorkflow(w)
  <2>1. UNCHANGED <<waiting, jobQueue>> /\ me.pc = "get" /\ lost \subseteq lost'
    BY <1>3 DEF GetWorkflow, Drop, Leave
  <2>2. Drop(w) \/ To(w, [me EXCEPT !.pc = "step", !.mem = [workflow[me.id] EXCEPT !.state = "RUNNING"]])
    BY <1>3 DEF GetWorkflow
  <2>3. QED
    BY <1>1, <1>2, <2>1, <2>2 DEF Busy, Drop, Leave, To, WorkerStates
<1>4. CASE StartStep(w)
  <2>1. UNCHANGED <<waiting, jobQueue>> /\ me.pc = "step" /\ lost \subseteq lost'
    BY <1>4 DEF StartStep, Drop, Leave
  <2>2. Drop(w) \/ To(w, [me EXCEPT !.pc = "call", !.mem = [me.mem EXCEPT !.steps[me.i] = "RUNNING"], !.j = 1, !.try = 1])
    BY <1>4 DEF StartStep
  <2>3. QED
    BY <1>1, <1>2, <2>1, <2>2 DEF Busy, Drop, Leave, To, WorkerStates
<1>5. ASSUME ActivityFails(w) PROVE worker'[w].id = me.id /\ worker'[w].pc \notin {"idle", "get"}
  BY <1>1, <1>2, <1>5 DEF ActivityFails, WorkerStates
<1>6. CASE Call(w)
  <2>1. UNCHANGED <<waiting, jobQueue>> /\ me.pc = "call" /\ lost \subseteq lost'
    BY <1>6 DEF Call, ghosts
  <2>2. \/ ActivityFails(w) \/ To(w, [me EXCEPT !.pc = "ended"])
        \/ To(w, [me EXCEPT !.pc = "write", !.read = file[EditsOf(w)[me.j].file]])
    BY <1>6 DEF Call
  <2>3. QED
    BY <1>1, <1>2, <1>5, <2>1, <2>2 DEF Busy, WorkerStates
<1>7. CASE UpdateFile(w)
  <2>1. UNCHANGED <<waiting, jobQueue>> /\ me.pc = "write" /\ lost \subseteq lost'
    BY <1>7 DEF UpdateFile
  <2>2. \/ ActivityFails(w) \/ To(w, [me EXCEPT !.pc = "ended", !.read = NoFile])
        \/ To(w, [me EXCEPT !.pc = "call", !.j = @ + 1, !.read = NoFile])
    BY <1>7 DEF UpdateFile
  <2>3. QED
    BY <1>1, <1>2, <1>5, <2>1, <2>2 DEF Busy, WorkerStates
<1>8. CASE RecordFailure(w) \/ CompleteWorkflow(w)
  BY <1>8 DEF RecordFailure, CompleteWorkflow, Drop, Leave, Busy, To
<1>9. CASE RecordSuccess(w)
  <2> DEFINE done == [me.mem EXCEPT !.steps[me.i] = "COMPLETED"]
             doc == IF IsOnboarding(done.kind) THEN done ELSE [done EXCEPT !.state = "COMPLETED"]
  <2>1. UNCHANGED <<waiting, jobQueue>> /\ me.pc = "ended" /\ lost \subseteq lost'
    BY <1>9 DEF RecordSuccess, Drop, Leave
  <2>2. \/ To(w, Idle) \/ To(w, [me EXCEPT !.pc = "complete", !.mem = doc, !.j = 1, !.try = 1])
        \/ To(w, [me EXCEPT !.pc = "step", !.mem = doc, !.i = @ + 1, !.j = 1, !.try = 1])
    BY <1>9 DEF RecordSuccess, Drop, Leave
  <2> HIDE DEF doc
  <2>3. QED
    BY <1>1, <1>2, <2>1, <2>2, ZenonT(30) DEF Busy, To, WorkerStates
<1>10. QED
  BY <1>3, <1>4, <1>6, <1>7, <1>8, <1>9 DEF WorkerStep

Places == OnePlace /\ NotStarted

LEMMA WorkerStepPlaces ==
  ASSUME IInv, NEW w \in Workers, WorkerStep(w)
  PROVE  Places'
<1>1. /\ TypeOK /\ OnePlace /\ NotStarted /\ w \in Busy /\ lost \subseteq lost' /\ UNCHANGED <<waiting, jobQueue>>
      /\ Acts(w) /\ worker[w].id \in Workflows
  BY KeepsItsId, WorkerStepMoves DEF IInv, Moves, OnePlace
<1>2. /\ \A v \in Workers \ {w} : worker'[v] = worker[v]
      /\ worker'[w].pc # "idle" => worker'[w].id = worker[w].id /\ worker'[w].pc # "get"
  <2>1. Idle.pc = "idle"
    BY DEF Idle
  <2>2. QED
    BY <1>1, <2>1, KeepsItsId DEF Acts, TypeOK
<1>3. Queued' = Queued /\ Busy' \subseteq Busy /\ \A v \in Busy' : worker'[v].id = worker[v].id
  BY <1>1, <1>2 DEF Queued, Busy
<1>4. OnePlace'
  BY <1>1, <1>3 DEF OnePlace
<1>5. ASSUME NEW id \in Workflows, Untouched(id), w \in Running => id # worker[w].id
      PROVE  Untouched(id)'
  BY <1>1, <1>5 DEF Untouched, Acts
<1>6. ASSUME NEW id \in Workflows, Fresh(id), id # worker[w].id PROVE Fresh(id)'
  BY <1>1, <1>5, <1>6 DEF Fresh, Acts
<1>7. ASSUME NEW id \in Workflows, workflow'[id] = NoWorkflow
      PROVE  Untouched(id)' /\ (id \notin lost' => id \notin (waiting \union Queued \union {worker[v].id : v \in Busy})')
  <2>1. workflow[id] = NoWorkflow
    BY <1>1, <1>7 DEF Acts
  <2>2. Untouched(id) /\ (id \notin lost => id \notin waiting \union Queued \union {worker[v].id : v \in Busy})
    BY <1>1, <2>1 DEF NotStarted
  <2>3. w \in Running => id # worker[w].id
    BY <2>1, RunningWorker DEF WorkerInv
  <2>4. QED
    BY <1>1, <1>3, <1>5, <2>2, <2>3
<1>8. ASSUME NEW id \in waiting' \union Queued' PROVE Fresh(id)'
  <2>1. id \in waiting \union Queued /\ id # worker[w].id /\ id \in Workflows
    BY <1>1, <1>3, ElementOfSeq DEF OnePlace, TypeOK, Queued
  <2>2. QED
    BY <1>1, <1>6, <2>1 DEF NotStarted
<1>9. ASSUME NEW v \in Busy', worker'[v].pc = "get" PROVE Fresh(worker[v].id)' /\ worker'[v].i = 1 /\ worker'[v].try = 1
  <2>1. v # w /\ worker'[v] = worker[v] /\ v \in Busy
    BY <1>2, <1>9 DEF Busy
  <2>2. worker[v].id # worker[w].id /\ worker[v].id \in Workflows
    BY <1>1, <2>1 DEF OnePlace
  <2>3. Fresh(worker[v].id) /\ worker[v].i = 1 /\ worker[v].try = 1
    BY <1>1, <1>9, <2>1 DEF NotStarted
  <2>4. QED
    BY <1>6, <2>1, <2>2, <2>3
<1>10. QED
  BY <1>4, <1>7, <1>8, <1>9 DEF Places, NotStarted

\* The callers leave the workers, the edits and the files alone.
LEMMA StartWorkflowPlaces ==
  ASSUME IInv, NEW id \in Workflows, StartWorkflow(id)
  PROVE  Places' /\ \A w \in Running' : WorkerInv(w)'
<1>1. /\ OnePlace /\ NotStarted /\ waiting' = waiting \union {id} /\ lost \subseteq lost'
      /\ UNCHANGED <<jobQueue, worker, edited>> /\ workflow[id] = NoWorkflow /\ id \notin lost
      /\ \A w \in Running : WorkerInv(w)
  BY DEF IInv, StartWorkflow
<1>2. Untouched(id) /\ id \notin waiting \union Queued \union {worker[w].id : w \in Busy}
  BY <1>1 DEF NotStarted
<1>3. \/ UNCHANGED workflow /\ lost' = lost \union {id}
      \/ /\ \A other \in Workflows : other # id => workflow'[other] = workflow[other]
         /\ workflow'[id] # NoWorkflow /\ workflow'[id].state = "PENDING"
         /\ \A i \in DOMAIN workflow'[id].steps : workflow'[id].steps[i] = "PENDING"
  BY DEF StartWorkflow, NoWorkflow, IInv, TypeOK
<1>4. Queued' = Queued /\ Busy' = Busy /\ Running' = Running
  BY <1>1 DEF Queued, Busy, Running
<1>5. OnePlace'
  BY <1>1, <1>2, <1>4 DEF OnePlace
<1>6. ASSUME NEW other \in Workflows, Fresh(other) PROVE Fresh(other)'
  BY <1>1, <1>3, <1>6 DEF Fresh, Untouched
<1>7. Fresh(id)
  BY <1>1, <1>2 DEF Fresh
<1>8. ASSUME NEW other \in Workflows, workflow'[other] = NoWorkflow
      PROVE  Untouched(other)' /\ (other \notin lost' => other \notin (waiting \union Queued \union {worker[v].id : v \in Busy})')
  <2>1. workflow[other] = NoWorkflow /\ (other = id => id \in lost')
    BY <1>1, <1>3, <1>8
  <2>2. Untouched(other) /\ (other \notin lost => other \notin waiting \union Queued \union {worker[v].id : v \in Busy})
    BY <1>1, <2>1 DEF NotStarted
  <2>3. QED
    BY <1>1, <1>4, <2>1, <2>2 DEF Untouched
<1>9. \A other \in waiting' \union Queued' : Fresh(other)'
  BY <1>1, <1>4, <1>6, <1>7, ElementOfSeq DEF NotStarted, Queued, IInv, TypeOK
<1>10. \A v \in Busy' : worker'[v].pc = "get" => Fresh(worker[v].id)' /\ worker'[v].i = 1 /\ worker'[v].try = 1
  <2> SUFFICES ASSUME NEW v \in Busy', worker'[v].pc = "get"
               PROVE  Fresh(worker[v].id)' /\ worker'[v].i = 1 /\ worker'[v].try = 1
    OBVIOUS
  <2>1. v \in Busy /\ worker[v].id \in Workflows /\ Fresh(worker[v].id) /\ worker[v].i = 1 /\ worker[v].try = 1
    BY <1>1, <1>4 DEF NotStarted, OnePlace
  <2>2. QED
    BY <1>1, <1>6, <2>1
<1>11. ASSUME NEW w \in Running' PROVE WorkerInv(w)'
  <2>1. WorkerInv(w) /\ workflow'[worker[w].id] # NoWorkflow
    <3>1. w \in Running /\ WorkerInv(w) /\ worker[w].id \in Workflows
      BY <1>4, RunningWorker
    <3>2. QED
      BY <1>3, <3>1 DEF WorkerInv
  <2>2. QED
    BY <1>1, <2>1 DEF WorkerInv, Done, Untouched
<1>12. QED
  BY <1>5, <1>8, <1>9, <1>10, <1>11 DEF Places, NotStarted

\* An id that moves from one place to another stays fresh.
LEMMA PlacesStay ==
  ASSUME NotStarted, OnePlace', UNCHANGED <<workflow, edited>>, lost \subseteq lost',
         waiting' \union Queued' \subseteq waiting \union Queued,
         {worker[v].id : v \in Busy}' \subseteq {worker[v].id : v \in Busy} \union waiting \union Queued,
         \A v \in Busy' : worker'[v].pc = "get" =>
            \/ v \in Busy /\ worker'[v] = worker[v]
            \/ worker'[v].id \in Queued /\ worker'[v].i = 1 /\ worker'[v].try = 1
  PROVE  Places'
<1>1. \A id : (Fresh(id) => Fresh(id)') /\ (Untouched(id) => Untouched(id)')
  BY DEF Fresh, Untouched
<1>2. \A v \in Busy' : worker'[v].pc = "get" => Fresh(worker'[v].id) /\ worker'[v].i = 1 /\ worker'[v].try = 1
  BY DEF NotStarted
<1>3. QED
  BY <1>1, <1>2 DEF Places, NotStarted, Fresh, Untouched

LEMMA EnqueuePlaces ==
  ASSUME IInv, NEW id \in Workflows, Enqueue(id)
  PROVE  Places'
<1>1. /\ OnePlace /\ NotStarted /\ id \in waiting /\ waiting' = waiting \ {id} /\ jobQueue' = Append(jobQueue, id)
      /\ UNCHANGED <<workflow, worker, edited, lost>> /\ jobQueue \in Seq(Workflows)
  BY DEF IInv, Enqueue, ghosts, TypeOK
<1>2. /\ DOMAIN jobQueue = 1..Len(jobQueue) /\ Len(jobQueue) \in Nat
      /\ DOMAIN jobQueue' = 1..(Len(jobQueue) + 1) /\ jobQueue'[Len(jobQueue) + 1] = id
      /\ \A n \in DOMAIN jobQueue : jobQueue'[n] = jobQueue[n]
  BY <1>1, AppendProperties, LenProperties
<1>3. \A n \in DOMAIN jobQueue' : n \in DOMAIN jobQueue \/ n = Len(jobQueue) + 1
  BY <1>2
<1>4. Queued' = Queued \union {id}
  BY <1>2, <1>3 DEF Queued
<1>5. id \notin Queued /\ Busy' = Busy
  BY <1>1 DEF OnePlace, Busy
<1>6. \A m, n \in DOMAIN jobQueue' : jobQueue'[m] = jobQueue'[n] => m = n
  BY <1>1, <1>2, <1>3, <1>5 DEF OnePlace, Queued
<1>7. OnePlace'
  BY <1>1, <1>4, <1>5, <1>6 DEF OnePlace
<1>8. QED
  BY <1>1, <1>4, <1>5, <1>7, PlacesStay DEF Busy

LEMMA EnqueueTimeoutPlaces ==
  ASSUME IInv, NEW id \in Workflows, EnqueueTimeout(id)
  PROVE  Places'
<1>1. /\ OnePlace /\ NotStarted /\ waiting' \subseteq waiting /\ lost \subseteq lost'
      /\ UNCHANGED <<workflow, worker, edited, jobQueue>>
  BY DEF IInv, EnqueueTimeout
<1>2. Queued' = Queued /\ Busy' = Busy
  BY <1>1 DEF Queued, Busy
<1>3. OnePlace'
  BY <1>1, <1>2 DEF OnePlace
<1>4. QED
  BY <1>1, <1>2, <1>3, PlacesStay DEF Busy

LEMMA TakePlaces ==
  ASSUME IInv, NEW w \in Workers, Take(w)
  PROVE  Places'
<1> DEFINE id == Head(jobQueue)
<1>1. /\ OnePlace /\ NotStarted /\ jobQueue \in Seq(Workflows) /\ jobQueue # <<>> /\ jobQueue' = Tail(jobQueue)
      /\ UNCHANGED <<workflow, waiting, edited, lost>> /\ worker[w].pc = "idle" /\ id \in Workflows
      /\ worker'[w] = Taken(id) /\ \A v \in Workers \ {w} : worker'[v] = worker[v]
  BY TakeMoves DEF IInv, TypeOK, Take, ghosts, Moves, Acts
<1>2. /\ DOMAIN jobQueue = 1..Len(jobQueue) /\ Len(jobQueue) \in Nat /\ Len(jobQueue) >= 1 /\ id = jobQueue[1]
      /\ DOMAIN jobQueue' = 1..(Len(jobQueue) - 1)
      /\ \A n \in DOMAIN jobQueue' : n + 1 \in DOMAIN jobQueue /\ jobQueue'[n] = jobQueue[n + 1]
  BY <1>1, HeadTailProperties, LenProperties, EmptySeq
<1>3. /\ \A m, n \in DOMAIN jobQueue' : jobQueue'[m] = jobQueue'[n] => m = n
      /\ Queued' \subseteq Queued /\ id \in Queued /\ id \notin Queued'
  <2>1. \A m, n \in DOMAIN jobQueue : jobQueue[m] = jobQueue[n] => m = n
    BY <1>1 DEF OnePlace
  <2>2. Queued' \subseteq Queued /\ id \in Queued
    BY <1>2 DEF Queued
  <2>3. \A n \in DOMAIN jobQueue' : jobQueue'[n] # id
    BY <1>2, <2>1
  <2>4. QED
    BY <1>2, <2>1, <2>2, <2>3 DEF Queued
<1>4. /\ Taken(id).pc = "get" /\ Taken(id).id = id /\ Taken(id).i = 1 /\ Taken(id).try = 1
  BY <1>1, TakenState
<1> HIDE DEF id
<1>5. w \notin Busy /\ Busy' = Busy \union {w} /\ \A v \in Busy : worker'[v] = worker[v]
  BY <1>1, <1>4 DEF Busy
<1>6. \A v \in Busy : worker[v].id # id
  BY <1>1, <1>3 DEF OnePlace
<1>7. id \notin waiting
  BY <1>1, <1>3 DEF OnePlace
<1>8. \A v \in Busy' : worker'[v].id \in Workflows \ (waiting' \union Queued')
  BY <1>1, <1>3, <1>4, <1>5, <1>7 DEF OnePlace
<1>9. \A u, v \in Busy' : worker'[u].id = worker'[v].id => u = v
  BY <1>1, <1>4, <1>5, <1>6 DEF OnePlace
<1>10. OnePlace'
  BY <1>1, <1>3, <1>8, <1>9 DEF OnePlace
<1>11. {worker[v].id : v \in Busy}' \subseteq {worker[v].id : v \in Busy} \union waiting \union Queued
  BY <1>3, <1>4, <1>1, <1>5
<1>12. QED
  BY <1>1, <1>3, <1>4, <1>5, <1>10, <1>11, PlacesStay

LEMMA CrashPlaces ==
  ASSUME IInv, Crash
  PROVE  Places' /\ Running' = {}
<1>1. /\ OnePlace /\ NotStarted /\ waiting' = {} /\ jobQueue' = <<>> /\ UNCHANGED <<workflow, edited>>
      /\ lost \subseteq lost' /\ \A w \in Workers : worker'[w].pc = "idle"
  BY DEF IInv, Crash, Idle
<1>2. Queued' = {} /\ Busy' = {} /\ Running' = {}
  BY <1>1 DEF Queued, Busy, Running
<1>3. OnePlace'
  BY <1>1, <1>2 DEF OnePlace
<1>4. QED
  BY <1>1, <1>2, <1>3, PlacesStay

-----------------------------------------------------------------------------
(* The files.                                                               *)

\* A worker at its write: the edit it is at, and what it read.
LEMMA AtWrite ==
  ASSUME IInv, NEW w \in Running, worker[w].pc = "write"
  PROVE  /\ EditsOf(w)[worker[w].j] \in Edit /\ worker[w].j \in DOMAIN EditsOf(w)
         /\ worker[w].i \in DOMAIN Steps(worker[w].mem.kind)
         /\ worker[w].id \in Workflows /\ worker[w].i \in Nat /\ worker[w].j \in Nat
         /\ worker[w].read \in Written \/ (worker[w].read = NoFile /\ EditsOf(w)[worker[w].j].keys = Keys)
<1>1. WorkerInv(w) /\ worker[w].id \in Workflows /\ worker[w] \in WorkerStates
  BY RunningWorker
<1>2. worker[w].i \in Nat /\ worker[w].j \in Nat /\ worker[w].read \in Contents
  BY <1>1 DEF WorkerStates, Positions
<1>3. QED
  BY <1>1, <1>2, EditsOfStep DEF WorkerInv, EditsOf, Contents

\* What an accepted write does to the files.
LEMMA CommitWrites ==
  ASSUME IInv, NEW w \in Running, worker[w].pc = "write", Accepted(w), Commit(w)
  PROVE  LET edit == EditsOf(w)[worker[w].j]
             old == file[edit.file]
         IN  /\ file' \in [Files -> Contents] /\ newest' \in [Files -> Written]
             /\ \A f \in Files : f # edit.file => file'[f] = file[f] /\ newest'[f] = newest[f]
             /\ edit.file \in Files /\ file'[edit.file] \in Written
             /\ \A k \in Keys :
                  /\ k \in edit.keys => file'[edit.file][k] = worker[w].id /\ newest'[edit.file][k] = worker[w].id
                  /\ k \notin edit.keys => /\ old # NoFile /\ file'[edit.file][k] = old[k]
                                           /\ newest'[edit.file][k] = newest[edit.file][k]
<1> DEFINE edit == EditsOf(w)[worker[w].j]
           content == [k \in Keys |-> IF k \in edit.keys THEN worker[w].id ELSE worker[w].read[k]]
           latest == [k \in Keys |-> IF k \in edit.keys THEN worker[w].id ELSE newest[edit.file][k]]
<1>1. /\ edit \in Edit /\ worker[w].id \in Workflows
      /\ worker[w].read \in Written \/ (worker[w].read = NoFile /\ edit.keys = Keys)
      /\ file \in [Files -> Contents] /\ newest \in [Files -> Written] /\ worker[w].read = file[edit.file]
  BY AtWrite DEF IInv, TypeOK, Accepted
<1>2. file' = [file EXCEPT ![edit.file] = content] /\ newest' = [newest EXCEPT ![edit.file] = latest]
  BY DEF Commit
<1>3. edit.file \in Files
  BY <1>1 DEF Edit
<1> HIDE DEF edit
<1>4. content \in Written
  BY <1>1 DEF Written
<1>5. latest \in Written
  BY <1>1, <1>3 DEF Written
<1>6. \A k \in Keys : k \notin edit.keys => worker[w].read # NoFile
  BY <1>1, NoFileAssumption
<1>7. \A k \in Keys : /\ content[k] = IF k \in edit.keys THEN worker[w].id ELSE worker[w].read[k]
                      /\ latest[k] = IF k \in edit.keys THEN worker[w].id ELSE newest[edit.file][k]
  OBVIOUS
<1> HIDE DEF content, latest
<1>8. /\ file'[edit.file] = content /\ newest'[edit.file] = latest
      /\ \A f \in Files : f # edit.file => file'[f] = file[f] /\ newest'[f] = newest[f]
      /\ file' \in [Files -> Contents] /\ newest' \in [Files -> Written]
  BY <1>1, <1>2, <1>3, <1>4, <1>5 DEF Contents
<1>9. QED
  BY <1>1, <1>3, <1>4, <1>6, <1>7, <1>8 DEF edit

LEMMA CommitLosesNoEdit ==
  ASSUME IInv, NEW w \in Running, worker[w].pc = "write", Accepted(w), Commit(w)
  PROVE  NoEditLost'
<1> DEFINE edit == EditsOf(w)[worker[w].j]
<1> HIDE DEF edit
<1>1. ASSUME NEW f \in Files, file'[f] # NoFile, NEW k \in Keys PROVE file'[f][k] = newest'[f][k]
  <2>1. file[f] # NoFile => file[f][k] = newest[f][k]
    BY DEF IInv, NoEditLost
  <2>2. CASE f # edit.file
    BY <1>1, <2>1, <2>2, CommitWrites DEF edit
  <2>3. CASE f = edit.file
    BY <2>1, <2>3, CommitWrites DEF edit
  <2>4. QED
    BY <2>2, <2>3
<1>2. QED
  BY <1>1 DEF NoEditLost

\* Only an accepted write changes a file.
LEMMA FilesStay ==
  ASSUME NEW w \in Workers, WorkerStep(w)
  PROVE  \/ UNCHANGED <<file, newest, edited>>
         \/ worker[w].pc = "write" /\ Accepted(w) /\ Commit(w) /\ UpdateFile(w)
BY DEF WorkerStep, GetWorkflow, StartStep, Call, UpdateFile, RecordFailure, RecordSuccess, CompleteWorkflow, ghosts

-----------------------------------------------------------------------------
(* The types.                                                               *)

LEMMA FaultStays == Fault /\ faults \in 0..MaxFaults => faults' \in 0..MaxFaults
BY WorkflowAssumption DEF Fault

LEMMA PushesOfUpdate ==
  /\ DOMAIN DeployableEdits = {1, 2} /\ Len(DeployableEdits) = 2
  /\ DeployableEdits[1].file = "values.yaml" /\ DeployableEdits[2].file = "values_properties.yaml"
  /\ \A j \in {1, 2} : DeployableEdits[j].file \in Files
<1> DEFINE S == {Push("values.yaml"), Push("values_properties.yaml")}
<1>1. /\ CreateValuesYaml \in Seq(S) /\ Len(CreateValuesYaml) = 1 /\ CreateValuesYaml[1] = Push("values.yaml")
      /\ UpdateValuesProperties \in Seq(S) /\ Len(UpdateValuesProperties) = 1
      /\ UpdateValuesProperties[1] = Push("values_properties.yaml")
  BY DEF CreateValuesYaml, UpdateValuesProperties
<1> HIDE DEF S
<1>2. /\ DeployableEdits \in Seq(S) /\ Len(DeployableEdits) = 2
      /\ DeployableEdits[1] = Push("values.yaml") /\ DeployableEdits[2] = Push("values_properties.yaml")
  BY <1>1, ConcatProperties DEF DeployableEdits
<1>3. DOMAIN DeployableEdits = {1, 2}
  BY <1>2, LenProperties
<1>4. QED
  BY <1>2, <1>3 DEF Push, Files

(* The steps of an update of a deployable.                                  *)
LEMMA UpdateTypes ==
  ASSUME TypeOK, NEW u \in Updates, FetchDeployed(u) \/ PushDeployed(u)
  PROVE  TypeOK'
<1> DEFINE me == update[u]
           States == [pc : {"new", "call", "write", "done"}, j : DOMAIN DeployableEdits, read : Contents]
<1>1. me \in States /\ NoFile \in Contents /\ update \in [Updates -> States]
  BY DEF TypeOK, Contents
<1>2. me.j \in {1, 2} /\ DeployableEdits[me.j].file \in Files
  BY <1>1, PushesOfUpdate
<1>3. [me EXCEPT !.pc = "done", !.read = NoFile] \in States
  BY <1>1
<1>4. CASE FetchDeployed(u)
  <2>1. [me EXCEPT !.pc = "write", !.read = file[DeployableEdits[me.j].file]] \in States
    BY <1>1, <1>2 DEF TypeOK
  <2>2. update' \in [Updates -> States]
    BY <1>1, <1>3, <1>4, <2>1 DEF FetchDeployed, Go, UpdateEnds
  <2>3. faults' \in 0..MaxFaults
    BY <1>4, FaultStays DEF FetchDeployed, TypeOK
  <2>4. Agreed(Triggers, Base) \in [Triggers -> Workflows \union {Base}]
    BY DEF Agreed
  <2>5. QED
    BY <1>4, <2>2, <2>3, <2>4 DEF FetchDeployed, TypeOK
<1>5. CASE PushDeployed(u)
  <2>1. [k \in Keys |-> u] \in Written
    BY DEF Written
  <2>2. file' \in [Files -> Contents] /\ newest' \in [Files -> Written]
    <3>1. UNCHANGED <<file, newest>> \/ \E f \in Files : /\ file' = [file EXCEPT ![f] = [k \in Keys |-> u]]
                                                       /\ newest' = [newest EXCEPT ![f] = [k \in Keys |-> u]]
      BY <1>2, <1>5 DEF PushDeployed
    <3>2. QED
      BY <2>1, <3>1 DEF TypeOK, Contents
  <2>3. ASSUME me.j < Len(DeployableEdits)
        PROVE  [me EXCEPT !.pc = "call", !.j = @ + 1, !.read = NoFile] \in States
    <3>1. me.j + 1 \in DOMAIN DeployableEdits
      BY <1>2, <2>3, PushesOfUpdate
    <3>2. QED
      BY <1>1, <3>1
  <2>4. update' \in [Updates -> States]
    BY <1>1, <1>3, <1>5, <2>3 DEF PushDeployed, Go, UpdateEnds
  <2>5. faults' \in 0..MaxFaults
    BY <1>5, FaultStays DEF PushDeployed, TypeOK
  <2>6. QED
    BY <1>5, <2>2, <2>4, <2>5 DEF PushDeployed, TypeOK
<1>6. QED
  BY <1>4, <1>5

LEMMA WorkerStepTypes ==
  ASSUME IInv, NEW w \in Workers, WorkerStep(w)
  PROVE  TypeOK'
<1>1. TypeOK /\ Moves(w) /\ w \in Busy /\ UNCHANGED <<waiting, jobQueue>> /\ worker[w].id \in Workflows
  BY WorkerStepMoves, KeepsItsId DEF IInv, OnePlace
<1>2. \A v \in Workers : worker'[v].try <= Tries(worker'[v].mem.kind)
  BY <1>1 DEF Moves, Acts, TypeOK
<1>3. lost' \subseteq lost \union {worker[w].id}
  BY DEF WorkerStep, GetWorkflow, StartStep, Call, UpdateFile, RecordFailure, RecordSuccess, CompleteWorkflow,
         ghosts, Drop, Leave
<1>4. /\ alone' \subseteq Workflows /\ agreed' \in [Triggers -> Workflows \union {Base}] /\ UNCHANGED update
  <2>1. \A keys : \A who \in Workflows \union {Base} : Agreed(keys, who) \in [Triggers -> Workflows \union {Base}]
    BY <1>1 DEF Agreed, TypeOK
  <2>2. CASE GetWorkflow(w)
    BY <1>1, <2>1, <2>2 DEF GetWorkflow, Drop, Leave, TypeOK
  <2>3. CASE RecordSuccess(w)
    BY <1>1, <2>1, <2>3, SMTT(20) DEF RecordSuccess, Drop, Leave, TypeOK
  <2>4. CASE StartStep(w) \/ RecordFailure(w) \/ CompleteWorkflow(w)
    BY <1>1, <2>4 DEF StartStep, RecordFailure, CompleteWorkflow, Drop, Leave, TypeOK
  <2>5. CASE Call(w) \/ UpdateFile(w)
    BY <1>1, <2>5 DEF Call, UpdateFile, ghosts, TypeOK
  <2>6. QED
    BY <2>2, <2>3, <2>4, <2>5 DEF WorkerStep
<1>5. faults' \in 0..MaxFaults
  <2>1. UNCHANGED faults \/ Fault
    BY DEF WorkerStep, GetWorkflow, StartStep, Call, UpdateFile, RecordFailure, RecordSuccess, CompleteWorkflow,
           StoreFails
  <2>2. QED
    BY <1>1, <2>1, FaultStays DEF TypeOK
<1>6. file' \in [Files -> Contents] /\ newest' \in [Files -> Written] /\ edited' \subseteq Workflows \X Nat \X Nat
  <2>1. CASE UNCHANGED <<file, newest, edited>>
    BY <1>1, <2>1 DEF TypeOK
  <2>2. CASE worker[w].pc = "write" /\ Accepted(w) /\ Commit(w) /\ UpdateFile(w)
    <3>1. w \in Running
      BY <2>2 DEF Running
    <3>2. edited' = edited \union {<<worker[w].id, worker[w].i, worker[w].j>>}
      BY <2>2 DEF Commit
    <3>3. QED
      BY <1>1, <2>2, <3>1, <3>2, CommitWrites, AtWrite, SMTT(20) DEF TypeOK
  <2>3. QED
    BY <2>1, <2>2, FilesStay
<1>7. QED
  BY <1>1, <1>2, <1>3, <1>4, <1>5, <1>6 DEF TypeOK, Moves

LEMMA StartWorkflowTypes ==
  ASSUME IInv, NEW id \in Workflows, StartWorkflow(id)
  PROVE  TypeOK' /\ (\A other \in Workflows : DocumentInv(other)') /\ DocumentIsTrue'
<1>1. TypeOK /\ UNCHANGED <<jobQueue, worker, update, file, newest, edited, alone, agreed>> /\ waiting' = waiting \union {id}
      /\ \A other \in Workflows : DocumentInv(other) /\ TrueOf(other, workflow[other])
  BY DEF IInv, StartWorkflow, DocumentIsTrue
<1>2. CASE UNCHANGED workflow /\ Fault /\ lost' = lost \union {id}
  <2>1. faults' \in 0..MaxFaults
    BY <1>1, <1>2, FaultStays DEF TypeOK
  <2>2. TypeOK'
    BY <1>1, <1>2, <2>1 DEF TypeOK
  <2>3. QED
    BY <1>1, <1>2, <2>2 DEF DocumentIsTrue, DocumentInv, TrueOf
<1>3. ASSUME NEW kind \in Kinds, UNCHANGED <<faults, lost>>,
             workflow' = [workflow EXCEPT ![id] = [kind |-> kind, state |-> "PENDING",
                                                   steps |-> [i \in DOMAIN Steps(kind) |-> "PENDING"]]]
      PROVE  TypeOK' /\ (\A other \in Workflows : DocumentInv(other)') /\ DocumentIsTrue'
  <2> DEFINE doc == [kind |-> kind, state |-> "PENDING", steps |-> [i \in DOMAIN Steps(kind) |-> "PENDING"]]
  <2>1. "PENDING" \in Statuses /\ DOMAIN Steps(kind) = 1..Len(Steps(kind)) /\ Len(Steps(kind)) \in Nat
    BY StepsOfKind DEF Statuses
  <2>2. [i \in DOMAIN Steps(kind) |-> "PENDING"] \in Seq(Statuses)
    <3>1. [i \in 1..Len(Steps(kind)) |-> "PENDING"] \in Seq(Statuses)
      BY <2>1, IsASeq
    <3>2. QED
      BY <2>1, <3>1
  <2>3. doc \in Documents /\ DOMAIN doc.steps = DOMAIN Steps(doc.kind)
    BY <2>1, <2>2 DEF Documents
  <2>4. TrueOf(id, doc)
    BY DEF TrueOf
  <2>5. \A other \in Workflows : workflow'[other] = workflow[other] \/ (other = id /\ workflow'[other] = doc)
    BY <1>1, <1>3 DEF TypeOK
  <2>6. workflow' \in [Workflows -> Documents]
    BY <1>1, <1>3, <2>3 DEF TypeOK
  <2> HIDE DEF doc
  <2>7. \A other \in Workflows : DocumentInv(other)' /\ TrueOf(other, workflow[other])'
    BY <1>1, <2>3, <2>4, <2>5, DocumentsStay
  <2>8. TypeOK'
    BY <1>1, <1>3, <2>6 DEF TypeOK
  <2>9. QED
    BY <2>7, <2>8 DEF DocumentIsTrue
<1>4. QED
  BY <1>2, <1>3 DEF StartWorkflow

\* The steps of the queue change neither the documents nor the files.
LEMMA QueueTypes ==
  ASSUME IInv, \/ \E id \in Workflows : Enqueue(id) \/ EnqueueTimeout(id)
               \/ \E w \in Workers : Take(w)
  PROVE  TypeOK'
<1>1. TypeOK /\ jobQueue \in Seq(Workflows) /\ Len(jobQueue) \in Nat /\ QueueCapacity \in Nat
  BY WorkflowAssumption DEF IInv, TypeOK
<1>2. ASSUME NEW id \in Workflows, Enqueue(id) PROVE TypeOK'
  <2>1. Append(jobQueue, id) \in Seq(Workflows) /\ Len(Append(jobQueue, id)) <= QueueCapacity
    BY <1>1, <1>2, AppendProperties DEF Enqueue
  <2>2. QED
    BY <1>1, <1>2, <2>1 DEF Enqueue, ghosts, TypeOK
<1>3. ASSUME NEW id \in Workflows, EnqueueTimeout(id) PROVE TypeOK'
  BY <1>1, <1>3 DEF EnqueueTimeout, TypeOK
<1>4. ASSUME NEW w \in Workers, Take(w) PROVE TypeOK'
  <2>1. Tail(jobQueue) \in Seq(Workflows) /\ Len(Tail(jobQueue)) <= QueueCapacity
    BY <1>1, <1>4, HeadTailProperties DEF Take, TypeOK
  <2>2. Moves(w)
    BY <1>4, TakeMoves
  <2>3. \A v \in Workers : worker'[v].try <= Tries(worker'[v].mem.kind)
    BY <1>1, <2>2 DEF Moves, Acts, TypeOK
  <2>4. QED
    BY <1>1, <1>4, <2>1, <2>2, <2>3 DEF Take, ghosts, TypeOK, Moves
<1>5. QED
  BY <1>2, <1>3, <1>4

LEMMA CrashTypes ==
  ASSUME IInv, Crash
  PROVE  TypeOK'
<1>1. TypeOK /\ OnePlace /\ jobQueue \in Seq(Workflows)
  BY DEF IInv, TypeOK
<1>2. \A n \in DOMAIN jobQueue : jobQueue[n] \in Workflows
  BY <1>1, ElementOfSeq
<1>3. lost' \subseteq Workflows
  <2>1. lost' = lost \union waiting \union {jobQueue[n] : n \in DOMAIN jobQueue} \union {worker[w].id : w \in Busy}
    BY DEF Crash, Busy
  <2>2. QED
    BY <1>1, <1>2, <2>1 DEF TypeOK, OnePlace
<1>4. update' \in [Updates -> [pc : {"new", "call", "write", "done"}, j : DOMAIN DeployableEdits, read : Contents]]
  <2>1. NotCalled \in [pc : {"new", "call", "write", "done"}, j : DOMAIN DeployableEdits, read : Contents]
        /\ NoFile \in Contents
    BY PushesOfUpdate DEF NotCalled, Contents
  <2>2. QED
    BY <1>1, <2>1 DEF Crash, TypeOK
<1>5. faults' \in 0..MaxFaults
  BY <1>1, FaultStays DEF Crash, TypeOK
<1>6. <<>> \in Seq(Workflows) /\ Len(<<>>) <= QueueCapacity
  BY WorkflowAssumption
<1>7. QED
  BY <1>1, <1>3, <1>4, <1>5, <1>6, IdleState DEF Crash, TypeOK

-----------------------------------------------------------------------------
(* The triggers.                                                            *)

\* Each step of a worker at work keeps its kind of workflow, or ends it.
LEMMA KeepsItsKind ==
  ASSUME IInv, NEW w \in Running, WorkerStep(w)
  PROVE  \/ To(w, Idle) /\ (StartStep(w) \/ RecordFailure(w) \/ RecordSuccess(w) \/ CompleteWorkflow(w))
         \/ worker'[w].mem.kind = worker[w].mem.kind /\ worker'[w].pc \notin {"idle", "get"}
<1> DEFINE me == worker[w]
<1>1. /\ me \in WorkerStates /\ me.mem \in Live /\ me.i \in DOMAIN me.mem.steps /\ w \in Workers
      /\ "RUNNING" \in Statuses /\ "COMPLETED" \in Statuses
  BY RunningWorker DEF Statuses
<1>2. ASSUME NEW next, To(w, next) PROVE worker'[w] = next
  BY <1>1, <1>2 DEF To, IInv, TypeOK
<1>3. ASSUME ActivityFails(w)
      PROVE  worker'[w].mem.kind = me.mem.kind /\ worker'[w].pc \notin {"idle", "get"}
  BY <1>1, <1>2, <1>3 DEF ActivityFails, WorkerStates
<1>4. CASE GetWorkflow(w)
  BY <1>4 DEF Running, GetWorkflow
<1>5. CASE StartStep(w)
  <2> DEFINE doc == [me.mem EXCEPT !.steps[me.i] = "RUNNING"]
             next == [me EXCEPT !.pc = "call", !.mem = doc, !.j = 1, !.try = 1]
  <2>1. To(w, next) \/ To(w, Idle)
    BY <1>5 DEF StartStep, Drop, Leave
  <2>2. doc.kind = me.mem.kind
    BY <1>1, SetStep
  <2> HIDE DEF doc
  <2>3. next.mem = doc /\ next.pc = "call"
    BY <1>1 DEF WorkerStates
  <2>4. QED
    BY <1>2, <1>5, <2>1, <2>2, <2>3
<1>6. CASE Call(w)
  <2>1. \/ ActivityFails(w) \/ To(w, [me EXCEPT !.pc = "ended"])
        \/ To(w, [me EXCEPT !.pc = "write", !.read = file[EditsOf(w)[me.j].file]])
    BY <1>6 DEF Call
  <2>2. QED
    BY <1>1, <1>2, <1>3, <2>1 DEF WorkerStates
<1>7. CASE UpdateFile(w)
  <2>1. \/ ActivityFails(w) \/ To(w, [me EXCEPT !.pc = "ended", !.read = NoFile])
        \/ To(w, [me EXCEPT !.pc = "call", !.j = @ + 1, !.read = NoFile])
    BY <1>7 DEF UpdateFile
  <2>2. QED
    BY <1>1, <1>2, <1>3, <2>1 DEF WorkerStates
<1>8. CASE RecordFailure(w) \/ CompleteWorkflow(w)
  BY <1>8 DEF RecordFailure, CompleteWorkflow, Drop, Leave
<1>9. CASE RecordSuccess(w)
  <2> DEFINE done == [me.mem EXCEPT !.steps[me.i] = "COMPLETED"]
             doc == IF IsOnboarding(done.kind) THEN done ELSE [done EXCEPT !.state = "COMPLETED"]
             complete == [me EXCEPT !.pc = "complete", !.mem = doc, !.j = 1, !.try = 1]
             step == [me EXCEPT !.pc = "step", !.mem = doc, !.i = @ + 1, !.j = 1, !.try = 1]
  <2>1. To(w, Idle) \/ To(w, complete) \/ To(w, step)
    BY <1>9 DEF RecordSuccess, Drop, Leave
  <2>2. done \in Live /\ done.kind = me.mem.kind
    BY <1>1, SetStep
  <2> HIDE DEF done
  <2>3. doc.kind = me.mem.kind
    BY <1>1, <2>2, SetState
  <2> HIDE DEF doc
  <2>4. complete.mem = doc /\ complete.pc = "complete" /\ step.mem = doc /\ step.pc = "step"
    BY <1>1 DEF WorkerStates
  <2> HIDE DEF complete, step
  <2>5. QED
    BY <1>2, <1>9, <2>1, <2>3, <2>4
<1>10. QED
  BY <1>4, <1>5, <1>6, <1>7, <1>8, <1>9 DEF WorkerStep

\* What a worker that is alone and has done all its edits finds in the files.
LEMMA AloneIsInBothFiles ==
  ASSUME IInv, NEW w \in Running, NEW k \in TouchedBy(w), worker[w].id \in alone,
         \A i \in DOMAIN Steps(worker[w].mem.kind) : Done(worker[w].id, worker[w].mem.kind, i)
  PROVE  \A f \in {"values.yaml", "values_properties.yaml"} : file[f] # NoFile /\ file[f][k] = worker[w].id
<1> DEFINE kind == worker[w].mem.kind
<1>1. /\ kind \in KnownKinds /\ k \in Triggers /\ AloneWorker(w)
  BY RunningWorker DEF TouchedBy, Touches, IInv, TriggersInv, AloneInv
<1>2. ASSUME NEW f, EditsTrigger(kind, f, k) PROVE file[f] # NoFile /\ file[f][k] = worker[w].id
  <2>1. PICK i \in DOMAIN Steps(kind) : \E j \in DOMAIN Edits(Steps(kind)[i]) :
               Edits(Steps(kind)[i])[j].file = f /\ k \in Edits(Steps(kind)[i])[j].keys
    BY <1>2 DEF EditsTrigger
  <2>2. PICK j \in DOMAIN Edits(Steps(kind)[i]) :
               Edits(Steps(kind)[i])[j].file = f /\ k \in Edits(Steps(kind)[i])[j].keys
    BY <2>1
  <2>3. <<worker[w].id, i, j>> \in edited
    BY DEF Done
  <2>4. QED
    BY <1>1, <2>2, <2>3 DEF AloneWorker
<1>3. EditsTrigger(kind, "values.yaml", k) /\ EditsTrigger(kind, "values_properties.yaml", k)
  BY <1>1, TouchesBothFiles DEF TouchedBy
<1>4. QED
  BY <1>2, <1>3

\* A step that edits nothing and lets nobody start.
LEMMA TriggersStay ==
  ASSUME TriggersInv, UNCHANGED <<file, edited>>, Running' \subseteq Running, Updating' => Updating,
         \A v \in Running' : worker'[v].id = worker[v].id /\ worker'[v].mem.kind = worker[v].mem.kind,
         \A v \in Running' : worker[v].id \in alone' => worker[v].id \in alone
  PROVE  AloneInv' /\ (\A k \in Triggers : agreed'[k] = agreed[k] /\ agreed[k] # Base =>
                          ~ Updating' /\ \A w \in Running' : k \notin TouchedBy(w)')
<1>1. ASSUME NEW w \in Running', worker'[w].id \in alone' PROVE AloneWorker(w)'
  <2>1. w \in Running /\ AloneWorker(w)
    BY <1>1 DEF TriggersInv, AloneInv
  <2>2. worker'[w].id = worker[w].id /\ worker'[w].mem.kind = worker[w].mem.kind
    OBVIOUS
  <2>3. ~ Updating'
    BY <2>1 DEF AloneWorker
  <2>4. \A v \in Running' : \A k \in TouchedBy(w)' : k \in TouchedBy(v)' => v = w
    BY <2>1, <2>2 DEF AloneWorker, TouchedBy
  <2>5. \A i \in DOMAIN Steps(worker'[w].mem.kind) : \A j \in DOMAIN Edits(Steps(worker'[w].mem.kind)[i]) :
          \A k \in Triggers :
             <<worker'[w].id, i, j>> \in edited' /\ k \in Edits(Steps(worker'[w].mem.kind)[i])[j].keys =>
                 LET f == Edits(Steps(worker'[w].mem.kind)[i])[j].file
                 IN  file'[f] # NoFile /\ file'[f][k] = worker'[w].id
    BY <2>1, <2>2 DEF AloneWorker
  <2>6. QED
    BY <2>3, <2>4, <2>5 DEF AloneWorker
<1>2. QED
  BY <1>1 DEF TriggersInv, AloneInv, AgreedInv, TouchedBy

\* The same, when agreed stays or is given up.
LEMMA AgreementStays ==
  ASSUME TriggersInv, FilesAgree, UNCHANGED <<file, edited, agreed>>, Running' \subseteq Running, Updating' => Updating,
         \A v \in Running' : worker'[v].id = worker[v].id /\ worker'[v].mem.kind = worker[v].mem.kind,
         \A v \in Running' : worker[v].id \in alone' => worker[v].id \in alone
  PROVE  TriggersInv' /\ FilesAgree'
BY TriggersStay DEF TriggersInv, AgreedInv, FilesAgree

\* A worker that gets its document edits from now on what it touches.
LEMMA GetWorkflowTriggers ==
  ASSUME IInv, NEW w \in Workers, GetWorkflow(w)
  PROVE  TriggersInv' /\ FilesAgree'
<1> DEFINE me == worker[w]
           old == workflow[me.id]
           doc == [old EXCEPT !.state = "RUNNING"]
           next == [me EXCEPT !.pc = "step", !.mem = doc]
           sharing == {v \in Running : Touches(worker[v].mem.kind) \intersect Touches(doc.kind) # {}}
<1>1. /\ TypeOK /\ TriggersInv /\ FilesAgree /\ UNCHANGED <<file, edited, update>> /\ me.pc = "get" /\ me \in WorkerStates
      /\ w \in Busy /\ Fresh(me.id)
  BY DEF IInv, GetWorkflow, TypeOK, Busy, NotStarted
<1>2. w \notin Running /\ Updating' = Updating
  BY <1>1 DEF Running, Updating
<1>3. CASE Drop(w) /\ UNCHANGED agreed
  <2>1. worker' = [worker EXCEPT ![w] = Idle] /\ alone' \subseteq alone /\ Idle.pc = "idle"
    BY <1>3 DEF Drop, Leave, To, Idle
  <2>2. Running' = Running /\ \A v \in Running : worker'[v] = worker[v]
    BY <1>1, <1>2, <2>1 DEF Running, TypeOK
  <2>3. QED
    BY <1>1, <1>2, <1>3, <2>1, <2>2, AgreementStays
<1>4. CASE /\ old # NoWorkflow /\ To(w, next) /\ agreed' = Agreed(Touches(doc.kind), Base)
           /\ alone' = IF sharing = {} /\ ~ Updating THEN alone \union {me.id}
                       ELSE alone \ {worker[v].id : v \in sharing \union {w}}
  <2>1. next.pc = "step" /\ next.id = me.id /\ next.mem = doc
    BY <1>1 DEF WorkerStates
  <2> HIDE DEF doc
  <2>2. worker'[w] = next /\ \A v \in Workers \ {w} : worker'[v] = worker[v]
    BY <1>1, <1>4 DEF To, TypeOK
  <2> HIDE DEF next
  <2>3. Running' = Running \union {w} /\ \A v \in Running : worker'[v] = worker[v] /\ v \in Workers /\ v # w
    BY <1>2, <2>1, <2>2 DEF Running
  <2>4. TouchedBy(w)' = Touches(doc.kind) /\ \A v \in Running : TouchedBy(v)' = TouchedBy(v)
    BY <2>1, <2>2, <2>3 DEF TouchedBy
  <2>5. \A v \in Running : worker[v].id # me.id
    BY <1>1, <2>3 DEF IInv, OnePlace, Running, Busy
  <2>6. ASSUME NEW v \in Running, worker'[v].id \in alone' PROVE AloneWorker(v)'
    <3>1. worker[v].id \in alone /\ v \notin sharing /\ worker'[v] = worker[v]
      BY <1>4, <2>3, <2>5, <2>6
    <3>2. AloneWorker(v)
      BY <1>1, <3>1 DEF TriggersInv, AloneInv
    <3>3. \A k \in TouchedBy(v) : k \notin Touches(doc.kind)
      BY <3>1 DEF TouchedBy
    <3>4. ~ Updating' /\ \A u \in Running' : \A k \in TouchedBy(v)' : k \in TouchedBy(u)' => u = v
      BY <1>2, <2>3, <2>4, <3>2, <3>3 DEF AloneWorker
    <3>5. \A i \in DOMAIN Steps(worker'[v].mem.kind) : \A j \in DOMAIN Edits(Steps(worker'[v].mem.kind)[i]) :
            \A k \in Triggers :
               <<worker'[v].id, i, j>> \in edited' /\ k \in Edits(Steps(worker'[v].mem.kind)[i])[j].keys =>
                   LET f == Edits(Steps(worker'[v].mem.kind)[i])[j].file
                   IN  file'[f] # NoFile /\ file'[f][k] = worker'[v].id
      BY <1>1, <3>1, <3>2 DEF AloneWorker
    <3>6. QED
      BY <3>4, <3>5 DEF AloneWorker
  <2>7. ASSUME worker'[w].id \in alone' PROVE AloneWorker(w)'
    <3>1. sharing = {} /\ ~ Updating
      BY <1>4, <2>1, <2>2, <2>7
    <3>2. \A v \in Running : \A k \in TouchedBy(v) : k \notin Touches(doc.kind)
      BY <3>1 DEF TouchedBy
    <3>3. \A v \in Running' : \A k \in TouchedBy(w)' : k \in TouchedBy(v)' => v = w
      BY <2>3, <2>4, <3>2
    <3>4. \A i, j : <<worker'[w].id, i, j>> \notin edited'
      BY <1>1, <2>1, <2>2 DEF Fresh, Untouched
    <3>5. QED
      BY <1>2, <3>1, <3>3, <3>4 DEF AloneWorker
  <2>8. AloneInv'
    BY <2>3, <2>6, <2>7 DEF AloneInv
  <2>9. \A k \in Triggers : agreed'[k] # Base => agreed'[k] = agreed[k] /\ k \notin Touches(doc.kind)
    BY <1>4 DEF Agreed
  <2>10. AgreedInv' /\ FilesAgree'
    BY <1>1, <1>2, <2>3, <2>4, <2>9 DEF TriggersInv, AgreedInv, FilesAgree
  <2>11. QED
    BY <2>8, <2>10 DEF TriggersInv
<1>5. QED
  BY <1>3, <1>4 DEF GetWorkflow

\* What a step of a worker does to alone and agreed.
LEMMA AloneAndAgreed ==
  ASSUME NEW w \in Running, WorkerStep(w)
  PROVE  /\ alone' \subseteq alone /\ UNCHANGED update
         /\ \/ UNCHANGED agreed
            \/ /\ RecordSuccess(w) /\ worker[w].id \in alone /\ To(w, Idle)
               /\ ~ IsOnboarding([worker[w].mem EXCEPT !.steps[worker[w].i] = "COMPLETED"].kind)
               /\ agreed' = Agreed(Touches([worker[w].mem EXCEPT !.steps[worker[w].i] = "COMPLETED"].kind), worker[w].id)
<1>1. CASE GetWorkflow(w)
  BY <1>1 DEF GetWorkflow, Running
<1>2. CASE StartStep(w) \/ RecordFailure(w) \/ CompleteWorkflow(w)
  BY <1>2 DEF StartStep, RecordFailure, CompleteWorkflow, Drop, Leave
<1>3. CASE Call(w) \/ UpdateFile(w)
  BY <1>3 DEF Call, UpdateFile, ghosts
<1>4. CASE RecordSuccess(w)
  BY <1>4, Zenon DEF RecordSuccess, Drop, Leave
<1>5. QED
  BY <1>1, <1>2, <1>3, <1>4 DEF WorkerStep

\* A step that writes no file.
LEMMA NoWriteTriggers ==
  ASSUME IInv, NEW w \in Running, WorkerStep(w), UNCHANGED <<file, edited>>
  PROVE  TriggersInv' /\ FilesAgree'
<1> DEFINE me == worker[w]
           done == [me.mem EXCEPT !.steps[me.i] = "COMPLETED"]
<1>1. /\ TriggersInv /\ FilesAgree /\ w \in Workers /\ TypeOK /\ alone' \subseteq alone
      /\ \A v \in Workers \ {w} : worker'[v] = worker[v]
  BY WorkerStepMoves, AloneAndAgreed DEF IInv, Moves, Acts, Running
<1>2. worker'[w].id = worker[w].id \/ worker'[w].pc = "idle"
  <2>1. Idle.pc = "idle"
    BY DEF Idle
  <2>2. QED
    BY <1>1, <2>1, KeepsItsId DEF TypeOK
<1>3. Running' \subseteq Running /\ \A v \in Running' : worker'[v].id = worker[v].id /\ worker'[v].mem.kind = worker[v].mem.kind
  <2>1. worker'[w].pc \in {"idle", "get"} \/ worker'[w].mem.kind = worker[w].mem.kind
    BY <1>1, KeepsItsKind DEF To, TypeOK, Idle
  <2>2. QED
    BY <1>1, <1>2, <2>1 DEF Running
<1>4. Updating' = Updating
  BY AloneAndAgreed DEF Updating
<1>5. CASE UNCHANGED agreed
  BY <1>1, <1>3, <1>4, <1>5, AgreementStays
<1>6. CASE /\ RecordSuccess(w) /\ me.id \in alone /\ To(w, Idle)
           /\ ~ IsOnboarding(done.kind) /\ agreed' = Agreed(Touches(done.kind), me.id)
  <2>1. /\ me.mem \in Live /\ me.i \in DOMAIN me.mem.steps /\ "COMPLETED" \in Statuses /\ WorkerInv(w) /\ me.pc = "ended"
    BY <1>6, RunningWorker DEF Statuses, RecordSuccess
  <2>2. done.kind = me.mem.kind
    BY <2>1, SetStep
  <2> HIDE DEF done
  <2>3. DOMAIN Steps(me.mem.kind) = {1} /\ me.i = 1
    BY <1>6, <2>1, <2>2, StepsOfKind DEF WorkerInv
  <2>4. \A i \in DOMAIN Steps(me.mem.kind) : Done(me.id, me.mem.kind, i)
    BY <2>1, <2>3 DEF WorkerInv
  <2>5. w \notin Running'
    BY <1>1, <1>6 DEF To, Idle, TypeOK, Running
  <2>6. AloneWorker(w)
    BY <1>1, <1>6 DEF TriggersInv, AloneInv
  <2>7. \A k \in Triggers : agreed'[k] = IF k \in TouchedBy(w) THEN me.id ELSE agreed[k]
    BY <1>6, <2>2 DEF Agreed, TouchedBy
  <2>8. \A v \in Running' : TouchedBy(v)' = TouchedBy(v)
    BY <1>3 DEF TouchedBy
  <2>9. AloneInv' /\ \A k \in Triggers : agreed'[k] = agreed[k] /\ agreed[k] # Base =>
                        ~ Updating' /\ \A v \in Running' : k \notin TouchedBy(v)'
    BY <1>1, <1>3, <1>4, TriggersStay
  <2>10. ASSUME NEW k \in Triggers, agreed'[k] # Base
         PROVE  /\ ~ Updating' /\ \A v \in Running' : k \notin TouchedBy(v)'
                /\ \A f \in {"values.yaml", "values_properties.yaml"} : file[f] # NoFile /\ file[f][k] = agreed'[k]
    <3>1. CASE k \in TouchedBy(w)
      <4>1. \A f \in {"values.yaml", "values_properties.yaml"} : file[f] # NoFile /\ file[f][k] = me.id
        BY <1>6, <2>4, <3>1, AloneIsInBothFiles
      <4>2. ~ Updating' /\ \A v \in Running' : k \notin TouchedBy(v)'
        BY <1>3, <1>4, <2>5, <2>6, <2>8, <3>1 DEF AloneWorker
      <4>3. QED
        BY <2>7, <3>1, <4>1, <4>2
    <3>2. CASE k \notin TouchedBy(w)
      BY <1>1, <2>7, <2>9, <2>10, <3>2 DEF FilesAgree
    <3>3. QED
      BY <3>1, <3>2
  <2>11. QED
    BY <2>9, <2>10 DEF TriggersInv, AgreedInv, FilesAgree
<1>7. QED
  BY <1>5, <1>6, AloneAndAgreed

\* An accepted write.
LEMMA CommitTriggers ==
  ASSUME IInv, NEW w \in Running, worker[w].pc = "write", Accepted(w), Commit(w), UpdateFile(w)
  PROVE  TriggersInv' /\ FilesAgree'
<1> DEFINE me == worker[w]
           edit == EditsOf(w)[me.j]
<1>1. /\ TriggersInv /\ FilesAgree /\ OnePlace /\ UNCHANGED <<alone, agreed, update>> /\ w \in Workers /\ TypeOK
      /\ \A v \in Workers \ {w} : worker'[v] = worker[v]
      /\ worker'[w].id = me.id /\ worker'[w].mem.kind = me.mem.kind /\ worker'[w].pc \notin {"idle", "get"}
  <2>1. WorkerStep(w) /\ w \in Workers /\ ~ (StartStep(w) \/ RecordFailure(w) \/ RecordSuccess(w) \/ CompleteWorkflow(w))
    BY DEF WorkerStep, Running, StartStep, RecordFailure, RecordSuccess, CompleteWorkflow
  <2>2. worker'[w].mem.kind = me.mem.kind /\ worker'[w].pc \notin {"idle", "get"}
    BY <2>1, KeepsItsKind
  <2>3. worker'[w].id = me.id
    BY <2>1, <2>2, KeepsItsId DEF IInv, TypeOK, Idle
  <2>4. QED
    BY <2>1, <2>2, <2>3, WorkerStepMoves DEF IInv, Moves, Acts, UpdateFile
<1>2. Running' = Running /\ \A v \in Running : worker'[v].id = worker[v].id /\ worker'[v].mem.kind = worker[v].mem.kind
  BY <1>1 DEF Running
<1>3. edited' = edited \union {<<me.id, me.i, me.j>>} /\ Updating' = Updating
  BY <1>1 DEF Commit, Updating
<1>4. /\ edit.file \in Files /\ file'[edit.file] \in Written
      /\ \A f \in Files : f # edit.file => file'[f] = file[f]
      /\ \A k \in Keys : /\ k \in edit.keys => file'[edit.file][k] = me.id
                         /\ k \notin edit.keys => file[edit.file] # NoFile /\ file'[edit.file][k] = file[edit.file][k]
  BY CommitWrites
<1>5. /\ me.i \in DOMAIN Steps(me.mem.kind) /\ me.j \in DOMAIN Edits(Steps(me.mem.kind)[me.i])
      /\ edit = Edits(Steps(me.mem.kind)[me.i])[me.j]
  BY AtWrite DEF EditsOf
<1>6. ASSUME NEW k \in Triggers, k \in edit.keys PROVE k \in TouchedBy(w)
  BY <1>5, <1>6, TouchesWhatItEdits DEF TouchedBy
<1> HIDE DEF edit
<1>7. file'[edit.file] # NoFile
  BY <1>4, NoFileAssumption
<1>8. ASSUME NEW k \in Triggers, k \notin edit.keys, NEW f \in Files, file[f] # NoFile
      PROVE  file'[f] # NoFile /\ file'[f][k] = file[f][k]
  BY <1>4, <1>7, <1>8 DEF Keys
<1>9. ASSUME NEW v \in Running, worker'[v].id \in alone' PROVE AloneWorker(v)'
  <2>1. AloneWorker(v)
    BY <1>1, <1>2, <1>9 DEF TriggersInv, AloneInv
  <2>2. \A k \in Triggers : k \in TouchedBy(v) /\ k \in edit.keys => v = w
    BY <1>6, <2>1 DEF AloneWorker
  <2>3. v # w => worker[v].id # me.id
    BY <1>1 DEF OnePlace, Running, Busy
  <2>4. ASSUME NEW i \in DOMAIN Steps(worker[v].mem.kind), NEW j \in DOMAIN Edits(Steps(worker[v].mem.kind)[i]),
               NEW k \in Triggers, <<worker[v].id, i, j>> \in edited', k \in Edits(Steps(worker[v].mem.kind)[i])[j].keys
        PROVE  LET f == Edits(Steps(worker[v].mem.kind)[i])[j].file
               IN  file'[f] # NoFile /\ file'[f][k] = worker[v].id
    <3> DEFINE f == Edits(Steps(worker[v].mem.kind)[i])[j].file
    <3> SUFFICES file'[f] # NoFile /\ file'[f][k] = worker[v].id
      OBVIOUS
    <3>1. f \in Files /\ k \in Keys /\ k \in TouchedBy(v)
      BY <2>4, EditsOfStep, TouchesWhatItEdits DEF Edit, Keys, TouchedBy
    <3>2. CASE <<worker[v].id, i, j>> \in edited
      <4>1. file[f] # NoFile /\ file[f][k] = worker[v].id
        BY <2>1, <2>4, <3>2, SMTT(20) DEF AloneWorker
      <4> HIDE DEF f
      <4>2. CASE k \notin edit.keys
        BY <1>8, <3>1, <4>1, <4>2
      <4>3. CASE k \in edit.keys
        <5>1. v = w
          BY <2>2, <3>1, <4>3
        <5>2. QED
          BY <1>4, <1>7, <3>1, <4>1, <4>3, <5>1
      <4>4. QED
        BY <4>2, <4>3
    <3>3. CASE <<worker[v].id, i, j>> = <<me.id, me.i, me.j>>
      <4>1. v = w /\ i = me.i /\ j = me.j
        BY <2>3, <3>3
      <4>2. f = edit.file /\ k \in edit.keys
        BY <1>5, <2>4, <4>1
      <4> HIDE DEF f
      <4>3. QED
        BY <1>4, <1>7, <3>1, <4>1, <4>2
    <3>4. QED
      BY <1>3, <2>4, <3>2, <3>3
  <2>5. ~ Updating' /\ \A u \in Running' : \A k \in TouchedBy(v)' : k \in TouchedBy(u)' => u = v
    BY <1>2, <1>3, <2>1 DEF AloneWorker, TouchedBy
  <2>6. QED
    BY <1>2, <2>4, <2>5 DEF AloneWorker
<1>10. AloneInv'
  BY <1>2, <1>9 DEF AloneInv
<1>11. AgreedInv'
  BY <1>1, <1>2, <1>3 DEF TriggersInv, AgreedInv, TouchedBy
<1>12. FilesAgree'
  <2>1. ASSUME NEW k \in Triggers, agreed[k] # Base PROVE k \notin edit.keys
    BY <1>1, <1>6, <2>1 DEF TriggersInv, AgreedInv
  <2>2. {"values.yaml", "values_properties.yaml"} \subseteq Files
    BY DEF Files
  <2>3. QED
    BY <1>1, <1>8, <2>1, <2>2 DEF FilesAgree
<1>13. QED
  BY <1>10, <1>11, <1>12 DEF TriggersInv

\* What neither a worker at work nor an update does leaves the triggers as they are.
LEMMA OtherTriggers ==
  ASSUME TriggersInv, FilesAgree, UNCHANGED <<file, edited, update, alone, agreed>>,
         \/ UNCHANGED worker
         \/ \E w \in Workers \ Running : /\ worker'[w].pc \in {"idle", "get"}
                                         /\ \A v \in Workers \ {w} : worker'[v] = worker[v]
  PROVE  TriggersInv' /\ FilesAgree'
<1>1. Running' = Running /\ \A v \in Running : worker'[v] = worker[v]
  BY DEF Running
<1>2. Updating' = Updating
  BY DEF Updating
<1>3. QED
  BY <1>1, <1>2, AgreementStays

LEMMA CrashTriggers ==
  ASSUME TypeOK, TriggersInv, FilesAgree, Crash
  PROVE  TriggersInv' /\ FilesAgree'
<1>1. Running' = {} /\ UNCHANGED <<file, edited, agreed>> /\ alone' = {}
  BY DEF Crash, Running, Idle
<1>2. ~ Updating'
  <2>1. ASSUME NEW u \in Updates PROVE update'[u].pc \in {"new", "done"}
    <3>1. update'[u] = IF update[u].pc = "new" THEN NotCalled ELSE [update[u] EXCEPT !.pc = "done", !.read = NoFile]
      BY DEF Crash
    <3>2. NotCalled.pc = "new" /\ [update[u] EXCEPT !.pc = "done", !.read = NoFile].pc = "done"
      BY DEF NotCalled, TypeOK
    <3>3. QED
      BY <3>1, <3>2
  <2>2. QED
    BY <2>1 DEF Updating
<1>3. QED
  BY <1>1, <1>2, AgreementStays

\* While an update is at work nothing is agreed and nobody alone.
LEMMA UpdateTriggersStay ==
  ASSUME IInv, NEW u \in Updates, FetchDeployed(u) \/ PushDeployed(u)
  PROVE  TriggersInv' /\ FilesAgree'
<1>1. UNCHANGED <<worker, edited>> /\ Running' = Running
  BY DEF FetchDeployed, PushDeployed, Running
<1>2. CASE FetchDeployed(u)
  <2>1. alone' = {} /\ \A k \in Triggers : agreed'[k] = Base
    BY <1>2 DEF FetchDeployed, Agreed
  <2>2. QED
    BY <2>1 DEF TriggersInv, AloneInv, AgreedInv, FilesAgree
<1>3. CASE PushDeployed(u)
  <2>1. Updating /\ UNCHANGED <<alone, agreed>>
    BY <1>3 DEF PushDeployed, Updating
  <2>2. \A k \in Triggers : agreed[k] = Base
    BY <2>1 DEF IInv, TriggersInv, AgreedInv
  <2>3. \A w \in Running : worker[w].id \notin alone
    BY <2>1 DEF IInv, TriggersInv, AloneInv, AloneWorker
  <2>4. QED
    BY <1>1, <2>1, <2>2, <2>3 DEF TriggersInv, AloneInv, AgreedInv, FilesAgree
<1>4. QED
  BY <1>2, <1>3

LEMMA UpdateLosesNoEdit ==
  ASSUME IInv, NEW u \in Updates, FetchDeployed(u) \/ PushDeployed(u)
  PROVE  NoEditLost'
<1>1. CASE UNCHANGED <<file, newest>>
  BY <1>1 DEF IInv, NoEditLost
<1>2. ASSUME NEW f \in Files, file' = [file EXCEPT ![f] = [k \in Keys |-> u]],
             newest' = [newest EXCEPT ![f] = [k \in Keys |-> u]]
      PROVE  NoEditLost'
  BY <1>2 DEF IInv, TypeOK, NoEditLost
<1>3. DeployableEdits[update[u].j].file \in Files
  BY PushesOfUpdate DEF IInv, TypeOK
<1>4. QED
  BY <1>1, <1>2, <1>3 DEF FetchDeployed, PushDeployed

-----------------------------------------------------------------------------
(* The invariant.                                                           *)

LEMMA InitInvariant == Init => IInv
<1> SUFFICES ASSUME Init PROVE IInv
  OBVIOUS
<1>1. /\ workflow = [id \in Workflows |-> NoWorkflow] /\ waiting = {} /\ jobQueue = <<>>
      /\ worker = [w \in Workers |-> Idle] /\ newest = [f \in Files |-> [k \in Keys |-> Base]]
      /\ edited = {} /\ lost = {} /\ alone = {} /\ faults = 0
      /\ update = [u \in Updates |-> NotCalled] /\ agreed = [k \in Triggers |-> Base]
  BY DEF Init
<1>2. PICK content \in {NoFile, [k \in Keys |-> Base]} : file = [f \in Files |-> content]
  BY DEF Init
<1>3. [k \in Keys |-> Base] \in Written
  BY DEF Written
<1>4. Queued = {} /\ Busy = {} /\ Running = {}
  BY <1>1 DEF Queued, Busy, Running, Idle
<1>5. TypeOK
  <2>1. file \in [Files -> Contents]
    BY <1>2, <1>3 DEF Contents
  <2>2. NoWorkflow \in Documents
    BY DEF Documents
  <2>3. <<>> \in Seq(Workflows) /\ Len(<<>>) <= QueueCapacity /\ 0 \in 0..MaxFaults
    BY WorkflowAssumption
  <2>4. QED
    BY <1>1, <1>3, <2>1, <2>2, <2>3, IdleState, PushesOfUpdate DEF TypeOK, NotCalled, Contents
<1>6. OnePlace /\ NotStarted
  BY <1>1, <1>4 DEF OnePlace, NotStarted, Untouched
<1>7. DocumentIsTrue /\ \A id \in Workflows : DocumentInv(id)
  BY <1>1 DEF DocumentIsTrue, TrueOf, DocumentInv, NoWorkflow
<1>8. NoEditLost
  BY <1>1, <1>2 DEF NoEditLost
<1>9. FilesAgree
  BY <1>1 DEF FilesAgree
<1>10. TriggersInv
  BY <1>1, <1>4 DEF TriggersInv, AloneInv, AgreedInv
<1>11. QED
  BY <1>4, <1>5, <1>6, <1>7, <1>8, <1>9, <1>10 DEF IInv

LEMMA WorkerStepInvariant ==
  ASSUME IInv, NEW w \in Workers, WorkerStep(w)
  PROVE  IInv'
<1>1. TypeOK' /\ Places' /\ Moves(w) /\ \A v \in Running' : WorkerInv(v)'
  BY WorkerStepTypes, WorkerStepPlaces, WorkerStepMoves, WorkersAtWork
<1>2. CASE UNCHANGED <<file, newest, edited>>
  <2>1. NoEditLost'
    BY <1>2 DEF IInv, NoEditLost
  <2>2. TriggersInv' /\ FilesAgree'
    <3>1. CASE w \in Running
      BY <1>2, <3>1, NoWriteTriggers
    <3>2. CASE w \notin Running
      BY <3>2, GetWorkflowTriggers
         DEF WorkerStep, Running, StartStep, Call, UpdateFile, RecordFailure, RecordSuccess, CompleteWorkflow
    <3>3. QED
      BY <3>1, <3>2
  <2>3. QED
    BY <1>1, <2>1, <2>2 DEF IInv, Moves, DocumentIsTrue, Places
<1>3. CASE worker[w].pc = "write" /\ Accepted(w) /\ Commit(w) /\ UpdateFile(w)
  <2>1. w \in Running
    BY <1>3 DEF Running
  <2>2. NoEditLost' /\ TriggersInv' /\ FilesAgree'
    BY <1>3, <2>1, CommitLosesNoEdit, CommitTriggers
  <2>3. QED
    BY <1>1, <2>2 DEF IInv, Moves, DocumentIsTrue, Places
<1>4. QED
  BY <1>2, <1>3, FilesStay

LEMMA StepInvariant == IInv /\ [Next]_vars => IInv'
<1> SUFFICES ASSUME IInv, [Next]_vars PROVE IInv'
  OBVIOUS
<1>1. ASSUME NEW id \in Workflows, StartWorkflow(id) PROVE IInv'
  <2>1. TypeOK' /\ Places' /\ (\A w \in Running' : WorkerInv(w)') /\ DocumentIsTrue'
        /\ \A other \in Workflows : DocumentInv(other)'
    BY <1>1, StartWorkflowTypes, StartWorkflowPlaces
  <2>2. UNCHANGED <<worker, update, file, newest, edited, alone, agreed>>
    BY <1>1 DEF StartWorkflow
  <2>3. NoEditLost' /\ TriggersInv' /\ FilesAgree'
    BY <2>2, OtherTriggers DEF IInv, NoEditLost
  <2>4. QED
    BY <2>1, <2>3 DEF IInv, Places
<1>2. ASSUME NEW id \in Workflows, Enqueue(id) \/ EnqueueTimeout(id) PROVE IInv'
  <2>1. TypeOK' /\ Places'
    BY <1>2, QueueTypes, EnqueuePlaces, EnqueueTimeoutPlaces
  <2>2. UNCHANGED <<workflow, worker, update, file, newest, edited, alone, agreed>>
    BY <1>2 DEF Enqueue, EnqueueTimeout, ghosts
  <2>3. NoEditLost' /\ TriggersInv' /\ FilesAgree'
    BY <2>2, OtherTriggers DEF IInv, NoEditLost
  <2>4. /\ \A w \in Running' : WorkerInv(w)'
        /\ \A other \in Workflows : DocumentInv(other)'
        /\ DocumentIsTrue'
    BY <2>2, SMTT(20) DEF IInv, Running, WorkerInv, Done, Untouched, DocumentInv, DocumentIsTrue, TrueOf
  <2>5. QED
    BY <2>1, <2>3, <2>4 DEF IInv, Places
<1>3. ASSUME NEW w \in Workers, Take(w) PROVE IInv'
  <2>1. TypeOK' /\ Places' /\ Moves(w) /\ \A v \in Running' : WorkerInv(v)'
    BY <1>3, QueueTypes, TakePlaces, TakeMoves, WorkersAtWork
  <2>2. UNCHANGED <<update, file, newest, edited, alone, agreed>> /\ w \notin Running
    BY <1>3 DEF Take, ghosts, Running
  <2>3. worker'[w].pc = "get" /\ \A v \in Workers \ {w} : worker'[v] = worker[v]
    BY <1>3, TakeMoves, TakenState DEF Moves, Acts
  <2>4. NoEditLost' /\ TriggersInv' /\ FilesAgree'
    BY <2>2, <2>3, OtherTriggers DEF IInv, NoEditLost
  <2>5. QED
    BY <2>1, <2>4 DEF IInv, Moves, DocumentIsTrue, Places
<1>4. ASSUME NEW w \in Workers, WorkerStep(w) PROVE IInv'
  BY <1>4, WorkerStepInvariant
<1>5. CASE Crash
  <2>1. TypeOK' /\ Places' /\ Running' = {}
    BY <1>5, CrashTypes, CrashPlaces
  <2>2. UNCHANGED <<workflow, file, newest, edited>>
    BY <1>5 DEF Crash
  <2>3. NoEditLost' /\ TriggersInv' /\ FilesAgree'
    BY <1>5, <2>2, CrashTriggers DEF IInv, NoEditLost
  <2>4. (\A other \in Workflows : DocumentInv(other)') /\ DocumentIsTrue'
    BY <2>2 DEF IInv, DocumentInv, DocumentIsTrue, TrueOf
  <2>5. QED
    BY <2>1, <2>3, <2>4 DEF IInv, Places
<1>6. ASSUME NEW u \in Updates, FetchDeployed(u) \/ PushDeployed(u) PROVE IInv'
  <2>1. UNCHANGED <<workflow, waiting, jobQueue, worker, edited, lost>>
    BY <1>6 DEF FetchDeployed, PushDeployed
  <2>2. TypeOK' /\ NoEditLost' /\ TriggersInv' /\ FilesAgree'
    BY <1>6, UpdateTypes, UpdateTriggersStay, UpdateLosesNoEdit DEF IInv
  <2>3. OnePlace'
    BY <2>1 DEF IInv, OnePlace, Queued, Busy
  <2>4. Places'
    BY <2>1, <2>3, PlacesStay DEF IInv, Queued, Busy
  <2>5. \A w \in Running' : WorkerInv(w)'
    BY <2>1, SMTT(20) DEF IInv, Running, WorkerInv, Done, Untouched
  <2>6. (\A id \in Workflows : DocumentInv(id)') /\ DocumentIsTrue'
    BY <2>1 DEF IInv, DocumentInv, DocumentIsTrue, TrueOf
  <2>7. QED
    BY <2>2, <2>4, <2>5, <2>6 DEF IInv, Places
<1>7. CASE UNCHANGED vars
  <2>1. UNCHANGED <<workflow, waiting, jobQueue, worker, update, file, faults, newest, edited, lost, alone, agreed>>
    BY <1>7 DEF vars, ghosts
  <2>2. TypeOK' /\ NoEditLost' /\ TriggersInv' /\ FilesAgree'
    BY <2>1, OtherTriggers DEF IInv, TypeOK, NoEditLost
  <2>3. OnePlace'
    BY <2>1 DEF IInv, OnePlace, Queued, Busy
  <2>4. Places'
    BY <2>1, <2>3, PlacesStay DEF IInv, Queued, Busy
  <2>5. \A w \in Running' : WorkerInv(w)'
    BY <2>1, SMTT(20) DEF IInv, Running, WorkerInv, Done, Untouched
  <2>6. (\A id \in Workflows : DocumentInv(id)') /\ DocumentIsTrue'
    BY <2>1 DEF IInv, DocumentInv, DocumentIsTrue, TrueOf
  <2>7. QED
    BY <2>2, <2>4, <2>5, <2>6 DEF IInv, Places
<1>8. QED
  BY <1>1, <1>2, <1>3, <1>4, <1>5, <1>6, <1>7 DEF Next

LEMMA Invariant == Spec => []IInv
BY InitInvariant, StepInvariant, PTL DEF Spec

-----------------------------------------------------------------------------
(* The theorems.                                                            *)

(* The variables have their types: the documents, the queue within its      *)
(* capacity, the tries of an activity within their bound.                   *)
THEOREM TypeCorrect == Spec => []TypeOK
<1>1. IInv => TypeOK
  BY DEF IInv
<1>2. QED
  BY <1>1, Invariant, PTL

(* No workflow undoes an accepted edit of a key it does not edit: the write *)
(* of a whole file under the hash that was read is enough, for any number   *)
(* of workers, retries, lost answers and crashes.                           *)
THEOREM NoEditIsLost == Spec => []NoEditLost
<1>1. IInv => NoEditLost
  BY DEF IInv
<1>2. QED
  BY <1>1, Invariant, PTL

(* What the stored document says is done is done, whatever writes of it     *)
(* failed, reached etcd without an answer, or were cut off by a crash.      *)
THEOREM DocumentsAreTrue == Spec => []DocumentIsTrue
<1>1. IInv => DocumentIsTrue
  BY DEF IInv
<1>2. QED
  BY <1>1, Invariant, PTL

(* A workflow that updates triggers and is done, in spite of failures, lost *)
(* answers and retries, has its values in both files, and they stay there   *)
(* until somebody who edits the trigger starts; unless another workflow or  *)
(* an UpdateDeployable edited the trigger during it.                        *)
THEOREM FilesOfTriggersAgree == Spec => []FilesAgree
<1>1. IInv => FilesAgree
  BY DEF IInv
<1>2. QED
  BY <1>1, Invariant, PTL
=============================================================================
