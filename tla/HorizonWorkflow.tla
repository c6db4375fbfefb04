--------------------------- MODULE HorizonWorkflow ---------------------------
(***************************************************************************)
(* Horizon's workflow orchestrator.  A caller writes a workflow document   *)
(* to etcd and puts its id on an in-memory queue; a pool of workers takes  *)
(* ids, runs the activities of each workflow in order, with retries, and   *)
(* writes its progress back.  The activities edit files in a git           *)
(* repository: each edit reads a file, changes the keys it is about and    *)
(* writes the whole file back under the hash it read.  An update of a      *)
(* deployable writes the same files from its own request, outside any      *)
(* workflow.  The workflows and updates of the model are all about one     *)
(* application, whose files they share.                                    *)
(***************************************************************************)
EXTENDS Integers, Sequences

CONSTANTS
    Workflows,      \* ids of workflows
    Kinds,          \* bound: the kinds of workflow that are started
    Updates,        \* calls of UpdateDeployable
    Workers,        \* the pool (5 in the code)
    QueueCapacity,  \* capacity of the queue (100 in the code)
    MaxRetries,     \* tries of an activity (3 in the code)
    MaxFaults,      \* bound: calls that fail and crashes, in all
    Base,           \* who wrote the files of the start
    NoFile

ASSUME WorkflowAssumption ==
    /\ QueueCapacity \in Nat \ {0} /\ MaxRetries \in Nat \ {0} /\ MaxFaults \in Nat
    /\ Base \notin Workflows \union Updates /\ Workflows \intersect Updates = {}

VARIABLES
    workflow,   \* workflow[id]: kind, state and status of the steps, as stored in etcd
    waiting,    \* ids whose caller waits for room in the queue
    jobQueue,   \* ids on the queue
    worker,     \* worker[w]: what a worker does
    update,     \* update[u]: where a call of UpdateDeployable is
    file,       \* file[f]: the content of a file: who wrote each key
    faults,
    newest,     \* newest[f][k]: whose edit of key k was accepted last
    edited,     \* <<id, step, edit>> of the edits that were accepted
    lost,       \* ids that met a full queue, a failed etcd call or a crash
    alone,      \* workflows at work whose triggers nobody else edited since they started
    agreed      \* agreed[k]: the update of trigger k that completed alone, until the
                \* next editor of k starts

ghosts == <<newest, edited, lost, alone, agreed>>
vars == <<workflow, waiting, jobQueue, worker, update, file, faults, ghosts>>

Triggers == {"cpu", "gpu"}
Keys == Triggers \union {"size", "annotations"}
Files == {"application.yaml", "values_properties.yaml", "values.yaml"}

\* The contents of a file: none, or the last writer of each key.
Written == [Keys -> Workflows \union Updates \union {Base}]
Contents == Written \union {NoFile}

ASSUME NoFileAssumption == NoFile \notin Written

\* The kinds that a worker knows: two of onboarding, and one-step workflows.
KnownKinds ==
    {"onboarding", "onboarding with IAM", "UpdateThresholds", "UpdateThresholds of cpu",
     "UpdateThresholds of gpu", "UpdateCPUThreshold", "UpdateGPUThreshold",
     "UpdateAutoscalingTriggers", "UpdateSharedMemory", "UpdatePodAnnotations", "RestartDeployment"}

ASSUME KindsAssumption == Kinds \subseteq KnownKinds

OnboardingSteps == <<"CreateValuesYaml", "CreateApplicationYaml", "UpdateValuesProperties">>

Steps(kind) ==
    CASE kind = "onboarding" -> OnboardingSteps
      [] kind = "onboarding with IAM" -> Append(OnboardingSteps, "IamBinding")
      [] OTHER -> <<kind>>

IsOnboarding(kind) == kind \in {"onboarding", "onboarding with IAM"}

(* The payload of UpdateThresholds gives both thresholds or one of them.    *)
IsThresholds(kind) ==
    kind \in {"UpdateThresholds", "UpdateThresholds of cpu", "UpdateThresholds of gpu"}

Push(f) == [file |-> f, keys |-> Keys, push |-> TRUE]
Change(f, keys) == [file |-> f, keys |-> keys, push |-> FALSE]

\* Faulty variant: values.yaml is forgotten.
UpdateTriggerProperties(keys) == <<Change("values_properties.yaml", keys)>>

UpdateTriggers(keys) ==
    <<Change("values_properties.yaml", keys), Change("values.yaml", keys)>>

(* The activities: the edits of each, in order.  IamBinding and             *)
(* RestartDeployment edit no file: they are calls that succeed or fail.     *)
CreateValuesYaml == <<Push("values.yaml")>>
CreateApplicationYaml == <<Push("application.yaml")>>
UpdateValuesProperties == <<Push("values_properties.yaml")>>
UpdateThresholds == UpdateTriggers({"cpu"}) \o UpdateTriggers({"gpu"})
UpdateAutoscalingTriggers == UpdateTriggers(Triggers)
UpdateSharedMemory == <<Change("values.yaml", {"size"})>>
UpdatePodAnnotations == <<Change("values.yaml", {"annotations"})>>

Edits(step) ==
    CASE step = "CreateValuesYaml" -> CreateValuesYaml
      [] step = "CreateApplicationYaml" -> CreateApplicationYaml
      [] step = "UpdateValuesProperties" -> UpdateValuesProperties
      [] step = "UpdateThresholds" -> UpdateThresholds
      [] step \in {"UpdateThresholds of cpu", "UpdateCPUThreshold"} -> UpdateTriggers({"cpu"})
      [] step \in {"UpdateThresholds of gpu", "UpdateGPUThreshold"} -> UpdateTriggers({"gpu"})
      [] step = "UpdateAutoscalingTriggers" -> UpdateAutoscalingTriggers
      [] step = "UpdateSharedMemory" -> UpdateSharedMemory
      [] step = "UpdatePodAnnotations" -> UpdatePodAnnotations
      [] OTHER -> <<>>

(* The triggers that a workflow of a kind edits.                            *)
Touches(kind) ==
    {k \in Triggers : \E i \in DOMAIN Steps(kind) :
        \E j \in DOMAIN Edits(Steps(kind)[i]) : k \in Edits(Steps(kind)[i])[j].keys}

\* Only onboarding and UpdateThresholds try an activity again.
Tries(kind) == IF IsOnboarding(kind) \/ IsThresholds(kind) THEN MaxRetries ELSE 1

(* The pushes of UpdateDeployable, which tries none of them again.          *)
DeployableEdits == CreateValuesYaml \o UpdateValuesProperties

NoWorkflow == [kind |-> "none", state |-> "none", steps |-> <<>>]
Idle == [pc |-> "idle", id |-> Base, mem |-> NoWorkflow, i |-> 1, j |-> 1, try |-> 1,
         read |-> NoFile]
NotCalled == [pc |-> "new", j |-> 1, read |-> NoFile]

Init ==
    /\ workflow = [id \in Workflows |-> NoWorkflow]
    /\ waiting = {} /\ jobQueue = <<>>
    /\ worker = [w \in Workers |-> Idle] /\ update = [u \in Updates |-> NotCalled]
    /\ \E content \in {NoFile, [k \in Keys |-> Base]} : file = [f \in Files |-> content]
    /\ newest = [f \in Files |-> [k \in Keys |-> Base]]
    /\ edited = {} /\ lost = {} /\ alone = {} /\ faults = 0
    /\ agreed = [k \in Triggers |-> Base]

Fault == faults < MaxFaults /\ faults' = faults + 1
Running == {w \in Workers : worker[w].pc \notin {"idle", "get"}}
Updating == \E u \in Updates : update[u].pc \in {"call", "write"}

-----------------------------------------------------------------------------
(* The callers.                                                             *)

(* The document is created and the id handed to the queue.  When the check  *)
(* that the node is new fails, nothing is created and no error returned.    *)
StartWorkflow(id) ==
    /\ workflow[id] = NoWorkflow /\ id \notin lost
    /\ waiting' = waiting \union {id}
    /\ \/ /\ \E kind \in Kinds :
                workflow' = [workflow EXCEPT ![id] =
                    [kind |-> kind, state |-> "PENDING",
                     steps |-> [i \in DOMAIN Steps(kind) |-> "PENDING"]]]
          /\ UNCHANGED <<faults, lost>>
       \/ /\ Fault /\ lost' = lost \union {id}
          /\ UNCHANGED workflow
    /\ UNCHANGED <<jobQueue, worker, update, file, newest, edited, alone, agreed>>

Enqueue(id) ==
    /\ id \in waiting /\ Len(jobQueue) < QueueCapacity
    /\ waiting' = waiting \ {id}
    /\ jobQueue' = Append(jobQueue, id)
    /\ UNCHANGED <<workflow, worker, update, file, faults, ghosts>>

(* The caller gets the id even when the queue stays full.                   *)
EnqueueTimeout(id) ==
    /\ id \in waiting /\ Len(jobQueue) = QueueCapacity
    /\ waiting' = waiting \ {id}
    /\ lost' = lost \union {id}
    /\ UNCHANGED <<workflow, jobQueue, worker, update, file, faults, newest, edited, alone,
                   agreed>>

-----------------------------------------------------------------------------
(* A worker.                                                                *)

To(w, next) == worker' = [worker EXCEPT ![w] = next]

Take(w) ==
    /\ worker[w].pc = "idle" /\ jobQueue # <<>>
    /\ To(w, [Idle EXCEPT !.pc = "get", !.id = Head(jobQueue)])
    /\ jobQueue' = Tail(jobQueue)
    /\ UNCHANGED <<workflow, waiting, update, file, faults, ghosts>>

(* A write of the document.  One that fails may have reached etcd.          *)
Store(w, doc) == workflow' = [workflow EXCEPT ![worker[w].id] = doc]
StoreFails(w, doc) == Fault /\ (UNCHANGED workflow \/ Store(w, doc))

Leave(w) == To(w, Idle) /\ alone' = alone \ {worker[w].id}
Drop(w) == Leave(w) /\ lost' = lost \union {worker[w].id}

\* agreed with the triggers in keys handed to who.
Agreed(keys, who) == [k \in Triggers |-> IF k \in keys THEN who ELSE agreed[k]]

GetWorkflow(w) ==
    LET id == worker[w].id
        doc == [workflow[id] EXCEPT !.state = "RUNNING"]
        sharing == {v \in Running : Touches(worker[v].mem.kind) \intersect Touches(doc.kind) # {}}
    IN  /\ worker[w].pc = "get"
        /\ \/ /\ workflow[id] # NoWorkflow /\ Store(w, doc)
              /\ To(w, [worker[w] EXCEPT !.pc = "step", !.mem = doc])
              /\ alone' = IF sharing = {} /\ ~ Updating THEN alone \union {id}
                          ELSE alone \ {worker[v].id : v \in sharing \union {w}}
              /\ agreed' = Agreed(Touches(doc.kind), Base)
              /\ UNCHANGED <<faults, lost>>
           \/ /\ workflow[id] = NoWorkflow \/ StoreFails(w, doc)
              /\ Drop(w)
              /\ IF workflow[id] = NoWorkflow THEN UNCHANGED <<workflow, faults>> ELSE TRUE
              /\ UNCHANGED agreed
        /\ UNCHANGED <<waiting, jobQueue, update, file, newest, edited>>

(* The step is marked; only ExecuteInfrastructureWorkflow gives up when     *)
(* the write fails, and leaves the workflow RUNNING.                        *)
StartStep(w) ==
    LET me == worker[w]
        doc == [me.mem EXCEPT !.steps[me.i] = "RUNNING"]
        call == To(w, [me EXCEPT !.pc = "call", !.mem = doc, !.j = 1, !.try = 1])
    IN  /\ me.pc = "step"
        /\ \/ Store(w, doc) /\ call /\ UNCHANGED <<faults, lost, alone>>
           \/ /\ StoreFails(w, doc)
              /\ IF IsOnboarding(doc.kind) \/ IsThresholds(doc.kind)
                 THEN call /\ UNCHANGED <<lost, alone>> ELSE Drop(w)
        /\ UNCHANGED <<waiting, jobQueue, update, file, newest, edited, agreed>>

EditsOf(w) == Edits(Steps(worker[w].mem.kind)[worker[w].i])

\* Faulty variant: the error of the last try is forgotten.
ActivityGivesUp(w) ==
    To(w, IF worker[w].try < Tries(worker[w].mem.kind)
          THEN [worker[w] EXCEPT !.pc = "call", !.j = 1, !.try = @ + 1, !.read = NoFile]
          ELSE [worker[w] EXCEPT !.pc = "ended", !.read = NoFile])

\* Faulty variant: the tries of an activity are not counted.
ActivityTriesOn(w) ==
    To(w, [worker[w] EXCEPT !.pc = "call", !.j = 1, !.read = NoFile])

(* The activity is tried again from its first edit, or the step has failed. *)
ActivityFails(w) ==
    To(w, IF worker[w].try < Tries(worker[w].mem.kind)
          THEN [worker[w] EXCEPT !.pc = "call", !.j = 1, !.try = @ + 1, !.read = NoFile]
          ELSE [worker[w] EXCEPT !.pc = "failed", !.read = NoFile])

(* The next call of the activity: it reads the file of the next edit, or is *)
(* a call of a service that edits no file.                                  *)
Call(w) ==
    LET me == worker[w]
        edit == EditsOf(w)[me.j]
        missing == EditsOf(w) # <<>> /\ ~ edit.push /\ file[edit.file] = NoFile
    IN  /\ me.pc = "call"
        /\ \/ /\ ~ missing
              /\ To(w, IF EditsOf(w) = <<>> THEN [me EXCEPT !.pc = "ended"]
                       ELSE [me EXCEPT !.pc = "write", !.read = file[edit.file]])
              /\ UNCHANGED faults
           \/ ActivityFails(w) /\ IF missing THEN UNCHANGED faults ELSE Fault
        /\ UNCHANGED <<workflow, waiting, jobQueue, update, file, ghosts>>

\* Faulty variant: the hash is fetched again just before the write.
AcceptedAnyway(w) == file[EditsOf(w)[worker[w].j].file] = NoFile <=> worker[w].read = NoFile

(* The repository accepts a write only over the content that was read.      *)
Accepted(w) == file[EditsOf(w)[worker[w].j].file] = worker[w].read

Commit(w) ==
    LET me == worker[w]
        edit == EditsOf(w)[me.j]
    IN  /\ file' = [file EXCEPT ![edit.file] =
              [k \in Keys |-> IF k \in edit.keys THEN me.id ELSE me.read[k]]]
        /\ newest' = [newest EXCEPT ![edit.file] =
              [k \in Keys |-> IF k \in edit.keys THEN me.id ELSE @[k]]]
        /\ edited' = edited \union {<<me.id, me.i, me.j>>}

UpdateFile(w) ==
    LET me == worker[w]
    IN  /\ me.pc = "write"
        /\ \/ /\ Accepted(w) /\ Commit(w)
              /\ \/ /\ To(w, IF me.j = Len(EditsOf(w))
                             THEN [me EXCEPT !.pc = "ended", !.read = NoFile]
                             ELSE [me EXCEPT !.pc = "call", !.j = @ + 1, !.read = NoFile])
                    /\ UNCHANGED faults
                 \/ ActivityFails(w) /\ Fault    \* the answer is lost
           \/ /\ ActivityFails(w)
              /\ IF Accepted(w) THEN Fault ELSE UNCHANGED faults
              /\ UNCHANGED <<file, newest, edited>>
        /\ UNCHANGED <<workflow, waiting, jobQueue, update, lost, alone, agreed>>

RecordFailure(w) ==
    LET me == worker[w]
        doc == [me.mem EXCEPT !.steps[me.i] = "FAILED", !.state = "FAILED"]
    IN  /\ me.pc = "failed"
        /\ \/ Store(w, doc) /\ Leave(w) /\ UNCHANGED <<faults, lost>>
           \/ StoreFails(w, doc) /\ Drop(w)
        /\ UNCHANGED <<waiting, jobQueue, update, file, newest, edited, agreed>>

(* A completed step.  A workflow of one step is completed by the same       *)
(* write, the write of an onboarding's step may fail.                       *)
RecordSuccess(w) ==
    LET me == worker[w]
        done == [me.mem EXCEPT !.steps[me.i] = "COMPLETED"]
        doc == IF IsOnboarding(done.kind) THEN done ELSE [done EXCEPT !.state = "COMPLETED"]
        last == me.i = Len(Steps(done.kind))
        next == To(w, IF last THEN [me EXCEPT !.pc = "complete", !.mem = doc, !.j = 1, !.try = 1]
                      ELSE [me EXCEPT !.pc = "step", !.mem = doc, !.i = @ + 1, !.j = 1, !.try = 1])
    IN  /\ me.pc = "ended"
        /\ IF IsOnboarding(done.kind)
           THEN /\ (Store(w, doc) /\ UNCHANGED faults) \/ StoreFails(w, doc)
                /\ next /\ UNCHANGED <<lost, alone, agreed>>
           ELSE /\ \/ Store(w, doc) /\ Leave(w) /\ UNCHANGED <<faults, lost>>
                   \/ StoreFails(w, doc) /\ Drop(w)
                /\ agreed' = IF me.id \in alone THEN Agreed(Touches(done.kind), me.id) ELSE agreed
        /\ UNCHANGED <<waiting, jobQueue, update, file, newest, edited>>

CompleteWorkflow(w) ==
    LET doc == [worker[w].mem EXCEPT !.state = "COMPLETED"]
    IN  /\ worker[w].pc = "complete"
        /\ \/ Store(w, doc) /\ Leave(w) /\ UNCHANGED <<faults, lost>>
           \/ StoreFails(w, doc) /\ Drop(w)
        /\ UNCHANGED <<waiting, jobQueue, update, file, newest, edited, agreed>>

WorkerStep(w) ==
    \/ GetWorkflow(w) \/ StartStep(w) \/ Call(w) \/ UpdateFile(w)
    \/ RecordFailure(w) \/ RecordSuccess(w) \/ CompleteWorkflow(w)

-----------------------------------------------------------------------------
(* UpdateDeployable: it needs the row of a deployable, and pushes each file *)
(* whole from its request, under the hash it has just read.                 *)

Go(u, next) == update' = [update EXCEPT ![u] = next]
UpdateEnds(u) == Go(u, [update[u] EXCEPT !.pc = "done", !.read = NoFile])
HasDeployable ==
    (\E f \in Files : file[f] # NoFile) \/ \E id \in Workflows : IsOnboarding(workflow[id].kind)

FetchDeployed(u) ==
    LET me == update[u]
    IN  /\ me.pc = "call" \/ (me.pc = "new" /\ HasDeployable)
        /\ \/ /\ Go(u, [me EXCEPT !.pc = "write", !.read = file[DeployableEdits[me.j].file]])
              /\ UNCHANGED faults
           \/ UpdateEnds(u) /\ Fault
        /\ alone' = {} /\ agreed' = Agreed(Triggers, Base)
        /\ UNCHANGED <<workflow, waiting, jobQueue, worker, file, newest, edited, lost>>

PushDeployed(u) ==
    LET me == update[u]
        f == DeployableEdits[me.j].file
        pushed == [k \in Keys |-> u]
    IN  /\ me.pc = "write"
        /\ \/ /\ file[f] = me.read
              /\ file' = [file EXCEPT ![f] = pushed] /\ newest' = [newest EXCEPT ![f] = pushed]
              /\ \/ /\ me.j < Len(DeployableEdits)
                    /\ Go(u, [me EXCEPT !.pc = "call", !.j = @ + 1, !.read = NoFile])
                    /\ UNCHANGED faults
                 \/ /\ UpdateEnds(u)
                    /\ IF me.j < Len(DeployableEdits) THEN Fault ELSE UNCHANGED faults
           \/ /\ UpdateEnds(u)
              /\ IF file[f] = me.read THEN Fault ELSE UNCHANGED faults
              /\ UNCHANGED <<file, newest>>
        /\ UNCHANGED <<workflow, waiting, jobQueue, worker, edited, lost, alone, agreed>>

-----------------------------------------------------------------------------
(* The process dies: the queue, the callers, the workers and the updates.   *)
Crash ==
    LET busy == {w \in Workers : worker[w].pc # "idle"}
    IN  /\ busy # {} \/ jobQueue # <<>> \/ waiting # {} \/ Updating
        /\ Fault
        /\ lost' = lost \union waiting \union {jobQueue[n] : n \in DOMAIN jobQueue}
                        \union {worker[w].id : w \in busy}
        /\ waiting' = {} /\ jobQueue' = <<>>
        /\ worker' = [w \in Workers |-> Idle] /\ alone' = {}
        /\ update' = [u \in Updates |-> IF update[u].pc = "new" THEN NotCalled
                                        ELSE [update[u] EXCEPT !.pc = "done", !.read = NoFile]]
        /\ UNCHANGED <<workflow, file, newest, edited, agreed>>

Next ==
    \/ \E id \in Workflows : StartWorkflow(id) \/ Enqueue(id) \/ EnqueueTimeout(id)
    \/ \E w \in Workers : Take(w) \/ WorkerStep(w)
    \/ \E u \in Updates : FetchDeployed(u) \/ PushDeployed(u)
    \/ Crash

(* A caller's select is served and a worker's goroutine runs on.            *)
Fairness ==
    /\ \A id \in Workflows : WF_vars(Enqueue(id) \/ EnqueueTimeout(id))
    /\ \A w \in Workers : WF_vars(Take(w) \/ WorkerStep(w))

Spec == Init /\ [][Next]_vars /\ Fairness

-----------------------------------------------------------------------------
(* Types: of the stored documents, the queue, the workers and the files.    *)

Statuses == {"PENDING", "RUNNING", "COMPLETED", "FAILED"}
Documents == {NoWorkflow} \union [kind : Kinds, state : Statuses, steps : Seq(Statuses)]
Pcs == {"idle", "get", "step", "call", "write", "failed", "ended", "complete"}
Positions == Nat \ {0}
WorkerStates ==
    [pc : Pcs, id : Workflows \union {Base}, mem : Documents,
     i : Positions, j : Positions, try : Positions, read : Contents]

TypeOK ==
    /\ workflow \in [Workflows -> Documents]
    /\ waiting \subseteq Workflows /\ lost \subseteq Workflows
    /\ jobQueue \in Seq(Workflows) /\ Len(jobQueue) <= QueueCapacity
    /\ worker \in [Workers -> WorkerStates]
    /\ \A w \in Workers : worker[w].try <= Tries(worker[w].mem.kind)
    /\ file \in [Files -> Contents] /\ newest \in [Files -> Written]
    /\ update \in [Updates -> [pc : {"new", "call", "write", "done"},
                             j : DOMAIN DeployableEdits, read : Contents]]
    /\ edited \subseteq Workflows \X Nat \X Nat
    /\ alone \subseteq Workflows /\ agreed \in [Triggers -> Workflows \union {Base}]
    /\ faults \in 0..MaxFaults

(* No accepted edit is undone by somebody who does not edit its key:        *)
(* whatever the interleaving of reads and writes, a file holds for every    *)
(* key the value of the last accepted edit of that key.                     *)
NoEditLost ==
    \A f \in Files : file[f] # NoFile => \A k \in Keys : file[f][k] = newest[f][k]

(* What a document says is done is done: behind every completed step, and   *)
(* every step before it, are accepted edits of this workflow, and a         *)
(* workflow is completed when all its steps are, and failed when one is.    *)
TrueOf(id, doc) ==
    LET Status(i) == doc.steps[i]
    IN  /\ \A i \in DOMAIN doc.steps :
              Status(i) = "COMPLETED" =>
                \A p \in 1..i : Status(p) = "COMPLETED"
                   /\ \A j \in DOMAIN Edits(Steps(doc.kind)[p]) : <<id, p, j>> \in edited
        /\ doc.state = "COMPLETED" => \A i \in DOMAIN doc.steps : Status(i) = "COMPLETED"
        /\ doc.state = "FAILED" <=> \E i \in DOMAIN doc.steps : Status(i) = "FAILED"

DocumentIsTrue == \A id \in Workflows : TrueOf(id, workflow[id])

(* Once a workflow that updates triggers has done its step, through every   *)
(* failure and retry, its value is in both files, until somebody who edits  *)
(* the trigger starts; unless somebody else edited it during the workflow.  *)
(* What onboarding, a push or a failed workflow leaves may differ.          *)
FilesAgree ==
    \A k \in Triggers : agreed[k] # Base =>
        \A f \in {"values.yaml", "values_properties.yaml"} :
            file[f] # NoFile /\ file[f][k] = agreed[k]

(* Every workflow whose caller got an id ends for good, unless it met a     *)
(* full queue, a failed etcd call or a crash: a failed activity stops no    *)
(* worker, and no workflow waits for ever in the queue.                     *)
EveryWorkflowEnds ==
    <>[](\A id \in Workflows :
            workflow[id].state \in {"none", "COMPLETED", "FAILED"} \/ id \in lost)
=============================================================================
