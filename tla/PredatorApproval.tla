--------------------------- MODULE PredatorApproval ---------------------------
(***************************************************************************)
(* The approval of predator model requests in horizon.  A request is a     *)
(* group of rows, written together and here one row; approving it starts   *)
(* a goroutine that works on the copy of the row it fetched: it copies or  *)
(* moves model folders in the bucket, registers, updates or retires        *)
(* configs in the database, restarts the deployable and writes status and  *)
(* stage back as it goes.  Nothing claims a request, any call may fail,    *)
(* and the process may die in between; the stage lets a later approval     *)
(* take up a request that was left In Progress.                            *)
(***************************************************************************)
EXTENDS Integers, SequencesExt

CONSTANTS
    Groups, Models,
    Workers,        \* approvals that may run at once
    Served,         \* models that are live at the start
    Batches,        \* bound: the sets of models that one request names
    Created,        \* types of the requests that create a model
    Base,           \* who made the files and configs of the start
    NoFiles,
    MaxStarts,      \* bound: approvals and rejections started, in all
    MaxFaults       \* bound: calls that fail and crashes, in all

ASSUME ApprovalAssumption ==
    /\ IsFiniteSet(Models)
    /\ Served \subseteq Models /\ Batches \subseteq SUBSET Models
    /\ Created \subseteq {"Onboard", "ScaleUp", "Promote"}
    /\ Base \notin Groups /\ {MaxStarts, MaxFaults} \subseteq Nat

VARIABLES
    request,     \* request[g]: the type, models and config ids of a group
    row,         \* row[g]: what the table holds of its progress
    configs,     \* the table of predator configs; a config's id is its index
    files,       \* files[place][m]: a model's folder
    flow,        \* flow[w]: an approval at work
    starts, faults,
    unchecked,   \* models that two flows worked on at once, or whose check failed
    interrupted, \* groups with a flow that crashed or whose status write failed
    overtaken    \* groups whose row was written from a copy that was out of date

history == <<starts, faults, unchecked, interrupted, overtaken>>
avars == <<request, row, configs, files, flow, history>>

Types == Created \union {"Edit", "Delete"}
Terminal == {"Approved", "Failed", "Rejected"}
Places == {"source", "live", "deleted"}

NoRequest == [type |-> "none", models |-> {}, ids |-> {}]
NoRow == [status |-> "none", stage |-> "Pending", active |-> FALSE, valid |-> FALSE]
Idle == [pc |-> "idle", g |-> Base, mem |-> NoRow, todo |-> {}, moved |-> {}, fresh |-> FALSE]

Init ==
    /\ request = [g \in Groups |-> NoRequest]
    /\ row = [g \in Groups |-> NoRow]
    /\ configs = SetToSeq({[model |-> m, by |-> Base, meta |-> Base, active |-> TRUE] :
                             m \in Served})
    /\ files = [p \in Places |-> [m \in Models |->
                  IF p = "live" /\ m \in Served THEN [by |-> Base, copied |-> "whole"]
                  ELSE NoFiles]]
    /\ flow = [w \in Workers |-> Idle]
    /\ starts = 0 /\ faults = 0
    /\ unchecked = {} /\ interrupted = {} /\ overtaken = {}

ActiveConfigs(m) == {i \in DOMAIN configs : configs[i].active /\ configs[i].model = m}
Busy == {w \in Workers : flow[w].pc # "idle"}
ModelsOf(w) == request[flow[w].g].models
Fault == faults < MaxFaults /\ faults' = faults + 1 /\ UNCHANGED starts

-----------------------------------------------------------------------------
(* Submitting a request.                                                    *)

Submit(g, type, models, ids) ==
    /\ request[g] = NoRequest
    /\ request' = [request EXCEPT ![g] = [type |-> type, models |-> models, ids |-> ids]]
    /\ row' = [row EXCEPT ![g] = [status |-> "Pending Approval", stage |-> "Pending",
                                  active |-> TRUE, valid |-> type = "Delete"]]
    /\ UNCHANGED <<configs, files, flow, history>>

NoActiveRequest(models, type) ==
    \A g \in Groups : row[g].active /\ request[g].type = type
                        => request[g].models \intersect models = {}

HandleModelRequest(g) ==
    \E type \in Created, models \in Batches :
        /\ NoActiveRequest(models, type)
        /\ \A m \in models : ActiveConfigs(m) = {}
        /\ Submit(g, type, models, {})

HandleEditModel(g) ==
    \E models \in Batches :
        NoActiveRequest(models, "Edit") /\ Submit(g, "Edit", models, {})

HandleDeleteModel(g) ==
    \E ids \in SUBSET {i \in DOMAIN configs : configs[i].active} :
        ids # {} /\ Submit(g, "Delete", {configs[i].model : i \in ids}, ids)

-----------------------------------------------------------------------------
(* ProcessRequest: the row is fetched and a goroutine started on the copy.  *)

\* Faulty variant: the rows of ended requests are fetched too.
StartFlowOnAny(w, g, pc) ==
    /\ w \notin Busy /\ starts < MaxStarts /\ starts' = starts + 1
    /\ row[g].status \notin {"none", "Approved"}
    /\ flow' = [flow EXCEPT ![w] = [pc |-> pc, g |-> g, mem |-> row[g],
                                    todo |-> request[g].models, moved |-> {}, fresh |-> TRUE]]
    /\ unchecked' = unchecked \union
                      (request[g].models \intersect UNION {ModelsOf(v) : v \in Busy})
    /\ UNCHANGED <<request, row, configs, files, faults, interrupted, overtaken>>

StartFlow(w, g, pc) ==
    /\ w \notin Busy /\ starts < MaxStarts /\ starts' = starts + 1
    /\ row[g].active /\ row[g].status # "Approved"
    /\ flow' = [flow EXCEPT ![w] = [pc |-> pc, g |-> g, mem |-> row[g],
                                    todo |-> request[g].models, moved |-> {}, fresh |-> TRUE]]
    /\ unchecked' = unchecked \union
                      (request[g].models \intersect UNION {ModelsOf(v) : v \in Busy})
    /\ UNCHANGED <<request, row, configs, files, faults, interrupted, overtaken>>

Approve(w, g) ==
    /\ row[g].valid \/ request[g].type = "Delete"
    /\ StartFlow(w, g, CASE request[g].type \in Created -> "exist"
                         [] request[g].type = "Edit" -> "copy live"
                         [] OTHER -> "move")

Reject(w, g) == StartFlow(w, g, "reject")

(* Writes of the row from flow w's copy.  A copy is out of date from the    *)
(* moment another actor writes the row.                                     *)
Overtake(w) == overtaken' = IF flow[w].fresh THEN overtaken ELSE overtaken \union {flow[w].g}

Marked(mem, status, stage) ==
    [mem EXCEPT !.status = status, !.stage = stage, !.active = @ /\ status \notin Terminal]

FlowsAfter(w, step) ==
    [v \in Workers |-> IF v = w THEN step
                       ELSE IF v \in Busy /\ flow[v].g = flow[w].g
                            THEN [flow[v] EXCEPT !.fresh = FALSE] ELSE flow[v]]

(* updateRequestStatusAndStage: the copy takes the new status even when the *)
(* write fails, which is only logged.  UpdateMany leaves is_valid alone.    *)
UpdateStatusAndStage(w, status, stage, step) ==
    LET mem == Marked(flow[w].mem, status, stage)
        next == [step EXCEPT !.mem = IF step.pc = "idle" THEN NoRow ELSE mem]
    IN  /\ \/ /\ row' = [row EXCEPT ![flow[w].g] = [mem EXCEPT !.valid = row[flow[w].g].valid]]
              /\ flow' = FlowsAfter(w, [next EXCEPT !.fresh = step.pc # "idle"])
              /\ Overtake(w)
              /\ UNCHANGED <<starts, faults, interrupted>>
           \/ /\ Fault
              /\ interrupted' = interrupted \union {flow[w].g}
              /\ flow' = [flow EXCEPT ![w] = next]
              /\ UNCHANGED <<row, overtaken>>
        /\ UNCHANGED <<request, configs, files, unchecked>>

ProcessRejectRequest(w) ==
    /\ flow[w].pc = "reject"
    /\ UpdateStatusAndStage(w, "Rejected", flow[w].mem.stage, Idle)

GoTo(w, pc) ==
    /\ flow' = [flow EXCEPT ![w].pc = pc, ![w].todo = ModelsOf(w)]
    /\ UNCHANGED <<request, row, configs, files, history>>

(* An error of the query is taken for a model that is not there.            *)
\* Faulty variant: the check is left to HandleModelRequest.
SkipExistCheck(w) ==
    /\ flow[w].pc = "exist"
    /\ IF request[flow[w].g].type = "ScaleUp" THEN GoTo(w, "copy source")
       ELSE GoTo(w, "copy live")

CheckIfModelsExist(w) ==
    LET found == \E m \in ModelsOf(w) : ActiveConfigs(m) # {}
        pc == IF request[flow[w].g].type = "ScaleUp" THEN "copy source" ELSE "copy live"
    IN  /\ flow[w].pc = "exist"
        /\ \/ GoTo(w, IF found THEN "reject" ELSE pc)
           \/ /\ found /\ Fault
              /\ flow' = [flow EXCEPT ![w].pc = pc]
              /\ unchecked' = unchecked \union ModelsOf(w)
              /\ UNCHANGED <<request, row, configs, files, interrupted, overtaken>>

-----------------------------------------------------------------------------
(* Onboard, ScaleUp, Promote and Edit copy folders.  TransferFolder returns *)
(* an error with some of the objects copied ("partly"); it drops the error  *)
(* of the upload of config.pbtxt, so that a folder it copied without error  *)
(* may hold no config.pbtxt, or the one before ("unclosed").  A copy is no  *)
(* better than what it was made from.                                       *)

CopyOf(folder, copied) ==
    [folder EXCEPT !.copied = IF @ = "whole" \/ copied = "partly" THEN copied ELSE @]

AtCopyStage(w) == flow[w].mem.stage \in {"Pending", "Clone To Bucket"}
Into(w) == IF flow[w].pc = "copy source" THEN "source" ELSE "live"

\* A ScaleUp's live folder is copied from the one it made, any other from an uploaded one.
From(w, m) ==
    IF request[flow[w].g].type = "ScaleUp" /\ flow[w].pc = "copy live" THEN files["source"][m]
    ELSE [by |-> flow[w].g, copied |-> "whole"]

\* Faulty variant: an object that is not copied is only logged.
TransferFolderAnyway(w, m) ==
    /\ flow[w].pc \in {"copy source", "copy live"} /\ AtCopyStage(w)
    /\ m \in flow[w].todo /\ From(w, m) # NoFiles
    /\ flow' = [flow EXCEPT ![w].todo = @ \ {m}, ![w].moved = @ \union {<<Into(w), m>>}]
    /\ \E copied \in {"whole", "partly"} :
          /\ files' = [files EXCEPT ![Into(w)][m] = CopyOf(From(w, m), copied)]
          /\ IF copied = "whole" THEN UNCHANGED <<starts, faults>> ELSE Fault
    /\ UNCHANGED <<request, row, configs, unchecked, interrupted, overtaken>>

TransferFolder(w, m) ==
    LET put(copied) == files' = [files EXCEPT ![Into(w)][m] = CopyOf(From(w, m), copied)]
    IN  /\ flow[w].pc \in {"copy source", "copy live"} /\ AtCopyStage(w)
        /\ m \in flow[w].todo
        /\ \/ /\ From(w, m) # NoFiles
              /\ \/ put("whole") /\ UNCHANGED <<starts, faults>>
                 \/ put("unclosed") /\ Fault
              /\ flow' = [flow EXCEPT ![w].todo = @ \ {m}, ![w].moved = @ \union {<<Into(w), m>>}]
           \/ /\ IF From(w, m) = NoFiles THEN UNCHANGED <<files, starts, faults>>
                 ELSE Fault /\ put("partly")
              /\ flow' = [flow EXCEPT ![w].pc = "fail copy"]
        /\ UNCHANGED <<request, row, configs, unchecked, interrupted, overtaken>>

(* The list of what was copied for a ScaleUp is replaced by the next one.   *)
EndCopySource(w) ==
    /\ flow[w].pc = "copy source"
    /\ flow[w].todo = {} \/ ~AtCopyStage(w)
    /\ flow' = [flow EXCEPT ![w].pc = "copy live", ![w].todo = ModelsOf(w), ![w].moved = {}]
    /\ UNCHANGED <<request, row, configs, files, history>>

(* An Edit goes back to the database stage even if it was past it.          *)
EndCopyLive(w) ==
    LET edit == request[flow[w].g].type = "Edit"
        pc == IF edit THEN "update" ELSE "populate"
    IN  /\ flow[w].pc = "copy live"
        /\ flow[w].todo = {} \/ ~AtCopyStage(w)
        /\ IF AtCopyStage(w) \/ edit
           THEN UpdateStatusAndStage(w, "In Progress", "DB Population",
                                     [flow[w] EXCEPT !.pc = pc, !.todo = ModelsOf(w)])
           ELSE GoTo(w, pc)

Fail(w) ==
    /\ flow[w].pc \in {"fail copy", "fail move", "fail db", "fail restart"}
    /\ LET stage == CASE flow[w].pc = "fail db" -> "DB Population"
                      [] flow[w].pc = "fail restart" -> "Restart Deployable"
                      [] OTHER -> "Clone To Bucket"
           undo == IF flow[w].pc = "fail move" THEN "move back" ELSE "revert"
       IN  UpdateStatusAndStage(w, "Failed", stage,
             IF flow[w].moved = {} THEN Idle ELSE [flow[w] EXCEPT !.pc = undo])

Done(w, f) == IF flow[w].moved = {f} THEN Idle ELSE [flow[w] EXCEPT !.moved = @ \ {f}]

(* revert deletes what was copied; an error of the listing ends it, an      *)
(* object that cannot be deleted is only logged.                            *)
Revert(w, f) ==
    LET folder == files[f[1]][f[2]]
        left == IF folder = NoFiles THEN NoFiles ELSE CopyOf(folder, "partly")
    IN  /\ flow[w].pc = "revert" /\ f \in flow[w].moved
        /\ \/ /\ files' = [files EXCEPT ![f[1]][f[2]] = NoFiles]
              /\ flow' = [flow EXCEPT ![w] = Done(w, f)]
              /\ UNCHANGED <<starts, faults, interrupted>>
           \/ /\ Fault /\ files' = [files EXCEPT ![f[1]][f[2]] = left]
              /\ \/ flow' = [flow EXCEPT ![w] = Done(w, f)] /\ UNCHANGED interrupted
                 \/ /\ flow' = [flow EXCEPT ![w] = Idle]
                    /\ interrupted' = interrupted \union {flow[w].g}
        /\ UNCHANGED <<request, row, configs, unchecked, overtaken>>

-----------------------------------------------------------------------------
(* The database and the restart.                                            *)

(* One transaction registers the models and moves the row on; zero values   *)
(* of the copy are not written.                                             *)
ProcessDBPopulation(w) ==
    LET g == flow[w].g
        mem == Marked(flow[w].mem, "In Progress", "Restart Deployable")
    IN  /\ flow[w].pc = "populate"
        /\ IF flow[w].mem.stage # "DB Population" THEN GoTo(w, "restart")
           ELSE /\ \/ /\ configs' = configs \o SetToSeq({[model |-> m, by |-> g, meta |-> g,
                                                 active |-> TRUE] : m \in ModelsOf(w)})
                      /\ row' = [row EXCEPT ![g] = [mem EXCEPT !.valid = @ \/ row[g].valid]]
                      /\ flow' = FlowsAfter(w, [flow[w] EXCEPT !.pc = "restart", !.mem = mem,
                                                    !.moved = {}, !.fresh = TRUE])
                      /\ Overtake(w)
                      /\ UNCHANGED <<starts, faults>>
                   \/ /\ Fault
                      /\ flow' = [flow EXCEPT ![w].pc = "fail db"]
                      /\ UNCHANGED <<row, configs, overtaken>>
                /\ UNCHANGED <<request, files, unchecked, interrupted>>

(* Edit: the first active config of each model is updated, one by one.      *)
UpdateConfig(w, m) ==
    /\ flow[w].pc = "update" /\ m \in flow[w].todo
    /\ \/ /\ \E i \in ActiveConfigs(m) :
                 /\ \A j \in ActiveConfigs(m) : i <= j
                 /\ configs' = [configs EXCEPT ![i].meta = flow[w].g]
          /\ flow' = [flow EXCEPT ![w].todo = @ \ {m}]
          /\ UNCHANGED <<starts, faults>>
       \/ /\ IF ActiveConfigs(m) = {} THEN UNCHANGED <<starts, faults>> ELSE Fault
          /\ flow' = [flow EXCEPT ![w].pc = "fail db"]
          /\ UNCHANGED configs
    /\ UNCHANGED <<request, row, files, unchecked, interrupted, overtaken>>

EndUpdate(w) ==
    /\ flow[w].pc = "update" /\ flow[w].todo = {}
    /\ UpdateStatusAndStage(w, "In Progress", "Restart Deployable",
                            [flow[w] EXCEPT !.pc = "restart", !.moved = {}])

(* An Edit is marked approved by the restart and then once more.            *)
ProcessRestartDeployable(w) ==
    /\ flow[w].pc = "restart" /\ flow[w].mem.stage = "Restart Deployable"
    /\ \/ UpdateStatusAndStage(w, "Approved", flow[w].mem.stage,
            IF request[flow[w].g].type = "Edit" THEN [flow[w] EXCEPT !.pc = "approve"] ELSE Idle)
       \/ /\ Fault
          /\ flow' = [flow EXCEPT ![w].pc = "fail restart"]
          /\ UNCHANGED <<request, row, configs, files, unchecked, interrupted, overtaken>>

ApproveEdit(w) ==
    /\ flow[w].pc = "approve"
    /\ UpdateStatusAndStage(w, "Approved", flow[w].mem.stage, Idle)

-----------------------------------------------------------------------------
(* Delete.                                                                  *)

(* TransferAndDeleteFolder copies and then deletes, where an object that    *)
(* cannot be deleted is only logged; when the listing fails it copies back. *)
(* A folder that is not there is an error.                                  *)
Moved(from, to, m, copied, left) ==
    [files EXCEPT ![to][m] = CopyOf(files[from][m], copied), ![from][m] = left]

TransferAndDelete(from, to, m) ==
    \/ files' = Moved(from, to, m, "whole", NoFiles) /\ UNCHANGED <<starts, faults>>
    \/ /\ Fault
       /\ files' \in {Moved(from, to, m, "unclosed", NoFiles),
                      Moved(from, to, m, "whole", CopyOf(files[from][m], "partly"))}

TransferAndDeleteFails(from, to, m) ==
    /\ Fault
    /\ files' \in {Moved(from, to, m, "partly", files[from][m]),
                   Moved(from, to, m, "whole", files[from][m]),
                   Moved(from, to, m, "whole", CopyOf(files[from][m], "partly"))}

MoveToDeleteBucket(w, m) ==
    /\ flow[w].pc = "move" /\ AtCopyStage(w)
    /\ m \in flow[w].todo
    /\ \/ /\ files["live"][m] # NoFiles
          /\ TransferAndDelete("live", "deleted", m)
          /\ flow' = [flow EXCEPT ![w].todo = @ \ {m}, ![w].moved = @ \union {<<"live", m>>}]
       \/ /\ files["live"][m] # NoFiles
          /\ TransferAndDeleteFails("live", "deleted", m)
          /\ flow' = [flow EXCEPT ![w].pc = "fail move"]
       \/ /\ files["live"][m] = NoFiles
          /\ flow' = [flow EXCEPT ![w].pc = "fail move"]
          /\ UNCHANGED <<files, starts, faults>>
    /\ UNCHANGED <<request, row, configs, unchecked, interrupted, overtaken>>

(* What was moved is forgotten: a later failure does not bring it back.     *)
EndMove(w) ==
    /\ flow[w].pc = "move"
    /\ IF AtCopyStage(w)
       THEN /\ flow[w].todo = {}
            /\ UpdateStatusAndStage(w, "In Progress", "DB Population",
                                    [flow[w] EXCEPT !.pc = "unregister", !.moved = {}])
       ELSE GoTo(w, "unregister")

RevertForDelete(w, f) ==
    /\ flow[w].pc = "move back" /\ f \in flow[w].moved
    /\ \/ /\ files["deleted"][f[2]] # NoFiles
          /\ TransferAndDelete("deleted", "live", f[2])
          /\ flow' = [flow EXCEPT ![w] = Done(w, f)]
          /\ UNCHANGED interrupted
       \/ /\ IF files["deleted"][f[2]] = NoFiles THEN UNCHANGED <<files, starts, faults>>
             ELSE TransferAndDeleteFails("deleted", "live", f[2])
          /\ interrupted' = interrupted \union {flow[w].g}
          /\ flow' = [flow EXCEPT ![w] = Idle]
    /\ UNCHANGED <<request, row, configs, unchecked, overtaken>>

\* Faulty variant: the row moves on although the configs were not retired.
DeleteConfigLater(w) ==
    LET mem == Marked(flow[w].mem, "In Progress", "Restart Deployable")
    IN  /\ flow[w].pc = "unregister"
        /\ row' = [row EXCEPT ![flow[w].g] = mem]
        /\ flow' = FlowsAfter(w, [flow[w] EXCEPT !.pc = "restart", !.mem = mem, !.fresh = TRUE])
        /\ Overtake(w)
        /\ UNCHANGED <<request, configs, files, starts, faults, unchecked, interrupted>>

(* One transaction retires the configs and writes the whole row back.       *)
DeleteDiscoveryAndConfig(w) ==
    LET g == flow[w].g
        mem == Marked(flow[w].mem, "In Progress", "Restart Deployable")
    IN  /\ flow[w].pc = "unregister"
        /\ IF flow[w].mem.stage # "DB Population" THEN GoTo(w, "restart")
           ELSE /\ \/ /\ configs' = [i \in DOMAIN configs |->
                                       [configs[i] EXCEPT !.active = @ /\ i \notin request[g].ids]]
                      /\ row' = [row EXCEPT ![g] = mem]
                      /\ flow' = FlowsAfter(w, [flow[w] EXCEPT !.pc = "restart", !.mem = mem,
                                                    !.fresh = TRUE])
                      /\ Overtake(w)
                      /\ UNCHANGED <<starts, faults>>
                   \/ /\ Fault
                      /\ flow' = [flow EXCEPT ![w].pc = "fail db"]
                      /\ UNCHANGED <<row, configs, overtaken>>
                /\ UNCHANGED <<request, files, unchecked, interrupted>>

-----------------------------------------------------------------------------
(* The process restarts: goroutines are gone, rows stay.                    *)
CrashFlows ==
    /\ Fault
    /\ flow' = [w \in Workers |-> Idle]
    /\ interrupted' = interrupted \union {flow[w].g : w \in Busy}
    /\ UNCHANGED <<request, row, configs, files, unchecked, overtaken>>

(* updateRequestValidationStatus: what a validation writes back.            *)
Result(copy, ok) ==
    IF ok THEN [copy EXCEPT !.valid = TRUE]
    ELSE [copy EXCEPT !.valid = FALSE, !.status = "Rejected", !.active = FALSE]

WriteRow(g, copy) ==
    /\ row' = [row EXCEPT ![g] = copy]
    /\ flow' = [w \in Workers |-> IF w \in Busy /\ flow[w].g = g
                                  THEN [flow[w] EXCEPT !.fresh = FALSE] ELSE flow[w]]

(* A validation that reads and writes at once; PredatorValidation has the   *)
(* steps between.                                                           *)
Validate(g) ==
    /\ row[g].active
    /\ \E ok \in BOOLEAN : Result(row[g], ok) # row[g] /\ WriteRow(g, Result(row[g], ok))
    /\ UNCHANGED <<request, configs, files, history>>

FlowStep(w) ==
    \/ ProcessRejectRequest(w) \/ CheckIfModelsExist(w)
    \/ EndCopySource(w) \/ EndCopyLive(w) \/ Fail(w)
    \/ ProcessDBPopulation(w) \/ EndUpdate(w)
    \/ ProcessRestartDeployable(w) \/ ApproveEdit(w)
    \/ EndMove(w) \/ DeleteDiscoveryAndConfig(w)
    \/ \E m \in Models : TransferFolder(w, m) \/ UpdateConfig(w, m) \/ MoveToDeleteBucket(w, m)
    \/ \E f \in flow[w].moved : Revert(w, f) \/ RevertForDelete(w, f)

RequestStep ==
    \/ \E g \in Groups : HandleModelRequest(g) \/ HandleEditModel(g) \/ HandleDeleteModel(g)
    \/ \E w \in Workers, g \in Groups : Approve(w, g) \/ Reject(w, g)

ANext ==
    \/ RequestStep
    \/ \E w \in Workers : FlowStep(w)
    \/ \E g \in Groups : Validate(g)
    \/ CrashFlows

ASpec == Init /\ [][ANext]_avars

-----------------------------------------------------------------------------
Folder == {NoFiles} \union [by : Groups \union {Base}, copied : {"whole", "unclosed", "partly"}]

Row == [status : {"none", "Pending Approval", "In Progress"} \union Terminal,
        stage : {"Pending", "Clone To Bucket", "DB Population", "Restart Deployable"},
        active : BOOLEAN, valid : BOOLEAN]

Pcs == {"idle", "reject", "exist", "copy source", "copy live", "populate", "update", "restart",
        "approve", "move", "unregister", "fail copy", "fail move", "fail db", "fail restart",
        "revert", "move back"}

FlowState == [pc : Pcs, g : Groups \union {Base}, mem : Row, todo : SUBSET Models,
              moved : SUBSET (Places \X Models), fresh : BOOLEAN]

Config == [model : Models, by : Groups \union {Base}, meta : Groups \union {Base}, active : BOOLEAN]

ApprovalTypeOK ==
    /\ request \in [Groups -> [type : Types \union {"none"}, models : SUBSET Models,
                               ids : SUBSET DOMAIN configs]]
    /\ row \in [Groups -> Row]
    /\ configs \in Seq(Config)
    /\ files \in [Places -> [Models -> Folder]]
    /\ flow \in [Workers -> FlowState]
    /\ starts \in 0 .. MaxStarts /\ faults \in 0 .. MaxFaults
    /\ unchecked \subseteq Models
    /\ interrupted \subseteq Groups /\ overtaken \subseteq Groups

(* A model has at most one active config, whatever types of requests name   *)
(* it and whatever fails or crashes, unless two flows worked on it at once  *)
(* (checkIfModelsExist and the insert are not one transaction) or the       *)
(* check's query failed.                                                    *)
OneConfigPerModel ==
    \A m \in Models \ unchecked : \A i, j \in ActiveConfigs(m) : i = j

(* An active config describes the files that are live: they come from the   *)
(* request that last wrote the config, and every copy behind them returned  *)
(* without error.  That is all the code knows of them: whether config.pbtxt *)
(* is the copied one it does not check (transferSingleConfigFile drops the  *)
(* error of destWriter.Close, "unclosed").  The only ways out: two flows    *)
(* at once, a flow that died, an Edit or a Delete that is under way or      *)
(* failed (revert and processDBPopulationStageForDelete do not restore what *)
(* they replaced or moved), and two Deletes of one config, both approved:   *)
(* the second moves the files of a model onboarded between them             *)
(* (HandleDeleteModel does not look for active requests, and                *)
(* processGCSCloneToDeleteBucket not at the config).                        *)
Disturbed(m) ==
    \E g \in Groups :
        /\ m \in request[g].models
        /\ \/ g \in interrupted
           \/ /\ request[g].type \in {"Edit", "Delete"}
              /\ \/ row[g].status = "Failed" \/ g \in overtaken
                 \/ \E w \in Busy : flow[w].g = g

DeletedTwice(m) ==
    \E g, h \in Groups :
        /\ g # h /\ row[g].status = "Approved" /\ row[h].status = "Approved"
        /\ \E i \in request[g].ids \intersect request[h].ids : configs[i].model = m

ServedFilesMatch ==
    \A m \in Models \ unchecked : \A i \in ActiveConfigs(m) :
        \/ files["live"][m] \in [by : {configs[i].meta}, copied : {"whole", "unclosed"}]
        \/ Disturbed(m) \/ DeletedTwice(m)

(* A request that ended Approved did its work in the database, and one that *)
(* was rejected did none once its flow has ended, unless a flow died or a   *)
(* write from an old copy put the status there.                             *)
Quiet(g) == g \notin overtaken /\ \A w \in Busy : flow[w].g # g

OutcomeIsTrue ==
    \A g \in {h \in Groups : Quiet(h)} :
        LET own == {i \in DOMAIN configs : configs[i].by = g}
        IN  /\ row[g].status = "Approved" =>
                 /\ request[g].type \in Created => {configs[i].model : i \in own} = request[g].models
                 /\ \A i \in request[g].ids : ~configs[i].active
            /\ row[g].status = "Rejected" /\ g \notin interrupted => own = {}

(* A request that has ended is only ever written again from a copy that was *)
(* out of date (GetAllByGroupID, updateRequestStatusAndStage).              *)
TerminalIsFinal ==
    [][\A g \in Groups : row[g].status \in Terminal =>
          row'[g] = row[g] \/ g \in overtaken']_avars
=============================================================================
