----------------------------- MODULE HorizonJobs -----------------------------
(***************************************************************************)
(* Horizon's job that onboards variants.  Cron starts a run of it in every *)
(* pod, every few minutes and without waiting for the last one; a run      *)
(* takes a named MySQL lock, follows up the tasks in progress, and starts  *)
(* the first pending task: it sets the parameters of a Prism step, which   *)
(* all tasks share, triggers an Airflow DAG run that reads them, and       *)
(* records the run in the task.                                            *)
(***************************************************************************)
EXTENDS Integers, Sequences, FiniteSetsExt

CONSTANTS
    Pods,
    PerPod,        \* bound: runs of the job at once in a pod
    PoolSize,      \* bound: connections in a pod's pool
    NumTasks,      \* bound: tasks; their order is that of their creation
    Modes,         \* which triggers are explored: "airflow", "skye-trigger"
    PageSize,      \* how many DAG runs Airflow lists in one answer
    MaxDepth,      \* bound: how often one connection takes the lock
    MaxRuns,       \* bound: DAG runs in all
    MaxFaults      \* bound: calls that fail, connections closed and crashes, in all

ASSUME JobsAssumption ==
    /\ {PerPod, PoolSize, NumTasks, PageSize, MaxDepth, MaxRuns, MaxFaults} \subseteq Nat
    /\ Modes \subseteq {"airflow", "skye-trigger"}

Tasks == 1..NumTasks
Slots == Pods \X (1..PerPod)
Conns == Pods \X (1..PoolSize)
ConnsOf(s) == {c \in Conns : c[1] = s[1]}

VARIABLES
    mode,
    task,       \* task[t]: status and DAG run (0: none) of the row
    prism,      \* the task whose parameters the Prism step holds (0: none)
    dagRuns,    \* Airflow's runs: for which task, what they ingest, state
    collection, \* collection[t]: the variant's vectors
    lock,       \* the connection that holds the named lock, and how often
    run,        \* run[s]: a run of the job
    faults,
    overlapped, \* whether two runs of the job were ever past the lock at once
    hit,        \* tasks that a failed call or a crash hit while they were started
    refused     \* tasks whose trigger Airflow answered with another status than 200

vars == <<mode, task, prism, dagRuns, collection, lock, run, faults, overlapped, hit, refused>>
outside == <<mode, dagRuns, collection>>
control == <<lock, overlapped>>
history == <<hit, refused>>

NoConn == <<>>
Free == [conn |-> NoConn, depth |-> 0]
NoRows == [t \in Tasks |-> [status |-> "none", run |-> 0]]
Idle == [pc |-> "idle", todo |-> {}, rows |-> NoRows, t |-> 0, r |-> 0]

Init ==
    /\ mode \in Modes
    /\ task = NoRows
    /\ prism = 0 /\ dagRuns = <<>>
    /\ collection = [t \in Tasks |-> "empty"]
    /\ lock = Free
    /\ run = [s \in Slots |-> Idle]
    /\ faults = 0 /\ overlapped = FALSE /\ hit = {} /\ refused = {}

Runs == DOMAIN dagRuns
Active == {s \in Slots : run[s].pc # "idle"}
Fault == faults < MaxFaults /\ faults' = faults + 1
To(s, next) == run' = [run EXCEPT ![s] = next]
Ends(s) == To(s, [Idle EXCEPT !.pc = "release"])

-----------------------------------------------------------------------------
(* The approval of a variant request creates its task, in order.            *)

CreateTask(t) ==
    /\ task[t].status = "none" /\ \A u \in 1..(t - 1) : task[u].status # "none"
    /\ task' = [task EXCEPT ![t].status = "PENDING"]
    /\ UNCHANGED <<outside, prism, control, run, faults, history>>

-----------------------------------------------------------------------------
(* The lock.  GET_LOCK belongs to the session of a connection, and that     *)
(* connection goes back to the pool at once: another call may use it, and   *)
(* the release may use another one.                                         *)

AcquireLockNowait(s) ==
    /\ run[s].pc = "idle" /\ lock.depth < MaxDepth
    /\ \E c \in ConnsOf(s) :
          /\ lock.conn \in {NoConn, c}
          /\ lock' = [conn |-> c, depth |-> lock.depth + 1]
    /\ To(s, [Idle EXCEPT !.pc = "list"])
    /\ overlapped' = (overlapped \/ Active # {})
    /\ UNCHANGED <<outside, task, prism, faults, history>>

ReleaseLock(s) ==
    /\ run[s].pc = "release"
    /\ \E c \in ConnsOf(s) :
          lock' = IF lock.conn # c THEN lock
                  ELSE IF lock.depth = 1 THEN Free ELSE [lock EXCEPT !.depth = @ - 1]
    /\ To(s, Idle)
    /\ UNCHANGED <<outside, task, prism, faults, overlapped, history>>

(* The pool or the server closes an idle connection, and its locks go.      *)
CloseConnection ==
    /\ lock # Free /\ lock' = Free /\ Fault
    /\ UNCHANGED <<outside, task, prism, run, overlapped, history>>

-----------------------------------------------------------------------------
(* Following up the tasks in progress.                                      *)

GetInProgress(s) ==
    /\ run[s].pc = "list"
    /\ \/ /\ To(s, [run[s] EXCEPT !.pc = "poll",
                       !.todo = {t \in Tasks : task[t].status = "IN_PROGRESS"},
                       !.rows = task])
          /\ UNCHANGED faults
       \/ Fault /\ To(s, [run[s] EXCEPT !.pc = "pending"])
    /\ UNCHANGED <<outside, task, prism, control, history>>

\* The next task in progress, its DAG run as the row was read, and the
\* payload written back with what was learnt of that run.
NextTask(s) == Min(run[s].todo)
RunRead(s) == run[s].rows[NextTask(s)].run
PayloadWritten(s) == task' = [task EXCEPT ![NextTask(s)].run = RunRead(s)]

Done(s) == To(s, [run[s] EXCEPT !.pc = "poll", !.todo = @ \ {NextTask(s)}])

(* processInProgressTask: a row that names no run, a call that fails and a  *)
(* DAG run that still works leave the task to the next run of the job.      *)
PollDagRun(s) ==
    /\ run[s].pc = "poll" /\ run[s].todo # {}
    /\ \/ RunRead(s) = 0 /\ Done(s) /\ UNCHANGED <<task, faults>>
       \/ /\ RunRead(s) # 0 /\ PayloadWritten(s) /\ UNCHANGED faults
          /\ IF dagRuns[RunRead(s)].state \in {"queued", "running"} THEN Done(s)
             ELSE To(s, [run[s] EXCEPT !.pc = "settle"])
       \/ Fault /\ Done(s) /\ (UNCHANGED task \/ (RunRead(s) # 0 /\ PayloadWritten(s)))
    /\ UNCHANGED <<outside, prism, control, history>>

\* Faulty variant: the state of the collection is not looked at.
SettleByRun(s) ==
    LET t == NextTask(s)
        state == dagRuns[RunRead(s)].state
    IN  /\ run[s].pc = "settle"
        /\ task' = [task EXCEPT ![t] =
              [status |-> IF state = "failed" THEN "FAILED" ELSE "COMPLETED", run |-> RunRead(s)]]
        /\ Done(s)
        /\ UNCHANGED <<outside, prism, control, faults, history>>

(* A failed DAG run fails the task; a successful one completes it once the  *)
(* collection is indexed to within five percent.  A status that cannot be   *)
(* written is left to the next run.                                         *)
SettleTask(s) ==
    LET t == NextTask(s)
        state == dagRuns[RunRead(s)].state
    IN  /\ run[s].pc = "settle"
        /\ \/ /\ state = "failed" /\ task' = [task EXCEPT ![t].status = "FAILED"]
              /\ UNCHANGED faults
           \/ /\ state = "success" /\ collection[t] = "indexed"
              /\ task' = [task EXCEPT ![t] = [status |-> "COMPLETED", run |-> RunRead(s)]]
              /\ UNCHANGED faults
           \/ /\ state = "success" /\ collection[t] # "indexed"
              /\ PayloadWritten(s) /\ UNCHANGED faults
           \/ Fault /\ (UNCHANGED task \/ (state = "success" /\ PayloadWritten(s)))
        /\ Done(s)
        /\ UNCHANGED <<outside, prism, control, history>>

-----------------------------------------------------------------------------
(* Starting the first pending task.                                         *)

\* Faulty variant: a task in progress is started again.
PendingOrStarted == {t \in Tasks : task[t].status \in {"PENDING", "IN_PROGRESS"}}

Pending == {t \in Tasks : task[t].status = "PENDING"}

GetFirstPending(s) ==
    /\ (run[s].pc = "poll" /\ run[s].todo = {}) \/ run[s].pc = "pending"
    /\ \/ /\ Pending # {}
          /\ To(s, [Idle EXCEPT !.pc = "previous", !.t = Min(Pending)]) /\ UNCHANGED faults
       \/ Pending = {} /\ Ends(s) /\ UNCHANGED faults
       \/ Fault /\ Ends(s)
    /\ UNCHANGED <<outside, task, prism, control, history>>

(* What ListDAGRuns gets: one page of Airflow's runs, asked for without an  *)
(* order, a limit or the next page.  Which runs it holds is left open.      *)
Pages ==
    IF Len(dagRuns) <= PageSize THEN {Runs}
    ELSE {page \in SUBSET Runs : Cardinality(page) = PageSize}

\* Faulty variant: only a run that is running holds the next task up.
NoneRunning(page) == \A r \in page : dagRuns[r].state # "running"

NoRunPending(page) == \A r \in page : dagRuns[r].state \notin {"queued", "running"}

CheckIfPreviousDAGRunIsPending(s) ==
    /\ run[s].pc = "previous"
    /\ \/ /\ mode = "skye-trigger"
          /\ To(s, [run[s] EXCEPT !.pc = "trigger"]) /\ UNCHANGED faults
       \/ /\ mode = "airflow" /\ UNCHANGED faults
          /\ \E page \in Pages :
                IF NoRunPending(page) THEN To(s, [run[s] EXCEPT !.pc = "prism"]) ELSE Ends(s)
       \/ mode = "airflow" /\ Fault /\ Ends(s)
    /\ UNCHANGED <<outside, task, prism, control, history>>

UpdateStepParameters(s) ==
    /\ run[s].pc = "prism"
    /\ \/ prism' = run[s].t /\ To(s, [run[s] EXCEPT !.pc = "trigger"]) /\ UNCHANGED faults
       \/ Fault /\ Ends(s) /\ (UNCHANGED prism \/ prism' = run[s].t)
    /\ UNCHANGED <<outside, task, control, history>>

(* TriggerDAG, or the trigger of skye, which counts as a run that succeeded. *)
Triggered(s) ==
    dagRuns' = Append(dagRuns,
        IF mode = "airflow" THEN [for |-> run[s].t, ingests |-> 0, state |-> "queued"]
        ELSE [for |-> run[s].t, ingests |-> run[s].t, state |-> "success"])

\* An answer of Airflow with another status than 200 is no error to the job:
\* it goes on with a response that names no run.
TriggerDAG(s) ==
    /\ run[s].pc = "trigger" /\ Len(dagRuns) < MaxRuns
    /\ \/ /\ Triggered(s)
          /\ To(s, [run[s] EXCEPT !.pc = "payload", !.r = Len(dagRuns) + 1])
          /\ UNCHANGED <<faults, history>>
       \/ /\ mode = "airflow" /\ Fault /\ (UNCHANGED dagRuns \/ Triggered(s))
          /\ To(s, [run[s] EXCEPT !.pc = "payload", !.r = 0])
          /\ refused' = refused \union {run[s].t} /\ UNCHANGED hit
       \/ /\ Fault /\ (UNCHANGED dagRuns \/ Triggered(s)) /\ Ends(s)
          /\ hit' = hit \union {run[s].t} /\ UNCHANGED refused
    /\ UNCHANGED <<mode, collection, task, prism, control>>

\* Faulty variant: the status is written before the run is known.
UpdatePayloadLast(s) ==
    /\ run[s].pc = "payload"
    /\ \/ /\ task' = [task EXCEPT ![run[s].t].status = "IN_PROGRESS"]
          /\ To(s, [run[s] EXCEPT !.pc = "status"]) /\ UNCHANGED <<faults, hit>>
       \/ Fault /\ Ends(s) /\ hit' = hit \union {run[s].t} /\ UNCHANGED task
    /\ UNCHANGED <<outside, prism, control, refused>>

UpdatePayload(s) ==
    /\ run[s].pc = "payload"
    /\ \/ /\ task' = [task EXCEPT ![run[s].t].run = run[s].r]
          /\ To(s, [run[s] EXCEPT !.pc = "status"]) /\ UNCHANGED <<faults, hit>>
       \/ Fault /\ Ends(s) /\ hit' = hit \union {run[s].t} /\ UNCHANGED task
    /\ UNCHANGED <<outside, prism, control, refused>>

UpdateStatus(s) ==
    /\ run[s].pc = "status"
    /\ \/ task' = [task EXCEPT ![run[s].t].status = "IN_PROGRESS"] /\ UNCHANGED <<faults, hit>>
       \/ Fault /\ hit' = hit \union {run[s].t} /\ UNCHANGED task
    /\ Ends(s)
    /\ UNCHANGED <<outside, prism, control, refused>>

-----------------------------------------------------------------------------
(* A pod dies, its connections and their lock with it.                      *)
Crash(p) ==
    LET dead == {s \in Active : s[1] = p}
    IN  /\ dead # {} /\ Fault
        /\ run' = [s \in Slots |-> IF s \in dead THEN Idle ELSE run[s]]
        /\ lock' = IF lock.conn # NoConn /\ lock.conn[1] = p THEN Free ELSE lock
        /\ hit' = hit \union {run[s].t : s \in {d \in dead : run[d].pc \in {"payload", "status"}}}
        /\ UNCHANGED <<outside, task, prism, overlapped, refused>>

(* Airflow: a queued run reads the parameters when it starts.               *)
Airflow(r) ==
    /\ \/ /\ dagRuns[r].state = "queued"
          /\ dagRuns' = [dagRuns EXCEPT ![r].state = "running", ![r].ingests = prism]
       \/ /\ dagRuns[r].state = "running"
          /\ \E state \in {"success", "failed"} : dagRuns' = [dagRuns EXCEPT ![r].state = state]
    /\ UNCHANGED <<mode, collection, task, prism, control, run, faults, history>>

(* Skye: what a run ingests reaches the collection, then its index.         *)
Skye(t) ==
    /\ \/ /\ collection[t] = "empty"
          /\ \E r \in DOMAIN dagRuns : dagRuns[r].state = "success" /\ dagRuns[r].ingests = t
          /\ collection' = [collection EXCEPT ![t] = "indexing"]
       \/ collection[t] = "indexing" /\ collection' = [collection EXCEPT ![t] = "indexed"]
    /\ UNCHANGED <<mode, dagRuns, task, prism, control, run, faults, history>>

Next ==
    \/ \E t \in Tasks : CreateTask(t) \/ Skye(t)
    \/ \E s \in Slots :
          \/ AcquireLockNowait(s) \/ ReleaseLock(s)
          \/ GetInProgress(s) \/ PollDagRun(s) \/ SettleTask(s)
          \/ GetFirstPending(s) \/ CheckIfPreviousDAGRunIsPending(s)
          \/ UpdateStepParameters(s) \/ TriggerDAG(s) \/ UpdatePayload(s) \/ UpdateStatus(s)
    \/ \E r \in DOMAIN dagRuns : Airflow(r)
    \/ \E p \in Pods : Crash(p)
    \/ CloseConnection

Spec == Init /\ [][Next]_vars

-----------------------------------------------------------------------------
(* Types: of the rows, of Airflow's runs, of the lock and of the runs of    *)
(* the job.                                                                 *)

Statuses == {"none", "PENDING", "IN_PROGRESS", "COMPLETED", "FAILED"}
Rows == [Tasks -> [status : Statuses, run : Runs \union {0}]]
DagRun == [for : Tasks, ingests : Tasks \union {0},
           state : {"queued", "running", "success", "failed"}]
JobRun == [pc : {"idle", "list", "poll", "settle", "pending", "previous", "prism",
                 "trigger", "payload", "status", "release"},
           todo : SUBSET Tasks, rows : Rows, t : Tasks \union {0}, r : Runs \union {0}]

TypeOK ==
    /\ mode \in Modes /\ prism \in Tasks \union {0}
    /\ task \in Rows
    /\ dagRuns \in Seq(DagRun)
    /\ collection \in [Tasks -> {"empty", "indexing", "indexed"}]
    /\ lock \in {Free} \union [conn : Conns, depth : Nat \ {0}]
    /\ run \in [Slots -> JobRun]
    /\ faults \in 0..MaxFaults /\ overlapped \in BOOLEAN
    /\ hit \subseteq Tasks /\ refused \subseteq Tasks

(* The Prism step is shared by all tasks: a DAG run ingests the variant of  *)
(* the task it was triggered for, through failures and crashes, as long as  *)
(* no two runs of the job were past the lock at once and all of Airflow's   *)
(* runs fit in the one page the job looks at.                               *)
RunIngestsItsTask ==
    ~ overlapped /\ Len(dagRuns) <= PageSize => \A r \in Runs : dagRuns[r].ingests \in {0, dagRuns[r].for}

(* A task in progress can be followed up: it names a DAG run, and one that  *)
(* was triggered for it, unless Airflow did not answer its trigger with     *)
(* 200; such a task, which names no run, nobody completes or fails while no *)
(* two runs of the job were past the lock at once.                          *)
InProgressHasRun ==
    \A t \in Tasks : task[t].status \notin {"none", "PENDING"} =>
        IF task[t].run # 0 THEN dagRuns[task[t].run].for = t
        ELSE t \in refused /\ (overlapped \/ task[t].status = "IN_PROGRESS")

(* The outcome of a task is that of a DAG run that was triggered for it,    *)
(* and a completed task's collection is indexed, overlapping runs or not.   *)
OutcomeIsTrue ==
    \A t \in Tasks :
      LET Outcome(state) == \E r \in Runs : dagRuns[r].for = t /\ dagRuns[r].state = state
      IN  /\ task[t].status = "COMPLETED" => Outcome("success") /\ collection[t] = "indexed"
          /\ task[t].status = "FAILED" => Outcome("failed")

(* A task is triggered a second time only if a call failed or a pod died    *)
(* while it was started, or two runs of the job overlapped.                 *)
TriggeredTwiceAfterFault ==
    \A t \in Tasks :
        overlapped \/ t \in hit \/ Cardinality({r \in Runs : dagRuns[r].for = t}) <= 1
=============================================================================
