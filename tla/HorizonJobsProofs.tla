------------------------- MODULE HorizonJobsProofs -------------------------
(***************************************************************************)
(* Theorems about HorizonJobs, for every number of pods, runs of the job,  *)
(* connections, tasks and faults.                                          *)
(***************************************************************************)
EXTENDS HorizonJobs, SequenceTheorems, FiniteSetTheorems, WellFoundedInduction, TLAPS

(* The inductive invariant.  A row, in the table or as a run of the job     *)
(* read it, names a DAG run of its own task from the moment it leaves       *)
(* PENDING, or Airflow refused the task's trigger.                          *)
RowsTrue(rows) ==
    \A t \in Tasks :
        /\ rows[t].run # 0 => dagRuns[rows[t].run].for = t
        /\ rows[t].status \notin {"none", "PENDING"} => rows[t].run # 0 \/ t \in refused

RunInv(s) ==
    /\ RowsTrue(run[s].rows)
    /\ \A t \in run[s].todo :
          run[s].rows[t].status = "IN_PROGRESS" /\ (task[t].run # 0 \/ t \in refused)
    /\ run[s].pc \notin {"poll", "settle"} => run[s].todo = {}
    /\ run[s].pc = "settle" => run[s].todo # {} /\ RunRead(s) # 0
    /\ run[s].pc \in {"previous", "prism", "trigger", "payload", "status"} => run[s].t \in Tasks
    /\ run[s].pc = "payload" =>
          IF run[s].r # 0 THEN dagRuns[run[s].r].for = run[s].t ELSE run[s].t \in refused
    /\ run[s].pc = "status" => task[run[s].t].run # 0 \/ run[s].t \in refused

RowsInv == RowsTrue(task) /\ \A s \in Slots : RunInv(s)

(* Until two runs overlap, only one run of the job is at work; what it does *)
(* to the Prism step it does with no DAG run queued that could read it, and *)
(* a queued run's parameters stay until it has read them, while the job     *)
(* sees all of Airflow's runs.                                              *)
OneAtWork == ~ overlapped => \A s1, s2 \in Active : s1 = s2

PrismInv ==
    ~ overlapped /\ Len(dagRuns) <= PageSize =>
        /\ \A r \in Runs : dagRuns[r].state = "queued" =>
              prism = dagRuns[r].for /\ dagRuns[r].ingests = 0
        /\ \A s \in Slots :
              /\ run[s].pc = "prism" => NoRunPending(Runs)
              /\ run[s].pc = "trigger" /\ mode = "airflow" => NoRunPending(Runs) /\ prism = run[s].t
        /\ RunIngestsItsTask

(* Until two runs overlap, a task that no fault hit has at most one DAG     *)
(* run, and is pending with one only while the run of the job that          *)
(* triggered it is about to write that down.                                *)
OnceInv ==
    ~ overlapped =>
        /\ \A s \in Slots :
              run[s].pc \in {"previous", "prism", "trigger", "payload", "status"} =>
                  task[run[s].t].status = "PENDING"
        /\ \A r \in Runs : task[dagRuns[r].for].status # "none"
        /\ \A r \in Runs :
              \/ dagRuns[r].for \in hit
              \/ task[dagRuns[r].for].status # "PENDING"
              \/ \E s \in Slots : run[s].pc \in {"payload", "status"} /\ run[s].t = dagRuns[r].for
        /\ \A q, r \in Runs : dagRuns[q].for = dagRuns[r].for /\ dagRuns[r].for \notin hit => q = r

(* Until two runs overlap, what the run at work read of a task in progress  *)
(* is what its row says, so that a row which names no run stays as it is.   *)
StuckInv ==
    ~ overlapped =>
        /\ \A t \in Tasks : task[t].run = 0 => task[t].status \in {"none", "PENDING", "IN_PROGRESS"}
        /\ \A s \in Slots : \A t \in run[s].todo : run[s].rows[t].run = task[t].run

IInv == TypeOK /\ RowsInv /\ OutcomeIsTrue /\ OneAtWork /\ PrismInv /\ OnceInv /\ StuckInv

-----------------------------------------------------------------------------
(* The operators.                                                           *)

\* The least of some tasks is one of them.
LEMMA MinIsTask ==
  ASSUME NEW S \in SUBSET Tasks, S # {}
  PROVE  Min(S) \in S
<1> DEFINE below(x) == {y \in S : y <= x}
           belows == {below(x) : x \in S}
<1>1. IsFiniteSet(S)
  <2>1. IsFiniteSet(1..NumTasks)
    BY JobsAssumption, FS_Interval
  <2>2. QED
    BY <2>1, FS_Subset DEF Tasks
<1>2. belows \subseteq FiniteSubsetsOf(S) /\ belows # {}
  <2>1. \A x \in S : below(x) \in FiniteSubsetsOf(S)
    <3>1. SUFFICES ASSUME NEW x \in S PROVE below(x) \in FiniteSubsetsOf(S)
      OBVIOUS
    <3>2. below(x) \in SUBSET S
      OBVIOUS
    <3>3. IsFiniteSet(below(x))
      BY <1>1, <3>2, FS_Subset, Zenon
    <3>4. QED
      BY <3>2, <3>3 DEF FiniteSubsetsOf
  <2>2. QED
    BY <2>1
<1>3. PICK B \in belows : \A C \in belows : ~ (<<C, B>> \in StrictSubsetOrdering(S))
  BY <1>2, WFMin, FS_StrictSubsetOrderingWellFounded, Zenon
<1>4. PICK x \in S : B = below(x)
  OBVIOUS
<1>5. \A y \in S : x <= y
  <2>1. SUFFICES ASSUME NEW y \in S, ~ (x <= y) PROVE FALSE
    OBVIOUS
  <2>2. x \in Int /\ y \in Int /\ \A z \in S : z \in Int
    BY JobsAssumption DEF Tasks
  <2>3. below(y) \subseteq S /\ B \subseteq S
    BY <1>4
  <2>4. below(y) \subseteq B
    <3>1. SUFFICES ASSUME NEW z \in S, z <= y PROVE z <= x
      BY <1>4
    <3>2. QED
      BY <2>1, <2>2, <3>1
  <2>5. x \in B /\ x \notin below(y)
    BY <1>4, <2>1, <2>2
  <2>6. <<below(y), B>> \in StrictSubsetOrdering(S)
    BY <2>3, <2>4, <2>5 DEF StrictSubsetOrdering
  <2>7. QED
    BY <1>3, <2>6
<1>6. QED
  BY <1>5 DEF Min

\* The row that a run follows up is the row of a task.
LEMMA NextTaskIsTask ==
  ASSUME TypeOK, NEW s \in Slots, run[s].todo # {}
  PROVE  NextTask(s) \in run[s].todo /\ NextTask(s) \in Tasks
<1>1. run[s].todo \in SUBSET Tasks
  BY DEF TypeOK, JobRun
<1>2. QED
  BY <1>1, MinIsTask DEF NextTask

LEMMA FirstPendingIsPending ==
  ASSUME Pending # {}
  PROVE  Min(Pending) \in Tasks /\ task[Min(Pending)].status = "PENDING"
<1>1. Pending \in SUBSET Tasks
  BY DEF Pending
<1>2. QED
  BY <1>1, MinIsTask DEF Pending

-----------------------------------------------------------------------------
(* Airflow's runs.                                                          *)

LEMMA TriggerAppends ==
  ASSUME TypeOK, NEW s \in Slots, run[s].t \in Tasks, Triggered(s)
  PROVE  /\ dagRuns' \in Seq(DagRun) /\ Len(dagRuns) \in Nat /\ Len(dagRuns') = Len(dagRuns) + 1
         /\ Runs' = Runs \union {Len(dagRuns) + 1} /\ Len(dagRuns) + 1 \notin Runs
         /\ \A r \in Runs : dagRuns'[r] = dagRuns[r]
         /\ dagRuns'[Len(dagRuns) + 1] =
               IF mode = "airflow" THEN [for |-> run[s].t, ingests |-> 0, state |-> "queued"]
               ELSE [for |-> run[s].t, ingests |-> run[s].t, state |-> "success"]
<1> DEFINE new == IF mode = "airflow" THEN [for |-> run[s].t, ingests |-> 0, state |-> "queued"]
                  ELSE [for |-> run[s].t, ingests |-> run[s].t, state |-> "success"]
<1>1. new \in DagRun /\ dagRuns \in Seq(DagRun) /\ dagRuns' = Append(dagRuns, new)
  BY DEF DagRun, TypeOK, Triggered
<1> HIDE DEF new
<1>2. /\ dagRuns' \in Seq(DagRun) /\ Len(dagRuns') = Len(dagRuns) + 1
      /\ \A r \in 1..Len(dagRuns) : dagRuns'[r] = dagRuns[r]
      /\ dagRuns'[Len(dagRuns) + 1] = new
  BY <1>1, AppendProperties
<1>3. Len(dagRuns) \in Nat /\ Runs = 1..Len(dagRuns) /\ Runs' = 1..Len(dagRuns')
  BY <1>1, <1>2, LenProperties DEF Runs
<1>4. QED
  BY <1>2, <1>3 DEF new

LEMMA AirflowMovesOn ==
  ASSUME TypeOK, NEW r \in Runs, Airflow(r)
  PROVE  /\ dagRuns' \in Seq(DagRun) /\ Len(dagRuns') = Len(dagRuns) /\ Runs' = Runs
         /\ \A q \in Runs \ {r} : dagRuns'[q] = dagRuns[q]
         /\ dagRuns'[r].for = dagRuns[r].for /\ dagRuns[r].state \in {"queued", "running"}
         /\ dagRuns'[r].state \in {"running", "success", "failed"}
         /\ dagRuns'[r].ingests = dagRuns[r].ingests
              \/ (dagRuns[r].state = "queued" /\ dagRuns'[r].ingests = prism)
<1>1. dagRuns \in Seq(DagRun) /\ Runs = 1..Len(dagRuns) /\ dagRuns[r] \in DagRun
  BY LenProperties, ElementOfSeq DEF TypeOK, Runs
<1> DEFINE Moves(new) ==
         /\ dagRuns' = [dagRuns EXCEPT ![r] = new] /\ new.for = dagRuns[r].for
         /\ dagRuns[r].state \in {"queued", "running"}
         /\ new.state \in {"running", "success", "failed"}
         /\ new.ingests = dagRuns[r].ingests \/ (dagRuns[r].state = "queued" /\ new.ingests = prism)
<1>2. PICK new \in DagRun : Moves(new)
  <2>1. CASE /\ dagRuns[r].state = "queued"
             /\ dagRuns' = [dagRuns EXCEPT ![r].state = "running", ![r].ingests = prism]
    <3>1. [[dagRuns[r] EXCEPT !.state = "running"] EXCEPT !.ingests = prism] \in DagRun
      BY <1>1 DEF DagRun, TypeOK
    <3>2. dagRuns' = [dagRuns EXCEPT ![r] = [[dagRuns[r] EXCEPT !.state = "running"] EXCEPT !.ingests = prism]]
      BY <1>1, <2>1
    <3>3. QED
      BY <1>1, <2>1, <3>1, <3>2 DEF DagRun
  <2>2. ASSUME dagRuns[r].state = "running", NEW state \in {"success", "failed"},
               dagRuns' = [dagRuns EXCEPT ![r].state = state]
        PROVE  \E new \in DagRun : Moves(new)
    <3>1. [dagRuns[r] EXCEPT !.state = state] \in DagRun
      BY <1>1, <2>2 DEF DagRun
    <3>2. Moves([dagRuns[r] EXCEPT !.state = state])
      BY <1>1, <2>2 DEF DagRun
    <3>3. QED
      BY <3>1, <3>2
  <2>3. QED
    BY <2>1, <2>2 DEF Airflow
<1>3. QED
  BY <1>1, <1>2, ExceptSeq DEF Runs

\* No DAG run is forgotten, keeps its task, and once settled does not change.
RunsKept ==
    /\ dagRuns' \in Seq(DagRun) /\ Runs \subseteq Runs' /\ refused \subseteq refused'
    /\ Len(dagRuns) \in Nat /\ Len(dagRuns') \in Nat /\ Len(dagRuns) <= Len(dagRuns')
    /\ \A r \in Runs :
          /\ dagRuns'[r].for = dagRuns[r].for
          /\ dagRuns[r].state \in {"success", "failed"} => dagRuns'[r] = dagRuns[r]

LEMMA RunsStep ==
  ASSUME TypeOK, RowsInv, [Next]_vars
  PROVE  RunsKept
<1>0. Len(dagRuns) \in Nat
  BY LenProperties DEF TypeOK
<1>1. CASE UNCHANGED dagRuns /\ refused \subseteq refused'
  BY <1>0, <1>1 DEF RunsKept, TypeOK, Runs
<1>2. ASSUME NEW s \in Slots, TriggerDAG(s), Triggered(s) PROVE RunsKept
  <2>1. run[s].t \in Tasks /\ refused \subseteq refused'
    BY <1>2 DEF RowsInv, RunInv, TriggerDAG, history
  <2>2. Len(dagRuns') \in Nat /\ Len(dagRuns) <= Len(dagRuns')
    <3>1. Len(dagRuns') = Len(dagRuns) + 1
      BY <1>2, <2>1, TriggerAppends, Zenon
    <3>2. QED
      BY <1>0, <3>1
  <2>3. QED
    BY <1>0, <1>2, <2>1, <2>2, TriggerAppends DEF RunsKept
<1>3. ASSUME NEW r \in Runs, Airflow(r) PROVE RunsKept
  <2>1. refused \subseteq refused'
    BY <1>3 DEF Airflow, history
  <2>2. QED
    BY <1>0, <1>3, <2>1, AirflowMovesOn DEF RunsKept
<1>4. ASSUME NEW s \in Slots, TriggerDAG(s) PROVE RunsKept
  BY <1>1, <1>2, <1>4 DEF TriggerDAG, history
<1>5. CASE UNCHANGED vars
  BY <1>1, <1>5 DEF vars
<1>6. CASE Next
  BY <1>1, <1>3, <1>4, <1>6
     DEF Next, CreateTask, Skye, AcquireLockNowait, ReleaseLock, GetInProgress, PollDagRun,
         SettleTask, GetFirstPending, CheckIfPreviousDAGRunIsPending, UpdateStepParameters,
         UpdatePayload, UpdateStatus, Crash, CloseConnection, outside, history, Runs
<1>7. QED
  BY <1>5, <1>6

-----------------------------------------------------------------------------
(* Types.                                                                   *)

LEMMA RowsGrow ==
  ASSUME Runs \subseteq Runs'
  PROVE  Rows \subseteq Rows' /\ JobRun \subseteq JobRun'
<1>1. [status : Statuses, run : Runs \union {0}] \subseteq [status : Statuses, run : Runs' \union {0}]
  OBVIOUS
<1>2. Rows \subseteq Rows'
  BY <1>1 DEF Rows
<1>3. QED
  BY <1>2 DEF JobRun

LEMMA OtherTypesStep ==
  ASSUME TypeOK, RowsInv, [Next]_vars
  PROVE  /\ mode' \in Modes /\ prism' \in Tasks \union {0}
         /\ collection' \in [Tasks -> {"empty", "indexing", "indexed"}]
         /\ lock' \in {Free} \union [conn : Conns, depth : Nat \ {0}]
         /\ faults' \in 0..MaxFaults /\ overlapped' \in BOOLEAN /\ hit' \subseteq Tasks
         /\ refused' \subseteq Tasks
<1>1. mode' \in Modes /\ collection' \in [Tasks -> {"empty", "indexing", "indexed"}]
  BY DEF TypeOK, Next, vars, CreateTask, Skye, AcquireLockNowait, ReleaseLock, GetInProgress,
         PollDagRun, SettleTask, GetFirstPending, CheckIfPreviousDAGRunIsPending, UpdateStepParameters,
         TriggerDAG, UpdatePayload, UpdateStatus, Crash, CloseConnection, Airflow, outside
<1>2. prism' \in Tasks \union {0}
  BY DEF TypeOK, JobRun, Next, vars, CreateTask, Skye, AcquireLockNowait, ReleaseLock, GetInProgress,
         PollDagRun, SettleTask, GetFirstPending, CheckIfPreviousDAGRunIsPending, UpdateStepParameters,
         TriggerDAG, UpdatePayload, UpdateStatus, Crash, CloseConnection, Airflow
<1>3. lock' \in {Free} \union [conn : Conns, depth : Nat \ {0}]
  <2>1. ASSUME NEW s \in Slots, AcquireLockNowait(s) PROVE lock' \in [conn : Conns, depth : Nat \ {0}]
    BY <2>1 DEF TypeOK, Free, AcquireLockNowait, ConnsOf
  <2>2. ASSUME NEW s \in Slots, ReleaseLock(s)
        PROVE  lock' \in {Free} \union [conn : Conns, depth : Nat \ {0}]
    <3>1. \/ lock' \in {lock, Free}
          \/ lock.depth # 1 /\ lock.conn \in Conns /\ lock' = [lock EXCEPT !.depth = @ - 1]
      BY <2>2 DEF ReleaseLock, ConnsOf
    <3>2. \A c \in Conns : c # NoConn
      BY DEF Conns, NoConn
    <3>3. CASE lock' \in {lock, Free}
      BY <3>3 DEF TypeOK
    <3>4. CASE lock.depth # 1 /\ lock.conn \in Conns /\ lock' = [lock EXCEPT !.depth = @ - 1]
      <4>1. lock \in [conn : Conns, depth : Nat \ {0}]
        BY <3>2, <3>4 DEF TypeOK, Free
      <4>2. QED
        BY <3>4, <4>1
    <3>5. QED
      BY <3>1, <3>3, <3>4
  <2>3. CASE lock' \in {lock, Free}
    BY <2>3 DEF TypeOK, Free
  <2>4. QED
    BY <2>1, <2>2, <2>3
       DEF Next, vars, CreateTask, Skye, GetInProgress, PollDagRun, SettleTask, GetFirstPending,
           CheckIfPreviousDAGRunIsPending, UpdateStepParameters, TriggerDAG, UpdatePayload,
           UpdateStatus, Crash, CloseConnection, Airflow, control
<1>4. faults' \in 0..MaxFaults
  <2>1. CASE Fault \/ UNCHANGED faults
    BY <2>1, JobsAssumption DEF TypeOK, Fault
  <2>2. QED
    BY <2>1
       DEF Next, vars, CreateTask, Skye, AcquireLockNowait, ReleaseLock, GetInProgress, PollDagRun,
           SettleTask, GetFirstPending, CheckIfPreviousDAGRunIsPending, UpdateStepParameters, TriggerDAG,
           UpdatePayload, UpdateStatus, Crash, CloseConnection, Airflow
<1>5. overlapped' \in BOOLEAN
  BY DEF TypeOK, Next, vars, CreateTask, Skye, AcquireLockNowait, ReleaseLock, GetInProgress, PollDagRun,
         SettleTask, GetFirstPending, CheckIfPreviousDAGRunIsPending, UpdateStepParameters, TriggerDAG,
         UpdatePayload, UpdateStatus, Crash, CloseConnection, Airflow, control
<1>6. hit' \subseteq Tasks
  <2>1. ASSUME NEW s \in Slots, TriggerDAG(s) \/ UpdatePayload(s) \/ UpdateStatus(s) PROVE hit' \subseteq Tasks
    <3>1. run[s].t \in Tasks /\ hit' \subseteq hit \union {run[s].t}
      BY <2>1 DEF RowsInv, RunInv, TriggerDAG, UpdatePayload, UpdateStatus, history
    <3>2. QED
      BY <3>1 DEF TypeOK
  <2>2. ASSUME NEW p \in Pods, Crash(p) PROVE hit' \subseteq Tasks
    BY <2>2 DEF TypeOK, RowsInv, RunInv, Active, Crash
  <2>3. CASE UNCHANGED hit
    BY <2>3 DEF TypeOK
  <2>4. QED
    BY <2>1, <2>2, <2>3
       DEF Next, vars, CreateTask, Skye, AcquireLockNowait, ReleaseLock, GetInProgress, PollDagRun,
           SettleTask, GetFirstPending, CheckIfPreviousDAGRunIsPending, UpdateStepParameters,
           CloseConnection, Airflow, history
<1>7. refused' \subseteq Tasks
  <2>1. ASSUME NEW s \in Slots, TriggerDAG(s) PROVE refused' \subseteq Tasks
    BY <2>1 DEF RowsInv, RunInv, TriggerDAG, history, TypeOK
  <2>2. QED
    BY <2>1
       DEF TypeOK, Next, vars, CreateTask, Skye, AcquireLockNowait, ReleaseLock, GetInProgress,
           PollDagRun, SettleTask, GetFirstPending, CheckIfPreviousDAGRunIsPending, UpdateStepParameters,
           UpdatePayload, UpdateStatus, Crash, CloseConnection, Airflow, history
<1>8. QED
  BY <1>1, <1>2, <1>3, <1>4, <1>5, <1>6, <1>7

LEMMA TaskTypeStep ==
  ASSUME TypeOK, RowsInv, [Next]_vars
  PROVE  task' \in Rows'
<1>1. Runs \subseteq Runs' /\ Rows \subseteq Rows'
  BY RunsStep, RowsGrow DEF RunsKept
<1>0. ASSUME NEW t \in Tasks, NEW status \in Statuses PROVE [task EXCEPT ![t].status = status] \in Rows
  BY DEF TypeOK, Rows
<1>2. CASE UNCHANGED task
  BY <1>1, <1>2 DEF TypeOK
<1>3. ASSUME NEW t \in Tasks, CreateTask(t) PROVE task' \in Rows
  BY <1>3 DEF CreateTask, TypeOK, Rows, Statuses
<1>4. ASSUME NEW s \in Slots, run[s].todo # {}, PayloadWritten(s) PROVE task' \in Rows
  <2>1. RunRead(s) \in Runs \union {0}
    BY <1>4, NextTaskIsTask DEF RunRead, TypeOK, JobRun, Rows
  <2>2. QED
    BY <1>4, <2>1 DEF PayloadWritten, TypeOK, Rows
<1>5. ASSUME NEW s \in Slots, PollDagRun(s) PROVE task' \in Rows'
  BY <1>1, <1>2, <1>4, <1>5 DEF PollDagRun
<1>6. ASSUME NEW s \in Slots, SettleTask(s) PROVE task' \in Rows'
  <2>1. run[s].todo # {}
    BY <1>6 DEF SettleTask, RowsInv, RunInv
  <2>2. RunRead(s) \in Runs \union {0}
    BY <2>1, NextTaskIsTask DEF RunRead, TypeOK, JobRun, Rows
  <2>3. CASE task' = [task EXCEPT ![NextTask(s)].status = "FAILED"]
    BY <1>0, <1>1, <2>1, <2>3, NextTaskIsTask DEF Statuses
  <2>4. CASE task' = [task EXCEPT ![NextTask(s)] = [status |-> "COMPLETED", run |-> RunRead(s)]]
    BY <1>1, <2>2, <2>4 DEF TypeOK, Rows, Statuses
  <2>5. QED
    BY <1>1, <1>2, <1>4, <1>6, <2>1, <2>3, <2>4 DEF SettleTask
<1>7. ASSUME NEW s \in Slots, UpdatePayload(s) PROVE task' \in Rows'
  <2>1. run[s].r \in Runs \union {0} /\ run[s].t \in Tasks
    BY <1>7 DEF TypeOK, JobRun, RowsInv, RunInv, UpdatePayload
  <2>2. CASE task' = [task EXCEPT ![run[s].t].run = run[s].r]
    BY <1>1, <2>1, <2>2 DEF TypeOK, Rows
  <2>3. QED
    BY <1>2, <1>7, <2>2 DEF UpdatePayload
<1>8. ASSUME NEW s \in Slots, UpdateStatus(s) PROVE task' \in Rows'
  <2>1. run[s].t \in Tasks
    BY <1>8 DEF RowsInv, RunInv, UpdateStatus
  <2>2. QED
    BY <1>0, <1>1, <1>2, <1>8, <2>1 DEF UpdateStatus, Statuses
<1>9. QED
  BY <1>1, <1>2, <1>3, <1>5, <1>6, <1>7, <1>8
     DEF Next, vars, Skye, AcquireLockNowait, ReleaseLock, GetInProgress, GetFirstPending,
         CheckIfPreviousDAGRunIsPending, UpdateStepParameters, TriggerDAG, Crash, CloseConnection, Airflow

\* What a run of the job moves to is a state of a run of the job.
LEMMA RunTypeStep ==
  ASSUME TypeOK, RowsInv, [Next]_vars
  PROVE  run' \in [Slots -> JobRun']
<1>1. Runs \subseteq Runs' /\ Rows \subseteq Rows' /\ JobRun \subseteq JobRun'
  BY RunsStep, RowsGrow DEF RunsKept
<1>2. ASSUME NEW s \in Slots, NEW next \in JobRun', To(s, next) PROVE run' \in [Slots -> JobRun']
  BY <1>1, <1>2 DEF To, TypeOK
<1>3. CASE UNCHANGED run
  BY <1>1, <1>3 DEF TypeOK
<1>4. /\ Idle \in JobRun
      /\ \A t \in Tasks : [Idle EXCEPT !.pc = "previous", !.t = t] \in JobRun
      /\ [Idle EXCEPT !.pc = "list"] \in JobRun /\ [Idle EXCEPT !.pc = "release"] \in JobRun
  BY DEF Idle, NoRows, JobRun, Rows, Statuses
<1>5. ASSUME NEW s \in Slots
      PROVE  /\ \A p \in {"pending", "settle", "prism", "trigger", "status"} :
                    [run[s] EXCEPT !.pc = p] \in JobRun
             /\ [run[s] EXCEPT !.pc = "poll", !.todo = {t \in Tasks : task[t].status = "IN_PROGRESS"},
                              !.rows = task] \in JobRun
             /\ [run[s] EXCEPT !.pc = "poll", !.todo = @ \ {NextTask(s)}] \in JobRun
  BY DEF TypeOK, JobRun
<1>6. ASSUME NEW s \in Slots, Ends(s) \/ Done(s) PROVE run' \in [Slots -> JobRun']
  BY <1>1, <1>2, <1>4, <1>5, <1>6 DEF Ends, Done
<1>7. ASSUME NEW s \in Slots, TriggerDAG(s) PROVE run' \in [Slots -> JobRun']
  <2>1. CASE Triggered(s) /\ To(s, [run[s] EXCEPT !.pc = "payload", !.r = Len(dagRuns) + 1])
    <3>1. run[s].t \in Tasks
      BY <1>7 DEF TriggerDAG, RowsInv, RunInv
    <3>2. Len(dagRuns) + 1 \in Runs'
      BY <2>1, <3>1, TriggerAppends
    <3>3. run[s] \in JobRun'
      BY <1>1 DEF TypeOK
    <3>4. [run[s] EXCEPT !.pc = "payload", !.r = Len(dagRuns) + 1] \in JobRun'
      BY <3>2, <3>3 DEF JobRun
    <3>5. QED
      BY <1>2, <2>1, <3>4
  <2>2. CASE To(s, [run[s] EXCEPT !.pc = "payload", !.r = 0])
    <3>1. [run[s] EXCEPT !.pc = "payload", !.r = 0] \in JobRun
      BY DEF TypeOK, JobRun
    <3>2. QED
      BY <1>1, <1>2, <2>2, <3>1
  <2>3. QED
    BY <1>6, <1>7, <2>1, <2>2 DEF TriggerDAG
<1>8. ASSUME NEW s \in Slots, AcquireLockNowait(s) \/ ReleaseLock(s) PROVE run' \in [Slots -> JobRun']
  BY <1>1, <1>2, <1>4, <1>8 DEF AcquireLockNowait, ReleaseLock
<1>9. ASSUME NEW s \in Slots, GetInProgress(s) \/ PollDagRun(s) \/ SettleTask(s) PROVE run' \in [Slots -> JobRun']
  BY <1>1, <1>2, <1>5, <1>6, <1>9 DEF GetInProgress, PollDagRun, SettleTask
<1>10. ASSUME NEW s \in Slots, GetFirstPending(s) PROVE run' \in [Slots -> JobRun']
  BY <1>1, <1>2, <1>4, <1>6, <1>10, FirstPendingIsPending DEF GetFirstPending
<1>11. ASSUME NEW s \in Slots,
              \/ CheckIfPreviousDAGRunIsPending(s) \/ UpdateStepParameters(s)
              \/ UpdatePayload(s) \/ UpdateStatus(s)
       PROVE  run' \in [Slots -> JobRun']
  BY <1>1, <1>2, <1>5, <1>6, <1>11
     DEF CheckIfPreviousDAGRunIsPending, UpdateStepParameters, UpdatePayload, UpdateStatus
<1>12. ASSUME NEW p \in Pods, Crash(p) PROVE run' \in [Slots -> JobRun']
  BY <1>1, <1>4, <1>12 DEF Crash, TypeOK
<1>13. QED
  BY <1>3, <1>7, <1>8, <1>9, <1>10, <1>11, <1>12 DEF Next, vars, CreateTask, Skye, Airflow, CloseConnection

LEMMA TypeStep ==
  ASSUME TypeOK, RowsInv, [Next]_vars
  PROVE  TypeOK'
BY RunsStep, OtherTypesStep, TaskTypeStep, RunTypeStep DEF TypeOK, RunsKept

-----------------------------------------------------------------------------
(* Rows and the runs that they name.                                        *)

LEMMA RunReadIsTrue ==
  ASSUME TypeOK, RowsInv, NEW s \in Slots, run[s].todo # {}
  PROVE  /\ NextTask(s) \in Tasks /\ RunRead(s) \in Runs \union {0}
         /\ RunRead(s) # 0 => RunRead(s) \in Runs /\ dagRuns[RunRead(s)].for = NextTask(s)
<1>1. NextTask(s) \in run[s].todo /\ NextTask(s) \in Tasks
  BY NextTaskIsTask
<1>2. RunRead(s) \in Runs \union {0}
  BY <1>1 DEF RunRead, TypeOK, JobRun, Rows
<1>3. RunRead(s) # 0 => dagRuns[RunRead(s)].for = NextTask(s)
  BY <1>1 DEF RunRead, RowsInv, RunInv, RowsTrue
<1>4. QED
  BY <1>1, <1>2, <1>3

\* What a step does to a row, whichever action it is: the row of t is created,
\* is given a run, goes in progress, fails or completes.
Created(t) == task[t].status = "none" /\ task'[t] = [task[t] EXCEPT !.status = "PENDING"]
GivenRun(t) ==
    /\ task'[t].status = task[t].status /\ task'[t].run \in Runs \union {0}
    /\ IF task'[t].run # 0 THEN dagRuns[task'[t].run].for = t ELSE t \in refused
GoesInProgress(t) ==
    /\ task'[t] = [task[t] EXCEPT !.status = "IN_PROGRESS"] /\ (task[t].run # 0 \/ t \in refused)
    /\ \E s \in Slots : run[s].pc = "status" /\ run[s].t = t
Fails(t) ==
    /\ task'[t] = [task[t] EXCEPT !.status = "FAILED"] /\ (task[t].run # 0 \/ t \in refused)
    /\ \E r \in Runs : dagRuns[r].for = t /\ dagRuns[r].state = "failed"
Completes(t) ==
    /\ task'[t].status = "COMPLETED" /\ task'[t].run \in Runs \ {0}
    /\ dagRuns[task'[t].run].for = t /\ dagRuns[task'[t].run].state = "success"
    /\ collection[t] = "indexed"
RowStep(t) ==
    UNCHANGED task[t] \/ Created(t) \/ GivenRun(t) \/ GoesInProgress(t) \/ Fails(t) \/ Completes(t)

LEMMA TaskStep ==
  ASSUME TypeOK, RowsInv, [Next]_vars
  PROVE  \A t \in Tasks : RowStep(t)
<1> SUFFICES ASSUME NEW t \in Tasks PROVE RowStep(t)
  OBVIOUS
<1>1. task[t] \in [status : Statuses, run : Runs \union {0}] /\ task = [u \in Tasks |-> task[u]]
  BY DEF TypeOK, Rows
<1>2. CASE UNCHANGED task
  BY <1>2 DEF RowStep
<1>3. ASSUME NEW u \in Tasks, CreateTask(u) PROVE RowStep(t)
  BY <1>1, <1>3 DEF CreateTask, RowStep, Created
<1>4. ASSUME NEW s \in Slots, run[s].todo # {}, RunRead(s) # 0, PayloadWritten(s) PROVE RowStep(t)
  BY <1>1, <1>4, RunReadIsTrue DEF PayloadWritten, RowStep, GivenRun
<1>5. ASSUME NEW s \in Slots, PollDagRun(s) PROVE RowStep(t)
  BY <1>2, <1>4, <1>5 DEF PollDagRun
<1>6. ASSUME NEW s \in Slots, SettleTask(s) PROVE RowStep(t)
  <2>1. run[s].todo # {} /\ RunRead(s) # 0
    BY <1>6 DEF SettleTask, RowsInv, RunInv
  <2>2. CASE /\ dagRuns[RunRead(s)].state = "failed"
             /\ task' = [task EXCEPT ![NextTask(s)].status = "FAILED"]
    <3>1. task[NextTask(s)].run # 0 \/ NextTask(s) \in refused
      BY <2>1, NextTaskIsTask DEF RowsInv, RunInv
    <3>2. QED
      BY <1>1, <2>1, <2>2, <3>1, RunReadIsTrue DEF RowStep, Fails
  <2>3. CASE /\ dagRuns[RunRead(s)].state = "success" /\ collection[NextTask(s)] = "indexed"
             /\ task' = [task EXCEPT ![NextTask(s)] = [status |-> "COMPLETED", run |-> RunRead(s)]]
    BY <1>1, <2>1, <2>3, RunReadIsTrue DEF RowStep, Completes
  <2>4. QED
    BY <1>2, <1>4, <1>6, <2>1, <2>2, <2>3 DEF SettleTask
<1>7. ASSUME NEW s \in Slots, UpdatePayload(s) PROVE RowStep(t)
  <2>1. /\ run[s].t \in Tasks /\ run[s].r \in Runs \union {0}
        /\ IF run[s].r # 0 THEN dagRuns[run[s].r].for = run[s].t ELSE run[s].t \in refused
    BY <1>7 DEF UpdatePayload, RowsInv, RunInv, TypeOK, JobRun
  <2>2. CASE task' = [task EXCEPT ![run[s].t].run = run[s].r]
    BY <1>1, <2>1, <2>2 DEF RowStep, GivenRun
  <2>3. QED
    BY <1>2, <1>7, <2>2 DEF UpdatePayload
<1>8. ASSUME NEW s \in Slots, UpdateStatus(s) PROVE RowStep(t)
  <2>1. /\ run[s].t \in Tasks /\ run[s].pc = "status"
        /\ task[run[s].t].run # 0 \/ run[s].t \in refused
    BY <1>8 DEF UpdateStatus, RowsInv, RunInv
  <2>2. CASE task' = [task EXCEPT ![run[s].t].status = "IN_PROGRESS"]
    BY <1>1, <2>1, <2>2 DEF RowStep, GoesInProgress
  <2>3. QED
    BY <1>2, <1>8, <2>2 DEF UpdateStatus
<1>9. QED
  BY <1>2, <1>3, <1>5, <1>6, <1>7, <1>8
     DEF Next, vars, Skye, AcquireLockNowait, ReleaseLock, GetInProgress, GetFirstPending,
         CheckIfPreviousDAGRunIsPending, UpdateStepParameters, TriggerDAG, Crash, CloseConnection, Airflow

\* No row that names a run forgets it for none, but that of a refused task.
LEMMA RowsStep ==
  ASSUME TypeOK, RowsInv, [Next]_vars
  PROVE  /\ RowsTrue(task)'
         /\ \A t \in Tasks : task[t].run # 0 => task'[t].run # 0 \/ t \in refused'
<1> SUFFICES ASSUME NEW t \in Tasks
             PROVE  /\ task'[t].run # 0 => dagRuns'[task'[t].run].for = t
                    /\ task'[t].status \notin {"none", "PENDING"} => task'[t].run # 0 \/ t \in refused'
                    /\ task[t].run # 0 => task'[t].run # 0 \/ t \in refused'
  BY DEF RowsTrue
<1>1. task[t] \in [status : Statuses, run : Runs \union {0}] /\ RowStep(t)
  BY TaskStep DEF TypeOK, Rows
<1>2. /\ task[t].run # 0 => dagRuns[task[t].run].for = t
      /\ task[t].status \notin {"none", "PENDING"} => task[t].run # 0 \/ t \in refused
  BY DEF RowsInv, RowsTrue
<1>3. refused \subseteq refused' /\ \A r \in Runs : dagRuns'[r].for = dagRuns[r].for
  BY RunsStep DEF RunsKept
<1>4. QED
  BY <1>1, <1>2, <1>3 DEF RowStep, Created, GivenRun, GoesInProgress, Fails, Completes

\* Rows that a run of the job keeps, drops or reads stay true of the DAG runs.
LEMMA RowsReadStep ==
  ASSUME TypeOK, RowsInv, [Next]_vars, NEW q \in Slots,
         \/ run'[q].rows = run[q].rows /\ run'[q].todo \subseteq run[q].todo
         \/ run'[q].rows = NoRows /\ run'[q].todo = {}
         \/ run'[q].rows = task /\ run'[q].todo = {t \in Tasks : task[t].status = "IN_PROGRESS"}
  PROVE  /\ RowsTrue(run[q].rows)'
         /\ \A t \in run'[q].todo : run'[q].rows[t].status = "IN_PROGRESS" /\ (task'[t].run # 0 \/ t \in refused')
<1>1. /\ refused \subseteq refused' /\ \A r \in Runs : dagRuns'[r].for = dagRuns[r].for
      /\ \A t \in Tasks : task[t].run # 0 => task'[t].run # 0 \/ t \in refused'
  BY RunsStep, RowsStep DEF RunsKept
<1>2. ASSUME NEW rows \in Rows, RowsTrue(rows) PROVE RowsTrue(rows)'
  BY <1>1, <1>2 DEF RowsTrue, Rows
<1>3. run[q].todo \subseteq Tasks /\ run[q].rows \in Rows /\ task \in Rows
  BY DEF TypeOK, JobRun
<1>4. CASE run'[q].rows = run[q].rows /\ run'[q].todo \subseteq run[q].todo
  BY <1>1, <1>2, <1>3, <1>4 DEF RowsInv, RunInv, RowsTrue
<1>5. CASE run'[q].rows = NoRows /\ run'[q].todo = {}
  BY <1>5 DEF RowsTrue, NoRows
<1>6. CASE run'[q].rows = task /\ run'[q].todo = {t \in Tasks : task[t].status = "IN_PROGRESS"}
  BY <1>1, <1>2, <1>3, <1>6 DEF RowsInv, RowsTrue
<1>7. QED
  BY <1>4, <1>5, <1>6

LEMMA RunStep ==
  ASSUME TypeOK, RowsInv, [Next]_vars, NEW q \in Slots
  PROVE  RunInv(q)'
<1>1. /\ refused \subseteq refused' /\ \A r \in Runs : dagRuns'[r].for = dagRuns[r].for
      /\ \A t \in Tasks : task[t].run # 0 => task'[t].run # 0 \/ t \in refused'
  BY RunsStep, RowsStep DEF RunsKept
<1>2. CASE run'[q] = run[q]
  <2>1. RowsTrue(run[q].rows)' /\ \A t \in run'[q].todo :
            run'[q].rows[t].status = "IN_PROGRESS" /\ (task'[t].run # 0 \/ t \in refused')
    BY <1>2, RowsReadStep
  <2>2. RunRead(q)' = RunRead(q)
    BY <1>2 DEF RunRead, NextTask
  <2>3. run[q].r \in Runs \union {0}
    BY DEF TypeOK, JobRun
  <2>4. QED
    BY <1>1, <1>2, <2>1, <2>2, <2>3 DEF RowsInv, RunInv
<1>3. CASE run'[q] \in {Idle, [Idle EXCEPT !.pc = "list"], [Idle EXCEPT !.pc = "release"]}
  BY <1>3, RowsReadStep DEF RunInv, Idle
<1>4. ASSUME NEW s \in Slots, NEW next, To(s, next), q # s \/ next = run[s] PROVE run'[q] = run[q]
  BY <1>4 DEF To, TypeOK
<1>5. ASSUME NEW next, To(q, next) PROVE run'[q] = next
  BY <1>5 DEF To, TypeOK
<1>6. ASSUME NEW s \in Slots, Ends(s) PROVE RunInv(q)'
  BY <1>2, <1>3, <1>4, <1>5, <1>6 DEF Ends
<1>7. ASSUME NEW s \in Slots, Done(s) PROVE RunInv(q)'
  <2>1. CASE q = s
    <3>1. run'[q] = [run[q] EXCEPT !.pc = "poll", !.todo = @ \ {NextTask(q)}]
      BY <1>5, <1>7, <2>1 DEF Done
    <3>2. run'[q].rows = run[q].rows /\ run'[q].todo \subseteq run[q].todo /\ run'[q].pc = "poll"
      BY <3>1 DEF TypeOK, JobRun
    <3>3. QED
      BY <3>2, RowsReadStep DEF RunInv
  <2>2. QED
    BY <1>2, <1>4, <1>7, <2>1 DEF Done
<1>8. ASSUME NEW p \in {"pending", "settle", "prism", "trigger", "payload", "status"},
             NEW r, To(q, [run[q] EXCEPT !.pc = p, !.r = r]),
             IF p = "settle" THEN run[q].todo # {} /\ RunRead(q) # 0 ELSE run[q].todo = {},
             p \in {"prism", "trigger", "payload", "status"} => run[q].t \in Tasks,
             p = "payload" => IF r # 0 THEN dagRuns'[r].for = run[q].t ELSE run[q].t \in refused',
             p = "status" => task'[run[q].t].run # 0 \/ run[q].t \in refused'
      PROVE  RunInv(q)'
  <2>1. /\ run'[q].rows = run[q].rows /\ run'[q].todo = run[q].todo /\ run'[q].t = run[q].t
        /\ run'[q].pc = p /\ run'[q].r = r
    BY <1>5, <1>8 DEF TypeOK, JobRun
  <2>2. p = "settle" => RunRead(q)' # 0
    BY <1>8, <2>1 DEF RunRead, NextTask
  <2>3. QED
    BY <1>8, <2>1, <2>2, RowsReadStep DEF RunInv
<1>9. ASSUME NEW p, To(q, [run[q] EXCEPT !.pc = p])
      PROVE  To(q, [run[q] EXCEPT !.pc = p, !.r = run[q].r])
  BY <1>9 DEF To, TypeOK, JobRun
<1>10. ASSUME NEW s \in Slots, AcquireLockNowait(s) \/ ReleaseLock(s) PROVE RunInv(q)'
  BY <1>2, <1>3, <1>4, <1>5, <1>10 DEF AcquireLockNowait, ReleaseLock
<1>11. ASSUME GetInProgress(q) PROVE RunInv(q)'
  <2>0. run[q].todo = {}
    BY <1>11 DEF GetInProgress, RowsInv, RunInv
  <2>1. CASE To(q, [run[q] EXCEPT !.pc = "pending"])
    BY <1>8, <1>9, <2>0, <2>1
  <2>2. CASE To(q, [run[q] EXCEPT !.pc = "poll", !.todo = {t \in Tasks : task[t].status = "IN_PROGRESS"},
                                  !.rows = task])
    <3>1. /\ run'[q].rows = task /\ run'[q].todo = {t \in Tasks : task[t].status = "IN_PROGRESS"}
          /\ run'[q].pc = "poll"
      BY <1>5, <2>2, ZenonT(30) DEF TypeOK, JobRun
    <3>2. QED
      BY <3>1, RowsReadStep DEF RunInv
  <2>3. QED
    BY <1>11, <2>1, <2>2 DEF GetInProgress
<1>12. ASSUME PollDagRun(q) PROVE RunInv(q)'
  BY <1>7, <1>8, <1>9, <1>12 DEF PollDagRun
<1>13. ASSUME GetFirstPending(q) PROVE RunInv(q)'
  <2>1. CASE Pending # {} /\ To(q, [Idle EXCEPT !.pc = "previous", !.t = Min(Pending)])
    <3>1. /\ run'[q].rows = NoRows /\ run'[q].todo = {} /\ run'[q].pc = "previous"
          /\ run'[q].t \in Tasks
      BY <1>5, <2>1, FirstPendingIsPending DEF Idle
    <3>2. QED
      BY <3>1, RowsReadStep DEF RunInv
  <2>2. QED
    BY <1>6, <1>13, <2>1 DEF GetFirstPending
<1>14. ASSUME CheckIfPreviousDAGRunIsPending(q) \/ UpdateStepParameters(q) PROVE RunInv(q)'
  <2>1. run[q].t \in Tasks /\ run[q].todo = {}
    BY <1>14 DEF CheckIfPreviousDAGRunIsPending, UpdateStepParameters, RowsInv, RunInv
  <2>2. QED
    BY <1>6, <1>8, <1>9, <1>14, <2>1 DEF CheckIfPreviousDAGRunIsPending, UpdateStepParameters
<1>15. ASSUME TriggerDAG(q) PROVE RunInv(q)'
  <2>1. run[q].t \in Tasks /\ run[q].todo = {}
    BY <1>15 DEF TriggerDAG, RowsInv, RunInv
  <2>2. CASE Triggered(q) /\ To(q, [run[q] EXCEPT !.pc = "payload", !.r = Len(dagRuns) + 1])
    <3>1. /\ Len(dagRuns) \in Nat
          /\ dagRuns'[Len(dagRuns) + 1] =
                IF mode = "airflow" THEN [for |-> run[q].t, ingests |-> 0, state |-> "queued"]
                ELSE [for |-> run[q].t, ingests |-> run[q].t, state |-> "success"]
      BY <2>1, <2>2, TriggerAppends, Zenon
    <3>2. Len(dagRuns) + 1 # 0 /\ dagRuns'[Len(dagRuns) + 1].for = run[q].t
      BY <3>1
    <3>3. QED
      BY <1>8, <2>1, <2>2, <3>2
  <2>3. CASE To(q, [run[q] EXCEPT !.pc = "payload", !.r = 0]) /\ run[q].t \in refused'
    BY <1>8, <2>1, <2>3
  <2>4. QED
    BY <1>6, <1>15, <2>2, <2>3 DEF TriggerDAG
<1>16. ASSUME UpdatePayload(q) PROVE RunInv(q)'
  <2>1. /\ run[q].t \in Tasks /\ run[q].todo = {}
        /\ run[q].r # 0 \/ run[q].t \in refused
    BY <1>16 DEF UpdatePayload, RowsInv, RunInv
  <2>2. CASE task' = [task EXCEPT ![run[q].t].run = run[q].r] /\ To(q, [run[q] EXCEPT !.pc = "status"])
    <3>1. task'[run[q].t].run # 0 \/ run[q].t \in refused'
      BY <1>1, <2>1, <2>2 DEF TypeOK, Rows
    <3>2. QED
      BY <1>8, <1>9, <2>1, <2>2, <3>1
  <2>3. QED
    BY <1>6, <1>16, <2>2 DEF UpdatePayload
<1>17. ASSUME NEW p \in Pods, Crash(p) PROVE RunInv(q)'
  BY <1>2, <1>3, <1>17 DEF Crash
<1>18. ASSUME NEW s \in Slots, SettleTask(s) \/ UpdateStatus(s) PROVE RunInv(q)'
  BY <1>6, <1>7, <1>18 DEF SettleTask, UpdateStatus
<1>19. ASSUME NEW s \in Slots, q # s, 
              \/ GetInProgress(s) \/ PollDagRun(s) \/ GetFirstPending(s)
              \/ CheckIfPreviousDAGRunIsPending(s) \/ UpdateStepParameters(s)
              \/ TriggerDAG(s) \/ UpdatePayload(s)
       PROVE  RunInv(q)'
  BY <1>2, <1>4, <1>19
     DEF GetInProgress, PollDagRun, GetFirstPending, CheckIfPreviousDAGRunIsPending,
         UpdateStepParameters, TriggerDAG, UpdatePayload, Ends, Done
<1>20. QED
  BY <1>2, <1>10, <1>11, <1>12, <1>13, <1>14, <1>15, <1>16, <1>17, <1>18, <1>19
     DEF Next, vars, CreateTask, Skye, Airflow, CloseConnection

-----------------------------------------------------------------------------
(* Outcomes.                                                                *)

LEMMA OutcomeStep ==
  ASSUME TypeOK, RowsInv, OutcomeIsTrue, [Next]_vars
  PROVE  OutcomeIsTrue'
<1> SUFFICES ASSUME NEW t \in Tasks
             PROVE  /\ task'[t].status = "COMPLETED" =>
                          /\ \E r \in Runs' : dagRuns'[r].for = t /\ dagRuns'[r].state = "success"
                          /\ collection'[t] = "indexed"
                    /\ task'[t].status = "FAILED" =>
                          \E r \in Runs' : dagRuns'[r].for = t /\ dagRuns'[r].state = "failed"
  BY DEF OutcomeIsTrue
<1>1. collection[t] = "indexed" => collection'[t] = "indexed"
  BY DEF TypeOK, Next, vars, CreateTask, Skye, AcquireLockNowait, ReleaseLock, GetInProgress,
         PollDagRun, SettleTask, GetFirstPending, CheckIfPreviousDAGRunIsPending, UpdateStepParameters,
         TriggerDAG, UpdatePayload, UpdateStatus, Crash, CloseConnection, Airflow, outside
<1>2. ASSUME NEW r \in Runs, dagRuns[r].state \in {"success", "failed"}
      PROVE  r \in Runs' /\ dagRuns'[r] = dagRuns[r]
  BY <1>2, RunsStep DEF RunsKept
<1>3. RowStep(t) /\ task[t] \in [status : Statuses, run : Runs \union {0}]
  BY TaskStep DEF TypeOK, Rows
<1>4. CASE task'[t].status = task[t].status
  BY <1>1, <1>2, <1>4 DEF OutcomeIsTrue
<1>5. CASE Created(t) \/ GoesInProgress(t)
  BY <1>3, <1>5 DEF Created, GoesInProgress
<1>6. CASE Fails(t)
  BY <1>2, <1>3, <1>6 DEF Fails
<1>7. CASE Completes(t)
  BY <1>1, <1>2, <1>7 DEF Completes
<1>8. QED
  BY <1>3, <1>4, <1>5, <1>6, <1>7 DEF RowStep, GivenRun

-----------------------------------------------------------------------------
(* One run of the job at work.                                              *)

\* Whether runs overlapped is never forgotten, and only a run of the job that
\* takes the lock joins those at work.
LEMMA ActiveStep ==
  ASSUME TypeOK, [Next]_vars
  PROVE  \/ Active' \subseteq Active /\ overlapped' = overlapped
         \/ \E s \in Slots : Active' \subseteq Active \union {s} /\ overlapped' = (overlapped \/ Active # {})
<1>1. ASSUME NEW s \in Slots, NEW next, run[s].pc # "idle", To(s, next) PROVE Active' \subseteq Active
  BY <1>1 DEF To, Active, TypeOK
<1>2. ASSUME NEW s \in Slots, NEW next, To(s, next) PROVE Active' \subseteq Active \union {s}
  BY <1>2 DEF To, Active, TypeOK
<1>3. ASSUME NEW s \in Slots, run[s].pc # "idle", Ends(s) \/ Done(s) PROVE Active' \subseteq Active
  BY <1>1, <1>3 DEF Ends, Done
<1>4. ASSUME NEW s \in Slots, AcquireLockNowait(s)
      PROVE  Active' \subseteq Active \union {s} /\ overlapped' = (overlapped \/ Active # {})
  BY <1>2, <1>4 DEF AcquireLockNowait
<1>5. ASSUME NEW s \in Slots, ReleaseLock(s) \/ GetInProgress(s) \/ PollDagRun(s) \/ SettleTask(s)
      PROVE  Active' \subseteq Active /\ overlapped' = overlapped
  BY <1>1, <1>3, <1>5 DEF ReleaseLock, GetInProgress, PollDagRun, SettleTask, control
<1>6. ASSUME NEW s \in Slots, GetFirstPending(s) \/ CheckIfPreviousDAGRunIsPending(s)
      PROVE  Active' \subseteq Active /\ overlapped' = overlapped
  BY <1>1, <1>3, <1>6 DEF GetFirstPending, CheckIfPreviousDAGRunIsPending, control
<1>7. ASSUME NEW s \in Slots, UpdateStepParameters(s) \/ TriggerDAG(s) \/ UpdatePayload(s) \/ UpdateStatus(s)
      PROVE  Active' \subseteq Active /\ overlapped' = overlapped
  BY <1>1, <1>3, <1>7 DEF UpdateStepParameters, TriggerDAG, UpdatePayload, UpdateStatus, control
<1>8. ASSUME NEW p \in Pods, Crash(p) PROVE Active' \subseteq Active /\ overlapped' = overlapped
  BY <1>8 DEF Crash, Active, Idle
<1>9. CASE UNCHANGED <<run, overlapped>>
  BY <1>9 DEF Active
<1>10. QED
  BY <1>4, <1>5, <1>6, <1>7, <1>8, <1>9
     DEF Next, vars, control, CreateTask, Skye, Airflow, CloseConnection

LEMMA OneAtWorkStep ==
  ASSUME TypeOK, OneAtWork, [Next]_vars
  PROVE  OneAtWork'
BY ActiveStep DEF OneAtWork

\* Until two runs overlap, the others are idle while one of them takes a step.
LEMMA OthersIdle ==
  ASSUME OneAtWork, ~ overlapped, NEW s \in Slots, run[s].pc # "idle", NEW q \in Slots, q # s
  PROVE  run[q].pc = "idle"
BY DEF OneAtWork, Active

-----------------------------------------------------------------------------
(* The parameters of the Prism step.                                        *)

\* A step that neither touches Airflow's runs nor the Prism step, and brings no
\* run of the job nearer to its trigger.
LEMMA PrismFrame ==
  ASSUME TypeOK, PrismInv, ~ overlapped, UNCHANGED <<mode, prism, dagRuns>>,
         \A q \in Slots : run'[q].pc \in {"prism", "trigger"} => run'[q] = run[q]
  PROVE  PrismInv'
BY DEF PrismInv, NoRunPending, RunIngestsItsTask, Runs

LEMMA PrismStep ==
  ASSUME TypeOK, RowsInv, OneAtWork, PrismInv, [Next]_vars
  PROVE  PrismInv'
<1> SUFFICES ASSUME ~ overlapped', Len(dagRuns') <= PageSize PROVE PrismInv'
  BY DEF PrismInv
<1>1. ~ overlapped /\ Len(dagRuns) <= PageSize
  <2>1. Len(dagRuns) \in Nat /\ Len(dagRuns') \in Nat /\ Len(dagRuns) <= Len(dagRuns') /\ PageSize \in Nat
    BY RunsStep, JobsAssumption DEF RunsKept
  <2>2. ~ overlapped
    BY ActiveStep
  <2>3. QED
    BY <2>1, <2>2
<1>2. ASSUME NEW s \in Slots, NEW next, To(s, next)
      PROVE  run'[s] = next /\ \A q \in Slots \ {s} : run'[q] = run[q]
  BY <1>2 DEF To, TypeOK
<1>3. ASSUME NEW s \in Slots, Ends(s) \/ Done(s)
      PROVE  run'[s].pc \in {"release", "poll"} /\ \A q \in Slots \ {s} : run'[q] = run[q]
  <2>1. /\ [Idle EXCEPT !.pc = "release"].pc = "release"
        /\ [run[s] EXCEPT !.pc = "poll", !.todo = @ \ {NextTask(s)}].pc = "poll"
    BY DEF TypeOK, JobRun, Idle
  <2>2. CASE Ends(s)
    BY <1>2, <2>1, <2>2 DEF Ends
  <2>3. CASE Done(s)
    BY <1>2, <2>1, <2>3 DEF Done
  <2>4. QED
    BY <1>3, <2>2, <2>3
<1>4. ASSUME NEW s \in Slots, AcquireLockNowait(s) \/ ReleaseLock(s) PROVE PrismInv'
  BY <1>1, <1>2, <1>4, PrismFrame DEF AcquireLockNowait, ReleaseLock, outside, Idle
<1>5. ASSUME NEW s \in Slots, GetInProgress(s) \/ PollDagRun(s) \/ SettleTask(s) PROVE PrismInv'
  <2>1. /\ [run[s] EXCEPT !.pc = "pending"].pc = "pending" /\ [run[s] EXCEPT !.pc = "settle"].pc = "settle"
        /\ [run[s] EXCEPT !.pc = "poll", !.todo = {t \in Tasks : task[t].status = "IN_PROGRESS"},
                         !.rows = task].pc = "poll"
    BY DEF TypeOK, JobRun
  <2>2. UNCHANGED <<mode, prism, dagRuns>>
    BY <1>5 DEF GetInProgress, PollDagRun, SettleTask, outside
  <2>3. \A q \in Slots : run'[q].pc \in {"prism", "trigger"} => run'[q] = run[q]
    <3>1. CASE Done(s)
      BY <1>3, <3>1
    <3>2. ASSUME NEW next, To(s, next), next.pc \notin {"prism", "trigger"}
          PROVE  \A q \in Slots : run'[q].pc \in {"prism", "trigger"} => run'[q] = run[q]
      BY <1>2, <3>2
    <3>3. QED
      BY <1>5, <2>1, <3>1, <3>2 DEF GetInProgress, PollDagRun, SettleTask
  <2>4. QED
    BY <1>1, <2>2, <2>3, PrismFrame
<1>6. ASSUME NEW s \in Slots, GetFirstPending(s) PROVE PrismInv'
  <2>1. [Idle EXCEPT !.pc = "previous", !.t = Min(Pending)].pc = "previous"
    BY DEF Idle
  <2>2. \A q \in Slots : run'[q].pc \in {"prism", "trigger"} => run'[q] = run[q]
    BY <1>2, <1>3, <1>6, <2>1 DEF GetFirstPending
  <2>3. QED
    BY <1>1, <1>6, <2>2, PrismFrame DEF GetFirstPending, outside
<1>7. ASSUME NEW s \in Slots, CheckIfPreviousDAGRunIsPending(s) PROVE PrismInv'
  <2>1. CASE Ends(s)
    BY <1>1, <1>3, <1>7, <2>1, PrismFrame DEF CheckIfPreviousDAGRunIsPending, outside
  <2>2. CASE mode = "skye-trigger" /\ To(s, [run[s] EXCEPT !.pc = "trigger"])
    <3>1. run'[s].pc = "trigger" /\ \A q \in Slots \ {s} : run'[q] = run[q]
      BY <1>2, <2>2 DEF TypeOK, JobRun
    <3>2. UNCHANGED <<mode, prism, dagRuns>>
      BY <1>7 DEF CheckIfPreviousDAGRunIsPending, outside
    <3>3. QED
      BY <1>1, <2>2, <3>1, <3>2 DEF PrismInv, NoRunPending, RunIngestsItsTask, Runs
  <2>3. CASE mode = "airflow" /\ NoRunPending(Runs) /\ To(s, [run[s] EXCEPT !.pc = "prism"])
    <3>1. run'[s].pc = "prism" /\ \A q \in Slots \ {s} : run'[q] = run[q]
      BY <1>2, <2>3 DEF TypeOK, JobRun
    <3>2. UNCHANGED <<mode, prism, dagRuns>>
      BY <1>7 DEF CheckIfPreviousDAGRunIsPending, outside
    <3>3. QED
      BY <1>1, <2>3, <3>1, <3>2 DEF PrismInv, NoRunPending, RunIngestsItsTask, Runs
  <2>4. Pages = {Runs}
    BY <1>1 DEF Pages
  <2>5. QED
    BY <1>7, <2>1, <2>2, <2>3, <2>4 DEF CheckIfPreviousDAGRunIsPending
<1>8. ASSUME NEW s \in Slots, UpdateStepParameters(s) PROVE PrismInv'
  <2>1. NoRunPending(Runs) /\ UNCHANGED <<mode, dagRuns>> /\ \A q \in Slots \ {s} : run[q].pc = "idle"
    BY <1>1, <1>8, OthersIdle DEF UpdateStepParameters, PrismInv, outside
  <2>2. /\ \A q \in Slots \ {s} : run'[q] = run[q]
        /\ run'[s].pc \in {"release", "poll"} \/ (run'[s].pc = "trigger" /\ prism' = run'[s].t)
    <3>1. CASE Ends(s)
      BY <1>3, <3>1
    <3>2. CASE prism' = run[s].t /\ To(s, [run[s] EXCEPT !.pc = "trigger"])
      BY <1>2, <3>2 DEF TypeOK, JobRun
    <3>3. QED
      BY <1>8, <3>1, <3>2 DEF UpdateStepParameters
  <2>3. QED
    BY <1>1, <2>1, <2>2 DEF PrismInv, NoRunPending, RunIngestsItsTask, Runs
<1>9. ASSUME NEW s \in Slots, TriggerDAG(s) PROVE PrismInv'
  <2>1. /\ \A q \in Slots : run'[q].pc \in {"idle", "payload", "release", "poll"}
        /\ UNCHANGED <<mode, prism>>
    <3>1. \A q \in Slots \ {s} : run[q].pc = "idle"
      BY <1>1, <1>9, OthersIdle DEF TriggerDAG
    <3>2. [run[s] EXCEPT !.pc = "payload", !.r = Len(dagRuns) + 1].pc = "payload"
      BY DEF TypeOK, JobRun
    <3>3. CASE To(s, [run[s] EXCEPT !.pc = "payload", !.r = Len(dagRuns) + 1])
      BY <1>2, <1>9, <3>1, <3>2, <3>3, ZenonT(30) DEF TriggerDAG
    <3>4. CASE To(s, [run[s] EXCEPT !.pc = "payload", !.r = 0])
      <4>1. [run[s] EXCEPT !.pc = "payload", !.r = 0].pc = "payload"
        BY DEF TypeOK, JobRun
      <4>2. QED
        BY <1>2, <1>9, <3>1, <3>4, <4>1, ZenonT(30) DEF TriggerDAG
    <3>5. QED
      BY <1>3, <1>9, <3>1, <3>3, <3>4 DEF TriggerDAG
  <2>2. CASE UNCHANGED dagRuns
    BY <1>1, <2>1, <2>2, PrismFrame
  <2>3. CASE Triggered(s)
    <3>1. run[s].t \in Tasks /\ (mode = "airflow" => NoRunPending(Runs) /\ prism = run[s].t)
      BY <1>1, <1>9 DEF TriggerDAG, RowsInv, RunInv, PrismInv
    <3>2. /\ Runs' = Runs \union {Len(dagRuns) + 1} /\ \A r \in Runs : dagRuns'[r] = dagRuns[r]
          /\ dagRuns'[Len(dagRuns) + 1] =
               IF mode = "airflow" THEN [for |-> run[s].t, ingests |-> 0, state |-> "queued"]
               ELSE [for |-> run[s].t, ingests |-> run[s].t, state |-> "success"]
      BY <2>3, <3>1, TriggerAppends, Zenon
    <3>3. \A r \in Runs' : /\ dagRuns'[r].state = "queued" => prism = dagRuns'[r].for /\ dagRuns'[r].ingests = 0
                           /\ dagRuns'[r].ingests \in {0, dagRuns'[r].for}
      BY <1>1, <3>1, <3>2 DEF PrismInv, RunIngestsItsTask
    <3>4. QED
      BY <2>1, <3>3 DEF PrismInv, RunIngestsItsTask
  <2>4. QED
    BY <1>9, <2>2, <2>3 DEF TriggerDAG
<1>10. ASSUME NEW s \in Slots, UpdatePayload(s) \/ UpdateStatus(s) PROVE PrismInv'
  <2>1. [run[s] EXCEPT !.pc = "status"].pc = "status"
    BY DEF TypeOK, JobRun
  <2>2. QED
    BY <1>1, <1>2, <1>3, <1>10, <2>1, PrismFrame DEF UpdatePayload, UpdateStatus, outside
<1>11. ASSUME NEW p \in Pods, Crash(p) PROVE PrismInv'
  BY <1>1, <1>11, PrismFrame DEF Crash, outside, Idle
<1>12. ASSUME NEW r \in Runs, Airflow(r) PROVE PrismInv'
  <2>1. UNCHANGED <<mode, prism, run>> /\ ~ NoRunPending(Runs)
    BY <1>12, AirflowMovesOn DEF Airflow, NoRunPending, Runs
  <2>2. \A q \in Slots : run[q].pc # "prism" /\ ~ (run[q].pc = "trigger" /\ mode = "airflow")
    BY <1>1, <2>1 DEF PrismInv
  <2>3. \A q \in Runs' : /\ dagRuns'[q].state = "queued" => prism = dagRuns'[q].for /\ dagRuns'[q].ingests = 0
                         /\ dagRuns'[q].ingests \in {0, dagRuns'[q].for}
    BY <1>1, <1>12, AirflowMovesOn DEF PrismInv, RunIngestsItsTask
  <2>4. QED
    BY <2>1, <2>2, <2>3 DEF PrismInv, RunIngestsItsTask
<1>13. CASE UNCHANGED <<mode, prism, dagRuns, run>>
  BY <1>1, <1>13, PrismFrame
<1>14. QED
  BY <1>4, <1>5, <1>6, <1>7, <1>8, <1>9, <1>10, <1>11, <1>12, <1>13
     DEF Next, vars, CreateTask, Skye, CloseConnection, outside, Runs

-----------------------------------------------------------------------------
(* Triggered once.                                                          *)

Starting == {"previous", "prism", "trigger", "payload", "status"}

\* A step that triggers nothing: a run of the job moves on with a task that is
\* pending, and only a fault keeps it from writing down what it triggered.
LEMMA OnceFrame ==
  ASSUME TypeOK, RowsInv, OnceInv, ~ overlapped, [Next]_vars,
         Runs' = Runs, \A r \in Runs : dagRuns'[r].for = dagRuns[r].for, hit \subseteq hit',
         \A q \in Slots : run'[q].pc \in Starting => task'[run'[q].t].status = "PENDING",
         \A q \in Slots : run[q].pc \in {"payload", "status"} =>
            \/ run'[q].pc \in {"payload", "status"} /\ run'[q].t = run[q].t
            \/ run[q].t \in hit'
            \/ task'[run[q].t].status = "IN_PROGRESS"
  PROVE  OnceInv'
<1>1. ASSUME NEW r \in Runs
      PROVE  dagRuns[r].for \in Tasks /\ dagRuns[r].for = dagRuns'[r].for
  <2>1. dagRuns[r] \in DagRun
    BY ElementOfSeq, LenProperties DEF TypeOK, Runs
  <2>2. QED
    BY <2>1 DEF DagRun
<1>2. ASSUME NEW t \in Tasks
      PROVE  /\ task[t].status # "none" => task'[t].status # "none"
             /\ task[t].status \notin {"none", "PENDING"} => task'[t].status \notin {"none", "PENDING"}
  <2>1. RowStep(t) /\ task[t] \in [status : Statuses, run : Runs \union {0}]
    BY TaskStep DEF TypeOK, Rows
  <2>2. QED
    BY <2>1 DEF RowStep, Created, GivenRun, GoesInProgress, Fails, Completes
<1>3. ASSUME NEW r \in Runs PROVE task'[dagRuns[r].for].status # "none"
  <2>1. task[dagRuns[r].for].status # "none"
    BY DEF OnceInv
  <2>2. QED
    BY <1>1, <1>2, <2>1
<1>4. ASSUME NEW r \in Runs
      PROVE  \/ dagRuns[r].for \in hit'
             \/ task'[dagRuns[r].for].status # "PENDING"
             \/ \E s \in Slots : run'[s].pc \in {"payload", "status"} /\ run'[s].t = dagRuns[r].for
  <2>1. CASE dagRuns[r].for \in hit \/ task[dagRuns[r].for].status # "PENDING"
    BY <1>1, <1>2, <2>1 DEF OnceInv
  <2>2. ASSUME NEW s \in Slots, run[s].pc \in {"payload", "status"}, run[s].t = dagRuns[r].for
        PROVE  \/ dagRuns[r].for \in hit'
               \/ task'[dagRuns[r].for].status # "PENDING"
               \/ \E q \in Slots : run'[q].pc \in {"payload", "status"} /\ run'[q].t = dagRuns[r].for
    BY <2>2
  <2>3. QED
    BY <2>1, <2>2 DEF OnceInv
<1>5. \A q, r \in Runs : dagRuns[q].for = dagRuns[r].for /\ dagRuns[r].for \notin hit' => q = r
  BY DEF OnceInv
<1>6. QED
  BY <1>1, <1>3, <1>4, <1>5 DEF OnceInv, Starting

LEMMA OnceStep ==
  ASSUME TypeOK, RowsInv, OneAtWork, OnceInv, [Next]_vars
  PROVE  OnceInv'
<1> SUFFICES ASSUME ~ overlapped' PROVE OnceInv'
  BY DEF OnceInv
<1>1. ~ overlapped
  BY ActiveStep
<1>2. ASSUME NEW s \in Slots, NEW next, To(s, next)
      PROVE  run'[s] = next /\ \A q \in Slots \ {s} : run'[q] = run[q]
  BY <1>2 DEF To, TypeOK
<1>3. ASSUME NEW s \in Slots, Ends(s) \/ Done(s)
      PROVE  run'[s].pc \in {"release", "poll"} /\ \A q \in Slots \ {s} : run'[q] = run[q]
  <2>1. /\ [Idle EXCEPT !.pc = "release"].pc = "release"
        /\ [run[s] EXCEPT !.pc = "poll", !.todo = @ \ {NextTask(s)}].pc = "poll"
    BY DEF TypeOK, JobRun, Idle
  <2>2. CASE Ends(s)
    BY <1>2, <2>1, <2>2 DEF Ends
  <2>3. CASE Done(s)
    BY <1>2, <2>1, <2>3 DEF Done
  <2>4. QED
    BY <1>3, <2>2, <2>3
<1>4. \A q \in Slots : run[q].pc \in Starting => run[q].t \in Tasks /\ task[run[q].t].status = "PENDING"
  BY <1>1 DEF OnceInv, RowsInv, RunInv, Starting
<1>5. ASSUME NEW s \in Slots, run[s].pc \notin Starting \union {"idle"}, UNCHANGED <<dagRuns, hit>>,
             \A q \in Slots \ {s} : run'[q] = run[q],
             run'[s].pc \notin Starting \/ task'[run'[s].t].status = "PENDING"
      PROVE  OnceInv'
  <2>1. \A q \in Slots \ {s} : run[q].pc = "idle"
    BY <1>1, <1>5, OthersIdle
  <2>2. QED
    BY <1>1, <1>5, <2>1, OnceFrame DEF Starting, Runs
<1>6. ASSUME NEW t \in Tasks, CreateTask(t) PROVE OnceInv'
  <2>1. UNCHANGED <<run, dagRuns, hit>> /\ \A u \in Tasks : task[u].status = "PENDING" => task'[u].status = "PENDING"
    BY <1>6 DEF CreateTask, outside, TypeOK, Rows, history
  <2>2. QED
    BY <1>1, <1>4, <2>1, OnceFrame DEF Runs
<1>7. ASSUME NEW s \in Slots, AcquireLockNowait(s) PROVE OnceInv'
  <2>1. UNCHANGED <<dagRuns, hit, task>> /\ run[s].pc = "idle" /\ run'[s].pc = "list" /\ \A q \in Slots \ {s} : run'[q] = run[q]
    BY <1>2, <1>7 DEF AcquireLockNowait, outside, Idle, history
  <2>2. QED
    BY <1>1, <1>4, <2>1, OnceFrame DEF Runs, Starting
<1>8. ASSUME NEW s \in Slots, ReleaseLock(s) PROVE OnceInv'
  BY <1>2, <1>5, <1>8 DEF ReleaseLock, outside, history, Starting, Idle
<1>9. ASSUME NEW s \in Slots, GetInProgress(s) \/ PollDagRun(s) \/ SettleTask(s) PROVE OnceInv'
  <2>1. /\ [run[s] EXCEPT !.pc = "pending"].pc = "pending" /\ [run[s] EXCEPT !.pc = "settle"].pc = "settle"
        /\ [run[s] EXCEPT !.pc = "poll", !.todo = {t \in Tasks : task[t].status = "IN_PROGRESS"},
                         !.rows = task].pc = "poll"
    BY DEF TypeOK, JobRun
  <2>2. UNCHANGED <<dagRuns, hit>> /\ run[s].pc \notin Starting \union {"idle"}
    BY <1>9 DEF GetInProgress, PollDagRun, SettleTask, outside, Starting, history
  <2>3. (\A q \in Slots \ {s} : run'[q] = run[q]) /\ run'[s].pc \notin Starting
    <3>1. CASE Done(s)
      BY <1>3, <3>1 DEF Starting
    <3>2. ASSUME NEW next, To(s, next), next.pc \notin Starting
          PROVE  (\A q \in Slots \ {s} : run'[q] = run[q]) /\ run'[s].pc \notin Starting
      BY <1>2, <3>2
    <3>3. "pending" \notin Starting /\ "settle" \notin Starting /\ "poll" \notin Starting
      BY DEF Starting
    <3>4. QED
      BY <1>9, <2>1, <3>1, <3>2, <3>3 DEF GetInProgress, PollDagRun, SettleTask
  <2>4. QED
    BY <1>5, <2>2, <2>3
<1>10. ASSUME NEW s \in Slots, GetFirstPending(s) PROVE OnceInv'
  <2>1. UNCHANGED <<dagRuns, hit, task>> /\ run[s].pc \notin Starting \union {"idle"}
    BY <1>10 DEF GetFirstPending, outside, Starting, history
  <2>2. CASE Ends(s)
    BY <1>3, <1>5, <2>1, <2>2 DEF Starting
  <2>3. CASE Pending # {} /\ To(s, [Idle EXCEPT !.pc = "previous", !.t = Min(Pending)])
    <3>1. [Idle EXCEPT !.pc = "previous", !.t = Min(Pending)].t = Min(Pending)
      BY DEF Idle
    <3>2. task'[run'[s].t].status = "PENDING" /\ \A q \in Slots \ {s} : run'[q] = run[q]
      BY <1>2, <2>1, <2>3, <3>1, FirstPendingIsPending
    <3>3. QED
      BY <1>5, <2>1, <3>2
  <2>4. QED
    BY <1>10, <2>2, <2>3 DEF GetFirstPending
<1>11. ASSUME NEW s \in Slots, CheckIfPreviousDAGRunIsPending(s) \/ UpdateStepParameters(s) PROVE OnceInv'
  <2>1. UNCHANGED <<dagRuns, hit, task>> /\ run[s].pc \in {"previous", "prism"}
    BY <1>11 DEF CheckIfPreviousDAGRunIsPending, UpdateStepParameters, outside, history
  <2>2. /\ \A q \in Slots \ {s} : run'[q] = run[q]
        /\ run'[s].pc \in {"release", "poll"} \/ run'[s].t = run[s].t
    <3>1. CASE Ends(s)
      BY <1>3, <3>1
    <3>2. ASSUME NEW p, To(s, [run[s] EXCEPT !.pc = p])
          PROVE  run'[s].t = run[s].t /\ \A q \in Slots \ {s} : run'[q] = run[q]
      BY <1>2, <3>2 DEF TypeOK, JobRun
    <3>3. QED
      BY <1>11, <3>1, <3>2 DEF CheckIfPreviousDAGRunIsPending, UpdateStepParameters
  <2>3. \A q \in Slots : run'[q].pc \in Starting => task'[run'[q].t].status = "PENDING"
    BY <1>4, <2>1, <2>2 DEF Starting
  <2>4. QED
    BY <1>1, <2>1, <2>2, <2>3, OnceFrame DEF Runs, Starting
<1>12. ASSUME NEW s \in Slots, TriggerDAG(s) PROVE OnceInv'
  <2>1. /\ run[s].pc = "trigger" /\ run[s].t \in Tasks /\ task[run[s].t].status = "PENDING" /\ UNCHANGED task
        /\ \A q \in Slots \ {s} : run[q].pc = "idle"
    BY <1>1, <1>4, <1>12, OthersIdle DEF TriggerDAG, Starting
  <2>2. \/ Ends(s) /\ hit' = hit \union {run[s].t}
        \/ /\ \E n : To(s, [run[s] EXCEPT !.pc = "payload", !.r = n])
           /\ hit' = hit
    BY <1>12 DEF TriggerDAG, history
  <2>3. /\ \A q \in Slots \ {s} : run'[q] = run[q]
        /\ \/ run'[s].pc \in {"release", "poll"} /\ hit' = hit \union {run[s].t}
           \/ run'[s].pc = "payload" /\ run'[s].t = run[s].t /\ hit' = hit
    <3>1. CASE Ends(s) /\ hit' = hit \union {run[s].t}
      BY <1>3, <3>1
    <3>2. ASSUME NEW n, To(s, [run[s] EXCEPT !.pc = "payload", !.r = n]), hit' = hit
          PROVE  /\ \A q \in Slots \ {s} : run'[q] = run[q]
                 /\ run'[s].pc = "payload" /\ run'[s].t = run[s].t
      <4>1. /\ [run[s] EXCEPT !.pc = "payload", !.r = n].pc = "payload"
            /\ [run[s] EXCEPT !.pc = "payload", !.r = n].t = run[s].t
        BY DEF TypeOK, JobRun
      <4>2. QED
        BY <1>2, <3>2, <4>1
    <3>3. QED
      BY <2>2, <3>1, <3>2
  <2>4. \A q \in Slots : run'[q].pc \in Starting => task'[run'[q].t].status = "PENDING"
    BY <2>1, <2>3 DEF Starting
  <2>5. CASE UNCHANGED dagRuns
    BY <1>1, <2>1, <2>3, <2>4, <2>5, OnceFrame DEF Runs
  <2>6. CASE Triggered(s)
    <3> DEFINE n == Len(dagRuns) + 1
    <3>1. /\ Runs' = Runs \union {n} /\ \A r \in Runs : dagRuns'[r] = dagRuns[r]
          /\ dagRuns'[n] =
               IF mode = "airflow" THEN [for |-> run[s].t, ingests |-> 0, state |-> "queued"]
               ELSE [for |-> run[s].t, ingests |-> run[s].t, state |-> "success"]
      BY <2>1, <2>6, TriggerAppends, Zenon
    <3>2. dagRuns'[n].for = run[s].t
      BY <3>1
    <3> HIDE DEF n
    <3>3. \A r \in Runs : dagRuns[r].for = run[s].t => run[s].t \in hit
      BY <1>1, <2>1 DEF OnceInv
    <3>4. \A r \in Runs' : task'[dagRuns'[r].for].status # "none"
      BY <1>1, <2>1, <3>1, <3>2 DEF OnceInv
    <3>5. ASSUME NEW r \in Runs'
          PROVE  \/ dagRuns'[r].for \in hit'
                 \/ task'[dagRuns'[r].for].status # "PENDING"
                 \/ \E q \in Slots : run'[q].pc \in {"payload", "status"} /\ run'[q].t = dagRuns'[r].for
      <4>1. CASE r = n
        BY <2>3, <3>2, <4>1
      <4>2. CASE r \in Runs
        BY <1>1, <2>1, <2>3, <3>1, <4>2 DEF OnceInv
      <4>3. QED
        BY <3>1, <4>1, <4>2
    <3>6. \A q, r \in Runs' : dagRuns'[q].for = dagRuns'[r].for /\ dagRuns'[r].for \notin hit' => q = r
      BY <1>1, <2>3, <3>1, <3>2, <3>3 DEF OnceInv
    <3>7. QED
      BY <2>4, <3>4, <3>5, <3>6 DEF OnceInv, Starting
  <2>7. QED
    BY <1>12, <2>5, <2>6 DEF TriggerDAG
<1>13. ASSUME NEW s \in Slots, UpdatePayload(s) \/ UpdateStatus(s) PROVE OnceInv'
  <2>1. /\ UNCHANGED dagRuns /\ run[s].pc \in {"payload", "status"} /\ run[s].t \in Tasks
        /\ task[run[s].t].status = "PENDING" /\ hit \subseteq hit'
        /\ \A q \in Slots \ {s} : run[q].pc = "idle"
    BY <1>1, <1>4, <1>13, OthersIdle DEF UpdatePayload, UpdateStatus, outside, Starting
  <2>2. /\ \A q \in Slots \ {s} : run'[q] = run[q]
        /\ \/ run'[s].pc \in {"release", "poll"}
              /\ (run[s].t \in hit' \/ task'[run[s].t].status = "IN_PROGRESS")
           \/ run'[s].pc = "status" /\ run'[s].t = run[s].t /\ task'[run[s].t].status = "PENDING"
    <3>1. CASE UpdateStatus(s)
      BY <1>3, <2>1, <3>1 DEF UpdateStatus, TypeOK, Rows
    <3>2. CASE Ends(s) /\ hit' = hit \union {run[s].t}
      BY <1>3, <3>2
    <3>3. CASE /\ task' = [task EXCEPT ![run[s].t].run = run[s].r]
               /\ To(s, [run[s] EXCEPT !.pc = "status"])
      <4>1. [run[s] EXCEPT !.pc = "status"].pc = "status" /\ [run[s] EXCEPT !.pc = "status"].t = run[s].t
        BY DEF TypeOK, JobRun
      <4>2. task'[run[s].t].status = "PENDING"
        BY <2>1, <3>3 DEF TypeOK, Rows
      <4>3. QED
        BY <1>2, <3>3, <4>1, <4>2
    <3>4. QED
      BY <1>13, <3>1, <3>2, <3>3 DEF UpdatePayload
  <2>3. \A q \in Slots : run'[q].pc \in Starting => task'[run'[q].t].status = "PENDING"
    BY <2>1, <2>2 DEF Starting
  <2>4. QED
    BY <1>1, <2>1, <2>2, <2>3, OnceFrame DEF Runs
<1>14. ASSUME NEW p \in Pods, Crash(p) PROVE OnceInv'
  <2>1. /\ UNCHANGED <<task, dagRuns>> /\ hit \subseteq hit' /\ Idle.pc = "idle"
        /\ \A q \in Slots : run'[q] \in {run[q], Idle}
        /\ \A q \in Slots : run[q].pc \in {"payload", "status"} =>
              run'[q] = run[q] \/ run[q].t \in hit'
    BY <1>14 DEF Crash, outside, Active, Idle
  <2>2. \A q \in Slots : run'[q].pc \in Starting => task'[run'[q].t].status = "PENDING"
    BY <1>4, <2>1 DEF Starting
  <2>3. QED
    BY <1>1, <2>1, <2>2, OnceFrame DEF Runs
<1>15. ASSUME NEW r \in Runs, Airflow(r) PROVE OnceInv'
  <2>1. UNCHANGED <<task, run, hit>>
    BY <1>15 DEF Airflow, history
  <2>2. QED
    BY <1>1, <1>4, <1>15, <2>1, AirflowMovesOn, OnceFrame
<1>16. CASE UNCHANGED <<task, dagRuns, run, hit>>
  BY <1>1, <1>4, <1>16, OnceFrame DEF Runs
<1>17. QED
  BY <1>6, <1>7, <1>8, <1>9, <1>10, <1>11, <1>12, <1>13, <1>14, <1>15, <1>16
     DEF Next, vars, Skye, CloseConnection, outside, history, Runs

-----------------------------------------------------------------------------
(* Rows that name no run.                                                   *)

\* A step that leaves every row its run, and lets no row that names none end.
LEMMA StuckFrame ==
  ASSUME TypeOK, RowsInv, StuckInv, ~ overlapped,
         \A t \in Tasks :
            /\ task'[t].run = task[t].run
            /\ task[t].run = 0 => task'[t].status \in {task[t].status, "PENDING", "IN_PROGRESS"},
         \A q \in Slots : run'[q].todo \subseteq Tasks,
         \A q \in Slots :
            \/ run'[q].rows = run[q].rows /\ run'[q].todo \subseteq run[q].todo
            \/ run'[q].todo = {}
            \/ run'[q].rows = task
  PROVE  StuckInv'
<1>1. run \in [Slots -> JobRun] /\ \A q \in Slots : run[q].todo \subseteq Tasks
  BY DEF TypeOK, JobRun
<1>2. \A t \in Tasks : task'[t].run = 0 => task'[t].status \in {"none", "PENDING", "IN_PROGRESS"}
  BY DEF StuckInv
<1>3. \A q \in Slots : \A t \in run'[q].todo : run'[q].rows[t].run = task'[t].run
  <2>1. SUFFICES ASSUME NEW q \in Slots, NEW t \in run'[q].todo, t \in Tasks
                 PROVE  run'[q].rows[t].run = task'[t].run
    OBVIOUS
  <2>2. task'[t].run = task[t].run
    BY <2>1
  <2>3. QED
    BY <1>1, <2>1, <2>2 DEF StuckInv
<1>4. QED
  BY <1>2, <1>3 DEF StuckInv

LEMMA StuckStep ==
  ASSUME TypeOK, RowsInv, OneAtWork, OnceInv, StuckInv, [Next]_vars
  PROVE  StuckInv'
<1> SUFFICES ASSUME ~ overlapped' PROVE StuckInv'
  BY DEF StuckInv
<1>1. ~ overlapped
  BY ActiveStep
<1> DEFINE Reads(q) ==
       \/ run'[q].rows = run[q].rows /\ run'[q].todo \subseteq run[q].todo
       \/ run'[q].todo = {}
       \/ run'[q].rows = task
<1>2. \A q \in Slots : Reads(q)
  <2>1. ASSUME NEW s \in Slots, NEW next, To(s, next),
               \/ next.rows = run[s].rows /\ next.todo \subseteq run[s].todo
               \/ next.todo = {}
               \/ next.rows = task
        PROVE  \A q \in Slots : Reads(q)
    BY <2>1 DEF To, TypeOK
  <2>2. ASSUME NEW s \in Slots, NEW p, To(s, [run[s] EXCEPT !.pc = p]) \/ \E r : To(s, [run[s] EXCEPT !.pc = p, !.r = r])
        PROVE  \A q \in Slots : Reads(q)
    BY <2>1, <2>2 DEF TypeOK, JobRun
  <2>3. ASSUME NEW s \in Slots, Ends(s) \/ Done(s) PROVE \A q \in Slots : Reads(q)
    <3>1. /\ [Idle EXCEPT !.pc = "release"].todo = {}
          /\ [run[s] EXCEPT !.pc = "poll", !.todo = @ \ {NextTask(s)}].rows = run[s].rows
          /\ [run[s] EXCEPT !.pc = "poll", !.todo = @ \ {NextTask(s)}].todo \subseteq run[s].todo
      BY DEF TypeOK, JobRun, Idle
    <3>2. QED
      BY <2>1, <2>3, <3>1 DEF Ends, Done
  <2>4. ASSUME NEW s \in Slots, AcquireLockNowait(s) \/ ReleaseLock(s) \/ GetFirstPending(s)
        PROVE  \A q \in Slots : Reads(q)
    <3>1. /\ [Idle EXCEPT !.pc = "list"].todo = {} /\ Idle.todo = {}
          /\ [Idle EXCEPT !.pc = "previous", !.t = Min(Pending)].todo = {}
      BY DEF Idle
    <3>2. QED
      BY <2>1, <2>3, <2>4, <3>1 DEF AcquireLockNowait, ReleaseLock, GetFirstPending
  <2>5. ASSUME NEW s \in Slots, GetInProgress(s) PROVE \A q \in Slots : Reads(q)
    <3>1. [run[s] EXCEPT !.pc = "poll", !.todo = {t \in Tasks : task[t].status = "IN_PROGRESS"},
                         !.rows = task].rows = task
      BY DEF TypeOK, JobRun
    <3>2. QED
      BY <2>1, <2>2, <2>5, <3>1 DEF GetInProgress
  <2>6. ASSUME NEW s \in Slots, PollDagRun(s) \/ SettleTask(s) PROVE \A q \in Slots : Reads(q)
    BY <2>2, <2>3, <2>6 DEF PollDagRun, SettleTask
  <2>7. ASSUME NEW s \in Slots, CheckIfPreviousDAGRunIsPending(s) \/ UpdateStepParameters(s)
        PROVE  \A q \in Slots : Reads(q)
    BY <2>2, <2>3, <2>7 DEF CheckIfPreviousDAGRunIsPending, UpdateStepParameters
  <2>8. ASSUME NEW s \in Slots, TriggerDAG(s) \/ UpdatePayload(s) \/ UpdateStatus(s)
        PROVE  \A q \in Slots : Reads(q)
    BY <2>2, <2>3, <2>8 DEF TriggerDAG, UpdatePayload, UpdateStatus
  <2>9. ASSUME NEW p \in Pods, Crash(p) PROVE \A q \in Slots : Reads(q)
    BY <2>9 DEF Crash, Idle
  <2>10. CASE UNCHANGED run
    BY <2>10
  <2>11. QED
    BY <2>4, <2>5, <2>6, <2>7, <2>8, <2>9, <2>10 DEF Next, vars, CreateTask, Skye, Airflow, CloseConnection
<1> HIDE DEF Reads
<1> DEFINE Keeps(t) ==
       /\ task'[t].run = task[t].run
       /\ task[t].run = 0 => task'[t].status \in {task[t].status, "PENDING", "IN_PROGRESS"}
<1>3. ASSUME \A t \in Tasks : Keeps(t) PROVE StuckInv'
  <2>1. \A q \in Slots : run'[q].todo \subseteq Tasks
    BY RunTypeStep DEF JobRun
  <2>2. QED
    BY <1>1, <1>2, <1>3, <2>1, StuckFrame DEF Reads
<1>4. \A t \in Tasks : task[t] \in [status : Statuses, run : Runs \union {0}]
  BY DEF TypeOK, Rows
<1>5. CASE UNCHANGED task
  BY <1>3, <1>5
<1>6. ASSUME NEW u \in Tasks, CreateTask(u) PROVE StuckInv'
  BY <1>3, <1>4, <1>6 DEF CreateTask, TypeOK, Rows
<1>7. ASSUME NEW s \in Slots, run[s].todo # {}
      PROVE  NextTask(s) \in Tasks /\ RunRead(s) = task[NextTask(s)].run
  BY <1>1, <1>7, NextTaskIsTask DEF StuckInv, RunRead
<1>8. ASSUME NEW s \in Slots, run[s].todo # {}, PayloadWritten(s) PROVE StuckInv'
  BY <1>3, <1>4, <1>7, <1>8 DEF PayloadWritten, TypeOK, Rows
<1>9. ASSUME NEW s \in Slots, PollDagRun(s) PROVE StuckInv'
  BY <1>5, <1>8, <1>9 DEF PollDagRun
<1>10. ASSUME NEW s \in Slots, SettleTask(s) PROVE StuckInv'
  <2>1. run[s].todo # {} /\ RunRead(s) # 0
    BY <1>10 DEF SettleTask, RowsInv, RunInv
  <2>2. task[NextTask(s)].run # 0 /\ NextTask(s) \in Tasks /\ RunRead(s) = task[NextTask(s)].run
    BY <1>7, <2>1
  <2>3. CASE task' = [task EXCEPT ![NextTask(s)].status = "FAILED"]
    BY <1>3, <1>4, <2>2, <2>3 DEF TypeOK, Rows
  <2>4. CASE task' = [task EXCEPT ![NextTask(s)] = [status |-> "COMPLETED", run |-> RunRead(s)]]
    BY <1>3, <1>4, <2>2, <2>4 DEF TypeOK, Rows
  <2>5. QED
    BY <1>5, <1>8, <1>10, <2>1, <2>3, <2>4 DEF SettleTask
<1>11. ASSUME NEW s \in Slots, UpdateStatus(s) PROVE StuckInv'
  <2>1. CASE task' = [task EXCEPT ![run[s].t].status = "IN_PROGRESS"]
    BY <1>3, <1>4, <2>1 DEF TypeOK, Rows
  <2>2. QED
    BY <1>5, <1>11, <2>1 DEF UpdateStatus
<1>12. ASSUME NEW s \in Slots, UpdatePayload(s) PROVE StuckInv'
  <2>1. run[s].pc = "payload" /\ run[s].t \in Tasks /\ task[run[s].t].status = "PENDING"
    BY <1>1, <1>12 DEF UpdatePayload, RowsInv, RunInv, OnceInv
  <2>2. \A q \in Slots : run[q].pc \in {"idle", "payload"} /\ run[q].todo = {}
    BY <1>1, <2>1, OthersIdle DEF RowsInv, RunInv
  <2>3. \A q \in Slots : run'[q].todo = {}
    <3>1. Idle.todo = {} /\ [Idle EXCEPT !.pc = "release"].todo = {}
      BY DEF Idle
    <3>2. CASE Ends(s)
      BY <2>2, <3>1, <3>2 DEF Ends, To, TypeOK
    <3>3. CASE To(s, [run[s] EXCEPT !.pc = "status"])
      BY <2>2, <3>3 DEF To, TypeOK, JobRun
    <3>4. QED
      BY <1>12, <3>2, <3>3 DEF UpdatePayload
  <2>4. \A t \in Tasks : task'[t].status = task[t].status /\ (t # run[s].t => task'[t] = task[t])
    BY <1>4, <1>12 DEF UpdatePayload, TypeOK, Rows
  <2>5. QED
    BY <1>1, <2>1, <2>3, <2>4 DEF StuckInv
<1>13. QED
  BY <1>5, <1>6, <1>9, <1>10, <1>11, <1>12
     DEF Next, vars, Skye, AcquireLockNowait, ReleaseLock, GetInProgress, GetFirstPending,
         CheckIfPreviousDAGRunIsPending, UpdateStepParameters, TriggerDAG, Crash, CloseConnection, Airflow

-----------------------------------------------------------------------------

LEMMA InitInvariant == Init => IInv
<1>1. SUFFICES ASSUME Init PROVE IInv
  OBVIOUS
<1>2. dagRuns \in Seq(DagRun) /\ Runs = {}
  BY <1>1 DEF Init, Runs
<1>3. task \in Rows /\ Idle \in JobRun
  BY <1>1 DEF Init, NoRows, Rows, Statuses, Idle, JobRun
<1>4. TypeOK
  <2>1. MaxFaults \in Nat
    BY JobsAssumption
  <2>2. faults \in 0..MaxFaults
    BY <1>1, <2>1 DEF Init
  <2>3. run \in [Slots -> JobRun] /\ collection \in [Tasks -> {"empty", "indexing", "indexed"}]
    BY <1>1, <1>3 DEF Init
  <2>4. QED
    BY <1>1, <1>2, <1>3, <2>2, <2>3 DEF Init, TypeOK
<1>5. RowsInv
  BY <1>1 DEF Init, RowsInv, RunInv, RowsTrue, NoRows, Idle
<1>6. OutcomeIsTrue
  BY <1>1 DEF Init, OutcomeIsTrue, NoRows
<1>7. OneAtWork /\ PrismInv /\ OnceInv /\ StuckInv
  BY <1>1, <1>2 DEF Init, OneAtWork, Active, PrismInv, RunIngestsItsTask, OnceInv, StuckInv, NoRows, Idle
<1>8. QED
  BY <1>4, <1>5, <1>6, <1>7 DEF IInv

LEMMA StepInvariant == IInv /\ [Next]_vars => IInv'
<1>1. SUFFICES ASSUME IInv, [Next]_vars PROVE IInv'
  OBVIOUS
<1>2. RowsInv'
  BY <1>1, RowsStep, RunStep DEF IInv, RowsInv
<1>3. QED
  BY <1>1, <1>2, TypeStep, OutcomeStep, OneAtWorkStep, PrismStep, OnceStep, StuckStep DEF IInv

\* At most one run of a task counts as at most one.
LEMMA OnceIsAtMostOne ==
  ASSUME NEW S, \A q, r \in S : q = r
  PROVE  Cardinality(S) <= 1
<1>1. CASE S = {}
  BY <1>1, FS_EmptySet
<1>2. ASSUME NEW r \in S PROVE Cardinality(S) <= 1
  <2>1. S = {r}
    OBVIOUS
  <2>2. QED
    BY <2>1, FS_Singleton
<1>3. QED
  BY <1>1, <1>2

LEMMA InvariantMeans == IInv => RunIngestsItsTask /\ InProgressHasRun /\ TriggeredTwiceAfterFault
<1>1. SUFFICES ASSUME IInv PROVE RunIngestsItsTask /\ InProgressHasRun /\ TriggeredTwiceAfterFault
  OBVIOUS
<1>2. RunIngestsItsTask
  BY <1>1 DEF IInv, PrismInv, RunIngestsItsTask
<1>3. InProgressHasRun
  BY <1>1 DEF IInv, RowsInv, RowsTrue, StuckInv, InProgressHasRun
<1>4. TriggeredTwiceAfterFault
  <2>1. SUFFICES ASSUME NEW t \in Tasks, ~ overlapped, t \notin hit
                 PROVE  Cardinality({r \in Runs : dagRuns[r].for = t}) <= 1
    BY DEF TriggeredTwiceAfterFault
  <2>2. \A q, r \in {n \in Runs : dagRuns[n].for = t} : q = r
    BY <1>1, <2>1 DEF IInv, OnceInv
  <2>3. QED
    BY <2>2, OnceIsAtMostOne
<1>5. QED
  BY <1>2, <1>3, <1>4

(* The rows of the task table, Airflow's runs, the lock and the runs of the *)
(* job keep their types: no row and no run of the job ever names a DAG run  *)
(* that was not triggered.                                                  *)
THEOREM TypeCorrect == Spec => []TypeOK
BY InitInvariant, StepInvariant, PTL DEF Spec, IInv

(* For any number of pods, overlapping runs of the job, failed calls, lost  *)
(* locks and crashes: a task that left PENDING names a DAG run that was     *)
(* triggered for it, or Airflow did not answer its trigger with 200 and it  *)
(* stays in progress for as long as no two runs of the job were past the    *)
(* lock at once.                                                            *)
THEOREM TasksInProgressHaveTheirRun == Spec => []InProgressHasRun
BY InitInvariant, StepInvariant, InvariantMeans, PTL DEF Spec

(* The same: no task completes or fails but by a DAG run of its own that    *)
(* succeeded or failed, and the collection of a completed one is indexed.   *)
THEOREM OutcomesAreTrue == Spec => []OutcomeIsTrue
BY InitInvariant, StepInvariant, PTL DEF Spec, IInv

(* Every DAG run ingests the variant of the task it was triggered for, for  *)
(* as long as no two runs of the job were past the lock at once and all of  *)
(* Airflow's runs fit in the page that the job reads.                       *)
THEOREM RunsIngestTheirTasks == Spec => []RunIngestsItsTask
BY InitInvariant, StepInvariant, InvariantMeans, PTL DEF Spec

(* And until then only a fault between the trigger and the row that records *)
(* it makes the job trigger a task a second time.                           *)
THEOREM TriggeredTwiceOnlyAfterFault == Spec => []TriggeredTwiceAfterFault
BY InitInvariant, StepInvariant, InvariantMeans, PTL DEF Spec
=============================================================================
