-------------------------- MODULE PredatorValidation --------------------------
(***************************************************************************)
(* The validation of predator model requests, beside their approval.  A    *)
(* validation takes the lock of the test deployable for thirty minutes,    *)
(* clears the deployable's folder, copies the target's live models and the *)
(* request's models into it, restarts it and watches its health; the       *)
(* result is written to the request's row, read and written back whole.    *)
(* The lock is a table row that anyone deletes once it has expired.        *)
(***************************************************************************)
EXTENDS PredatorApproval

CONSTANTS
    Validators,       \* validations that may run at once
    MaxHealthChecks,
    MaxLocks          \* bound: locks taken in all

ASSUME ValidationAssumption == MaxHealthChecks \in Nat \ {0} /\ MaxLocks \in Nat

VARIABLES
    lock,       \* id of the lock row of the test deployable, 0 when there is none
    expired,    \* ids of the locks that are past their time
    outlived,   \* those that were still worked under then
    locks,      \* locks taken so far
    val,        \* val[v]: a validation at work
    temp,       \* groups with their models in the test deployable's folder
    running,    \* those the test deployable was last restarted with
    tested      \* groups found healthy there

vvars == <<lock, expired, outlived, locks, val, temp, running, tested>>
vars == <<avars, vvars>>

Resting == [pc |-> "idle", g |-> Base, copy |-> NoRow, lock |-> 0, checks |-> 0,
            ok |-> FALSE, fresh |-> FALSE]

VInit ==
    /\ Init
    /\ lock = 0 /\ expired = {} /\ outlived = {} /\ locks = 0
    /\ val = [v \in Validators |-> Resting]
    /\ temp = {} /\ running = {} /\ tested = {}

Validating == {v \in Validators : val[v].pc # "idle"}
Step(v, pc) == val' = [val EXCEPT ![v].pc = pc]

(* A write of a row by a flow makes the copies of the validations old.      *)
Aged == [v \in Validators |->
           IF v \in Validating /\ row'[val[v].g] # row[val[v].g]
           THEN [val[v] EXCEPT !.fresh = FALSE] ELSE val[v]]

-----------------------------------------------------------------------------
(* ValidateRequest fetches the active rows, then tries the lock, then looks *)
(* at the status it fetched.                                                *)
Fetch(v, g) ==
    /\ val[v].pc = "idle" /\ row[g].active
    /\ val' = [val EXCEPT ![v] = [Resting EXCEPT !.pc = "lock", !.g = g, !.copy = row[g]]]
    /\ UNCHANGED <<avars, lock, expired, outlived, locks, temp, running, tested>>

\* Faulty variant: the key is not unique.
AcquireAnyway(v) ==
    /\ val[v].pc = "lock" /\ locks < MaxLocks
    /\ locks' = locks + 1 /\ lock' = locks'
    /\ val' = [val EXCEPT ![v].pc = "clear", ![v].lock = locks']
    /\ UNCHANGED <<avars, expired, outlived, temp, running, tested>>

(* The insert fails while the key's row is there; rows that have expired    *)
(* are deleted first.                                                       *)
AcquireLock(v) ==
    /\ val[v].pc = "lock"
    /\ IF lock # 0 /\ lock \notin expired
       THEN /\ val' = [val EXCEPT ![v] = Resting]
            /\ UNCHANGED <<lock, locks>>
       ELSE /\ locks < MaxLocks
            /\ locks' = locks + 1 /\ lock' = locks'
            /\ val' = [val EXCEPT ![v].pc = "clear", ![v].lock = locks']
    /\ UNCHANGED <<avars, expired, outlived, temp, running, tested>>

CleanupExpiredLocks ==
    /\ lock \in expired
    /\ lock' = 0
    /\ UNCHANGED <<avars, expired, outlived, locks, val, temp, running, tested>>

Expire ==
    /\ lock # 0 /\ lock \notin expired
    /\ expired' = expired \union {lock}
    /\ outlived' = IF \E v \in Validating : val[v].lock = lock
                   THEN outlived \union {lock} ELSE outlived
    /\ UNCHANGED <<avars, lock, locks, val, temp, running, tested>>

\* Faulty variant: the lock is released by its key.
ReleaseByKey(v) == 0

(* ReleaseLock deletes by id: the lock of another is left alone.            *)
ReleaseLock(v) == IF lock = val[v].lock THEN 0 ELSE lock

-----------------------------------------------------------------------------
(* performAsyncValidation.                                                  *)

Deploy(v, from, to, folder) ==
    /\ val[v].pc = from
    /\ Step(v, to)
    /\ temp' = folder
    /\ UNCHANGED <<avars, lock, expired, outlived, locks, running, tested>>

(* Objects that cannot be deleted are only logged, and stay.                *)
ClearTemporaryDeployable(v) ==
    \E left \in SUBSET temp : Deploy(v, "clear", "copy existing", left)

(* The live models of the target deployable: Base stands for them.          *)
CopyExistingModels(v) == Deploy(v, "copy existing", "copy request", temp \union {Base})

CopyRequestModels(v) == Deploy(v, "copy request", "restart", temp \union {val[v].g})

RestartTemporaryDeployable(v) ==
    /\ val[v].pc = "restart"
    /\ Step(v, "check")
    /\ running' = temp
    /\ UNCHANGED <<avars, lock, expired, outlived, locks, temp, tested>>

(* Any of the four may fail, and so may the reading and the writing of the  *)
(* request's row, which is only logged; the request is left as it is.       *)
FailValidationJob(v) ==
    /\ val[v].pc \in {"clear", "copy existing", "copy request", "restart", "read", "write"}
    /\ Fault
    /\ lock' = ReleaseLock(v)
    /\ val' = [val EXCEPT ![v] = Resting]
    /\ UNCHANGED <<request, row, configs, files, flow, unchecked, interrupted, overtaken,
                   expired, outlived, locks, temp, running, tested>>

(* An error of the check counts as an unhealthy answer.                     *)
CheckDeploymentHealth(v, healthy) ==
    /\ val[v].pc = "check" /\ val[v].checks < MaxHealthChecks
    /\ val' = [val EXCEPT ![v].checks = @ + 1, ![v].ok = healthy,
                          ![v].pc = IF healthy \/ val[v].checks + 1 = MaxHealthChecks
                                    THEN "read" ELSE "check"]
    /\ tested' = IF healthy /\ val[v].g \in running THEN tested \union {val[v].g} ELSE tested
    /\ UNCHANGED <<avars, lock, expired, outlived, locks, temp, running>>

\* Faulty variant: the rows of ended requests are fetched too.
ReadForResultAny(v) ==
    /\ val[v].pc = "read"
    /\ val' = [val EXCEPT ![v].pc = "write", ![v].copy = row[val[v].g], ![v].fresh = TRUE]
    /\ UNCHANGED <<avars, lock, expired, outlived, locks, temp, running, tested>>

(* updateRequestValidationStatus fetches the active rows ...                *)
ReadForResult(v) ==
    /\ val[v].pc = "read"
    /\ IF row[val[v].g].active
       THEN /\ val' = [val EXCEPT ![v].pc = "write", ![v].copy = row[val[v].g], ![v].fresh = TRUE]
            /\ UNCHANGED lock
       ELSE /\ val' = [val EXCEPT ![v] = Resting]
            /\ lock' = ReleaseLock(v)
    /\ UNCHANGED <<avars, expired, outlived, locks, temp, running, tested>>

(* ... and writes every column of them back; then the lock is released.     *)
WriteResult(v) ==
    LET g == val[v].g IN
    /\ val[v].pc = "write"
    /\ WriteRow(g, Result(val[v].copy, val[v].ok))
    /\ overtaken' = IF val[v].fresh THEN overtaken ELSE overtaken \union {g}
    /\ lock' = ReleaseLock(v)
    /\ val' = [Aged EXCEPT ![v] = Resting]
    /\ UNCHANGED <<request, configs, files, starts, faults, unchecked, interrupted,
                   expired, outlived, locks, temp, running, tested>>

-----------------------------------------------------------------------------
Crash ==
    /\ CrashFlows
    /\ val' = [v \in Validators |-> Resting]
    /\ UNCHANGED <<lock, expired, outlived, locks, temp, running, tested>>

ApprovalStep ==
    /\ RequestStep \/ \E w \in Workers : FlowStep(w)
    /\ val' = Aged
    /\ UNCHANGED <<lock, expired, outlived, locks, temp, running, tested>>

Next ==
    \/ ApprovalStep
    \/ \E v \in Validators :
          \/ \E g \in Groups : Fetch(v, g)
          \/ AcquireLock(v) \/ ClearTemporaryDeployable(v) \/ CopyExistingModels(v)
          \/ CopyRequestModels(v) \/ RestartTemporaryDeployable(v) \/ FailValidationJob(v)
          \/ \E healthy \in BOOLEAN : CheckDeploymentHealth(v, healthy)
          \/ ReadForResult(v) \/ WriteResult(v)
    \/ CleanupExpiredLocks \/ Expire
    \/ Crash

Spec == VInit /\ [][Next]_vars

-----------------------------------------------------------------------------
ValidationState ==
    [pc : {"idle", "lock", "clear", "copy existing", "copy request", "restart", "check",
           "read", "write"},
     g : Groups \union {Base}, copy : Row, lock : 0 .. locks, checks : 0 .. MaxHealthChecks,
     ok : BOOLEAN, fresh : BOOLEAN]

TypeOK ==
    /\ ApprovalTypeOK
    /\ lock \in 0 .. locks /\ locks \in 0 .. MaxLocks
    /\ outlived \subseteq expired /\ expired \subseteq 1 .. locks
    /\ val \in [Validators -> ValidationState]
    /\ temp \subseteq Groups \union {Base} /\ running \subseteq Groups \union {Base}
    /\ tested \subseteq Groups

Working == {v \in Validators : val[v].pc \notin {"idle", "lock"}}

(* While a validation works and its lock has not expired, the lock row is   *)
(* its own; so two validations share the test deployable only after the     *)
(* lock of one of them expired under it.                                    *)
LockOfWorkerStands ==
    \A v \in Working : val[v].lock \notin expired => lock = val[v].lock

(* A created or edited request that may be approved had its models in the   *)
(* test deployable when that was found healthy, through crashes and locks   *)
(* that expired after them; not once a lock expired under its validation    *)
(* (thirty minutes against fifteen checks a minute apart and the copying).  *)
ValidWasTested ==
    \A g \in Groups : row[g].valid /\ request[g].type # "Delete" /\ outlived = {}
                        => g \in tested
=============================================================================
