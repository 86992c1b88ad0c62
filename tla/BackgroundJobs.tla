--------------------------- MODULE BackgroundJobs ---------------------------
(***************************************************************************)
(* Background DataJobs: the rows of data_jobs and job_run_attempts, the    *)
(* in-process control entries (JobControl), the worker and heartbeat       *)
(* threads of _run_background_job, the request handlers that claim and     *)
(* cancel jobs, the scheduler and tail threads that create jobs outside    *)
(* that machinery, the sweep of stale rows, and a crash of the process.    *)
(*                                                                         *)
(* One action is one commit, one critical section of _STATE_LOCK, or one   *)
(* decision of a thread.  data_jobs.params_json is always written whole    *)
(* from a value read by an earlier statement, without a row lock, so each  *)
(* such write is a read step and a write step.                             *)
(***************************************************************************)
EXTENDS JobControl, FiniteSets, Naturals

CONSTANTS
  Job,             \* the ids of data_jobs rows that may be allocated
  Type,            \* job types
  Conflicts,       \* [Type -> SUBSET Type]: job_types passed to a claim
  StageType,       \* types a scheduler creates after has_running_job
  TailType,        \* types a tail thread creates without any check
  TimedType,       \* types started with a timeout
  CheckpointType,  \* types whose runner calls the cancellation checker
  BeatingType,     \* types that run for longer than a heartbeat interval
  Claimer,         \* concurrent requests that start a job
  Canceller,       \* concurrent requests to POST /jobs/{id}/cancel
  MaxCrashes,      \* bound: crashes of the process
  MaxFaults,       \* bound: database errors seen by a worker
  NoJob            \* "no job" for an idle request

\* A claim always looks for its own type, and the routes' job_types tuples
\* name each other: staged precompute names core, combos and rest, and each
\* of those names staged precompute.
ASSUME ConflictsAssumption ==
  /\ Conflicts \in [Type -> SUBSET Type]
  /\ \A t \in Type : t \in Conflicts[t]
  /\ \A t, u \in Type : t \in Conflicts[u] => u \in Conflicts[t]

ASSUME TypesAssumption ==
  /\ StageType \subseteq Type /\ TailType \subseteq Type
  /\ TimedType \subseteq Type /\ CheckpointType \subseteq Type
  /\ BeatingType \subseteq Type

ASSUME BoundsAssumption ==
  /\ MaxCrashes \in Nat /\ MaxFaults \in Nat
  /\ NoJob \notin Job
  /\ Claimer \cap Canceller = {} /\ "free" \notin Claimer \cup Canceller

Request == Claimer \cup Canceller

VARIABLES
  row,       \* data_jobs: status, type and the part of params_json that matters
  attempt,   \* job_run_attempts.status of the job's only attempt
  control,   \* job_control._STATE
  worker,    \* the thread that runs the job
  watch,     \* its heartbeat thread
  req,       \* request handlers of the jobs routes
  lock,      \* the request that holds _JOB_CLAIM_LOCK, or "free"
  pending,   \* stage types a scheduler found idle and is about to create
  sweep,     \* complete_stale_running_jobs in progress
  aged,      \* jobs whose started_at lies before the sweep's cutoff
  accepted,  \* what a cancel request met: history, never read by an action
  used       \* crashes and faults so far

rows    == <<row, attempt>>
threads == <<worker, watch>>
vars == <<row, attempt, control, worker, watch, req, lock, pending, sweep,
          aged, accepted, used>>

----------------------------------------------------------------------------
(* The values of the state. *)

Params == [cancel : BOOLEAN, result : BOOLEAN]
NoParams == [cancel |-> FALSE, result |-> FALSE]

\* What _result_status returns; its "empty" and "not_configured", which no
\* decision tells from "partial", are left out.
Result == {"success", "partial", "failed"}
Ended  == Result \cup {"failed_timeout", "cancelled"}
Status == Ended \cup {"none", "running"}

NoRow == [status |-> "none", type |-> "none", params |-> NoParams]

WorkPC == {"announce", "announceWrite", "pulse", "pulseWrite", "checkpoint",
           "runner", "postcheck", "batch"}
EndPC  == {"finish", "commit", "attempt"}
TailPC == {"cleanup", "farewell", "clear"}
WorkerPC == {"none", "metadata", "register", "done"}
              \cup WorkPC \cup EndPC \cup TailPC

\* Where a cancellation can still take effect.
BeforeLastCheck == {"metadata", "register"} \cup (WorkPC \ {"batch"})

NoWorker == [pc |-> "none", kind |-> "none", outcome |-> "running",
             snap |-> NoParams, recovering |-> FALSE]
NewWorker(kind) == [NoWorker EXCEPT !.pc = "metadata", !.kind = kind]
NoWatch  == [pc |-> "off", snap |-> NoParams]
NoReq    == [pc |-> "idle", job |-> NoJob, type |-> "none", snap |-> NoParams]
NoSweep  == [pc |-> "idle", rows |-> {}]

Running(j) == row[j].status = "running"

\* complete_job(), update_job(), record_job_runtime() are given the id of an
\* existing row; a job's status lives only in the row.
SetWorker(j, pc) == worker' = [worker EXCEPT ![j].pc = pc]

Decide(j, pc, outcome) ==
  worker' = [worker EXCEPT ![j] = [@ EXCEPT !.pc = pc, !.outcome = outcome]]

\* The thread keeps the params_json it is about to write back.
Hold(j, pc, params) ==
  worker' = [worker EXCEPT ![j] = [@ EXCEPT !.pc = pc, !.snap = params]]

Init ==
  /\ row      = [j \in Job |-> NoRow]
  /\ attempt  = [j \in Job |-> "none"]
  /\ control  = [j \in Job |-> NoEntry]
  /\ worker   = [j \in Job |-> NoWorker]
  /\ watch    = [j \in Job |-> NoWatch]
  /\ req      = [r \in Request |-> NoReq]
  /\ lock     = "free"
  /\ pending  = {}
  /\ sweep    = NoSweep
  /\ aged     = {}
  /\ accepted = [j \in Job |-> "no"]
  /\ used     = [crashes |-> 0, faults |-> 0]

----------------------------------------------------------------------------
(* Creating a job.  create_job commits the row, then _ensure_run_metadata  *)
(* commits the first attempt.                                              *)

CreateRow(j, t) ==
  /\ row[j].status = "none"
  /\ row' = [row EXCEPT ![j] = [status |-> "running", type |-> t,
                                params |-> NoParams]]

\* Mutation of ClaimCheck: only the type itself is looked for.
ClaimCheckOwnType(r, t) ==
  /\ req[r].pc = "idle" /\ lock = "free"
  /\ \A j \in Job : Running(j) => row[j].type # t
  /\ lock' = r
  /\ req' = [req EXCEPT ![r] = [NoReq EXCEPT !.pc = "create", !.type = t]]
  /\ UNCHANGED <<rows, control, threads, pending, sweep, aged, accepted, used>>

\* _claim_background_job: take _JOB_CLAIM_LOCK and find no running job of a
\* conflicting type.  (When one is found it is returned: nothing changes.)
ClaimCheck(r, t) ==
  /\ req[r].pc = "idle" /\ lock = "free"
  /\ \A j \in Job : Running(j) => row[j].type \notin Conflicts[t]
  /\ lock' = r
  /\ req' = [req EXCEPT ![r] = [NoReq EXCEPT !.pc = "create", !.type = t]]
  /\ UNCHANGED <<rows, control, threads, pending, sweep, aged, accepted, used>>

ClaimCreate(r) ==
  /\ req[r].pc = "create"
  /\ \E j \in Job :
       /\ CreateRow(j, req[r].type)
       /\ req' = [req EXCEPT ![r] = [@ EXCEPT !.pc = "metadata", !.job = j]]
       /\ worker' = [worker EXCEPT ![j] = NewWorker("route")]
  /\ UNCHANGED <<attempt, control, watch, lock, pending, sweep, aged,
                 accepted, used>>

\* The first attempt is committed and the lock released.
ClaimMetadata(r) ==
  /\ req[r].pc = "metadata"
  /\ attempt' = [attempt EXCEPT ![req[r].job] = "running"]
  /\ req' = [req EXCEPT ![r].pc = "register"]
  /\ SetWorker(req[r].job, "register")
  /\ lock' = "free"
  /\ UNCHANGED <<row, control, watch, pending, sweep, aged, accepted, used>>

\* A database error in the claim.  The insert fails and the request with it; or
\* the metadata's, which create_job swallows when it is an OperationalError (the
\* job runs, and complete_job creates the attempt) and raises when it is not (the
\* row stays without a worker).
ClaimFault(r) ==
  /\ used.faults < MaxFaults
  /\ used' = [used EXCEPT !.faults = @ + 1]
  /\ lock' = "free"
  /\ \/ /\ req[r].pc = "create"
        /\ req' = [req EXCEPT ![r] = NoReq]
        /\ UNCHANGED worker
     \/ /\ req[r].pc = "metadata"
        /\ req' = [req EXCEPT ![r].pc = "register"]
        /\ SetWorker(req[r].job, "register")
     \/ /\ req[r].pc = "metadata"
        /\ req' = [req EXCEPT ![r] = NoReq]
        /\ SetWorker(req[r].job, "done")
  /\ UNCHANGED <<rows, control, watch, pending, sweep, aged, accepted>>

\* _run_background_job: register, then start the worker thread.
StartWorker(r) ==
  /\ req[r].pc = "register"
  /\ LET j == req[r].job
     IN /\ control' = [control EXCEPT
                         ![j] = Register(@, row[j].type \in TimedType)]
        /\ SetWorker(j, "announce")
  /\ req' = [req EXCEPT ![r] = NoReq]
  /\ UNCHANGED <<rows, watch, lock, pending, sweep, aged, accepted, used>>

\* CNMarketScheduler._create_stage_job: has_running_job of its own type only,
\* and no claim lock around the check and the insert.
StageCheck(t) ==
  /\ t \in StageType \ pending
  /\ \A j \in Job : Running(j) => row[j].type # t
  /\ pending' = pending \cup {t}
  /\ UNCHANGED <<rows, control, threads, req, lock, sweep, aged, accepted,
                 used>>

CreateUncontrolled(j, t) ==
  /\ CreateRow(j, t)
  /\ worker' = [worker EXCEPT ![j] = NewWorker("stage")]

StageCreate(t) ==
  /\ t \in pending
  /\ \E j \in Job : CreateUncontrolled(j, t)
  /\ pending' = pending \ {t}
  /\ UNCHANGED <<attempt, control, watch, req, lock, sweep, aged, accepted,
                 used>>

\* _run_cn_precompute_tail_jobs: no check at all.
TailCreate(t) ==
  /\ t \in TailType
  /\ \E j \in Job : CreateUncontrolled(j, t)
  /\ UNCHANGED <<attempt, control, watch, req, lock, pending, sweep, aged,
                 accepted, used>>

StageMetadata(j) ==
  /\ worker[j].pc = "metadata" /\ worker[j].kind = "stage"
  /\ attempt' = [attempt EXCEPT ![j] = "running"]
  /\ SetWorker(j, "runner")
  /\ UNCHANGED <<row, control, watch, req, lock, pending, sweep, aged,
                 accepted, used>>

\* The same errors in a scheduler's or a tail thread's create_job.
StageFault(j) ==
  /\ used.faults < MaxFaults
  /\ used' = [used EXCEPT !.faults = @ + 1]
  /\ worker[j].pc = "metadata" /\ worker[j].kind = "stage"
  /\ SetWorker(j, "runner") \/ SetWorker(j, "done")
  /\ UNCHANGED <<rows, control, watch, req, lock, pending, sweep, aged, accepted>>

StageCreateFails(t) ==
  /\ used.faults < MaxFaults
  /\ used' = [used EXCEPT !.faults = @ + 1]
  /\ t \in pending
  /\ pending' = pending \ {t}
  /\ UNCHANGED <<rows, control, threads, req, lock, sweep, aged, accepted>>

----------------------------------------------------------------------------
(* The worker thread of _run_background_job.                               *)

others == <<req, lock, pending, sweep, aged, accepted>>

\* _work starts the heartbeat thread and reads the row for update_job.
Announce(j) ==
  /\ worker[j].pc = "announce"
  /\ Hold(j, "announceWrite", row[j].params)
  /\ watch' = [watch EXCEPT ![j].pc = "waiting"]
  /\ UNCHANGED <<rows, control, others, used>>

AnnounceWrite(j) ==
  /\ worker[j].pc = "announceWrite"
  /\ row' = [row EXCEPT ![j].params = worker[j].snap]
  /\ SetWorker(j, "pulse")
  /\ UNCHANGED <<attempt, control, watch, others, used>>

\* Mutation of Pulse: the finally block does not stop the heartbeat thread.
PulseKeepsWatch(j) ==
  /\ worker[j].pc \in {"pulse", "cleanup"}
  /\ Hold(j, IF worker[j].pc = "pulse" THEN "pulseWrite" ELSE "farewell",
          [row[j].params EXCEPT !.cancel = control[j].cancel])
  /\ UNCHANGED <<rows, control, watch, others, used>>

\* _publish_heartbeat takes cancel_requested from the control entry, reads the
\* row, and merges both into params_json.
Pulse(j) ==
  /\ worker[j].pc \in {"pulse", "cleanup"}
  /\ Hold(j, IF worker[j].pc = "pulse" THEN "pulseWrite" ELSE "farewell",
          [row[j].params EXCEPT !.cancel = control[j].cancel])
  \* In the finally block stop_heartbeat is set just before: the heartbeat
  \* thread leaves its loop unless it is in the middle of a turn.
  /\ watch' = IF worker[j].pc = "cleanup" /\ watch[j].pc = "waiting"
              THEN [watch EXCEPT ![j] = NoWatch]
              ELSE watch
  /\ UNCHANGED <<rows, control, others, used>>

PulseWrite(j) ==
  /\ worker[j].pc \in {"pulseWrite", "farewell"}
  /\ row' = [row EXCEPT ![j].params = worker[j].snap]
  /\ SetWorker(j, IF worker[j].pc = "pulseWrite" THEN "checkpoint" ELSE "clear")
  /\ UNCHANGED <<attempt, control, watch, others, used>>

\* Mutation of StopOutcome: only the flag set by the heartbeat thread counts.
StopOutcomeFlagOnly(e) == IF e.timedOut THEN "failed_timeout" ELSE "cancelled"

\* Mutation of StopOutcome: a status that no reader of data_jobs knows.
StopOutcomeUnlisted(e) == IF HasTimedOut(e) THEN "timeout" ELSE "cancelled"

StopOutcome(e) == IF HasTimedOut(e) THEN "failed_timeout" ELSE "cancelled"

\* check_cancelled before the runner.
Checkpoint(j) ==
  /\ worker[j].pc = "checkpoint"
  /\ \/ CheckRaises(control[j]) /\ Decide(j, "finish", StopOutcome(control[j]))
     \/ ~CheckRaises(control[j]) /\ SetWorker(j, "runner")
  /\ UNCHANGED <<rows, control, watch, others, used>>

\* A checkpoint inside the runner raises.
RunnerStops(j) ==
  /\ worker[j].pc = "runner" /\ worker[j].kind = "route"
  /\ row[j].type \in CheckpointType
  /\ CheckRaises(control[j])
  /\ Decide(j, "finish", StopOutcome(control[j]))
  /\ UNCHANGED <<rows, control, watch, others, used>>

\* The runner returns a result, or raises (outcome "failed").  A stage or tail
\* job never consults job_control: its result is final.
RunnerReturns(j, s) ==
  /\ worker[j].pc = "runner"
  /\ Decide(j, IF worker[j].kind = "route" THEN "postcheck" ELSE "finish", s)
  /\ UNCHANGED <<rows, control, watch, others, used>>

\* The outer except: complete the job as "failed".
Recover(j) ==
  worker' = [worker EXCEPT ![j] = [@ EXCEPT !.pc = "finish",
                                            !.outcome = "failed",
                                            !.recovering = TRUE]]

RunnerRaises(j) ==
  /\ worker[j].pc = "runner"
  /\ Recover(j)
  /\ UNCHANGED <<rows, control, watch, others, used>>

\* is_cancel_requested after the runner: the deadline alone is not looked at.
PostCheck(j) ==
  /\ worker[j].pc = "postcheck"
  /\ \/ control[j].cancel /\ Decide(j, "finish", StopOutcome(control[j]))
     \/ ~control[j].cancel /\ SetWorker(j, "batch")
  /\ UNCHANGED <<rows, control, watch, others, used>>

\* _record_market_refresh_batch.
Batch(j) ==
  /\ worker[j].pc = "batch"
  /\ SetWorker(j, "finish")
  /\ UNCHANGED <<rows, control, watch, others, used>>

\* complete_job: read the row, commit status and params, then commit the
\* attempt in a second transaction.
Finish(j) ==
  /\ worker[j].pc = "finish"
  /\ Hold(j, "commit", row[j].params)
  /\ UNCHANGED <<rows, control, watch, others, used>>

FinishCommit(j) ==
  /\ worker[j].pc = "commit"
  /\ row' = [row EXCEPT ![j] =
       [@ EXCEPT !.status = worker[j].outcome,
                 !.params = [worker[j].snap EXCEPT !.result = TRUE]]]
  /\ SetWorker(j, "attempt")
  /\ UNCHANGED <<attempt, control, watch, others, used>>

\* Mutation of FinishAttempt: only a result of the runner reaches the attempt.
FinishAttemptResultOnly(j) ==
  /\ worker[j].pc = "attempt"
  /\ attempt' = [attempt EXCEPT ![j] =
                   IF worker[j].outcome \in Result THEN worker[j].outcome ELSE @]
  /\ SetWorker(j, IF worker[j].kind = "route" THEN "cleanup" ELSE "done")
  /\ UNCHANGED <<row, control, watch, others, used>>

\* Then post_success, whose job is a row of its own, and the finally block.
FinishAttempt(j) ==
  /\ worker[j].pc = "attempt"
  /\ attempt' = [attempt EXCEPT ![j] = worker[j].outcome]
  /\ SetWorker(j, IF worker[j].kind = "route" THEN "cleanup" ELSE "done")
  /\ UNCHANGED <<row, control, watch, others, used>>

Clear(j) ==
  /\ worker[j].pc = "clear"
  /\ control' = [control EXCEPT ![j] = NoEntry]
  /\ SetWorker(j, "done")
  /\ UNCHANGED <<rows, watch, others, used>>

\* A database error in any statement of the try block reaches the outer except,
\* which completes the job as "failed"; a second one there leaves the row as it
\* is.  Errors of the heartbeat writes are swallowed.
Fault(j) ==
  /\ used.faults < MaxFaults
  /\ worker[j].pc \in {"announceWrite", "batch"} \cup EndPC
  /\ used' = [used EXCEPT !.faults = @ + 1]
  /\ \/ /\ worker[j].recovering
        /\ SetWorker(j, IF worker[j].kind = "route" THEN "cleanup" ELSE "done")
     \/ ~worker[j].recovering /\ Recover(j)
  /\ UNCHANGED <<rows, control, watch, others>>

PulseFault(j) ==
  /\ used.faults < MaxFaults
  /\ worker[j].pc \in {"pulseWrite", "farewell"}
  /\ used' = [used EXCEPT !.faults = @ + 1]
  /\ SetWorker(j, IF worker[j].pc = "pulseWrite" THEN "checkpoint" ELSE "clear")
  /\ UNCHANGED <<rows, control, watch, others>>

----------------------------------------------------------------------------
(* The heartbeat thread (_watch) and the clock.                            *)

StopSet(j) == worker[j].pc \in {"farewell", "clear", "done"}

DeadlinePasses(j) ==
  /\ control[j].deadline = "ahead"
  /\ control' = [control EXCEPT ![j].deadline = "passed"]
  /\ UNCHANGED <<rows, threads, others, used>>

\* stop_heartbeat.wait(interval) elapsed: has_timed_out and not yet cancelled.
WatchWakes(j) ==
  /\ watch[j].pc = "waiting" /\ ~StopSet(j)
  /\ row[j].type \in BeatingType
  /\ watch' = [watch EXCEPT ![j].pc =
       IF /\ row[j].type \in TimedType
          /\ HasTimedOut(control[j]) /\ ~control[j].cancel
       THEN "expire" ELSE "fields"]
  /\ UNCHANGED <<rows, control, worker, others, used>>

WatchExpires(j) ==
  /\ watch[j].pc = "expire"
  /\ control' = [control EXCEPT ![j] = RequestCancel(@, TRUE)]
  /\ watch' = [watch EXCEPT ![j].pc = "fields"]
  /\ UNCHANGED <<rows, worker, others, used>>

WatchReads(j) ==
  /\ watch[j].pc = "fields"
  /\ watch' = [watch EXCEPT ![j] =
       [pc |-> "write",
        snap |-> [row[j].params EXCEPT !.cancel = control[j].cancel]]]
  /\ UNCHANGED <<rows, control, worker, others, used>>

\* Mutation of WatchWrites: the heartbeat also says that the job is running.
WatchWritesStatus(j) ==
  /\ watch[j].pc = "write"
  /\ row' = [row EXCEPT ![j].params = watch[j].snap, ![j].status = "running"]
  /\ watch' = [watch EXCEPT ![j] = IF StopSet(j) THEN NoWatch
                                   ELSE [NoWatch EXCEPT !.pc = "waiting"]]
  /\ UNCHANGED <<attempt, control, worker, others, used>>

WatchWrites(j) ==
  /\ watch[j].pc = "write"
  /\ row' = [row EXCEPT ![j].params = watch[j].snap]
  /\ watch' = [watch EXCEPT ![j] = IF StopSet(j) THEN NoWatch
                                   ELSE [NoWatch EXCEPT !.pc = "waiting"]]
  /\ UNCHANGED <<attempt, control, worker, others, used>>

----------------------------------------------------------------------------
(* POST /jobs/{id}/cancel.                                                 *)

\* The row is running.  The session keeps the params_json it read here.
CancelLookup(r, j) ==
  /\ req[r].pc = "idle"
  /\ Running(j)
  /\ req' = [req EXCEPT ![r] = [NoReq EXCEPT !.pc = "request", !.job = j,
                                             !.snap = row[j].params]]
  /\ UNCHANGED <<rows, control, threads, lock, pending, sweep, aged, accepted,
                 used>>

CancelRequest(r) ==
  /\ req[r].pc = "request"
  /\ LET j == req[r].job
     IN /\ control' = [control EXCEPT ![j] = RequestCancel(@, FALSE)]
        /\ accepted' = [accepted EXCEPT ![j] =
             IF @ = "early" \/ worker[j].pc \in BeforeLastCheck
             THEN "early" ELSE "late"]
  /\ req' = [req EXCEPT ![r].pc = "persist"]
  /\ UNCHANGED <<rows, threads, lock, pending, sweep, aged, used>>

\* record_job_runtime(cancel_requested=True) on the row the session holds.
CancelPersist(r) ==
  /\ req[r].pc = "persist"
  /\ row' = [row EXCEPT ![req[r].job].params =
               [req[r].snap EXCEPT !.cancel = TRUE]]
  /\ req' = [req EXCEPT ![r] = NoReq]
  /\ UNCHANGED <<attempt, control, threads, lock, pending, sweep, aged,
                 accepted, used>>

----------------------------------------------------------------------------
(* complete_stale_running_jobs: run by the dashboard, the cleanup route and *)
(* the schedulers.                                                          *)

Age(j) ==
  /\ Running(j) /\ j \notin aged
  /\ aged' = aged \cup {j}
  /\ UNCHANGED <<rows, control, threads, req, lock, pending, sweep, accepted,
                 used>>

\* Mutation of SweepRead: started_at is not compared with the cutoff.
SweepReadAll ==
  /\ sweep.pc = "idle"
  /\ LET running == {j \in Job : Running(j)}
     IN /\ running # {}
        /\ sweep' = [pc |-> "commit", rows |-> running]
  /\ UNCHANGED <<rows, control, threads, req, lock, pending, aged, accepted,
                 used>>

SweepRead ==
  /\ sweep.pc = "idle"
  /\ LET stale == {j \in aged : Running(j)}
     IN /\ stale # {}
        /\ sweep' = [pc |-> "commit", rows |-> stale]
  /\ UNCHANGED <<rows, control, threads, req, lock, pending, aged, accepted,
                 used>>

SweepCommit ==
  /\ sweep.pc = "commit"
  /\ row' = [j \in Job |-> IF j \in sweep.rows
                           THEN [row[j] EXCEPT !.status = "failed"]
                           ELSE row[j]]
  /\ sweep' = [sweep EXCEPT !.pc = "attempts"]
  /\ UNCHANGED <<attempt, control, threads, req, lock, pending, aged, accepted,
                 used>>

SweepAttempt(j) ==
  /\ sweep.pc = "attempts" /\ j \in sweep.rows
  /\ attempt' = [attempt EXCEPT ![j] = "failed_timeout"]
  /\ sweep' = IF sweep.rows = {j} THEN NoSweep
              ELSE [sweep EXCEPT !.rows = @ \ {j}]
  /\ UNCHANGED <<row, control, threads, req, lock, pending, aged, accepted,
                 used>>

----------------------------------------------------------------------------
(* The process dies and starts again: rows stay, everything in memory goes. *)

Crash ==
  /\ used.crashes < MaxCrashes
  /\ used' = [used EXCEPT !.crashes = @ + 1]
  /\ control' = [j \in Job |-> NoEntry]
  /\ worker' = [j \in Job |-> IF worker[j].pc = "none" THEN NoWorker
                              ELSE [NoWorker EXCEPT !.pc = "done",
                                                    !.kind = worker[j].kind]]
  /\ watch' = [j \in Job |-> NoWatch]
  /\ req' = [r \in Request |-> NoReq]
  /\ lock' = "free"
  /\ pending' = {}
  /\ sweep' = NoSweep
  /\ UNCHANGED <<rows, aged, accepted>>

----------------------------------------------------------------------------

WorkerStep(j) ==
  \/ StageMetadata(j) \/ Announce(j) \/ AnnounceWrite(j)
  \/ Pulse(j) \/ PulseWrite(j) \/ Checkpoint(j) \/ RunnerStops(j)
  \/ PostCheck(j) \/ Batch(j)
  \/ Finish(j) \/ FinishCommit(j) \/ FinishAttempt(j) \/ Clear(j)

RunnerStep(j) == RunnerRaises(j) \/ \E s \in Result : RunnerReturns(j, s)

WatchStep(j) == WatchWakes(j) \/ WatchExpires(j) \/ WatchReads(j) \/ WatchWrites(j)

RequestStep(r) ==
  \/ ClaimCreate(r) \/ ClaimMetadata(r) \/ StartWorker(r)
  \/ CancelRequest(r) \/ CancelPersist(r)

SweepStep == SweepCommit \/ \E j \in Job : SweepAttempt(j)

Next ==
  \/ \E r \in Claimer : \E t \in Type : ClaimCheck(r, t)
  \/ \E r \in Canceller : \E j \in Job : CancelLookup(r, j)
  \/ \E r \in Request : RequestStep(r)
  \/ \E r \in Claimer : ClaimFault(r)
  \/ \E t \in Type : \/ StageCheck(t) \/ StageCreate(t) \/ StageCreateFails(t)
                     \/ TailCreate(t)
  \/ \E j \in Job : \/ WorkerStep(j) \/ RunnerStep(j) \/ WatchStep(j)
                    \/ Fault(j) \/ PulseFault(j) \/ StageFault(j)
                    \/ DeadlinePasses(j) \/ Age(j)
  \/ SweepRead \/ SweepStep
  \/ Crash

Spec == Init /\ [][Next]_vars

\* Threads are scheduled and commits return.  The runner itself may run for
\* ever: only a worker at a checkpoint that raises is made to stop.
FairSpec ==
  /\ Spec
  /\ \A j \in Job : WF_vars(WorkerStep(j)) /\ WF_vars(WatchStep(j))
  /\ \A r \in Request : WF_vars(RequestStep(r))

----------------------------------------------------------------------------
(* Properties. *)

RowRec    == [status : Status, type : Type \cup {"none"}, params : Params]
WorkerRec == [pc : WorkerPC,
              kind : {"none", "route", "stage"}, outcome : Status,
              snap : Params, recovering : BOOLEAN]
WatchRec  == [pc : {"off", "waiting", "expire", "fields", "write"},
              snap : Params]
ReqRec    == [pc : {"idle", "create", "metadata", "register", "request",
                    "persist"},
              job : Job \cup {NoJob}, type : Type \cup {"none"}, snap : Params]
SweepRec  == [pc : {"idle", "commit", "attempts"}, rows : SUBSET Job]
UsedRec   == [crashes : 0 .. MaxCrashes, faults : 0 .. MaxFaults]

TypeOK ==
  /\ row \in [Job -> RowRec]
  /\ attempt \in [Job -> Status]
  /\ control \in [Job -> Entry]
  /\ worker \in [Job -> WorkerRec]
  /\ watch \in [Job -> WatchRec]
  /\ req \in [Request -> ReqRec]
  /\ lock \in Claimer \cup {"free"}
  /\ pending \subseteq StageType
  /\ sweep \in SweepRec
  /\ aged \subseteq Job
  /\ accepted \in [Job -> {"no", "early", "late"}]
  /\ used \in UsedRec

\* Two jobs that were both claimed never run at once when either claim names
\* the other's type, whatever the schedulers, the sweep and a crash do.
ClaimExclusive ==
  \A j, k \in Job :
    /\ j # k /\ Running(j) /\ Running(k)
    /\ worker[j].kind = "route" /\ worker[k].kind = "route"
    => row[k].type \notin Conflicts[row[j].type]

\* The runners themselves overlap only when the sweep closed the row of one of
\* them while its thread was still at work: an age limit is the only way in.
RunnersOverlapOnlyAfterSweep ==
  \A j, k \in Job :
    /\ j # k /\ worker[j].pc = "runner" /\ worker[k].pc = "runner"
    /\ worker[j].kind = "route" /\ worker[k].kind = "route"
    /\ row[k].type \in Conflicts[row[j].type]
    => j \in aged \/ k \in aged

\* A cancellation accepted before the worker's last look at the control entry
\* is never lost: not to register(), to the heartbeat thread, to a restart or
\* to the sweep.  Such a job does not end as if it had run to completion.
CancelHonoured ==
  \A j \in Job : accepted[j] = "early" /\ worker[j].kind = "route"
                => row[j].status \notin {"success", "partial"}

\* The same promise for every running job: the cancel route answers "will stop
\* at its next checkpoint" for jobs that schedulers and tail threads own too.
CancelStopsEveryJob ==
  \A j \in Job : accepted[j] = "early"
                => row[j].status \notin {"success", "partial"}

\* A job that ran out of time is never reported as cancelled: "cancelled" means
\* that somebody asked.
CancelledOnRequest ==
  \A j \in Job : row[j].status = "cancelled" => accepted[j] # "no"

\* The row and its attempt are two transactions of complete_job.  An error
\* between them is mended by the worker's handler, which completes the job again:
\* a worker that is done leaves them equal, unless an error hit the handler too,
\* and then the attempt is still open (or missing, as its insert may fail), never
\* at another outcome.  The sweep, whose statuses differ, is apart.
AttemptAgrees ==
  \A j \in Job :
    worker[j].pc \in TailPC /\ j \notin aged
    => \/ attempt[j] = row[j].status
       \/ /\ attempt[j] \in {"none", "running"}
          /\ worker[j].recovering /\ used.faults > 0

\* Merging runtime metadata leaves the rest of params_json alone: what
\* complete_job stored with a success is still there when the worker is gone.
ResultKept ==
  \A j \in Job : row[j].status = "success" => row[j].params.result

\* An ended job is rewritten only to "failed", unless the sweep touched it: no
\* heartbeat, cancellation or late thread revives it or improves its status.
EndedOnlyFails ==
  [][\A j \in Job : row[j].status \in Ended /\ j \notin aged
       => row'[j].status \in {row[j].status, "failed"}]_vars

\* A cancellation or a passed deadline ends a job whose runner has checkpoints,
\* even when its runner would never return; only a crash or a database error
\* can leave its row running.
StopTakesEffect ==
  \A j \in Job :
    (/\ control[j].present
     /\ control[j].cancel \/ control[j].deadline = "passed"
     /\ worker[j].pc \in BeforeLastCheck \ {"postcheck"}
     /\ worker[j].kind = "route" /\ row[j].type \in CheckpointType)
    ~> ~Running(j) \/ used.crashes > 0 \/ used.faults > 0

\* The heartbeat thread of a finished job ends, also after database errors.
HeartbeatEnds ==
  \A j \in Job : worker[j].pc = "cleanup" ~> watch[j].pc = "off"
=============================================================================
