-------------------- MODULE BackgroundJobsOutcomeProofs --------------------
(***************************************************************************)
(* How a job may end, for any number of jobs, types, requests, crashes and *)
(* database errors: an early cancellation is honoured, "cancelled" means   *)
(* that somebody asked, the attempt agrees with the row, an ended row only *)
(* fails, and runners of conflicting types overlap only after a sweep.     *)
(*                                                                         *)
(* The argument is about one job at a time (JobInv).  Until its runner has *)
(* been judged, only the sweep can have closed its row (StillRuns), so an  *)
(* early cancellation meets a running row; from then on the control entry  *)
(* remembers it up to the last check (Heeded), and what the worker writes  *)
(* was decided from that entry.  A request touches only the worker of the  *)
(* row it inserted (ReqInv), and a sweep only rows that are old (SweepInv).*)
(***************************************************************************)
EXTENDS BackgroundJobsProofs

Working == {"metadata", "register"} \cup WorkPC

\* A row and its worker are born together, before anybody can ask or wait.
Born(j) ==
  /\ row[j].status = "none" <=> worker[j].pc = "none"
  /\ row[j].status = "none" =>
       accepted[j] = "no" /\ j \notin aged /\ attempt[j] = "none"

\* Up to the commit of its outcome, only the sweep closes the row of a job.
StillRuns(j) ==
  worker[j].pc \in Working
    \/ (worker[j].pc \in {"finish", "commit"} /\ ~worker[j].recovering)
  => Running(j) \/ (row[j].status = "failed" /\ j \in aged)

\* The outer except writes "failed", and does not go back to work.
RecoversFailed(j) ==
  worker[j].recovering => worker[j].outcome = "failed" /\ worker[j].pc \notin Working

\* An early cancellation is in the control entry as long as it is looked at,
\* and in the outcome from then on.
Heeded(j) ==
  accepted[j] = "early" /\ worker[j].kind = "route" =>
    /\ row[j].status \notin {"success", "partial"}
    /\ worker[j].pc \in BeforeLastCheck => control[j].cancel
    /\ worker[j].pc # "batch"
    /\ worker[j].pc \in {"finish", "commit"}
         => worker[j].outcome \notin {"success", "partial"}

\* A flag without a timeout was set by a request, and so was every outcome
\* that was decided from it.
Asked(j) ==
  /\ control[j].cancel
       => control[j].present /\ (control[j].timedOut \/ accepted[j] # "no")
  /\ worker[j].outcome = "cancelled" => accepted[j] # "no"
  /\ row[j].status = "cancelled" => accepted[j] # "no"

\* The second transaction of complete_job follows the first: until then the
\* attempt stays open, and only an error in the handler lets it stay so.
Agrees(j) ==
  j \notin aged =>
    /\ worker[j].pc \in Working \cup EndPC => attempt[j] \in {"none", "running"}
    /\ worker[j].pc = "attempt" => row[j].status = worker[j].outcome
    /\ worker[j].pc \in TailPC =>
         \/ attempt[j] = row[j].status
         \/ /\ attempt[j] \in {"none", "running"}
            /\ worker[j].recovering /\ used.faults # 0

JobInv(j) ==
  /\ Born(j) /\ StillRuns(j) /\ RecoversFailed(j)
  /\ Heeded(j) /\ Asked(j) /\ Agrees(j)

\* A request that started a job has its worker to itself.
Starts(r) == req[r].pc \in {"metadata", "register"}

ReqInv ==
  /\ \A r \in Request : Starts(r) =>
       /\ req[r].job \in Job /\ worker[req[r].job].pc = req[r].pc
       /\ worker[req[r].job].kind = "route"
  /\ \A r, q \in Request : Starts(r) /\ Starts(q) /\ req[r].job = req[q].job => r = q
  /\ \A r \in Request : req[r].pc \in {"request", "persist"} =>
       req[r].job \in Job /\ row[req[r].job].status # "none"

SweepInv == sweep.rows \subseteq aged

EndInv == (\A j \in Job : JobInv(j)) /\ ReqInv /\ SweepInv

----------------------------------------------------------------------------
(* What a step leaves alone.                                               *)

\* The worker of j goes on, the others stay where they are.
Moved(j, pc, outcome, recovering) ==
  /\ worker'[j].pc = pc /\ worker'[j].kind = worker[j].kind
  /\ worker'[j].outcome = outcome /\ worker'[j].recovering = recovering
  /\ \A k \in Job \ {j} : worker'[k] = worker[k]

LEMMA Moves ==
  ASSUME TypeOK, NEW j \in Job
  PROVE  /\ \A pc : SetWorker(j, pc)
                => Moved(j, pc, worker[j].outcome, worker[j].recovering)
         /\ \A pc, p : Hold(j, pc, p)
                => Moved(j, pc, worker[j].outcome, worker[j].recovering)
         /\ \A pc, o : Decide(j, pc, o) => Moved(j, pc, o, worker[j].recovering)
         /\ Recover(j) => Moved(j, "finish", "failed", TRUE)
<1>0. worker \in [Job -> WorkerRec] /\ worker[j] \in WorkerRec
  BY DEF TypeOK
<1>1. ASSUME NEW pc, SetWorker(j, pc)
      PROVE  Moved(j, pc, worker[j].outcome, worker[j].recovering)
  BY <1>0, <1>1 DEF SetWorker, Moved, WorkerRec
<1>2. ASSUME NEW pc, NEW p, Hold(j, pc, p)
      PROVE  Moved(j, pc, worker[j].outcome, worker[j].recovering)
  BY <1>0, <1>2 DEF Hold, Moved, WorkerRec
<1>3. ASSUME NEW pc, NEW o, Decide(j, pc, o)
      PROVE  Moved(j, pc, o, worker[j].recovering)
  BY <1>0, <1>3 DEF Decide, Moved, WorkerRec
<1>4. ASSUME Recover(j) PROVE Moved(j, "finish", "failed", TRUE)
  BY <1>0, <1>4 DEF Recover, Moved, WorkerRec
<1> QED BY <1>1, <1>2, <1>3, <1>4

\* The same rows are closed and old, and no fault is forgotten.
SameRows ==
  /\ \A k \in Job : row'[k].status = row[k].status
  /\ UNCHANGED <<aged, accepted>> /\ (used'.faults = 0 => used.faults = 0)
Quiet == SameRows /\ UNCHANGED <<attempt, control>>

\* A job nothing happens to keeps its invariant.
LEMMA Apart ==
  ASSUME NEW k, JobInv(k), worker'[k] = worker[k], attempt'[k] = attempt[k],
         control'[k] = control[k], accepted'[k] = accepted[k],
         row'[k].status = row[k].status, k \in aged' <=> k \in aged,
         used'.faults = 0 => used.faults = 0
  PROVE  JobInv(k)'
BY DEF JobInv, Born, StillRuns, RecoversFailed, Heeded, Asked, Agrees, Running

\* Nor do the requests mind a step of somebody else's worker.
LEMMA ReqKept ==
  ASSUME ReqInv, UNCHANGED req,
         \A k \in Job : worker[k].pc \in {"metadata", "register"} /\ worker[k].kind = "route"
           => worker'[k].pc = worker[k].pc /\ worker'[k].kind = "route",
         \A k \in Job : row[k].status # "none" => row'[k].status # "none"
  PROVE  ReqInv'
BY DEF ReqInv, Starts

----------------------------------------------------------------------------
(* Every step is of one of these kinds.                                    *)

Aside ==
  \/ \E r \in Claimer : \E t \in Type : ClaimCheck(r, t)
  \/ \E r \in Canceller : \E j \in Job : CancelLookup(r, j)
  \/ \E r \in Request : CancelPersist(r)
  \/ \E t \in Type : StageCheck(t) \/ StageCreateFails(t)
  \/ \E j \in Job : WatchWakes(j) \/ WatchReads(j) \/ WatchWrites(j)
  \/ SweepRead
  \/ UNCHANGED vars

Decides(j) ==
  \/ Announce(j) \/ AnnounceWrite(j) \/ Pulse(j) \/ PulseWrite(j) \/ Batch(j)
  \/ Finish(j) \/ RunnerStops(j) \/ RunnerRaises(j) \/ PulseFault(j)
  \/ Checkpoint(j) \/ PostCheck(j) \/ Fault(j) \/ StageFault(j)
  \/ \E s \in Result : RunnerReturns(j, s)

Commits(j) == StageMetadata(j) \/ FinishCommit(j) \/ FinishAttempt(j) \/ Clear(j)

Creates ==
  \/ \E r \in Request : ClaimCreate(r)
  \/ \E t \in Type : StageCreate(t) \/ TailCreate(t)

Signals ==
  \/ \E r \in Request : CancelRequest(r)
  \/ \E j \in Job : WatchExpires(j) \/ DeadlinePasses(j)

Sweeps == SweepCommit \/ (\E j \in Job : SweepAttempt(j)) \/ \E j \in Job : Age(j)

LEMMA StepKinds ==
  ASSUME [Next]_vars
  PROVE  \/ Aside \/ Creates \/ Signals \/ Sweeps \/ Crash
         \/ \E j \in Job : Decides(j)
         \/ \E j \in Job : Commits(j)
         \/ \E r \in Request : ClaimMetadata(r) \/ StartWorker(r)
         \/ \E r \in Claimer : ClaimFault(r)
<1>1. CASE \E r \in Request : RequestStep(r)
  BY <1>1 DEF RequestStep, Aside, Creates, Signals
<1>2. CASE \E j \in Job : \/ WorkerStep(j) \/ RunnerStep(j)
                         \/ Fault(j) \/ PulseFault(j) \/ StageFault(j)
  BY <1>2 DEF WorkerStep, RunnerStep, Decides, Commits
<1>3. CASE \E j \in Job : WatchStep(j) \/ DeadlinePasses(j) \/ Age(j)
  BY <1>3 DEF WatchStep, Aside, Signals, Sweeps
<1>4. CASE SweepRead \/ SweepStep \/ Crash \/ UNCHANGED vars
  BY <1>4 DEF SweepStep, Aside, Sweeps
<1>5. CASE \E t \in Type : \/ StageCheck(t) \/ StageCreate(t) \/ StageCreateFails(t)
                          \/ TailCreate(t)
  BY <1>5 DEF Aside, Creates
<1>6. CASE \/ \E r \in Claimer : \E t \in Type : ClaimCheck(r, t)
           \/ \E r \in Canceller : \E j \in Job : CancelLookup(r, j)
  BY <1>6 DEF Aside
<1> QED BY <1>1, <1>2, <1>3, <1>4, <1>5, <1>6 DEF Next

----------------------------------------------------------------------------
(* One job.                                                                *)

\* The steps of a worker that write neither a status nor the control entry.
LEMMA WorkerKeeps ==
  ASSUME TypeOK, OutcomeInv, NEW j \in Job, JobInv(j),
         Decides(j)
  PROVE  JobInv(j)' /\ Quiet /\ \A k \in Job \ {j} : worker'[k] = worker[k]
<1> DEFINE Fine == JobInv(j)' /\ Quiet /\ \A k \in Job \ {j} : worker'[k] = worker[k]
<1>t. /\ worker[j] \in WorkerRec /\ control[j] \in Entry
      /\ row \in [Job -> RowRec] /\ used \in UsedRec
  BY DEF TypeOK
<1>u. used.faults \in Nat
  BY <1>t, BoundsAssumption DEF UsedRec
<1>s. StopOutcome(control[j]) \notin {"success", "partial"}
  BY DEF StopOutcome
<1>a. StopOutcome(control[j]) = "cancelled" /\ (CheckRaises(control[j]) \/ control[j].cancel)
        => accepted[j] # "no"
  BY <1>t DEF StopOutcome, CheckRaises, HasTimedOut, JobInv, Asked
<1>1. ASSUME Announce(j) PROVE Fine
  <2>1. Moved(j, "announceWrite", worker[j].outcome, worker[j].recovering)
    BY <1>1, Moves DEF Announce
  <2>2. Quiet
    BY <1>1, <1>t, <1>u DEF Announce, rows, others, Quiet, SameRows, RowRec, UsedRec
  <2>3. JobInv(j)'
    BY <1>1, <1>t, <1>u, <1>s, <1>a, <2>1, <2>2 DEF Announce, Quiet, SameRows, Moved, JobInv, Born, StillRuns, RecoversFailed, Heeded, Asked, Agrees, EndPC, Running, Working, WorkPC, TailPC, BeforeLastCheck
  <2> QED BY <2>1, <2>2, <2>3 DEF Moved
<1>2. ASSUME AnnounceWrite(j) PROVE Fine
  <2>1. Moved(j, "pulse", worker[j].outcome, worker[j].recovering)
    BY <1>2, Moves DEF AnnounceWrite
  <2>2. Quiet
    BY <1>2, <1>t, <1>u DEF AnnounceWrite, others, Quiet, SameRows, RowRec, UsedRec
  <2>3. JobInv(j)'
    BY <1>2, <1>t, <1>u, <1>s, <1>a, <2>1, <2>2 DEF AnnounceWrite, Quiet, SameRows, Moved, JobInv, Born, StillRuns, RecoversFailed, Heeded, Asked, Agrees, EndPC, Running, Working, WorkPC, TailPC, BeforeLastCheck
  <2> QED BY <2>1, <2>2, <2>3 DEF Moved
<1>3. ASSUME Pulse(j) PROVE Fine
  <2>1. Moved(j, IF worker[j].pc = "pulse" THEN "pulseWrite" ELSE "farewell", worker[j].outcome, worker[j].recovering)
    BY <1>3, Moves DEF Pulse
  <2>2. Quiet
    BY <1>3, <1>t, <1>u DEF Pulse, rows, others, Quiet, SameRows, RowRec, UsedRec
  <2>3. JobInv(j)'
    BY <1>3, <1>t, <1>u, <1>s, <1>a, <2>1, <2>2 DEF Pulse, Quiet, SameRows, Moved, JobInv, Born, StillRuns, RecoversFailed, Heeded, Asked, Agrees, EndPC, Running, Working, WorkPC, TailPC, BeforeLastCheck
  <2> QED BY <2>1, <2>2, <2>3 DEF Moved
<1>4. ASSUME PulseWrite(j) PROVE Fine
  <2>1. Moved(j, IF worker[j].pc = "pulseWrite" THEN "checkpoint" ELSE "clear", worker[j].outcome, worker[j].recovering)
    BY <1>4, Moves DEF PulseWrite
  <2>2. Quiet
    BY <1>4, <1>t, <1>u DEF PulseWrite, others, Quiet, SameRows, RowRec, UsedRec
  <2>3. JobInv(j)'
    BY <1>4, <1>t, <1>u, <1>s, <1>a, <2>1, <2>2 DEF PulseWrite, Quiet, SameRows, Moved, JobInv, Born, StillRuns, RecoversFailed, Heeded, Asked, Agrees, EndPC, Running, Working, WorkPC, TailPC, BeforeLastCheck
  <2> QED BY <2>1, <2>2, <2>3 DEF Moved
<1>5. ASSUME Batch(j) PROVE Fine
  <2>1. Moved(j, "finish", worker[j].outcome, worker[j].recovering)
    BY <1>5, Moves DEF Batch
  <2>2. Quiet
    BY <1>5, <1>t, <1>u DEF Batch, rows, others, Quiet, SameRows, RowRec, UsedRec
  <2>3. JobInv(j)'
    BY <1>5, <1>t, <1>u, <1>s, <1>a, <2>1, <2>2 DEF Batch, Quiet, SameRows, Moved, JobInv, Born, StillRuns, RecoversFailed, Heeded, Asked, Agrees, EndPC, Running, Working, WorkPC, TailPC, BeforeLastCheck
  <2> QED BY <2>1, <2>2, <2>3 DEF Moved
<1>6. ASSUME Finish(j) PROVE Fine
  <2>1. Moved(j, "commit", worker[j].outcome, worker[j].recovering)
    BY <1>6, Moves DEF Finish
  <2>2. Quiet
    BY <1>6, <1>t, <1>u DEF Finish, rows, others, Quiet, SameRows, RowRec, UsedRec
  <2>3. JobInv(j)'
    BY <1>6, <1>t, <1>u, <1>s, <1>a, <2>1, <2>2 DEF Finish, Quiet, SameRows, Moved, JobInv, Born, StillRuns, RecoversFailed, Heeded, Asked, Agrees, EndPC, Running, Working, WorkPC, TailPC, BeforeLastCheck
  <2> QED BY <2>1, <2>2, <2>3 DEF Moved
<1>7. ASSUME RunnerStops(j) PROVE Fine
  <2>1. Moved(j, "finish", StopOutcome(control[j]), worker[j].recovering)
    BY <1>7, Moves DEF RunnerStops
  <2>2. Quiet
    BY <1>7, <1>t, <1>u DEF RunnerStops, rows, others, Quiet, SameRows, RowRec, UsedRec
  <2>3. JobInv(j)'
    BY <1>7, <1>t, <1>u, <1>s, <1>a, <2>1, <2>2 DEF RunnerStops, Quiet, SameRows, Moved, JobInv, Born, StillRuns, RecoversFailed, Heeded, Asked, Agrees, EndPC, Running, Working, WorkPC, TailPC, BeforeLastCheck
  <2> QED BY <2>1, <2>2, <2>3 DEF Moved
<1>8. ASSUME RunnerRaises(j) PROVE Fine
  <2>1. Moved(j, "finish", "failed", TRUE)
    BY <1>8, Moves DEF RunnerRaises
  <2>2. Quiet
    BY <1>8, <1>t, <1>u DEF RunnerRaises, rows, others, Quiet, SameRows, RowRec, UsedRec
  <2>3. JobInv(j)'
    BY <1>8, <1>t, <1>u, <1>s, <1>a, <2>1, <2>2 DEF RunnerRaises, Quiet, SameRows, Moved, JobInv, Born, StillRuns, RecoversFailed, Heeded, Asked, Agrees, EndPC, Running, Working, WorkPC, TailPC, BeforeLastCheck
  <2> QED BY <2>1, <2>2, <2>3 DEF Moved
<1>9. ASSUME PulseFault(j) PROVE Fine
  <2>1. Moved(j, IF worker[j].pc = "pulseWrite" THEN "checkpoint" ELSE "clear", worker[j].outcome, worker[j].recovering)
    BY <1>9, Moves DEF PulseFault
  <2>2. Quiet
    BY <1>9, <1>t, <1>u DEF PulseFault, rows, others, Quiet, SameRows, RowRec, UsedRec
  <2>3. JobInv(j)'
    BY <1>9, <1>t, <1>u, <1>s, <1>a, <2>1, <2>2 DEF PulseFault, Quiet, SameRows, Moved, JobInv, Born, StillRuns, RecoversFailed, Heeded, Asked, Agrees, EndPC, Running, Working, WorkPC, TailPC, BeforeLastCheck
  <2> QED BY <2>1, <2>2, <2>3 DEF Moved
<1>10. ASSUME Checkpoint(j) PROVE Fine
  <2>1. Quiet
    BY <1>10, <1>t, <1>u DEF Checkpoint, rows, others, Quiet, SameRows, UsedRec
  <2>2. CASE CheckRaises(control[j]) /\ Decide(j, "finish", StopOutcome(control[j]))
    <3>1. Moved(j, "finish", StopOutcome(control[j]), worker[j].recovering)
      BY <2>2, Moves
    <3>2. JobInv(j)'
      BY <1>10, <1>t, <1>u, <1>s, <1>a, <2>1, <2>2, <3>1 DEF Checkpoint, Quiet, SameRows, Moved, JobInv, Born, StillRuns, RecoversFailed, Heeded, Asked, Agrees, EndPC, Running, Working, WorkPC, TailPC, BeforeLastCheck
    <3> QED BY <2>1, <3>1, <3>2 DEF Moved
  <2>3. CASE SetWorker(j, "runner")
    <3>1. Moved(j, "runner", worker[j].outcome, worker[j].recovering)
      BY <2>3, Moves
    <3>2. JobInv(j)'
      BY <1>10, <1>t, <1>u, <1>s, <1>a, <2>1, <2>3, <3>1 DEF Checkpoint, Quiet, SameRows, Moved, JobInv, Born, StillRuns, RecoversFailed, Heeded, Asked, Agrees, EndPC, Running, Working, WorkPC, TailPC, BeforeLastCheck
    <3> QED BY <2>1, <3>1, <3>2 DEF Moved
  <2> QED BY <1>10, <2>2, <2>3 DEF Checkpoint
<1>11. ASSUME PostCheck(j) PROVE Fine
  <2>1. Quiet
    BY <1>11, <1>t, <1>u DEF PostCheck, rows, others, Quiet, SameRows, UsedRec
  <2>2. CASE control[j].cancel /\ Decide(j, "finish", StopOutcome(control[j]))
    <3>1. Moved(j, "finish", StopOutcome(control[j]), worker[j].recovering)
      BY <2>2, Moves
    <3>2. JobInv(j)'
      BY <1>11, <1>t, <1>u, <1>s, <1>a, <2>1, <2>2, <3>1 DEF PostCheck, Quiet, SameRows, Moved, JobInv, Born, StillRuns, RecoversFailed, Heeded, Asked, Agrees, EndPC, Running, Working, WorkPC, TailPC, BeforeLastCheck
    <3> QED BY <2>1, <3>1, <3>2 DEF Moved
  <2>3. CASE ~control[j].cancel /\ SetWorker(j, "batch")
    <3>1. Moved(j, "batch", worker[j].outcome, worker[j].recovering)
      BY <2>3, Moves
    <3>2. JobInv(j)'
      BY <1>11, <1>t, <1>u, <1>s, <1>a, <2>1, <2>3, <3>1 DEF PostCheck, Quiet, SameRows, Moved, JobInv, Born, StillRuns, RecoversFailed, Heeded, Asked, Agrees, EndPC, Running, Working, WorkPC, TailPC, BeforeLastCheck
    <3> QED BY <2>1, <3>1, <3>2 DEF Moved
  <2> QED BY <1>11, <2>2, <2>3 DEF PostCheck
<1>12. ASSUME Fault(j) PROVE Fine
  <2>1. Quiet
    BY <1>12, <1>t, <1>u DEF Fault, rows, others, Quiet, SameRows, UsedRec
  <2>0. used'.faults # 0 /\ worker[j].pc \in {"announceWrite", "batch", "finish", "commit", "attempt"}
    BY <1>12, <1>t, <1>u DEF Fault, EndPC, UsedRec
  <2>2. CASE worker[j].recovering /\ SetWorker(j, IF worker[j].kind = "route" THEN "cleanup" ELSE "done")
    <3>1. Moved(j, IF worker[j].kind = "route" THEN "cleanup" ELSE "done", worker[j].outcome, worker[j].recovering)
      BY <2>2, Moves
    <3>2. JobInv(j)'
      BY <2>0, <2>1, <2>2, <3>1 DEF Quiet, SameRows, Moved, JobInv, Born, StillRuns, RecoversFailed, Heeded, Asked, Agrees, EndPC, Running, Working, WorkPC, TailPC, BeforeLastCheck
    <3> QED BY <2>1, <3>1, <3>2 DEF Moved
  <2>3. CASE ~worker[j].recovering /\ Recover(j)
    <3>1. Moved(j, "finish", "failed", TRUE)
      BY <2>3, Moves
    <3>2. JobInv(j)'
      BY <2>0, <2>1, <2>3, <3>1 DEF Quiet, SameRows, Moved, JobInv, Born, StillRuns, RecoversFailed, Heeded, Asked, Agrees, EndPC, Running, Working, WorkPC, TailPC, BeforeLastCheck
    <3> QED BY <2>1, <3>1, <3>2 DEF Moved
  <2> QED BY <1>12, <2>2, <2>3 DEF Fault
<1>13. ASSUME NEW s \in Result, RunnerReturns(j, s) PROVE Fine
  <2>1. Moved(j, IF worker[j].kind = "route" THEN "postcheck" ELSE "finish", s, worker[j].recovering)
    BY <1>13, Moves DEF RunnerReturns
  <2>2. Quiet
    BY <1>13 DEF RunnerReturns, rows, others, Quiet, SameRows
  <2>3. JobInv(j)'
    BY <1>13, <1>t, <1>u, <2>1, <2>2 DEF RunnerReturns, Result, Quiet, SameRows, Moved, JobInv, Born, StillRuns, RecoversFailed, Heeded, Asked, Agrees, EndPC, Running, Working, WorkPC, TailPC, BeforeLastCheck
  <2> QED BY <2>1, <2>2, <2>3 DEF Moved
<1>14. ASSUME StageFault(j) PROVE Fine
  <2>1. Quiet
    BY <1>14, <1>t, <1>u DEF StageFault, rows, Quiet, SameRows, UsedRec
  <2>0. worker[j].pc = "metadata" /\ worker[j].kind = "stage"
    BY <1>14 DEF StageFault
  <2>2. ASSUME NEW pc \in {"runner", "done"}, SetWorker(j, pc) PROVE Fine
    <3>1. Moved(j, pc, worker[j].outcome, worker[j].recovering)
      BY <2>2, Moves
    <3>2. JobInv(j)'
      BY <2>0, <2>1, <3>1 DEF Quiet, SameRows, Moved, JobInv, Born, StillRuns, RecoversFailed, Heeded, Asked, Agrees, EndPC, Running, Working, WorkPC, TailPC, BeforeLastCheck
    <3> QED BY <2>1, <3>1, <3>2 DEF Moved
  <2> QED BY <1>14, <2>2 DEF StageFault
<1> QED BY <1>1, <1>2, <1>3, <1>4, <1>5, <1>6, <1>7, <1>8, <1>9, <1>10, <1>11, <1>12, <1>13, <1>14 DEF Decides

\* The commits of a worker, and the control entry it removes.
LEMMA CommitsKeep ==
  ASSUME TypeOK, OutcomeInv, NEW j \in Job, JobInv(j),
         Commits(j)
  PROVE  /\ JobInv(j)' /\ UNCHANGED <<aged, accepted, used>>
         /\ \A k \in Job \ {j} : /\ worker'[k] = worker[k] /\ row'[k] = row[k]
                                /\ attempt'[k] = attempt[k] /\ control'[k] = control[k]
<1> DEFINE Fine ==
      /\ JobInv(j)' /\ UNCHANGED <<aged, accepted, used>>
      /\ \A k \in Job \ {j} : /\ worker'[k] = worker[k] /\ row'[k] = row[k]
                             /\ attempt'[k] = attempt[k] /\ control'[k] = control[k]
<1>t. /\ worker[j] \in WorkerRec /\ control \in [Job -> Entry]
      /\ row \in [Job -> RowRec] /\ attempt \in [Job -> Status] /\ row[j] \in RowRec
  BY DEF TypeOK
<1>1. ASSUME StageMetadata(j) PROVE Fine
  <2>1. Moved(j, "runner", worker[j].outcome, worker[j].recovering)
    BY <1>1, Moves DEF StageMetadata
  <2>2. /\ UNCHANGED <<aged, accepted, used, row, control>>
        /\ \A k \in Job \ {j} : attempt'[k] = attempt[k]
        /\ attempt'[j] = "running"
    BY <1>1, <1>t DEF StageMetadata
  <2>3. JobInv(j)'
    BY <1>1, <2>1, <2>2 DEF StageMetadata, Moved, JobInv, Born, StillRuns, RecoversFailed, Heeded, Asked, Agrees, EndPC, Running, Working, WorkPC, TailPC, BeforeLastCheck
  <2> QED BY <2>1, <2>2, <2>3 DEF Moved
<1>2. ASSUME FinishCommit(j) PROVE Fine
  <2>1. Moved(j, "attempt", worker[j].outcome, worker[j].recovering)
    BY <1>2, Moves DEF FinishCommit
  <2>2. /\ UNCHANGED <<aged, accepted, used, attempt, control>>
        /\ \A k \in Job \ {j} : row'[k] = row[k]
        /\ row'[j].status = worker[j].outcome
    BY <1>2, <1>t DEF FinishCommit, others, RowRec
  <2>3. worker[j].pc = "commit" /\ worker[j].outcome \in Ended
    BY <1>2 DEF FinishCommit, OutcomeInv, EndPC
  <2>4. JobInv(j)'
    BY <2>1, <2>2, <2>3 DEF Moved, Ended, Result, JobInv, Born, StillRuns, RecoversFailed, Heeded, Asked, Agrees, EndPC, Running, Working, WorkPC, TailPC, BeforeLastCheck
  <2> QED BY <2>1, <2>2, <2>4 DEF Moved
<1>3. ASSUME FinishAttempt(j) PROVE Fine
  <2>1. Moved(j, IF worker[j].kind = "route" THEN "cleanup" ELSE "done",
              worker[j].outcome, worker[j].recovering)
    BY <1>3, Moves DEF FinishAttempt
  <2>2. /\ UNCHANGED <<aged, accepted, used, row, control>>
        /\ \A k \in Job \ {j} : attempt'[k] = attempt[k]
        /\ attempt'[j] = worker[j].outcome
    BY <1>3, <1>t DEF FinishAttempt, others
  <2>3. JobInv(j)'
    BY <1>3, <2>1, <2>2 DEF FinishAttempt, Moved, JobInv, Born, StillRuns, RecoversFailed, Heeded, Asked, Agrees, EndPC, Running, Working, WorkPC, TailPC, BeforeLastCheck
  <2> QED BY <2>1, <2>2, <2>3 DEF Moved
<1>4. ASSUME Clear(j) PROVE Fine
  <2>1. Moved(j, "done", worker[j].outcome, worker[j].recovering)
    BY <1>4, Moves DEF Clear
  <2>2. /\ UNCHANGED <<aged, accepted, used, row, attempt>>
        /\ \A k \in Job \ {j} : control'[k] = control[k]
        /\ control'[j] = NoEntry
    BY <1>4, <1>t DEF Clear, rows, others
  <2>3. JobInv(j)'
    BY <1>4, <2>1, <2>2 DEF Clear, NoEntry, Moved, JobInv, Born, StillRuns, RecoversFailed, Heeded, Asked, Agrees, EndPC, Running, Working, WorkPC, TailPC, BeforeLastCheck
  <2> QED BY <2>1, <2>2, <2>3 DEF Moved
<1> QED BY <1>1, <1>2, <1>3, <1>4 DEF Commits

\* A new row and its worker.
LEMMA NewBorn ==
  ASSUME NEW j \in Job, JobInv(j), row[j].status = "none",
         row'[j].status = "running",
         NEW kind \in {"route", "stage"}, worker'[j] = NewWorker(kind),
         UNCHANGED <<attempt, control, aged, accepted, used>>
  PROVE  JobInv(j)' /\ worker'[j].pc = "metadata" /\ worker'[j].kind = kind
<1>1. /\ worker'[j].pc = "metadata" /\ worker'[j].kind = kind
      /\ worker'[j].outcome = "running" /\ worker'[j].recovering = FALSE
  <2>1. /\ NewWorker(kind).pc = "metadata" /\ NewWorker(kind).kind = kind
        /\ NewWorker(kind).outcome = "running"
    BY DEF NewWorker, NoWorker, NoParams
  <2>2. NewWorker(kind).recovering = FALSE
    BY DEF NewWorker, NoWorker, NoParams
  <2> QED BY <2>1, <2>2
<1>2. JobInv(j)'
  BY <1>1 DEF JobInv, Born, StillRuns, RecoversFailed, Heeded, Asked, Agrees, EndPC, Running, Working, WorkPC, TailPC, BeforeLastCheck
<1> QED BY <1>1, <1>2

\* A request moves the worker of the row it inserted.
LEMMA StartKeeps ==
  ASSUME TypeOK, ReqInv, NEW r \in Request, NEW j \in Job, req[r].job = j,
         JobInv(j), ClaimMetadata(r) \/ StartWorker(r)
  PROVE  /\ JobInv(j)' /\ UNCHANGED <<row, aged, accepted, used>> /\ Starts(r)
         /\ \A k \in Job \ {j} : /\ worker'[k] = worker[k]
                                /\ attempt'[k] = attempt[k] /\ control'[k] = control[k]
<1>t. /\ Starts(r) /\ worker[j].pc = req[r].pc /\ worker[j].kind = "route"
  BY DEF ReqInv, Starts, ClaimMetadata, StartWorker
<1>u. /\ control \in [Job -> Entry] /\ attempt \in [Job -> Status] /\ control[j] \in Entry
  BY <1>t DEF TypeOK
<1>1. CASE ClaimMetadata(r)
  <2>1. Moved(j, "register", worker[j].outcome, worker[j].recovering)
    BY <1>1, <1>t, Moves DEF ClaimMetadata
  <2>2. /\ UNCHANGED <<aged, accepted, used, row, control>>
        /\ \A k \in Job \ {j} : attempt'[k] = attempt[k]
        /\ attempt'[j] = "running"
    BY <1>1, <1>u DEF ClaimMetadata
  <2>3. JobInv(j)'
    BY <1>1, <1>t, <2>1, <2>2 DEF ClaimMetadata, Moved, JobInv, Born, StillRuns, RecoversFailed, Heeded, Asked, Agrees, EndPC, Running, Working, WorkPC, TailPC, BeforeLastCheck
  <2> QED BY <1>t, <2>1, <2>2, <2>3 DEF Moved
<1>2. CASE StartWorker(r)
  <2>1. Moved(j, "announce", worker[j].outcome, worker[j].recovering)
    BY <1>2, <1>t, Moves DEF StartWorker
  <2>2. /\ UNCHANGED <<aged, accepted, used, row, attempt>>
        /\ \A k \in Job \ {j} : control'[k] = control[k]
        /\ control'[j].cancel = control[j].cancel /\ control'[j].present
        /\ control'[j].timedOut = control[j].timedOut
    BY <1>2, <1>t, <1>u DEF StartWorker, Register, rows, others
  <2>3. JobInv(j)'
    <3>1. worker[j].pc = "register" /\ JobInv(j)
      BY <1>2, <1>t DEF StartWorker
    <3>2. /\ row'[j] = row[j] /\ attempt'[j] = attempt[j] /\ accepted'[j] = accepted[j]
          /\ used'.faults = used.faults /\ aged' = aged
      BY <2>2
    <3> QED BY <1>t, <2>1, <2>2, <3>1, <3>2 DEF Moved, JobInv, Born, StillRuns, RecoversFailed, Heeded, Asked, Agrees, EndPC, Running, Working, WorkPC, TailPC, BeforeLastCheck
  <2> QED BY <1>t, <2>1, <2>2, <2>3 DEF Moved
<1> QED BY <1>1, <1>2

\* The control entry of a job is written: by a request, or by its deadline.
LEMMA SignalKeeps ==
  ASSUME TypeOK, NEW j \in Job, JobInv(j), UNCHANGED <<row, attempt, worker, aged, used>>,
         \/ /\ control' = [control EXCEPT ![j] = RequestCancel(@, FALSE)]
            /\ row[j].status # "none"
            /\ accepted' = [accepted EXCEPT ![j] =
                 IF @ = "early" \/ worker[j].pc \in BeforeLastCheck
                 THEN "early" ELSE "late"]
         \/ /\ \/ control' = [control EXCEPT ![j] = RequestCancel(@, TRUE)]
               \/ control' = [control EXCEPT ![j].deadline = "passed"]
            /\ UNCHANGED accepted
  PROVE  /\ JobInv(j)'
         /\ \A k \in Job \ {j} : control'[k] = control[k] /\ accepted'[k] = accepted[k]
<1>t. /\ control \in [Job -> Entry] /\ control[j] \in Entry
      /\ accepted \in [Job -> {"no", "early", "late"}]
  BY DEF TypeOK
<1>1. CASE /\ control' = [control EXCEPT ![j] = RequestCancel(@, FALSE)]
           /\ row[j].status # "none"
           /\ accepted' = [accepted EXCEPT ![j] =
                IF @ = "early" \/ worker[j].pc \in BeforeLastCheck
                THEN "early" ELSE "late"]
  <2>1. /\ control'[j].cancel /\ control'[j].present
        /\ \A k \in Job \ {j} : control'[k] = control[k] /\ accepted'[k] = accepted[k]
        /\ accepted'[j] = IF accepted[j] = "early" \/ worker[j].pc \in BeforeLastCheck
                          THEN "early" ELSE "late"
    BY <1>1, <1>t DEF RequestCancel, Entry
  <2>2. JobInv(j)'
    BY <1>1, <1>t, <2>1 DEF JobInv, Born, StillRuns, RecoversFailed, Heeded, Asked, Agrees, EndPC, Running, Working, WorkPC, TailPC, BeforeLastCheck
  <2> QED BY <2>1, <2>2
<1>2. CASE control' = [control EXCEPT ![j] = RequestCancel(@, TRUE)] /\ UNCHANGED accepted
  <2>1. /\ control'[j].cancel /\ control'[j].present /\ control'[j].timedOut
        /\ \A k \in Job \ {j} : control'[k] = control[k]
    BY <1>2, <1>t DEF RequestCancel, Entry
  <2>2. JobInv(j)'
    BY <1>2, <1>t, <2>1 DEF JobInv, Born, StillRuns, RecoversFailed, Heeded, Asked, Agrees, EndPC, Running, Working, WorkPC, TailPC, BeforeLastCheck
  <2> QED BY <1>2, <2>1, <2>2
<1>3. CASE control' = [control EXCEPT ![j].deadline = "passed"] /\ UNCHANGED accepted
  <2>1. /\ control'[j].cancel = control[j].cancel /\ control'[j].present = control[j].present
        /\ control'[j].timedOut = control[j].timedOut
        /\ \A k \in Job \ {j} : control'[k] = control[k]
    BY <1>3, <1>t DEF Entry
  <2>2. JobInv(j)'
    BY <1>3, <1>t, <2>1 DEF JobInv, Born, StillRuns, RecoversFailed, Heeded, Asked, Agrees, EndPC, Running, Working, WorkPC, TailPC, BeforeLastCheck
  <2> QED BY <1>3, <2>1, <2>2
<1> QED BY <1>1, <1>2, <1>3

\* The sweep closes and marks old rows; a restart forgets all that is in memory.
LEMMA SweepKeeps ==
  ASSUME TypeOK, SweepInv, NEW k \in Job, JobInv(k),
         Sweeps
  PROVE  JobInv(k)' /\ (row[k].status # "none" => row'[k].status # "none")
<1>t. row \in [Job -> RowRec] /\ attempt \in [Job -> Status] /\ row[k] \in RowRec
  BY DEF TypeOK
<1>1. CASE SweepCommit
  <2>1. /\ UNCHANGED <<attempt, control, worker, aged, accepted, used>>
        /\ row'[k].status = IF k \in sweep.rows THEN "failed" ELSE row[k].status
    BY <1>1, <1>t DEF SweepCommit, threads, RowRec
  <2>2. k \in sweep.rows => k \in aged /\ row[k].status # "none"
    BY DEF SweepInv, JobInv, Born
  <2> QED BY <2>1, <2>2 DEF JobInv, Born, StillRuns, RecoversFailed, Heeded, Asked, Agrees, EndPC, Running, Working, WorkPC, TailPC, BeforeLastCheck
<1>2. CASE \E j \in Job : SweepAttempt(j)
  <2>1. PICK j \in Job : SweepAttempt(j)
    BY <1>2
  <2>2. /\ UNCHANGED <<row, control, worker, aged, accepted, used>>
        /\ j \in aged /\ k # j => attempt'[k] = attempt[k]
    BY <1>t, <2>1 DEF SweepAttempt, threads, SweepInv
  <2>3. j \in aged
    BY <2>1 DEF SweepAttempt, SweepInv
  <2> QED BY <2>2, <2>3 DEF JobInv, Born, StillRuns, RecoversFailed, Heeded, Asked, Agrees, EndPC, Running, Working, WorkPC, TailPC, BeforeLastCheck
<1>3. CASE \E j \in Job : Age(j)
  <2>1. PICK j \in Job : Age(j)
    BY <1>3
  <2>2. /\ UNCHANGED <<row, attempt, control, worker, accepted, used>>
        /\ aged' = aged \cup {j} /\ row[j].status = "running"
    BY <2>1 DEF Age, rows, threads, Running
  <2> QED BY <2>2 DEF JobInv, Born, StillRuns, RecoversFailed, Heeded, Asked, Agrees, EndPC, Running, Working, WorkPC, TailPC, BeforeLastCheck
<1> QED BY <1>1, <1>2, <1>3 DEF Sweeps

LEMMA CrashKeeps ==
  ASSUME TypeOK, NEW k \in Job, JobInv(k), Crash
  PROVE  JobInv(k)'
<1>1. /\ UNCHANGED <<row, attempt, aged, accepted>> /\ control'[k] = NoEntry
      /\ used'.faults = used.faults
  BY DEF Crash, rows, TypeOK, UsedRec
<1>t. worker[k] \in WorkerRec
  BY DEF TypeOK
<1>2. worker'[k] = IF worker[k].pc = "none" THEN NoWorker
                   ELSE [NoWorker EXCEPT !.pc = "done", !.kind = worker[k].kind]
  BY DEF Crash
<1>3. /\ worker'[k].pc = IF worker[k].pc = "none" THEN "none" ELSE "done"
      /\ worker'[k].outcome = "running" /\ worker'[k].recovering = FALSE
  BY <1>t, <1>2 DEF NoWorker, WorkerRec
<1>4. worker[k].pc # "none" => worker'[k].kind = worker[k].kind
  BY <1>t, <1>2 DEF NoWorker, WorkerRec
<1>5. /\ control'[k].cancel = FALSE /\ worker'[k].recovering = FALSE
      /\ worker'[k].outcome = "running" /\ worker'[k].pc \in {"none", "done"}
      /\ worker'[k].pc = "none" <=> worker[k].pc = "none"
  BY <1>1, <1>3 DEF NoEntry
<1>6. Born(k)' /\ StillRuns(k)' /\ RecoversFailed(k)' /\ Asked(k)' /\ Agrees(k)'
  BY <1>1, <1>5 DEF JobInv, Born, StillRuns, RecoversFailed, Asked, Agrees, EndPC, Working, WorkPC, TailPC
<1>7. Heeded(k)'
  BY <1>1, <1>4, <1>5 DEF JobInv, Born, Heeded, BeforeLastCheck, WorkPC
<1> QED BY <1>6, <1>7 DEF JobInv

\* A database error in a claim ends the request before its row, starts the job
\* without an attempt, or leaves the row without a worker.
LEMMA ClaimFaultKeeps ==
  ASSUME TypeOK, ReqInv, NEW r \in Claimer, ClaimFault(r), \A k \in Job : JobInv(k)
  PROVE  (\A k \in Job : JobInv(k)') /\ ReqInv'
<1>t. req \in [Request -> ReqRec] /\ used \in UsedRec /\ r \in Request
  BY DEF TypeOK, Request
<1>q. Quiet
  BY <1>t, BoundsAssumption DEF ClaimFault, rows, Quiet, SameRows, UsedRec
<1>1. CASE req' = [req EXCEPT ![r] = NoReq] /\ UNCHANGED worker
  <2>1. \A k \in Job : JobInv(k)'
    BY <1>1, <1>q, Apart DEF Quiet, SameRows
  <2>2. req'[r].pc = "idle" /\ \A q \in Request \ {r} : req'[q] = req[q]
    BY <1>1, <1>t DEF NoReq
  <2>3. ReqInv'
    BY <1>1, <1>q, <2>2 DEF ReqInv, Starts, Quiet, SameRows
  <2> QED BY <2>1, <2>3
<1>2. ASSUME req[r].pc = "metadata", NEW pc \in {"register", "done"},
             SetWorker(req[r].job, pc),
             \/ pc = "register" /\ req' = [req EXCEPT ![r].pc = "register"]
             \/ pc = "done" /\ req' = [req EXCEPT ![r] = NoReq]
      PROVE  (\A k \in Job : JobInv(k)') /\ ReqInv'
  <2>1. PICK j \in Job : j = req[r].job
    BY <1>t, <1>2 DEF ReqInv, Starts
  <2>2. worker[j].pc = "metadata" /\ worker[j].kind = "route"
    BY <1>t, <1>2, <2>1 DEF ReqInv, Starts
  <2>3. Moved(j, pc, worker[j].outcome, worker[j].recovering)
    BY <1>2, <2>1, Moves
  <2>4. JobInv(j)'
    BY <1>2, <1>q, <2>2, <2>3 DEF Quiet, SameRows, Moved, JobInv, Born, StillRuns, RecoversFailed, Heeded, Asked, Agrees, EndPC, Running, Working, WorkPC, TailPC, BeforeLastCheck
  <2>5. \A k \in Job \ {j} : worker'[k] = worker[k]
    BY <2>3 DEF Moved
  <2>6. \A k \in Job : JobInv(k)'
    BY <1>q, <2>4, <2>5, Apart DEF Quiet, SameRows
  <2>7. \A q \in Request \ {r} : req'[q] = req[q] /\ (Starts(q) => req[q].job # j)
    BY <1>t, <1>2, <2>1 DEF ReqInv, Starts
  <2>8. CASE pc = "register"
    <3>1. req'[r].pc = "register" /\ req'[r].job = j
      BY <1>t, <1>2, <2>1, <2>8 DEF ReqRec
    <3>2. worker'[j].pc = "register" /\ worker'[j].kind = "route"
      BY <2>2, <2>3, <2>8 DEF Moved
    <3> QED BY <1>t, <1>q, <2>5, <2>6, <2>7, <3>1, <3>2 DEF ReqInv, Starts, Quiet, SameRows
  <2>9. CASE pc = "done"
    <3>1. req'[r].pc = "idle"
      BY <1>t, <1>2, <2>9 DEF NoReq
    <3> QED BY <1>t, <1>q, <2>5, <2>6, <2>7, <3>1 DEF ReqInv, Starts, Quiet, SameRows
  <2> QED BY <1>2, <2>8, <2>9
<1> QED BY <1>1, <1>2 DEF ClaimFault

----------------------------------------------------------------------------
(* All jobs.                                                               *)

LEMMA AsideKeeps ==
  ASSUME TypeOK, Aside
  PROVE  /\ \A k \in Job : row'[k].status = row[k].status
         /\ UNCHANGED <<attempt, control, worker, aged, accepted>>
         /\ used'.faults = 0 => used.faults = 0
<1>t. row \in [Job -> RowRec] /\ used \in UsedRec
  BY DEF TypeOK
<1>1. CASE \E r \in Claimer : \E t \in Type : ClaimCheck(r, t)
  BY <1>1 DEF ClaimCheck, rows, threads
<1>2. CASE \E r \in Canceller : \E j \in Job : CancelLookup(r, j)
  BY <1>2 DEF CancelLookup, rows, threads
<1>3. CASE \E r \in Request : CancelPersist(r)
  BY <1>3, <1>t DEF CancelPersist, threads, RowRec
<1>4. CASE \E t \in Type : StageCheck(t) \/ StageCreateFails(t)
  BY <1>4, <1>t, BoundsAssumption DEF StageCheck, StageCreateFails, rows, threads, UsedRec
<1>5. CASE \E j \in Job : WatchWakes(j) \/ WatchReads(j)
  BY <1>5 DEF WatchWakes, WatchReads, rows, others
<1>6. CASE \E j \in Job : WatchWrites(j)
  BY <1>6, <1>t DEF WatchWrites, others, RowRec
<1>7. CASE SweepRead \/ UNCHANGED vars
  BY <1>7 DEF SweepRead, rows, threads, vars
<1> QED BY <1>1, <1>2, <1>3, <1>4, <1>5, <1>6, <1>7 DEF Aside

\* A new row is one that nobody knows, and the others are left alone.
LEMMA CreatesOne ==
  ASSUME TypeOK, \A k \in Job : JobInv(k), Creates
  PROVE  \E j \in Job :
           /\ JobInv(j)' /\ worker[j].pc = "none" /\ row[j].status = "none"
           /\ row'[j].status = "running" /\ worker'[j].pc = "metadata"
           /\ UNCHANGED <<attempt, control, aged, accepted, used, sweep>>
           /\ \A k \in Job \ {j} : worker'[k] = worker[k] /\ row'[k] = row[k]
           /\ \/ UNCHANGED req
              \/ \E r \in Request :
                   /\ req[r].pc = "create" /\ worker'[j].kind = "route"
                   /\ req' = [req EXCEPT ![r] = [@ EXCEPT !.pc = "metadata",
                                                          !.job = j]]
<1>1. CASE \E r \in Request : ClaimCreate(r)
  <2>1. PICK r \in Request : ClaimCreate(r)
    BY <1>1
  <2>2. PICK j \in Job :
          /\ CreateRow(j, req[r].type)
          /\ req' = [req EXCEPT ![r] = [@ EXCEPT !.pc = "metadata", !.job = j]]
          /\ worker' = [worker EXCEPT ![j] = NewWorker("route")]
    BY <2>1 DEF ClaimCreate
  <2>3. /\ req[r].pc = "create" /\ row[j].status = "none"
        /\ UNCHANGED <<attempt, control, aged, accepted, used, sweep>>
    BY <2>1, <2>2 DEF ClaimCreate, CreateRow
  <2>4. /\ row'[j].status = "running" /\ worker'[j] = NewWorker("route")
        /\ \A k \in Job \ {j} : worker'[k] = worker[k] /\ row'[k] = row[k]
    BY <2>2 DEF CreateRow, TypeOK
  <2>5. JobInv(j)' /\ worker'[j].pc = "metadata" /\ worker'[j].kind = "route"
    BY <2>3, <2>4, NewBorn
  <2>6. worker[j].pc = "none"
    BY <2>3 DEF JobInv, Born
  <2> QED BY <2>2, <2>3, <2>4, <2>5, <2>6
<1>2. CASE \E t \in Type : StageCreate(t) \/ TailCreate(t)
  <2>1. PICK t \in Type : StageCreate(t) \/ TailCreate(t)
    BY <1>2
  <2>2. PICK j \in Job : CreateUncontrolled(j, t)
    BY <2>1 DEF StageCreate, TailCreate
  <2>3. /\ row[j].status = "none"
        /\ UNCHANGED <<attempt, control, aged, accepted, used, sweep, req>>
    BY <2>1, <2>2 DEF StageCreate, TailCreate, CreateUncontrolled, CreateRow
  <2>4. /\ row'[j].status = "running" /\ worker'[j] = NewWorker("stage")
        /\ \A k \in Job \ {j} : worker'[k] = worker[k] /\ row'[k] = row[k]
    BY <2>2 DEF CreateUncontrolled, CreateRow, TypeOK
  <2>5. JobInv(j)' /\ worker'[j].pc = "metadata"
    BY <2>3, <2>4, NewBorn
  <2>6. worker[j].pc = "none"
    BY <2>3 DEF JobInv, Born
  <2> QED BY <2>3, <2>4, <2>5, <2>6
<1> QED BY <1>1, <1>2 DEF Creates

LEMMA JobsStep ==
  ASSUME TypeOK, OutcomeInv, EndInv, [Next]_vars
  PROVE  \A k \in Job : JobInv(k)'
<1> SUFFICES ASSUME NEW k \in Job PROVE JobInv(k)'
  OBVIOUS
<1>0. (\A j \in Job : JobInv(j)) /\ ReqInv /\ SweepInv
  BY DEF EndInv
<1>1. CASE Aside
  BY <1>0, <1>1, AsideKeeps, Apart
<1>2. ASSUME NEW j \in Job, Decides(j) PROVE JobInv(k)'
  <2>1. JobInv(j)' /\ Quiet /\ \A i \in Job \ {j} : worker'[i] = worker[i]
    BY <1>0, <1>2, WorkerKeeps
  <2>2. CASE k # j
    BY <1>0, <2>1, <2>2, Apart DEF Quiet, SameRows
  <2> QED BY <2>1, <2>2
<1>3. ASSUME NEW j \in Job, Commits(j) PROVE JobInv(k)'
  <2>1. /\ JobInv(j)' /\ UNCHANGED <<aged, accepted, used>>
        /\ \A i \in Job \ {j} : /\ worker'[i] = worker[i] /\ row'[i] = row[i]
                               /\ attempt'[i] = attempt[i] /\ control'[i] = control[i]
    BY <1>0, <1>3, CommitsKeep
  <2>2. CASE k # j
    BY <1>0, <2>1, <2>2, Apart
  <2> QED BY <2>1, <2>2
<1>4. CASE Creates
  <2>1. PICK j \in Job :
          /\ JobInv(j)' /\ UNCHANGED <<attempt, control, aged, accepted, used>>
          /\ \A i \in Job \ {j} : worker'[i] = worker[i] /\ row'[i] = row[i]
    BY <1>0, <1>4, CreatesOne
  <2>2. CASE k # j
    BY <1>0, <2>1, <2>2, Apart
  <2> QED BY <2>1, <2>2
<1>5. ASSUME NEW r \in Request, ClaimMetadata(r) \/ StartWorker(r) PROVE JobInv(k)'
  <2> DEFINE j == req[r].job
  <2>1. j \in Job
    BY <1>0, <1>5 DEF ReqInv, Starts, ClaimMetadata, StartWorker
  <2>2. PICK i \in Job : i = req[r].job
    BY <2>1
  <2>3. /\ JobInv(i)' /\ UNCHANGED <<row, aged, accepted, used>>
        /\ \A l \in Job \ {i} : /\ worker'[l] = worker[l]
                               /\ attempt'[l] = attempt[l] /\ control'[l] = control[l]
    BY <1>0, <1>5, <2>2, StartKeeps
  <2>4. CASE k # i
    BY <1>0, <2>3, <2>4, Apart
  <2> QED BY <2>3, <2>4
<1>6. ASSUME NEW r \in Request, CancelRequest(r) PROVE JobInv(k)'
  <2>1. PICK j \in Job : j = req[r].job
    BY <1>0, <1>6 DEF ReqInv, CancelRequest
  <2>2. row[j].status # "none" /\ UNCHANGED <<row, attempt, worker, aged, used>>
    BY <1>0, <1>6, <2>1 DEF ReqInv, CancelRequest, rows, threads
  <2>3. /\ control' = [control EXCEPT ![j] = RequestCancel(@, FALSE)]
        /\ accepted' = [accepted EXCEPT ![j] =
             IF @ = "early" \/ worker[j].pc \in BeforeLastCheck
             THEN "early" ELSE "late"]
    BY <1>6, <2>1 DEF CancelRequest
  <2>4. /\ JobInv(j)'
        /\ \A i \in Job \ {j} : control'[i] = control[i] /\ accepted'[i] = accepted[i]
    BY <1>0, <2>2, <2>3, SignalKeeps
  <2>5. CASE k # j
    BY <1>0, <2>2, <2>4, <2>5, Apart
  <2> QED BY <2>4, <2>5
<1>7. ASSUME NEW j \in Job, WatchExpires(j) \/ DeadlinePasses(j) PROVE JobInv(k)'
  <2>1. /\ UNCHANGED <<row, attempt, worker, aged, used, accepted>>
        /\ \/ control' = [control EXCEPT ![j] = RequestCancel(@, TRUE)]
           \/ control' = [control EXCEPT ![j].deadline = "passed"]
    BY <1>7 DEF WatchExpires, DeadlinePasses, rows, threads, others
  <2>2. /\ JobInv(j)'
        /\ \A i \in Job \ {j} : control'[i] = control[i] /\ accepted'[i] = accepted[i]
    BY <1>0, <2>1, SignalKeeps
  <2>3. CASE k # j
    BY <1>0, <2>1, <2>2, <2>3, Apart
  <2> QED BY <2>2, <2>3
<1>8. CASE Sweeps
  BY <1>0, <1>8, SweepKeeps
<1>9. CASE Crash
  BY <1>0, <1>9, CrashKeeps
<1>10. ASSUME NEW r \in Claimer, ClaimFault(r) PROVE JobInv(k)'
  BY <1>0, <1>10, ClaimFaultKeeps
<1> QED BY <1>1, <1>2, <1>3, <1>4, <1>5, <1>6, <1>7, <1>8, <1>9, <1>10, StepKinds
        DEF Signals

----------------------------------------------------------------------------
(* The requests and the sweep.                                             *)

LEMMA ReqStep ==
  ASSUME TypeOK, OutcomeInv, EndInv, [Next]_vars
  PROVE  ReqInv'
<1>0. (\A j \in Job : JobInv(j)) /\ ReqInv /\ SweepInv
  BY DEF EndInv
<1>t. req \in [Request -> ReqRec] /\ Claimer \subseteq Request /\ Canceller \subseteq Request
  BY DEF TypeOK, Request
<1>1. CASE Aside
  <2>0. /\ \A k \in Job : row'[k].status = row[k].status
        /\ worker' = worker
    BY <1>1, AsideKeeps
  <2>1. ASSUME NEW r \in Request, NEW q, req' = [req EXCEPT ![r] = q],
               q.pc \notin {"metadata", "register", "persist"},
               q.pc = "request" => q.job \in Job /\ row[q.job].status # "none"
        PROVE  ReqInv'
    BY <1>0, <1>t, <2>0, <2>1 DEF ReqInv, Starts
  <2>2. ASSUME NEW r \in Claimer, NEW t \in Type, ClaimCheck(r, t) PROVE ReqInv'
    <3>1. req' = [req EXCEPT ![r] = [NoReq EXCEPT !.pc = "create", !.type = t]]
      BY <2>2 DEF ClaimCheck
    <3>2. [NoReq EXCEPT !.pc = "create", !.type = t].pc = "create"
      BY DEF NoReq
    <3> QED BY <1>t, <2>1, <3>1, <3>2
  <2>3. ASSUME NEW r \in Canceller, NEW j \in Job, CancelLookup(r, j) PROVE ReqInv'
    <3> DEFINE q == [NoReq EXCEPT !.pc = "request", !.job = j, !.snap = row[j].params]
    <3>1. req' = [req EXCEPT ![r] = q] /\ row[j].status = "running"
      BY <2>3 DEF CancelLookup, Running
    <3>2. q.pc = "request" /\ q.job = j
      BY DEF NoReq
    <3> HIDE DEF q
    <3> QED BY <1>t, <2>1, <3>1, <3>2
  <2>4. ASSUME NEW r \in Request, CancelPersist(r) PROVE ReqInv'
    BY <2>1, <2>4 DEF CancelPersist, NoReq
  <2>5. CASE UNCHANGED req
    BY <1>0, <2>0, <2>5, ReqKept
  <2>6. \/ UNCHANGED req
        \/ \E r \in Claimer : \E t \in Type : ClaimCheck(r, t)
        \/ \E r \in Canceller : \E j \in Job : CancelLookup(r, j)
        \/ \E r \in Request : CancelPersist(r)
    BY <1>1 DEF Aside, StageCheck, StageCreateFails, WatchWakes, WatchReads, WatchWrites, SweepRead,
       vars, others
  <2> QED BY <2>2, <2>3, <2>4, <2>5, <2>6
<1>2. ASSUME NEW j \in Job, Decides(j) PROVE ReqInv'
  <2>1. Quiet /\ \A i \in Job \ {j} : worker'[i] = worker[i]
    BY <1>0, <1>2, WorkerKeeps
  <2>2. /\ UNCHANGED req
        /\ worker[j].pc \notin {"metadata", "register"} \/ worker[j].kind = "stage"
    BY <1>2 DEF Decides, Announce, AnnounceWrite, Pulse, PulseWrite, Batch, Finish,
       RunnerStops, RunnerRaises, PulseFault, Checkpoint, PostCheck, Fault,
       StageFault, RunnerReturns, others, EndPC
  <2> QED BY <1>0, <2>1, <2>2, ReqKept DEF Quiet, SameRows
<1>3. ASSUME NEW j \in Job, Commits(j) PROVE ReqInv'
  <2>1. \A i \in Job \ {j} : worker'[i] = worker[i] /\ row'[i] = row[i]
    BY <1>0, <1>3, CommitsKeep
  <2>2. /\ UNCHANGED req
        /\ worker[j].pc \notin {"metadata", "register"} \/ worker[j].kind = "stage"
    BY <1>3 DEF Commits, StageMetadata, FinishCommit, FinishAttempt, Clear, others
  <2>3. row[j].status # "none" => row'[j].status # "none"
    <3>1. JobInv(j)' /\ worker[j].pc # "none" /\ worker'[j].pc # "none"
      <4>1. worker[j].pc # "none" /\ JobInv(j)'
        BY <1>0, <1>3, CommitsKeep DEF Commits, StageMetadata, FinishCommit,
           FinishAttempt, Clear
      <4>2. \E pc \in {"runner", "attempt", "cleanup", "done"} : SetWorker(j, pc)
        BY <1>3 DEF Commits, StageMetadata, FinishCommit, FinishAttempt, Clear
      <4> QED BY <4>1, <4>2, Moves DEF Moved
    <3> QED BY <3>1 DEF JobInv, Born
  <2> QED BY <1>0, <2>1, <2>2, <2>3, ReqKept
<1>4. CASE Creates
  <2>1. PICK j \in Job :
           /\ worker[j].pc = "none" /\ row[j].status = "none"
           /\ row'[j].status = "running" /\ worker'[j].pc = "metadata"
           /\ \A k \in Job \ {j} : worker'[k] = worker[k] /\ row'[k] = row[k]
           /\ \/ UNCHANGED req
              \/ \E r \in Request :
                   /\ req[r].pc = "create" /\ worker'[j].kind = "route"
                   /\ req' = [req EXCEPT ![r] = [@ EXCEPT !.pc = "metadata",
                                                          !.job = j]]
    BY <1>0, <1>4, CreatesOne
  <2>2. CASE UNCHANGED req
    BY <1>0, <2>1, <2>2, ReqKept
  <2>3. ASSUME NEW r \in Request, worker'[j].kind = "route",
               req' = [req EXCEPT ![r] = [@ EXCEPT !.pc = "metadata", !.job = j]]
        PROVE  ReqInv'
    <3>1. /\ req'[r].pc = "metadata" /\ req'[r].job = j
          /\ \A q \in Request \ {r} : req'[q] = req[q]
      BY <1>t, <2>3 DEF ReqRec
    <3>2. \A q \in Request : Starts(q) => req[q].job # j
      BY <1>0, <2>1 DEF ReqInv, Starts
    <3>3. \A q \in Request : Starts(q)' =>
            /\ req'[q].job \in Job /\ worker'[req'[q].job].pc = req'[q].pc
            /\ worker'[req'[q].job].kind = "route"
      <4> SUFFICES ASSUME NEW q \in Request, Starts(q)'
                   PROVE  /\ req'[q].job \in Job
                          /\ worker'[req'[q].job].pc = req'[q].pc
                          /\ worker'[req'[q].job].kind = "route"
        OBVIOUS
      <4>1. CASE q = r
        BY <2>1, <2>3, <3>1, <4>1
      <4>2. CASE q # r
        <5>1. req'[q] = req[q] /\ Starts(q)
          BY <3>1, <4>2 DEF Starts
        <5>2. req[q].job \in Job \ {j}
          BY <1>0, <3>2, <5>1 DEF ReqInv
        <5>3. worker[req[q].job].pc = req[q].pc /\ worker[req[q].job].kind = "route"
          BY <1>0, <5>1 DEF ReqInv
        <5> QED BY <2>1, <5>1, <5>2, <5>3
      <4> QED BY <4>1, <4>2
    <3>4. \A p, q \in Request :
            Starts(p)' /\ Starts(q)' /\ req'[p].job = req'[q].job => p = q
      BY <1>0, <3>1, <3>2 DEF ReqInv, Starts
    <3>5. \A q \in Request : req'[q].pc \in {"request", "persist"} =>
            req'[q].job \in Job /\ row'[req'[q].job].status # "none"
      <4>1. \A q \in Request : req[q].pc \in {"request", "persist"} =>
              req[q].job \in Job \ {j} /\ row[req[q].job].status # "none"
        BY <1>0, <2>1 DEF ReqInv
      <4> SUFFICES ASSUME NEW q \in Request, req'[q].pc \in {"request", "persist"}
                   PROVE  req'[q].job \in Job /\ row'[req'[q].job].status # "none"
        OBVIOUS
      <4>2. q # r
        BY <3>1
      <4>3. req'[q] = req[q]
        BY <3>1, <4>2
      <4>4. req[q].job \in Job \ {j} /\ row[req[q].job].status # "none"
        BY <4>1, <4>3
      <4>5. row'[req[q].job] = row[req[q].job]
        BY <2>1, <4>4
      <4> QED BY <4>3, <4>4, <4>5
    <3> QED BY <3>3, <3>4, <3>5 DEF ReqInv
  <2> QED BY <2>1, <2>2, <2>3
<1>5. ASSUME NEW r \in Request, ClaimMetadata(r) \/ StartWorker(r) PROVE ReqInv'
  <2>1. PICK j \in Job : j = req[r].job
    BY <1>0, <1>5 DEF ReqInv, Starts, ClaimMetadata, StartWorker
  <2>2. /\ Starts(r) /\ UNCHANGED row
        /\ \A k \in Job \ {j} : worker'[k] = worker[k]
    BY <1>0, <1>5, <2>1, StartKeeps
  <2>3. \A q \in Request \ {r} : Starts(q) => req[q].job # j
    BY <1>0, <2>1, <2>2 DEF ReqInv
  <2>4. CASE ClaimMetadata(r)
    <3>1. /\ req'[r].pc = "register" /\ req'[r].job = j
          /\ \A q \in Request \ {r} : req'[q] = req[q]
      BY <1>t, <2>1, <2>4 DEF ClaimMetadata, ReqRec
    <3>2. worker'[j].pc = "register" /\ worker'[j].kind = "route"
      <4>1. Moved(j, "register", worker[j].outcome, worker[j].recovering)
        BY <2>1, <2>4, Moves DEF ClaimMetadata
      <4>2. worker[j].kind = "route"
        BY <1>0, <2>1, <2>2 DEF ReqInv
      <4> QED BY <4>1, <4>2 DEF Moved
    <3> QED BY <1>0, <2>2, <2>3, <3>1, <3>2 DEF ReqInv, Starts
  <2>5. CASE StartWorker(r)
    <3>1. /\ req'[r].pc = "idle"
          /\ \A q \in Request \ {r} : req'[q] = req[q]
      BY <1>t, <2>5 DEF StartWorker, NoReq
    <3> QED BY <1>0, <2>2, <2>3, <3>1 DEF ReqInv, Starts
  <2> QED BY <1>5, <2>4, <2>5
<1>6. ASSUME NEW r \in Request, CancelRequest(r) PROVE ReqInv'
  <2>1. UNCHANGED <<row, worker>> /\ req[r].pc = "request"
    BY <1>6 DEF CancelRequest, rows, threads
  <2>2. /\ req'[r].pc = "persist" /\ req'[r].job = req[r].job
        /\ \A q \in Request \ {r} : req'[q] = req[q]
    BY <1>t, <1>6 DEF CancelRequest, ReqRec
  <2> QED BY <1>0, <2>1, <2>2 DEF ReqInv, Starts
<1>7. ASSUME NEW j \in Job, WatchExpires(j) \/ DeadlinePasses(j) PROVE ReqInv'
  <2>1. UNCHANGED <<row, worker, req>>
    BY <1>7 DEF WatchExpires, DeadlinePasses, rows, threads, others
  <2> QED BY <1>0, <2>1, ReqKept
<1>8. CASE Sweeps
  <2>1. UNCHANGED <<worker, req>>
    BY <1>8 DEF Sweeps, SweepCommit, SweepAttempt, Age, threads
  <2>2. \A k \in Job : row[k].status # "none" => row'[k].status # "none"
    BY <1>0, <1>8, SweepKeeps
  <2> QED BY <1>0, <2>1, <2>2, ReqKept
<1>9. CASE Crash
  BY <1>9 DEF Crash, NoReq, ReqInv, Starts
<1>10. ASSUME NEW r \in Claimer, ClaimFault(r) PROVE ReqInv'
  BY <1>0, <1>10, ClaimFaultKeeps
<1> QED BY <1>1, <1>2, <1>3, <1>4, <1>5, <1>6, <1>7, <1>8, <1>9, <1>10, StepKinds
        DEF Signals

LEMMA SweepInvStep ==
  ASSUME TypeOK, OutcomeInv, EndInv, [Next]_vars
  PROVE  SweepInv'
<1>0. (\A j \in Job : JobInv(j)) /\ SweepInv
  BY DEF EndInv
<1>t. sweep \in SweepRec
  BY DEF TypeOK
<1>1. CASE SweepRead
  BY <1>1 DEF SweepRead, SweepInv
<1>2. ASSUME NEW j \in Job, SweepAttempt(j) PROVE SweepInv'
  BY <1>0, <1>2, <1>t DEF SweepAttempt, SweepInv, NoSweep, SweepRec
<1>3. CASE SweepCommit \/ \E j \in Job : Age(j)
  BY <1>0, <1>3, <1>t DEF SweepCommit, Age, SweepInv, SweepRec
<1>4. CASE Crash
  BY <1>4 DEF Crash, SweepInv, NoSweep
<1>5. CASE UNCHANGED <<sweep, aged>>
  BY <1>0, <1>5 DEF SweepInv
<1>6. ASSUME Aside PROVE SweepRead \/ UNCHANGED <<sweep, aged>>
  BY <1>6 DEF Aside, ClaimCheck, CancelLookup, CancelPersist, StageCheck,
     StageCreateFails, WatchWakes,
     WatchReads, WatchWrites, vars, others
<1>7. ASSUME NEW j \in Job, Decides(j) \/ Commits(j) \/ WatchExpires(j) \/ DeadlinePasses(j)
      PROVE  UNCHANGED <<sweep, aged>>
  BY <1>7 DEF Decides, Commits, Announce, AnnounceWrite, Pulse, PulseWrite, Batch,
     Finish, RunnerStops, RunnerRaises, PulseFault, Checkpoint, PostCheck, Fault,
     StageFault, RunnerReturns, StageMetadata, FinishCommit, FinishAttempt, Clear, WatchExpires,
     DeadlinePasses, others
<1>8. ASSUME NEW r \in Request, ClaimMetadata(r) \/ StartWorker(r) \/ CancelRequest(r)
      PROVE  UNCHANGED <<sweep, aged>>
  BY <1>8 DEF ClaimMetadata, StartWorker, CancelRequest
<1>9. ASSUME Creates PROVE UNCHANGED <<sweep, aged>>
  BY <1>9 DEF Creates, ClaimCreate, StageCreate, TailCreate
<1>10. ASSUME NEW r \in Claimer, ClaimFault(r) PROVE UNCHANGED <<sweep, aged>>
  BY <1>10 DEF ClaimFault
<1> QED BY <1>1, <1>2, <1>3, <1>4, <1>5, <1>6, <1>7, <1>8, <1>9, <1>10, StepKinds
        DEF Signals, Sweeps

LEMMA EndInit == Init => EndInv
<1> SUFFICES ASSUME Init PROVE EndInv
  OBVIOUS
<1>1. ASSUME NEW j \in Job PROVE JobInv(j)
  <2>1. /\ row[j].status = "none" /\ attempt[j] = "none" /\ control[j] = NoEntry
        /\ worker[j] = NoWorker /\ aged = {} /\ accepted[j] = "no"
    BY DEF Init, NoRow
  <2>2. worker[j].pc = "none" /\ worker[j].outcome = "running" /\ worker[j].recovering = FALSE
    BY <2>1 DEF NoWorker
  <2> QED BY <2>1, <2>2 DEF NoEntry, JobInv, Born, StillRuns, RecoversFailed, Heeded, Asked, Agrees, EndPC, Running, Working, WorkPC, TailPC, BeforeLastCheck
<1>2. ReqInv
  BY DEF Init, NoReq, ReqInv, Starts
<1>3. SweepInv
  BY DEF Init, NoSweep, SweepInv
<1> QED BY <1>1, <1>2, <1>3 DEF EndInv

LEMMA EndStep == TypeOK /\ OutcomeInv /\ EndInv /\ [Next]_vars => EndInv'
BY JobsStep, ReqStep, SweepInvStep DEF EndInv

LEMMA EndAlways == Spec => [](TypeOK /\ OutcomeInv /\ EndInv)
<1>1. Init => OutcomeInv
  BY DEF Init, OutcomeInv, NoWorker, EndPC
<1>2. TypeOK /\ OutcomeInv /\ [Next]_vars => OutcomeInv'
  BY OutcomeStep
<1> QED BY <1>1, <1>2, EndInit, EndStep, JobsTypeCorrect, PTL DEF Spec

\* A cancellation accepted before the worker's last look at the control entry
\* keeps the job from ending as "success" or "partial": register(), the
\* heartbeat thread, the sweep, a restart and database errors do not lose it.
THEOREM CancellationsAreHonoured == Spec => []CancelHonoured
<1>1. EndInv => CancelHonoured
  BY DEF EndInv, JobInv, Heeded, CancelHonoured
<1> QED BY <1>1, EndAlways, PTL

\* A row says "cancelled" only if somebody asked: a deadline, whoever finds it
\* passed, ends as "failed_timeout".
THEOREM CancelledMeansAsked == Spec => []CancelledOnRequest
<1>1. EndInv => CancelledOnRequest
  BY DEF EndInv, JobInv, Asked, CancelledOnRequest
<1> QED BY <1>1, EndAlways, PTL

\* A worker that ended outside the sweep leaves the same status in the row and
\* in the attempt, also after a database error between the two transactions of
\* complete_job; if the handler failed too, the attempt is still open.
THEOREM AttemptsAgree == Spec => []AttemptAgrees
<1>1. TypeOK /\ EndInv => AttemptAgrees
  <2> SUFFICES ASSUME TypeOK, EndInv PROVE AttemptAgrees
    OBVIOUS
  <2>1. used.faults # 0 => used.faults > 0
    BY BoundsAssumption DEF TypeOK, UsedRec
  <2> QED BY <2>1 DEF EndInv, JobInv, Agrees, AttemptAgrees
<1> QED BY <1>1, EndAlways, PTL

\* Runners of conflicting types that were both claimed overlap only when the
\* sweep closed the row of one of them under its thread.
THEOREM OverlapNeedsSweep == Spec => []RunnersOverlapOnlyAfterSweep
<1>1. EndInv /\ ClaimExclusive => RunnersOverlapOnlyAfterSweep
  <2> SUFFICES ASSUME EndInv, ClaimExclusive,
                      NEW j \in Job, NEW k \in Job, j # k,
                      worker[j].pc = "runner", worker[k].pc = "runner",
                      worker[j].kind = "route", worker[k].kind = "route",
                      row[k].type \in Conflicts[row[j].type],
                      j \notin aged, k \notin aged
               PROVE  FALSE
    BY DEF RunnersOverlapOnlyAfterSweep
  <2>1. Running(j) /\ Running(k)
    BY DEF EndInv, JobInv, StillRuns, Working, WorkPC
  <2> QED BY <2>1 DEF ClaimExclusive
<1> QED BY <1>1, EndAlways, ClaimsAreExclusive, PTL

\* An ended row is rewritten only to "failed", unless the sweep touched it: no
\* heartbeat, cancellation or late commit revives it or improves its status.
THEOREM EndedRowsOnlyFail == Spec => EndedOnlyFails
<1> DEFINE Kept == \A j \in Job : row[j].status \in Ended /\ j \notin aged
                     => row'[j].status \in {row[j].status, "failed"}
<1>1. TypeOK /\ OutcomeInv /\ EndInv /\ [Next]_vars => Kept
  <2> SUFFICES ASSUME TypeOK, OutcomeInv, EndInv, [Next]_vars PROVE Kept
    OBVIOUS
  <2>0. (\A j \in Job : JobInv(j)) /\ ReqInv /\ SweepInv /\ row \in [Job -> RowRec]
    BY DEF EndInv, TypeOK
  <2>1. CASE Aside
    BY <2>1, AsideKeeps
  <2>2. ASSUME NEW j \in Job, Decides(j) PROVE Kept
    BY <2>0, <2>2, WorkerKeeps DEF Quiet, SameRows
  <2>3. ASSUME NEW j \in Job, Commits(j) PROVE Kept
    <3>1. \A k \in Job \ {j} : row'[k] = row[k]
      BY <2>0, <2>3, CommitsKeep
    <3>2. CASE FinishCommit(j)
      <4>1. row'[j].status = worker[j].outcome /\ worker[j].pc = "commit"
        BY <2>0, <3>2 DEF FinishCommit, RowRec
      <4>2. JobInv(j)
        BY <2>0
      <4>3. row[j].status \in Ended /\ j \notin aged => worker[j].recovering
        BY <4>1, <4>2 DEF JobInv, StillRuns, Running, Ended, Result
      <4>4. row[j].status \in Ended /\ j \notin aged => row'[j].status = "failed"
        BY <4>1, <4>2, <4>3 DEF JobInv, RecoversFailed
      <4> QED BY <3>1, <4>4
    <3>3. CASE UNCHANGED row
      BY <3>3
    <3> QED BY <2>3, <3>2, <3>3 DEF Commits, StageMetadata, FinishAttempt, Clear, rows
  <2>4. CASE Creates
    <3>1. PICK j \in Job : /\ row[j].status = "none"
                           /\ \A k \in Job \ {j} : row'[k] = row[k]
      BY <2>0, <2>4, CreatesOne
    <3> QED BY <3>1 DEF Ended, Result
  <2>5. CASE \E r \in Request : ClaimMetadata(r) \/ StartWorker(r)
    BY <2>5 DEF ClaimMetadata, StartWorker, rows
  <2>6. CASE Signals \/ Crash
    BY <2>6 DEF Signals, CancelRequest, WatchExpires, DeadlinePasses, Crash, rows
  <2>7. CASE Sweeps
    BY <2>0, <2>7 DEF Sweeps, SweepCommit, SweepAttempt, Age, rows, RowRec
  <2>8. ASSUME NEW r \in Claimer, ClaimFault(r) PROVE Kept
    BY <2>8 DEF ClaimFault, rows
  <2> QED BY <2>1, <2>2, <2>3, <2>4, <2>5, <2>6, <2>7, <2>8, StepKinds
<1> QED BY <1>1, EndAlways, PTL DEF Spec, EndedOnlyFails
=============================================================================
