------------------------ MODULE BackgroundJobsProofs ------------------------
(***************************************************************************)
(* Theorems about BackgroundJobs: type correctness, and the exclusivity    *)
(* of claimed jobs, for any number of jobs, types, requests, crashes and   *)
(* database errors.                                                        *)
(***************************************************************************)
EXTENDS BackgroundJobs, TLAPS

\* The parameters of a row and the control entries stay in their types under
\* the operators of JobControl.
LEMMA ControlTypes ==
  /\ NoEntry \in Entry
  /\ \A e \in Entry :
       /\ \A timed : Register(e, timed) \in Entry
       /\ \A timedOut \in BOOLEAN : RequestCancel(e, timedOut) \in Entry
       /\ StopOutcome(e) \in Ended
BY DEF Entry, Deadline, NoEntry, Register, RequestCancel, StopOutcome, Ended

\* The ways a step changes a worker keep it a worker record.
LEMMA WorkerTypes ==
  ASSUME worker \in [Job -> WorkerRec], NEW j
  PROVE  /\ \A pc \in WorkerPC :
              SetWorker(j, pc) => worker' \in [Job -> WorkerRec]
         /\ \A pc \in WorkerPC, o \in Status :
              Decide(j, pc, o) => worker' \in [Job -> WorkerRec]
         /\ \A pc \in WorkerPC, p \in Params :
              Hold(j, pc, p) => worker' \in [Job -> WorkerRec]
         /\ Recover(j) => worker' \in [Job -> WorkerRec]
<1>1. ASSUME NEW pc \in WorkerPC, SetWorker(j, pc)
      PROVE  worker' \in [Job -> WorkerRec]
  BY <1>1 DEF SetWorker, WorkerRec
<1>2. ASSUME NEW pc \in WorkerPC, NEW o \in Status, Decide(j, pc, o)
      PROVE  worker' \in [Job -> WorkerRec]
  BY <1>2 DEF Decide, WorkerRec
<1>3. ASSUME NEW pc \in WorkerPC, NEW p \in Params, Hold(j, pc, p)
      PROVE  worker' \in [Job -> WorkerRec]
  BY <1>3 DEF Hold, WorkerRec
<1>4. ASSUME Recover(j) PROVE worker' \in [Job -> WorkerRec]
  BY <1>4 DEF Recover, WorkerRec, WorkerPC, EndPC, Status, Ended, Result
<1> QED BY <1>1, <1>2, <1>3, <1>4

LEMMA NewRecordTypes ==
  /\ NoParams \in Params
  /\ \A k \in {"route", "stage"} : NewWorker(k) \in WorkerRec
  /\ \A k \in {"none", "route", "stage"} :
       [NoWorker EXCEPT !.pc = "done", !.kind = k] \in WorkerRec
  /\ NoWorker \in WorkerRec
  /\ \A p \in Params, b \in BOOLEAN : /\ [p EXCEPT !.cancel = b] \in Params
                                      /\ [p EXCEPT !.result = b] \in Params
BY DEF NoParams, Params, NewWorker, NoWorker, WorkerRec, WorkerPC, Status

LEMMA UsedTypes ==
  ASSUME used \in UsedRec
  PROVE  /\ used.crashes < MaxCrashes
              => [used EXCEPT !.crashes = @ + 1] \in UsedRec
         /\ used.faults < MaxFaults
              => [used EXCEPT !.faults = @ + 1] \in UsedRec
BY BoundsAssumption DEF UsedRec

\* Every action keeps every variable in its type.
THEOREM JobsTypeCorrect == Spec => []TypeOK
<1>1. Init => TypeOK
  <2> SUFFICES ASSUME Init PROVE TypeOK
    OBVIOUS
  <2>1. row \in [Job -> RowRec]
    BY NewRecordTypes DEF Init, NoRow, RowRec, Status
  <2>2. control \in [Job -> Entry] /\ worker \in [Job -> WorkerRec]
    BY ControlTypes, NewRecordTypes DEF Init
  <2>3. watch \in [Job -> WatchRec] /\ req \in [Request -> ReqRec]
    BY NewRecordTypes DEF Init, NoWatch, WatchRec, NoReq, ReqRec
  <2>4. sweep \in SweepRec /\ used \in UsedRec
    BY BoundsAssumption DEF Init, NoSweep, SweepRec, UsedRec
  <2> QED BY <2>1, <2>2, <2>3, <2>4 DEF Init, TypeOK, Status
<1>2. TypeOK /\ [Next]_vars => TypeOK'
  <2> SUFFICES ASSUME TypeOK, [Next]_vars PROVE TypeOK'
    OBVIOUS
  <2>1. ASSUME NEW r \in Claimer, NEW t \in Type, ClaimCheck(r, t)
        PROVE  TypeOK'
    <3>1. req' \in [Request -> ReqRec]
      BY <2>1 DEF TypeOK, ClaimCheck, NoReq, ReqRec, Request, NoParams,
         Params
    <3>2. lock' \in Claimer \cup {"free"}
      BY <2>1 DEF TypeOK, ClaimCheck
    <3>3. UNCHANGED <<row, attempt, control, worker, watch, pending, sweep, aged, accepted, used>>
      BY <2>1 DEF ClaimCheck, rows, threads
    <3> QED BY <3>1, <3>2, <3>3 DEF TypeOK
  <2>2. ASSUME NEW r \in Canceller, NEW j \in Job, CancelLookup(r, j)
        PROVE  TypeOK'
    <3>1. req' \in [Request -> ReqRec]
      BY <2>2 DEF TypeOK, CancelLookup, NoReq, ReqRec, RowRec, Request,
         NoParams, Params
    <3>2. UNCHANGED <<row, attempt, control, worker, watch, lock, pending, sweep, aged, accepted, used>>
      BY <2>2 DEF CancelLookup, rows, threads
    <3> QED BY <3>1, <3>2 DEF TypeOK
  <2>3. ASSUME NEW r \in Request, ClaimCreate(r)
        PROVE  TypeOK'
    <3>1. row' \in [Job -> RowRec]
      BY <2>3 DEF TypeOK, ClaimCreate, CreateRow, RowRec, ReqRec, NoParams,
         Params, Status
    <3>2. worker' \in [Job -> WorkerRec]
      BY NewRecordTypes, <2>3 DEF TypeOK, ClaimCreate
    <3>3. req' \in [Request -> ReqRec]
      <4>1. PICK j \in Job :
              req' = [req EXCEPT ![r] = [@ EXCEPT !.pc = "metadata",
                                                  !.job = j]]
        BY <2>3 DEF ClaimCreate
      <4> QED BY <4>1 DEF TypeOK, ReqRec
    <3>4. UNCHANGED <<attempt, control, watch, lock, pending, sweep, aged, accepted, used>>
      BY <2>3 DEF ClaimCreate
    <3> QED BY <3>1, <3>2, <3>3, <3>4 DEF TypeOK
  <2>4. ASSUME NEW r \in Request, ClaimMetadata(r)
        PROVE  TypeOK'
    <3>1. attempt' \in [Job -> Status]
      BY <2>4 DEF TypeOK, ClaimMetadata, Status
    <3>2. worker' \in [Job -> WorkerRec]
      BY WorkerTypes, <2>4 DEF TypeOK, ClaimMetadata, ReqRec, WorkerPC,
         WorkPC, EndPC, TailPC
    <3>3. req' \in [Request -> ReqRec]
      BY <2>4 DEF TypeOK, ClaimMetadata, ReqRec
    <3>4. lock' \in Claimer \cup {"free"}
      BY <2>4 DEF TypeOK, ClaimMetadata
    <3>5. UNCHANGED <<row, control, watch, pending, sweep, aged, accepted, used>>
      BY <2>4 DEF ClaimMetadata, SetWorker
    <3> QED BY <3>1, <3>2, <3>3, <3>4, <3>5 DEF TypeOK
  <2>5. ASSUME NEW r \in Request, StartWorker(r)
        PROVE  TypeOK'
    <3>1. control' \in [Job -> Entry]
      BY ControlTypes, <2>5 DEF TypeOK, StartWorker, ReqRec
    <3>2. worker' \in [Job -> WorkerRec]
      BY WorkerTypes, <2>5 DEF TypeOK, StartWorker, ReqRec, WorkerPC,
         WorkPC, EndPC, TailPC
    <3>3. req' \in [Request -> ReqRec]
      BY <2>5 DEF TypeOK, StartWorker, NoReq, ReqRec, NoParams, Params
    <3>4. UNCHANGED <<row, attempt, watch, lock, pending, sweep, aged, accepted, used>>
      BY <2>5 DEF StartWorker, rows, SetWorker
    <3> QED BY <3>1, <3>2, <3>3, <3>4 DEF TypeOK
  <2>6. ASSUME NEW r \in Request, CancelRequest(r)
        PROVE  TypeOK'
    <3>1. control' \in [Job -> Entry]
      BY ControlTypes, <2>6 DEF TypeOK, CancelRequest
    <3>2. req' \in [Request -> ReqRec]
      BY <2>6 DEF TypeOK, CancelRequest, ReqRec
    <3>3. accepted' \in [Job -> {"no", "early", "late"}]
      BY <2>6 DEF TypeOK, CancelRequest
    <3>4. UNCHANGED <<row, attempt, worker, watch, lock, pending, sweep, aged, used>>
      BY <2>6 DEF CancelRequest, rows, threads
    <3> QED BY <3>1, <3>2, <3>3, <3>4 DEF TypeOK
  <2>7. ASSUME NEW r \in Request, CancelPersist(r)
        PROVE  TypeOK'
    <3>1. row' \in [Job -> RowRec]
      BY NewRecordTypes, <2>7 DEF TypeOK, CancelPersist, RowRec, ReqRec
    <3>2. req' \in [Request -> ReqRec]
      BY <2>7 DEF TypeOK, CancelPersist, NoReq, ReqRec, NoParams, Params
    <3>3. UNCHANGED <<attempt, control, worker, watch, lock, pending, sweep, aged, accepted, used>>
      BY <2>7 DEF CancelPersist, threads
    <3> QED BY <3>1, <3>2, <3>3 DEF TypeOK
  <2>8. ASSUME NEW t \in Type, StageCheck(t)
        PROVE  TypeOK'
    <3>1. pending' \subseteq StageType
      BY <2>8 DEF TypeOK, StageCheck
    <3>2. UNCHANGED <<row, attempt, control, worker, watch, req, lock, sweep, aged, accepted, used>>
      BY <2>8 DEF StageCheck, rows, threads
    <3> QED BY <3>1, <3>2 DEF TypeOK
  <2>9. ASSUME NEW t \in Type, StageCreate(t)
        PROVE  TypeOK'
    <3>1. row' \in [Job -> RowRec]
      BY <2>9 DEF TypeOK, StageCreate, CreateUncontrolled, CreateRow,
         RowRec, NoParams, Params, Status
    <3>2. worker' \in [Job -> WorkerRec]
      BY NewRecordTypes, <2>9 DEF TypeOK, StageCreate, CreateUncontrolled
    <3>3. pending' \subseteq StageType
      BY <2>9 DEF TypeOK, StageCreate
    <3>4. UNCHANGED <<attempt, control, watch, req, lock, sweep, aged, accepted, used>>
      BY <2>9 DEF StageCreate, CreateUncontrolled
    <3> QED BY <3>1, <3>2, <3>3, <3>4 DEF TypeOK
  <2>10. ASSUME NEW t \in Type, TailCreate(t)
        PROVE  TypeOK'
    <3>1. row' \in [Job -> RowRec]
      BY <2>10 DEF TypeOK, TailCreate, CreateUncontrolled, CreateRow,
         RowRec, NoParams, Params, Status
    <3>2. worker' \in [Job -> WorkerRec]
      BY NewRecordTypes, <2>10 DEF TypeOK, TailCreate, CreateUncontrolled
    <3>3. UNCHANGED <<attempt, control, watch, req, lock, pending, sweep, aged, accepted, used>>
      BY <2>10 DEF TailCreate, CreateUncontrolled
    <3> QED BY <3>1, <3>2, <3>3 DEF TypeOK
  <2>11. ASSUME NEW j \in Job, StageMetadata(j)
        PROVE  TypeOK'
    <3>1. attempt' \in [Job -> Status]
      BY <2>11 DEF TypeOK, StageMetadata, Status
    <3>2. worker' \in [Job -> WorkerRec]
      BY WorkerTypes, <2>11 DEF TypeOK, StageMetadata, WorkerPC, WorkPC,
         EndPC, TailPC
    <3>3. UNCHANGED <<row, control, watch, req, lock, pending, sweep, aged, accepted, used>>
      BY <2>11 DEF StageMetadata
    <3> QED BY <3>1, <3>2, <3>3 DEF TypeOK
  <2>12. ASSUME NEW j \in Job, Announce(j)
        PROVE  TypeOK'
    <3>1. worker' \in [Job -> WorkerRec]
      BY WorkerTypes, <2>12 DEF TypeOK, Announce, RowRec, WorkerPC, WorkPC,
         EndPC, TailPC
    <3>2. watch' \in [Job -> WatchRec]
      BY <2>12 DEF TypeOK, Announce, WatchRec
    <3>3. UNCHANGED <<row, attempt, control, req, lock, pending, sweep, aged, accepted, used>>
      BY <2>12 DEF Announce, rows, others
    <3> QED BY <3>1, <3>2, <3>3 DEF TypeOK
  <2>13. ASSUME NEW j \in Job, AnnounceWrite(j)
        PROVE  TypeOK'
    <3>1. row' \in [Job -> RowRec]
      BY <2>13 DEF TypeOK, AnnounceWrite, RowRec, WorkerRec
    <3>2. worker' \in [Job -> WorkerRec]
      BY WorkerTypes, <2>13 DEF TypeOK, AnnounceWrite, WorkerPC, WorkPC,
         EndPC, TailPC
    <3>3. UNCHANGED <<attempt, control, watch, req, lock, pending, sweep, aged, accepted, used>>
      BY <2>13 DEF AnnounceWrite, others
    <3> QED BY <3>1, <3>2, <3>3 DEF TypeOK
  <2>14. ASSUME NEW j \in Job, Pulse(j)
        PROVE  TypeOK'
    <3>1. worker' \in [Job -> WorkerRec]
      BY WorkerTypes, NewRecordTypes, <2>14 DEF TypeOK, Pulse, RowRec,
         Entry, WorkerPC, WorkPC, EndPC, TailPC
    <3>2. watch' \in [Job -> WatchRec]
      BY <2>14 DEF TypeOK, Pulse, NoWatch, WatchRec, NoParams, Params
    <3>3. UNCHANGED <<row, attempt, control, req, lock, pending, sweep, aged, accepted, used>>
      BY <2>14 DEF Pulse, rows, others
    <3> QED BY <3>1, <3>2, <3>3 DEF TypeOK
  <2>15. ASSUME NEW j \in Job, PulseWrite(j)
        PROVE  TypeOK'
    <3>1. row' \in [Job -> RowRec]
      BY <2>15 DEF TypeOK, PulseWrite, RowRec, WorkerRec
    <3>2. worker' \in [Job -> WorkerRec]
      BY WorkerTypes, <2>15 DEF TypeOK, PulseWrite, WorkerPC, WorkPC, EndPC,
         TailPC
    <3>3. UNCHANGED <<attempt, control, watch, req, lock, pending, sweep, aged, accepted, used>>
      BY <2>15 DEF PulseWrite, others
    <3> QED BY <3>1, <3>2, <3>3 DEF TypeOK
  <2>16. ASSUME NEW j \in Job, Checkpoint(j)
        PROVE  TypeOK'
    <3>1. worker' \in [Job -> WorkerRec]
      BY ControlTypes, WorkerTypes, <2>16 DEF TypeOK, Checkpoint, Status,
         WorkerPC, WorkPC, EndPC, TailPC
    <3>2. UNCHANGED <<row, attempt, control, watch, req, lock, pending, sweep, aged, accepted, used>>
      BY <2>16 DEF Checkpoint, rows, others
    <3> QED BY <3>1, <3>2 DEF TypeOK
  <2>17. ASSUME NEW j \in Job, RunnerStops(j)
        PROVE  TypeOK'
    <3>1. worker' \in [Job -> WorkerRec]
      BY ControlTypes, WorkerTypes, <2>17 DEF TypeOK, RunnerStops, Status,
         WorkerPC, WorkPC, EndPC, TailPC
    <3>2. UNCHANGED <<row, attempt, control, watch, req, lock, pending, sweep, aged, accepted, used>>
      BY <2>17 DEF RunnerStops, rows, others
    <3> QED BY <3>1, <3>2 DEF TypeOK
  <2>18. ASSUME NEW j \in Job, PostCheck(j)
        PROVE  TypeOK'
    <3>1. worker' \in [Job -> WorkerRec]
      BY ControlTypes, WorkerTypes, <2>18 DEF TypeOK, PostCheck, Status,
         WorkerPC, WorkPC, EndPC, TailPC
    <3>2. UNCHANGED <<row, attempt, control, watch, req, lock, pending, sweep, aged, accepted, used>>
      BY <2>18 DEF PostCheck, rows, others
    <3> QED BY <3>1, <3>2 DEF TypeOK
  <2>19. ASSUME NEW j \in Job, Batch(j)
        PROVE  TypeOK'
    <3>1. worker' \in [Job -> WorkerRec]
      BY WorkerTypes, <2>19 DEF TypeOK, Batch, WorkerPC, WorkPC, EndPC,
         TailPC
    <3>2. UNCHANGED <<row, attempt, control, watch, req, lock, pending, sweep, aged, accepted, used>>
      BY <2>19 DEF Batch, rows, others
    <3> QED BY <3>1, <3>2 DEF TypeOK
  <2>20. ASSUME NEW j \in Job, Finish(j)
        PROVE  TypeOK'
    <3>1. worker' \in [Job -> WorkerRec]
      BY WorkerTypes, <2>20 DEF TypeOK, Finish, RowRec, WorkerPC, WorkPC,
         EndPC, TailPC
    <3>2. UNCHANGED <<row, attempt, control, watch, req, lock, pending, sweep, aged, accepted, used>>
      BY <2>20 DEF Finish, rows, others
    <3> QED BY <3>1, <3>2 DEF TypeOK
  <2>21. ASSUME NEW j \in Job, FinishCommit(j)
        PROVE  TypeOK'
    <3>1. row' \in [Job -> RowRec]
      BY NewRecordTypes, <2>21 DEF TypeOK, FinishCommit, RowRec, WorkerRec
    <3>2. worker' \in [Job -> WorkerRec]
      BY WorkerTypes, <2>21 DEF TypeOK, FinishCommit, WorkerPC, WorkPC,
         EndPC, TailPC
    <3>3. UNCHANGED <<attempt, control, watch, req, lock, pending, sweep, aged, accepted, used>>
      BY <2>21 DEF FinishCommit, others
    <3> QED BY <3>1, <3>2, <3>3 DEF TypeOK
  <2>22. ASSUME NEW j \in Job, FinishAttempt(j)
        PROVE  TypeOK'
    <3>1. attempt' \in [Job -> Status]
      BY <2>22 DEF TypeOK, FinishAttempt, WorkerRec
    <3>2. worker' \in [Job -> WorkerRec]
      BY WorkerTypes, <2>22 DEF TypeOK, FinishAttempt, WorkerPC, WorkPC,
         EndPC, TailPC
    <3>3. UNCHANGED <<row, control, watch, req, lock, pending, sweep, aged, accepted, used>>
      BY <2>22 DEF FinishAttempt, others
    <3> QED BY <3>1, <3>2, <3>3 DEF TypeOK
  <2>23. ASSUME NEW j \in Job, Clear(j)
        PROVE  TypeOK'
    <3>1. control' \in [Job -> Entry]
      BY ControlTypes, <2>23 DEF TypeOK, Clear
    <3>2. worker' \in [Job -> WorkerRec]
      BY WorkerTypes, <2>23 DEF TypeOK, Clear, WorkerPC, WorkPC, EndPC,
         TailPC
    <3>3. UNCHANGED <<row, attempt, watch, req, lock, pending, sweep, aged, accepted, used>>
      BY <2>23 DEF Clear, rows, others
    <3> QED BY <3>1, <3>2, <3>3 DEF TypeOK
  <2>24. ASSUME NEW j \in Job, RunnerRaises(j)
        PROVE  TypeOK'
    <3>1. worker' \in [Job -> WorkerRec]
      BY WorkerTypes, <2>24 DEF TypeOK, RunnerRaises, WorkerPC, WorkPC,
         EndPC, TailPC
    <3>2. UNCHANGED <<row, attempt, control, watch, req, lock, pending, sweep, aged, accepted, used>>
      BY <2>24 DEF RunnerRaises, rows, others
    <3> QED BY <3>1, <3>2 DEF TypeOK
  <2>25. ASSUME NEW j \in Job, NEW s \in Result, RunnerReturns(j, s)
        PROVE  TypeOK'
    <3>1. worker' \in [Job -> WorkerRec]
      BY WorkerTypes, <2>25 DEF TypeOK, RunnerReturns, Status, Ended,
         WorkerPC, WorkPC, EndPC
    <3>2. UNCHANGED <<row, attempt, control, watch, req, lock, pending, sweep, aged, accepted, used>>
      BY <2>25 DEF RunnerReturns, rows, others
    <3> QED BY <3>1, <3>2 DEF TypeOK
  <2>26. ASSUME NEW j \in Job, WatchWakes(j)
        PROVE  TypeOK'
    <3>1. watch' \in [Job -> WatchRec]
      BY <2>26 DEF TypeOK, WatchWakes, WatchRec
    <3>2. UNCHANGED <<row, attempt, control, worker, req, lock, pending, sweep, aged, accepted, used>>
      BY <2>26 DEF WatchWakes, rows, others
    <3> QED BY <3>1, <3>2 DEF TypeOK
  <2>27. ASSUME NEW j \in Job, WatchExpires(j)
        PROVE  TypeOK'
    <3>1. control' \in [Job -> Entry]
      BY ControlTypes, <2>27 DEF TypeOK, WatchExpires
    <3>2. watch' \in [Job -> WatchRec]
      BY <2>27 DEF TypeOK, WatchExpires, WatchRec
    <3>3. UNCHANGED <<row, attempt, worker, req, lock, pending, sweep, aged, accepted, used>>
      BY <2>27 DEF WatchExpires, rows, others
    <3> QED BY <3>1, <3>2, <3>3 DEF TypeOK
  <2>28. ASSUME NEW j \in Job, WatchReads(j)
        PROVE  TypeOK'
    <3>1. watch' \in [Job -> WatchRec]
      BY NewRecordTypes, <2>28 DEF TypeOK, WatchReads, WatchRec, RowRec,
         Entry
    <3>2. UNCHANGED <<row, attempt, control, worker, req, lock, pending, sweep, aged, accepted, used>>
      BY <2>28 DEF WatchReads, rows, others
    <3> QED BY <3>1, <3>2 DEF TypeOK
  <2>29. ASSUME NEW j \in Job, WatchWrites(j)
        PROVE  TypeOK'
    <3>1. row' \in [Job -> RowRec]
      BY <2>29 DEF TypeOK, WatchWrites, RowRec, WatchRec
    <3>2. watch' \in [Job -> WatchRec]
      BY <2>29 DEF TypeOK, WatchWrites, NoWatch, WatchRec, NoParams, Params
    <3>3. UNCHANGED <<attempt, control, worker, req, lock, pending, sweep, aged, accepted, used>>
      BY <2>29 DEF WatchWrites, others
    <3> QED BY <3>1, <3>2, <3>3 DEF TypeOK
  <2>30. ASSUME NEW j \in Job, Fault(j)
        PROVE  TypeOK'
    <3>1. worker' \in [Job -> WorkerRec]
      BY WorkerTypes, <2>30 DEF TypeOK, Fault, WorkerPC, WorkPC, EndPC,
         TailPC
    <3>2. used' \in UsedRec
      BY UsedTypes, <2>30 DEF TypeOK, Fault
    <3>3. UNCHANGED <<row, attempt, control, watch, req, lock, pending, sweep, aged, accepted>>
      BY <2>30 DEF Fault, rows, others
    <3> QED BY <3>1, <3>2, <3>3 DEF TypeOK
  <2>31. ASSUME NEW j \in Job, PulseFault(j)
        PROVE  TypeOK'
    <3>1. worker' \in [Job -> WorkerRec]
      BY WorkerTypes, <2>31 DEF TypeOK, PulseFault, WorkerPC, WorkPC, EndPC,
         TailPC
    <3>2. used' \in UsedRec
      BY UsedTypes, <2>31 DEF TypeOK, PulseFault
    <3>3. UNCHANGED <<row, attempt, control, watch, req, lock, pending, sweep, aged, accepted>>
      BY <2>31 DEF PulseFault, rows, others
    <3> QED BY <3>1, <3>2, <3>3 DEF TypeOK
  <2>32. ASSUME NEW j \in Job, DeadlinePasses(j)
        PROVE  TypeOK'
    <3>1. control' \in [Job -> Entry]
      BY <2>32 DEF TypeOK, DeadlinePasses, Entry, Deadline
    <3>2. UNCHANGED <<row, attempt, worker, watch, req, lock, pending, sweep, aged, accepted, used>>
      BY <2>32 DEF DeadlinePasses, rows, threads, others
    <3> QED BY <3>1, <3>2 DEF TypeOK
  <2>33. ASSUME NEW j \in Job, Age(j)
        PROVE  TypeOK'
    <3>1. aged' \subseteq Job
      BY <2>33 DEF TypeOK, Age
    <3>2. UNCHANGED <<row, attempt, control, worker, watch, req, lock, pending, sweep, accepted, used>>
      BY <2>33 DEF Age, rows, threads
    <3> QED BY <3>1, <3>2 DEF TypeOK
  <2>34. ASSUME SweepRead
        PROVE  TypeOK'
    <3>1. sweep' \in SweepRec
      BY <2>34 DEF TypeOK, SweepRead, SweepRec
    <3>2. UNCHANGED <<row, attempt, control, worker, watch, req, lock, pending, aged, accepted, used>>
      BY <2>34 DEF SweepRead, rows, threads
    <3> QED BY <3>1, <3>2 DEF TypeOK
  <2>35. ASSUME SweepCommit
        PROVE  TypeOK'
    <3>1. row' \in [Job -> RowRec]
      BY <2>35 DEF TypeOK, SweepCommit, RowRec, Status, Ended, Result
    <3>2. sweep' \in SweepRec
      BY <2>35 DEF TypeOK, SweepCommit, SweepRec
    <3>3. UNCHANGED <<attempt, control, worker, watch, req, lock, pending, aged, accepted, used>>
      BY <2>35 DEF SweepCommit, threads
    <3> QED BY <3>1, <3>2, <3>3 DEF TypeOK
  <2>36. ASSUME NEW j \in Job, SweepAttempt(j)
        PROVE  TypeOK'
    <3>1. attempt' \in [Job -> Status]
      BY <2>36 DEF TypeOK, SweepAttempt, Status, Ended
    <3>2. sweep' \in SweepRec
      BY <2>36 DEF TypeOK, SweepAttempt, NoSweep, SweepRec
    <3>3. UNCHANGED <<row, control, worker, watch, req, lock, pending, aged, accepted, used>>
      BY <2>36 DEF SweepAttempt, threads
    <3> QED BY <3>1, <3>2, <3>3 DEF TypeOK
  <2>37. ASSUME Crash
        PROVE  TypeOK'
    <3>1. control' \in [Job -> Entry]
      BY ControlTypes, <2>37 DEF TypeOK, Crash
    <3>2. worker' \in [Job -> WorkerRec]
      BY NewRecordTypes, <2>37 DEF TypeOK, Crash, WorkerRec
    <3>3. watch' \in [Job -> WatchRec]
      BY <2>37 DEF TypeOK, Crash, NoWatch, WatchRec, NoParams, Params
    <3>4. req' \in [Request -> ReqRec]
      BY <2>37 DEF TypeOK, Crash, NoReq, ReqRec, NoParams, Params
    <3>5. lock' \in Claimer \cup {"free"}
      BY <2>37 DEF TypeOK, Crash
    <3>6. pending' \subseteq StageType
      BY <2>37 DEF TypeOK, Crash
    <3>7. sweep' \in SweepRec
      BY <2>37 DEF TypeOK, Crash, NoSweep, SweepRec
    <3>8. used' \in UsedRec
      BY UsedTypes, <2>37 DEF TypeOK, Crash
    <3>9. UNCHANGED <<row, attempt, aged, accepted>>
      BY <2>37 DEF Crash, rows
    <3> QED BY <3>1, <3>2, <3>3, <3>4, <3>5, <3>6, <3>7, <3>8, <3>9 DEF TypeOK
  <2>38. CASE UNCHANGED vars
    BY <2>38 DEF vars, TypeOK
  <2>39. ASSUME NEW r \in Claimer, ClaimFault(r)
        PROVE  TypeOK'
    <3>1. worker' \in [Job -> WorkerRec]
      BY WorkerTypes, <2>39 DEF TypeOK, ClaimFault, WorkerPC
    <3>2. req' \in [Request -> ReqRec]
      <4>1. NoReq \in ReqRec /\ [req[r] EXCEPT !.pc = "register"] \in ReqRec
        BY DEF TypeOK, NoReq, ReqRec, NoParams, Params, Request
      <4>2. \/ req' = [req EXCEPT ![r] = NoReq]
            \/ req' = [req EXCEPT ![r] = [req[r] EXCEPT !.pc = "register"]]
        BY <2>39 DEF ClaimFault
      <4> QED BY <4>1, <4>2 DEF TypeOK
    <3>3. used' \in UsedRec /\ lock' = "free"
      BY UsedTypes, <2>39 DEF TypeOK, ClaimFault
    <3>4. UNCHANGED <<row, attempt, control, watch, pending, sweep, aged, accepted>>
      BY <2>39 DEF ClaimFault, rows
    <3> QED BY <3>1, <3>2, <3>3, <3>4 DEF TypeOK
  <2>40. ASSUME NEW j \in Job, StageFault(j)
        PROVE  TypeOK'
    <3>1. worker' \in [Job -> WorkerRec]
      BY WorkerTypes, <2>40 DEF TypeOK, StageFault, WorkerPC, WorkPC
    <3>2. used' \in UsedRec
      BY UsedTypes, <2>40 DEF TypeOK, StageFault
    <3>3. UNCHANGED <<row, attempt, control, watch, req, lock, pending, sweep, aged, accepted>>
      BY <2>40 DEF StageFault, rows
    <3> QED BY <3>1, <3>2, <3>3 DEF TypeOK
  <2>41. ASSUME NEW t \in Type, StageCreateFails(t)
        PROVE  TypeOK'
    <3>1. used' \in UsedRec /\ pending' \subseteq StageType
      BY UsedTypes, <2>41 DEF TypeOK, StageCreateFails
    <3>2. UNCHANGED <<row, attempt, control, worker, watch, req, lock, sweep, aged, accepted>>
      BY <2>41 DEF StageCreateFails, rows, threads
    <3> QED BY <3>1, <3>2 DEF TypeOK
  <2> QED
    BY <2>1, <2>2, <2>3, <2>4, <2>5, <2>6, <2>7, <2>8, <2>9, <2>10, <2>11,
       <2>12, <2>13, <2>14, <2>15, <2>16, <2>17, <2>18, <2>19, <2>20, <2>21,
       <2>22, <2>23, <2>24, <2>25, <2>26, <2>27, <2>28, <2>29, <2>30, <2>31,
       <2>32, <2>33, <2>34, <2>35, <2>36, <2>37, <2>38, <2>39, <2>40, <2>41 DEF Next, WorkerStep,
       RunnerStep, WatchStep, RequestStep, SweepStep
<1> QED BY <1>1, <1>2, PTL DEF Spec

----------------------------------------------------------------------------
(* Exclusivity of claimed jobs. *)

\* A worker that is about to complete its job has a final outcome to write.
OutcomeInv ==
  \A j \in Job : worker[j].pc \in EndPC \cup {"postcheck", "batch"}
                => worker[j].outcome \in Ended

\* Only the holder of _JOB_CLAIM_LOCK is between its check and its commits.
LockInv ==
  \A r \in Request : req[r].pc \in {"create", "metadata"} => lock = r

RunningTyped == \A j \in Job : Running(j) => row[j].type \in Type

\* What the check found still holds when the row is inserted.
PermitInv ==
  \A r \in Request : req[r].pc = "create" =>
    /\ req[r].type \in Type
    /\ \A k \in Job : Running(k) /\ worker[k].kind = "route"
                      => row[k].type \notin Conflicts[req[r].type]

ExclusiveInv == LockInv /\ RunningTyped /\ PermitInv /\ ClaimExclusive

\* Steps that start no job and give no job to the claim machinery cannot
\* break exclusivity, whatever else they do to rows and workers.
LEMMA QuietStep ==
  ASSUME TypeOK, ExclusiveInv, UNCHANGED <<req, lock>>,
         \A k \in Job : Running(k)' =>
            /\ Running(k) /\ row'[k].type = row[k].type
            /\ worker'[k].kind = worker[k].kind
  PROVE  ExclusiveInv'
<1>1. LockInv'
  BY DEF ExclusiveInv, LockInv
<1>2. RunningTyped'
  BY DEF ExclusiveInv, RunningTyped
<1>3. PermitInv'
  BY DEF ExclusiveInv, PermitInv
<1>4. ClaimExclusive'
  BY DEF ExclusiveInv, ClaimExclusive
<1> QED BY <1>1, <1>2, <1>3, <1>4 DEF ExclusiveInv

\* OutcomeInv is inductive by itself.
LEMMA OutcomeStep ==
  ASSUME TypeOK, OutcomeInv, [Next]_vars
  PROVE  OutcomeInv'
<1> USE DEF OutcomeInv, TypeOK
<1>1. ASSUME NEW r \in Request, ClaimCreate(r) PROVE OutcomeInv'
  BY <1>1 DEF ClaimCreate, NewWorker, NoWorker, EndPC, TailPC
<1>2. ASSUME NEW r \in Request, ClaimMetadata(r) PROVE OutcomeInv'
  BY <1>2 DEF ClaimMetadata, SetWorker, EndPC, TailPC
<1>3. ASSUME NEW r \in Request, StartWorker(r) PROVE OutcomeInv'
  BY <1>3 DEF StartWorker, SetWorker, EndPC, TailPC
<1>4. ASSUME NEW t \in Type, StageCreate(t) PROVE OutcomeInv'
  BY <1>4 DEF StageCreate, CreateUncontrolled, NewWorker, NoWorker, EndPC,
     TailPC
<1>5. ASSUME NEW t \in Type, TailCreate(t) PROVE OutcomeInv'
  BY <1>5 DEF TailCreate, CreateUncontrolled, NewWorker, NoWorker, EndPC,
     TailPC
<1>6. ASSUME NEW j \in Job, StageMetadata(j) PROVE OutcomeInv'
  BY <1>6 DEF StageMetadata, SetWorker, EndPC, TailPC
<1>7. ASSUME NEW j \in Job, Announce(j) PROVE OutcomeInv'
  BY <1>7 DEF Announce, Hold, EndPC, TailPC
<1>8. ASSUME NEW j \in Job, AnnounceWrite(j) PROVE OutcomeInv'
  BY <1>8 DEF AnnounceWrite, SetWorker, EndPC, TailPC
<1>9. ASSUME NEW j \in Job, Pulse(j) PROVE OutcomeInv'
  BY <1>9 DEF Pulse, Hold, EndPC, TailPC
<1>10. ASSUME NEW j \in Job, PulseWrite(j) PROVE OutcomeInv'
  BY <1>10 DEF PulseWrite, SetWorker, EndPC, TailPC
<1>11. ASSUME NEW j \in Job, Checkpoint(j) PROVE OutcomeInv'
  <2>1. CASE Decide(j, "finish", StopOutcome(control[j]))
    BY ControlTypes, <2>1 DEF Decide, EndPC, TailPC
  <2>2. CASE SetWorker(j, "runner")
    BY <2>2 DEF SetWorker, EndPC, TailPC
  <2> QED BY <1>11, <2>1, <2>2 DEF Checkpoint
<1>12. ASSUME NEW j \in Job, RunnerStops(j) PROVE OutcomeInv'
  BY ControlTypes, <1>12 DEF RunnerStops, Decide, EndPC, TailPC
<1>13. ASSUME NEW j \in Job, PostCheck(j) PROVE OutcomeInv'
  <2>1. CASE Decide(j, "finish", StopOutcome(control[j]))
    BY ControlTypes, <2>1 DEF Decide, EndPC, TailPC
  <2>2. CASE SetWorker(j, "batch")
    BY <1>13, <2>2 DEF PostCheck, SetWorker, EndPC, TailPC
  <2> QED BY <1>13, <2>1, <2>2 DEF PostCheck
<1>14. ASSUME NEW j \in Job, Batch(j) PROVE OutcomeInv'
  BY <1>14 DEF Batch, SetWorker, EndPC, TailPC
<1>15. ASSUME NEW j \in Job, Finish(j) PROVE OutcomeInv'
  BY <1>15 DEF Finish, Hold, EndPC, TailPC
<1>16. ASSUME NEW j \in Job, FinishCommit(j) PROVE OutcomeInv'
  BY <1>16 DEF FinishCommit, SetWorker, EndPC, TailPC
<1>17. ASSUME NEW j \in Job, FinishAttempt(j) PROVE OutcomeInv'
  BY <1>17 DEF FinishAttempt, SetWorker, EndPC, TailPC
<1>18. ASSUME NEW j \in Job, Clear(j) PROVE OutcomeInv'
  BY <1>18 DEF Clear, SetWorker, EndPC, TailPC
<1>19. ASSUME NEW j \in Job, RunnerRaises(j) PROVE OutcomeInv'
  BY <1>19 DEF RunnerRaises, Recover, Ended, Result, EndPC, TailPC
<1>20. ASSUME NEW j \in Job, NEW s \in Result, RunnerReturns(j, s) PROVE OutcomeInv'
  BY <1>20 DEF RunnerReturns, Decide, Ended, EndPC, TailPC
<1>21. ASSUME NEW j \in Job, Fault(j) PROVE OutcomeInv'
  <2>1. CASE Recover(j)
    BY <2>1 DEF Recover, EndPC, TailPC, Ended, Result
  <2>2. CASE SetWorker(j, IF worker[j].kind = "route" THEN "cleanup"
                             ELSE "done")
    BY <2>2 DEF SetWorker, EndPC, TailPC
  <2> QED BY <1>21, <2>1, <2>2 DEF Fault
<1>22. ASSUME NEW j \in Job, PulseFault(j) PROVE OutcomeInv'
  BY <1>22 DEF PulseFault, SetWorker, EndPC, TailPC
<1>23. ASSUME Crash PROVE OutcomeInv'
  BY <1>23 DEF Crash, NoWorker, EndPC, TailPC
<1>24. ASSUME UNCHANGED worker PROVE OutcomeInv'
  BY <1>24
<1>25. ASSUME NEW r \in Claimer, ClaimFault(r) PROVE OutcomeInv'
  <2>1. CASE UNCHANGED worker
    BY <2>1
  <2>2. CASE SetWorker(req[r].job, "register")
    BY <2>2 DEF SetWorker, EndPC
  <2>3. CASE SetWorker(req[r].job, "done")
    BY <2>3 DEF SetWorker, EndPC
  <2> QED BY <1>25, <2>1, <2>2, <2>3 DEF ClaimFault
<1>26. ASSUME NEW j \in Job, StageFault(j) PROVE OutcomeInv'
  <2>1. CASE SetWorker(j, "runner")
    BY <2>1 DEF SetWorker, EndPC
  <2>2. CASE SetWorker(j, "done")
    BY <2>2 DEF SetWorker, EndPC
  <2> QED BY <1>26, <2>1, <2>2 DEF StageFault
<1> QED
  BY <1>1, <1>2, <1>3, <1>4, <1>5, <1>6, <1>7, <1>8, <1>9, <1>10, <1>11,
     <1>12, <1>13, <1>14, <1>15, <1>16, <1>17, <1>18, <1>19, <1>20, <1>21,
     <1>22, <1>23, <1>24, <1>25, <1>26 DEF Next, WorkerStep, RunnerStep, WatchStep,
     RequestStep, SweepStep, vars, threads, others, ClaimCheck,
     CancelLookup, CancelRequest, CancelPersist, StageCheck, WatchWakes,
     WatchExpires, WatchReads, WatchWrites, DeadlinePasses, Age, SweepRead,
     SweepCommit, SweepAttempt, StageCreateFails

\* ExclusiveInv is inductive relative to TypeOK and OutcomeInv.
LEMMA ExclusiveStep ==
  ASSUME TypeOK, OutcomeInv, ExclusiveInv, [Next]_vars
  PROVE  ExclusiveInv'
<1>1. ASSUME NEW r \in Claimer, NEW t \in Type, ClaimCheck(r, t)
      PROVE  ExclusiveInv'
  <2>1. LockInv'
    BY <1>1, BoundsAssumption
    DEF ExclusiveInv, LockInv, TypeOK, ClaimCheck, NoReq, Request
  <2>2. PermitInv'
    BY <1>1 DEF ExclusiveInv, PermitInv, TypeOK, ClaimCheck, NoReq, Running,
                rows, threads
  <2>3. RunningTyped' /\ ClaimExclusive'
    BY <1>1 DEF ExclusiveInv, RunningTyped, ClaimExclusive, ClaimCheck,
                Running, rows, threads
  <2> QED BY <2>1, <2>2, <2>3 DEF ExclusiveInv
<1>2. ASSUME NEW r \in Request, ClaimCreate(r) PROVE ExclusiveInv'
  <2>1. PICK j \in Job :
          /\ CreateRow(j, req[r].type)
          /\ req' = [req EXCEPT ![r] = [@ EXCEPT !.pc = "metadata", !.job = j]]
          /\ worker' = [worker EXCEPT ![j] = NewWorker("route")]
    BY <1>2 DEF ClaimCreate
  <2>2. /\ req[r].type \in Type
        /\ \A k \in Job : Running(k) /\ worker[k].kind = "route"
                          => row[k].type \notin Conflicts[req[r].type]
    BY <1>2 DEF ExclusiveInv, PermitInv, ClaimCreate
  <2>3. /\ Running(j)' /\ row'[j].type = req[r].type
        /\ \A k \in Job \ {j} : row'[k] = row[k] /\ worker'[k] = worker[k]
    BY <2>1 DEF CreateRow, Running, TypeOK
  <2>4. LockInv'
    BY <1>2, <2>1 DEF ExclusiveInv, LockInv, TypeOK, ClaimCreate
  <2>5. PermitInv'
    <3> SUFFICES ASSUME NEW q \in Request, req'[q].pc = "create" PROVE FALSE
      BY DEF PermitInv
    <3>1. q # r /\ req[q].pc = "create"
      BY <2>1 DEF TypeOK
    <3> QED BY <1>2, <3>1 DEF ExclusiveInv, LockInv, ClaimCreate
  <2>6. RunningTyped'
    BY <2>2, <2>3 DEF ExclusiveInv, RunningTyped, Running
  <2>7. ClaimExclusive'
    <3> SUFFICES ASSUME NEW a \in Job, NEW b \in Job, a # b,
                        Running(a)', Running(b)',
                        worker'[a].kind = "route", worker'[b].kind = "route"
                 PROVE  row'[b].type \notin Conflicts[row'[a].type]
      BY DEF ClaimExclusive
    <3>1. CASE a # j /\ b # j
      BY <3>1, <2>3 DEF ExclusiveInv, ClaimExclusive, Running
    <3>2. CASE a = j
      BY <3>2, <2>2, <2>3 DEF Running
    <3>3. CASE b = j
      BY <3>3, <2>2, <2>3, ConflictsAssumption
      DEF Running, ExclusiveInv, RunningTyped
    <3> QED BY <3>1, <3>2, <3>3
  <2> QED BY <2>4, <2>5, <2>6, <2>7 DEF ExclusiveInv
<1>3. ASSUME NEW r \in Request, ClaimMetadata(r)
      PROVE  ExclusiveInv'
  <2>1. LockInv'
    BY <1>3 DEF ExclusiveInv, LockInv, TypeOK, ClaimMetadata, SetWorker
  <2>2. \A k \in Job : /\ row'[k].status = row[k].status
                       /\ row'[k].type = row[k].type
                       /\ worker'[k].kind = worker[k].kind
    BY <1>3 DEF TypeOK, RowRec, WorkerRec, ClaimMetadata, SetWorker
  <2>3. \A q \in Request : req'[q].pc = "create"
                           => req[q].pc = "create" /\ req'[q].type = req[q].type
    BY <1>3 DEF TypeOK, ClaimMetadata, SetWorker
  <2> QED BY <2>1, <2>2, <2>3
      DEF ExclusiveInv, RunningTyped, PermitInv, ClaimExclusive, Running
<1>4. ASSUME NEW r \in Request, StartWorker(r)
      PROVE  ExclusiveInv'
  <2>1. LockInv'
    BY <1>4 DEF ExclusiveInv, LockInv, TypeOK, StartWorker, SetWorker,
       NoReq, rows
  <2>2. \A k \in Job : /\ row'[k].status = row[k].status
                       /\ row'[k].type = row[k].type
                       /\ worker'[k].kind = worker[k].kind
    BY <1>4 DEF TypeOK, RowRec, WorkerRec, StartWorker, SetWorker, NoReq,
       rows
  <2>3. \A q \in Request : req'[q].pc = "create"
                           => req[q].pc = "create" /\ req'[q].type = req[q].type
    BY <1>4 DEF TypeOK, StartWorker, SetWorker, NoReq, rows
  <2> QED BY <2>1, <2>2, <2>3
      DEF ExclusiveInv, RunningTyped, PermitInv, ClaimExclusive, Running
<1>5. ASSUME NEW r \in Canceller, NEW j \in Job, CancelLookup(r, j)
      PROVE  ExclusiveInv'
  <2>1. LockInv'
    BY <1>5 DEF ExclusiveInv, LockInv, TypeOK, CancelLookup, NoReq, rows,
       threads
  <2>2. \A k \in Job : /\ row'[k].status = row[k].status
                       /\ row'[k].type = row[k].type
                       /\ worker'[k].kind = worker[k].kind
    BY <1>5 DEF TypeOK, RowRec, WorkerRec, CancelLookup, NoReq, rows,
       threads
  <2>3. \A q \in Request : req'[q].pc = "create"
                           => req[q].pc = "create" /\ req'[q].type = req[q].type
    BY <1>5 DEF TypeOK, CancelLookup, NoReq, rows, threads
  <2> QED BY <2>1, <2>2, <2>3
      DEF ExclusiveInv, RunningTyped, PermitInv, ClaimExclusive, Running
<1>6. ASSUME NEW r \in Request, CancelRequest(r)
      PROVE  ExclusiveInv'
  <2>1. LockInv'
    BY <1>6 DEF ExclusiveInv, LockInv, TypeOK, CancelRequest, rows, threads
  <2>2. \A k \in Job : /\ row'[k].status = row[k].status
                       /\ row'[k].type = row[k].type
                       /\ worker'[k].kind = worker[k].kind
    BY <1>6 DEF TypeOK, RowRec, WorkerRec, CancelRequest, rows, threads
  <2>3. \A q \in Request : req'[q].pc = "create"
                           => req[q].pc = "create" /\ req'[q].type = req[q].type
    BY <1>6 DEF TypeOK, CancelRequest, rows, threads
  <2> QED BY <2>1, <2>2, <2>3
      DEF ExclusiveInv, RunningTyped, PermitInv, ClaimExclusive, Running
<1>7. ASSUME NEW r \in Request, CancelPersist(r)
      PROVE  ExclusiveInv'
  <2>1. LockInv'
    BY <1>7 DEF ExclusiveInv, LockInv, TypeOK, CancelPersist, NoReq, threads
  <2>2. \A k \in Job : /\ row'[k].status = row[k].status
                       /\ row'[k].type = row[k].type
                       /\ worker'[k].kind = worker[k].kind
    BY <1>7 DEF TypeOK, RowRec, WorkerRec, CancelPersist, NoReq, threads
  <2>3. \A q \in Request : req'[q].pc = "create"
                           => req[q].pc = "create" /\ req'[q].type = req[q].type
    BY <1>7 DEF TypeOK, CancelPersist, NoReq, threads
  <2> QED BY <2>1, <2>2, <2>3
      DEF ExclusiveInv, RunningTyped, PermitInv, ClaimExclusive, Running
<1>8. ASSUME NEW t \in Type, StageCreate(t) PROVE ExclusiveInv'
  <2>1. PICK j \in Job : CreateUncontrolled(j, t)
    BY <1>8 DEF StageCreate
  <2>2. /\ row'[j].type \in Type /\ worker'[j].kind = "stage"
        /\ \A k \in Job \ {j} : row'[k] = row[k] /\ worker'[k] = worker[k]
    BY <2>1 DEF CreateUncontrolled, CreateRow, NewWorker, NoWorker, TypeOK
  <2>3. UNCHANGED <<req, lock>>
    BY <1>8 DEF StageCreate
  <2> QED BY <2>2, <2>3
      DEF ExclusiveInv, LockInv, RunningTyped, PermitInv, ClaimExclusive, Running
<1>9. ASSUME NEW t \in Type, TailCreate(t) PROVE ExclusiveInv'
  <2>1. PICK j \in Job : CreateUncontrolled(j, t)
    BY <1>9 DEF TailCreate
  <2>2. /\ row'[j].type \in Type /\ worker'[j].kind = "stage"
        /\ \A k \in Job \ {j} : row'[k] = row[k] /\ worker'[k] = worker[k]
    BY <2>1 DEF CreateUncontrolled, CreateRow, NewWorker, NoWorker, TypeOK
  <2>3. UNCHANGED <<req, lock>>
    BY <1>9 DEF TailCreate
  <2> QED BY <2>2, <2>3
      DEF ExclusiveInv, LockInv, RunningTyped, PermitInv, ClaimExclusive, Running
<1>10. ASSUME Crash PROVE ExclusiveInv'
  <2>1. \A r \in Request : req'[r].pc = "idle"
    BY <1>10 DEF Crash, NoReq
  <2>2. UNCHANGED row
    BY <1>10 DEF Crash, rows
  <2>3. \A k \in Job : worker'[k].kind \in {"none", worker[k].kind}
    BY <1>10 DEF Crash, NoWorker
  <2> QED BY <2>1, <2>2, <2>3
      DEF ExclusiveInv, LockInv, RunningTyped, PermitInv, ClaimExclusive, Running
<1>11. ASSUME NEW t \in Type, StageCheck(t) PROVE ExclusiveInv'
  <2>1. /\ UNCHANGED <<req, lock>>
        /\ \A k \in Job : Running(k)' =>
             /\ Running(k) /\ row'[k].type = row[k].type
             /\ worker'[k].kind = worker[k].kind
    BY <1>11 DEF StageCheck, Running, TypeOK, RowRec, WorkerRec, rows,
       threads
  <2> QED BY <2>1, QuietStep
<1>12. ASSUME NEW j \in Job, StageMetadata(j) PROVE ExclusiveInv'
  <2>1. /\ UNCHANGED <<req, lock>>
        /\ \A k \in Job : Running(k)' =>
             /\ Running(k) /\ row'[k].type = row[k].type
             /\ worker'[k].kind = worker[k].kind
    BY <1>12 DEF StageMetadata, Running, TypeOK, RowRec, WorkerRec,
       SetWorker
  <2> QED BY <2>1, QuietStep
<1>13. ASSUME NEW j \in Job, Announce(j) PROVE ExclusiveInv'
  <2>1. /\ UNCHANGED <<req, lock>>
        /\ \A k \in Job : Running(k)' =>
             /\ Running(k) /\ row'[k].type = row[k].type
             /\ worker'[k].kind = worker[k].kind
    BY <1>13 DEF Announce, Running, TypeOK, RowRec, WorkerRec, Hold, rows,
       others
  <2> QED BY <2>1, QuietStep
<1>14. ASSUME NEW j \in Job, AnnounceWrite(j) PROVE ExclusiveInv'
  <2>1. /\ UNCHANGED <<req, lock>>
        /\ \A k \in Job : Running(k)' =>
             /\ Running(k) /\ row'[k].type = row[k].type
             /\ worker'[k].kind = worker[k].kind
    BY <1>14 DEF AnnounceWrite, Running, TypeOK, RowRec, WorkerRec,
       SetWorker, others
  <2> QED BY <2>1, QuietStep
<1>15. ASSUME NEW j \in Job, Pulse(j) PROVE ExclusiveInv'
  <2>1. /\ UNCHANGED <<req, lock>>
        /\ \A k \in Job : Running(k)' =>
             /\ Running(k) /\ row'[k].type = row[k].type
             /\ worker'[k].kind = worker[k].kind
    BY <1>15 DEF Pulse, Running, TypeOK, RowRec, WorkerRec, Hold, rows,
       others
  <2> QED BY <2>1, QuietStep
<1>16. ASSUME NEW j \in Job, PulseWrite(j) PROVE ExclusiveInv'
  <2>1. /\ UNCHANGED <<req, lock>>
        /\ \A k \in Job : Running(k)' =>
             /\ Running(k) /\ row'[k].type = row[k].type
             /\ worker'[k].kind = worker[k].kind
    BY <1>16 DEF PulseWrite, Running, TypeOK, RowRec, WorkerRec, SetWorker,
       others
  <2> QED BY <2>1, QuietStep
<1>17. ASSUME NEW j \in Job, Checkpoint(j) PROVE ExclusiveInv'
  <2>0. UNCHANGED <<row, req, lock>>
    BY <1>17 DEF Checkpoint, rows, others
  <2>1. CASE Decide(j, "finish", StopOutcome(control[j]))
    <3>1. /\ UNCHANGED <<req, lock>>
          /\ \A k \in Job : Running(k)' =>
               /\ Running(k) /\ row'[k].type = row[k].type
               /\ worker'[k].kind = worker[k].kind
      BY <2>0, <2>1 DEF Decide, Running, TypeOK, WorkerRec
    <3> QED BY <3>1, QuietStep
  <2>2. CASE SetWorker(j, "runner")
    <3>1. /\ UNCHANGED <<req, lock>>
          /\ \A k \in Job : Running(k)' =>
               /\ Running(k) /\ row'[k].type = row[k].type
               /\ worker'[k].kind = worker[k].kind
      BY <2>0, <2>2 DEF SetWorker, Running, TypeOK, WorkerRec
    <3> QED BY <3>1, QuietStep
  <2> QED BY <1>17, <2>1, <2>2 DEF Checkpoint
<1>18. ASSUME NEW j \in Job, RunnerStops(j) PROVE ExclusiveInv'
  <2>1. /\ UNCHANGED <<req, lock>>
        /\ \A k \in Job : Running(k)' =>
             /\ Running(k) /\ row'[k].type = row[k].type
             /\ worker'[k].kind = worker[k].kind
    BY <1>18 DEF RunnerStops, Running, TypeOK, RowRec, WorkerRec, Decide,
       rows, others
  <2> QED BY <2>1, QuietStep
<1>19. ASSUME NEW j \in Job, PostCheck(j) PROVE ExclusiveInv'
  <2>0. UNCHANGED <<row, req, lock>>
    BY <1>19 DEF PostCheck, rows, others
  <2>1. CASE Decide(j, "finish", StopOutcome(control[j]))
    <3>1. /\ UNCHANGED <<req, lock>>
          /\ \A k \in Job : Running(k)' =>
               /\ Running(k) /\ row'[k].type = row[k].type
               /\ worker'[k].kind = worker[k].kind
      BY <2>0, <2>1 DEF Decide, Running, TypeOK, WorkerRec
    <3> QED BY <3>1, QuietStep
  <2>2. CASE SetWorker(j, "batch")
    <3>1. /\ UNCHANGED <<req, lock>>
          /\ \A k \in Job : Running(k)' =>
               /\ Running(k) /\ row'[k].type = row[k].type
               /\ worker'[k].kind = worker[k].kind
      BY <2>0, <2>2 DEF SetWorker, Running, TypeOK, WorkerRec
    <3> QED BY <3>1, QuietStep
  <2> QED BY <1>19, <2>1, <2>2 DEF PostCheck
<1>20. ASSUME NEW j \in Job, Batch(j) PROVE ExclusiveInv'
  <2>1. /\ UNCHANGED <<req, lock>>
        /\ \A k \in Job : Running(k)' =>
             /\ Running(k) /\ row'[k].type = row[k].type
             /\ worker'[k].kind = worker[k].kind
    BY <1>20 DEF Batch, Running, TypeOK, RowRec, WorkerRec, SetWorker, rows,
       others
  <2> QED BY <2>1, QuietStep
<1>21. ASSUME NEW j \in Job, Finish(j) PROVE ExclusiveInv'
  <2>1. /\ UNCHANGED <<req, lock>>
        /\ \A k \in Job : Running(k)' =>
             /\ Running(k) /\ row'[k].type = row[k].type
             /\ worker'[k].kind = worker[k].kind
    BY <1>21 DEF Finish, Running, TypeOK, RowRec, WorkerRec, Hold, rows,
       others
  <2> QED BY <2>1, QuietStep
<1>22. ASSUME NEW j \in Job, FinishCommit(j) PROVE ExclusiveInv'
  <2>1. /\ UNCHANGED <<req, lock>>
        /\ \A k \in Job : Running(k)' =>
             /\ Running(k) /\ row'[k].type = row[k].type
             /\ worker'[k].kind = worker[k].kind
    BY <1>22 DEF FinishCommit, Running, TypeOK, RowRec, WorkerRec,
       SetWorker, OutcomeInv, EndPC, Ended, Result, others
  <2> QED BY <2>1, QuietStep
<1>23. ASSUME NEW j \in Job, FinishAttempt(j) PROVE ExclusiveInv'
  <2>1. /\ UNCHANGED <<req, lock>>
        /\ \A k \in Job : Running(k)' =>
             /\ Running(k) /\ row'[k].type = row[k].type
             /\ worker'[k].kind = worker[k].kind
    BY <1>23 DEF FinishAttempt, Running, TypeOK, RowRec, WorkerRec,
       SetWorker, others
  <2> QED BY <2>1, QuietStep
<1>24. ASSUME NEW j \in Job, Clear(j) PROVE ExclusiveInv'
  <2>1. /\ UNCHANGED <<req, lock>>
        /\ \A k \in Job : Running(k)' =>
             /\ Running(k) /\ row'[k].type = row[k].type
             /\ worker'[k].kind = worker[k].kind
    BY <1>24 DEF Clear, Running, TypeOK, RowRec, WorkerRec, SetWorker, rows,
       others
  <2> QED BY <2>1, QuietStep
<1>25. ASSUME NEW j \in Job, RunnerRaises(j) PROVE ExclusiveInv'
  <2>1. /\ UNCHANGED <<req, lock>>
        /\ \A k \in Job : Running(k)' =>
             /\ Running(k) /\ row'[k].type = row[k].type
             /\ worker'[k].kind = worker[k].kind
    BY <1>25 DEF RunnerRaises, Running, TypeOK, RowRec, WorkerRec, Recover,
       rows, others
  <2> QED BY <2>1, QuietStep
<1>26. ASSUME NEW j \in Job, NEW s \in Result, RunnerReturns(j, s) PROVE ExclusiveInv'
  <2>1. /\ UNCHANGED <<req, lock>>
        /\ \A k \in Job : Running(k)' =>
             /\ Running(k) /\ row'[k].type = row[k].type
             /\ worker'[k].kind = worker[k].kind
    BY <1>26 DEF RunnerReturns, Running, TypeOK, RowRec, WorkerRec, Decide,
       rows, others
  <2> QED BY <2>1, QuietStep
<1>27. ASSUME NEW j \in Job, Fault(j) PROVE ExclusiveInv'
  <2>0. UNCHANGED <<row, req, lock>>
    BY <1>27 DEF Fault, rows, others
  <2>1. CASE Recover(j)
    <3>1. /\ UNCHANGED <<req, lock>>
          /\ \A k \in Job : Running(k)' =>
               /\ Running(k) /\ row'[k].type = row[k].type
               /\ worker'[k].kind = worker[k].kind
      BY <2>0, <2>1 DEF Recover, Running, TypeOK, WorkerRec
    <3> QED BY <3>1, QuietStep
  <2>2. CASE SetWorker(j, IF worker[j].kind = "route" THEN "cleanup"
                             ELSE "done")
    <3>1. /\ UNCHANGED <<req, lock>>
          /\ \A k \in Job : Running(k)' =>
               /\ Running(k) /\ row'[k].type = row[k].type
               /\ worker'[k].kind = worker[k].kind
      BY <2>0, <2>2 DEF SetWorker, Running, TypeOK, WorkerRec
    <3> QED BY <3>1, QuietStep
  <2> QED BY <1>27, <2>1, <2>2 DEF Fault
<1>28. ASSUME NEW j \in Job, PulseFault(j) PROVE ExclusiveInv'
  <2>1. /\ UNCHANGED <<req, lock>>
        /\ \A k \in Job : Running(k)' =>
             /\ Running(k) /\ row'[k].type = row[k].type
             /\ worker'[k].kind = worker[k].kind
    BY <1>28 DEF PulseFault, Running, TypeOK, RowRec, WorkerRec, SetWorker,
       rows, others
  <2> QED BY <2>1, QuietStep
<1>29. ASSUME NEW j \in Job, WatchWakes(j) PROVE ExclusiveInv'
  <2>1. /\ UNCHANGED <<req, lock>>
        /\ \A k \in Job : Running(k)' =>
             /\ Running(k) /\ row'[k].type = row[k].type
             /\ worker'[k].kind = worker[k].kind
    BY <1>29 DEF WatchWakes, Running, TypeOK, RowRec, WorkerRec, rows,
       others
  <2> QED BY <2>1, QuietStep
<1>30. ASSUME NEW j \in Job, WatchExpires(j) PROVE ExclusiveInv'
  <2>1. /\ UNCHANGED <<req, lock>>
        /\ \A k \in Job : Running(k)' =>
             /\ Running(k) /\ row'[k].type = row[k].type
             /\ worker'[k].kind = worker[k].kind
    BY <1>30 DEF WatchExpires, Running, TypeOK, RowRec, WorkerRec, rows,
       others
  <2> QED BY <2>1, QuietStep
<1>31. ASSUME NEW j \in Job, WatchReads(j) PROVE ExclusiveInv'
  <2>1. /\ UNCHANGED <<req, lock>>
        /\ \A k \in Job : Running(k)' =>
             /\ Running(k) /\ row'[k].type = row[k].type
             /\ worker'[k].kind = worker[k].kind
    BY <1>31 DEF WatchReads, Running, TypeOK, RowRec, WorkerRec, rows,
       others
  <2> QED BY <2>1, QuietStep
<1>32. ASSUME NEW j \in Job, WatchWrites(j) PROVE ExclusiveInv'
  <2>1. /\ UNCHANGED <<req, lock>>
        /\ \A k \in Job : Running(k)' =>
             /\ Running(k) /\ row'[k].type = row[k].type
             /\ worker'[k].kind = worker[k].kind
    BY <1>32 DEF WatchWrites, Running, TypeOK, RowRec, WorkerRec, others
  <2> QED BY <2>1, QuietStep
<1>33. ASSUME NEW j \in Job, DeadlinePasses(j) PROVE ExclusiveInv'
  <2>1. /\ UNCHANGED <<req, lock>>
        /\ \A k \in Job : Running(k)' =>
             /\ Running(k) /\ row'[k].type = row[k].type
             /\ worker'[k].kind = worker[k].kind
    BY <1>33 DEF DeadlinePasses, Running, TypeOK, RowRec, WorkerRec, rows,
       threads, others
  <2> QED BY <2>1, QuietStep
<1>34. ASSUME NEW j \in Job, Age(j) PROVE ExclusiveInv'
  <2>1. /\ UNCHANGED <<req, lock>>
        /\ \A k \in Job : Running(k)' =>
             /\ Running(k) /\ row'[k].type = row[k].type
             /\ worker'[k].kind = worker[k].kind
    BY <1>34 DEF Age, Running, TypeOK, RowRec, WorkerRec, rows, threads
  <2> QED BY <2>1, QuietStep
<1>35. ASSUME SweepRead PROVE ExclusiveInv'
  <2>1. /\ UNCHANGED <<req, lock>>
        /\ \A k \in Job : Running(k)' =>
             /\ Running(k) /\ row'[k].type = row[k].type
             /\ worker'[k].kind = worker[k].kind
    BY <1>35 DEF SweepRead, Running, TypeOK, RowRec, WorkerRec, rows,
       threads
  <2> QED BY <2>1, QuietStep
<1>36. ASSUME SweepCommit PROVE ExclusiveInv'
  <2>1. /\ UNCHANGED <<req, lock>>
        /\ \A k \in Job : Running(k)' =>
             /\ Running(k) /\ row'[k].type = row[k].type
             /\ worker'[k].kind = worker[k].kind
    BY <1>36 DEF SweepCommit, Running, TypeOK, RowRec, WorkerRec, threads
  <2> QED BY <2>1, QuietStep
<1>37. ASSUME NEW j \in Job, SweepAttempt(j) PROVE ExclusiveInv'
  <2>1. /\ UNCHANGED <<req, lock>>
        /\ \A k \in Job : Running(k)' =>
             /\ Running(k) /\ row'[k].type = row[k].type
             /\ worker'[k].kind = worker[k].kind
    BY <1>37 DEF SweepAttempt, Running, TypeOK, RowRec, WorkerRec, rows,
       threads
  <2> QED BY <2>1, QuietStep
<1>38. CASE UNCHANGED vars
  BY <1>38, QuietStep DEF vars, Running
<1>39. ASSUME NEW r \in Claimer, ClaimFault(r) PROVE ExclusiveInv'
  <2>1. /\ req[r].pc \in {"create", "metadata"}
        /\ req'[r].pc \in {"idle", "register"} /\ lock' = "free"
        /\ \A q \in Request : q # r => req'[q] = req[q]
    <3>1. CASE req[r].pc = "create" /\ req' = [req EXCEPT ![r] = NoReq]
      BY <1>39, <3>1 DEF ClaimFault, TypeOK, NoReq, Request
    <3>2. CASE /\ req[r].pc = "metadata"
               /\ req' = [req EXCEPT ![r].pc = "register"]
      BY <1>39, <3>2 DEF ClaimFault, TypeOK, Request, ReqRec
    <3>3. CASE req[r].pc = "metadata" /\ req' = [req EXCEPT ![r] = NoReq]
      BY <1>39, <3>3 DEF ClaimFault, TypeOK, NoReq, Request
    <3> QED BY <1>39, <3>1, <3>2, <3>3 DEF ClaimFault
  <2>2. LockInv'
    BY <2>1 DEF ExclusiveInv, LockInv, Request
  <2>3. PermitInv'
    BY <2>1 DEF ExclusiveInv, LockInv, PermitInv, Request
  <2>4. UNCHANGED row /\ \A k \in Job : worker'[k].kind = worker[k].kind
    <3>1. UNCHANGED row
      BY <1>39 DEF ClaimFault, rows
    <3>2. \/ UNCHANGED worker
          \/ \E pc \in {"register", "done"} : SetWorker(req[r].job, pc)
      BY <1>39 DEF ClaimFault
    <3> QED BY <3>1, <3>2 DEF TypeOK, WorkerRec, SetWorker
  <2>5. RunningTyped' /\ ClaimExclusive'
    BY <2>4 DEF ExclusiveInv, RunningTyped, ClaimExclusive, Running
  <2> QED BY <2>2, <2>3, <2>5 DEF ExclusiveInv
<1>40. ASSUME NEW j \in Job, StageFault(j) PROVE ExclusiveInv'
  <2>1. /\ UNCHANGED <<req, lock>>
        /\ \A k \in Job : Running(k)' =>
             /\ Running(k) /\ row'[k].type = row[k].type
             /\ worker'[k].kind = worker[k].kind
    BY <1>40 DEF StageFault, Running, TypeOK, WorkerRec, SetWorker, rows
  <2> QED BY <2>1, QuietStep
<1>41. ASSUME NEW t \in Type, StageCreateFails(t) PROVE ExclusiveInv'
  <2>1. /\ UNCHANGED <<req, lock>>
        /\ \A k \in Job : Running(k)' =>
             /\ Running(k) /\ row'[k].type = row[k].type
             /\ worker'[k].kind = worker[k].kind
    BY <1>41 DEF StageCreateFails, Running, rows, threads
  <2> QED BY <2>1, QuietStep
<1> QED
  BY <1>1, <1>2, <1>3, <1>4, <1>5, <1>6, <1>7, <1>8, <1>9, <1>10, <1>11,
     <1>12, <1>13, <1>14, <1>15, <1>16, <1>17, <1>18, <1>19, <1>20, <1>21,
     <1>22, <1>23, <1>24, <1>25, <1>26, <1>27, <1>28, <1>29, <1>30, <1>31,
     <1>32, <1>33, <1>34, <1>35, <1>36, <1>37, <1>38, <1>39, <1>40, <1>41
  DEF Next, WorkerStep, RunnerStep, WatchStep, RequestStep, SweepStep

\* Two claimed jobs of conflicting types never run at once: the invariant that
\* carries it is that the check a claim made stays true until its insert.
THEOREM ClaimsAreExclusive == Spec => []ClaimExclusive
<1>1. Init => OutcomeInv /\ ExclusiveInv
  BY DEF Init, OutcomeInv, ExclusiveInv, LockInv, RunningTyped, PermitInv,
         ClaimExclusive, Running, NoRow, NoReq, NoWorker, EndPC
<1>2. TypeOK /\ OutcomeInv /\ ExclusiveInv /\ [Next]_vars
        => OutcomeInv' /\ ExclusiveInv'
  BY OutcomeStep, ExclusiveStep
<1>3. ExclusiveInv => ClaimExclusive
  BY DEF ExclusiveInv
<1> QED BY <1>1, <1>2, <1>3, JobsTypeCorrect, PTL DEF Spec
=============================================================================
