---------------------------- MODULE CNPostClose ----------------------------
(***************************************************************************)
(* The A-share post-close scheduler of cn_market_scheduler.py: one thread  *)
(* polls every 30 seconds; once a trading day it refreshes the price lake, *)
(* or finds it fresh and recovers, records the day as done in its          *)
(* configuration, and starts the pipeline thread (training, candidates,    *)
(* report).  Each of these is a commit of its own, so a crash or a         *)
(* database error can fall between any two of them.                        *)
(*                                                                         *)
(* Days are trading days.  A row is a running row of data_jobs: ended rows *)
(* are never read here, so a row is free again when it ended and no thread *)
(* has its id.  The scheduler is enabled, as it is by default.             *)
(***************************************************************************)
EXTENDS Naturals

CONSTANTS
  MaxDay,      \* bound: the last trading day
  MaxRows,     \* bound: job rows in use at once
  MaxManual,   \* bound: refreshes started from the jobs page
  MaxCrashes,  \* bound: crashes of the process
  MaxFaults    \* bound: database errors

ASSUME BoundsAssumption ==
  /\ MaxDay \in Nat \ {0} /\ MaxRows \in Nat /\ MaxManual \in Nat
  /\ MaxCrashes \in Nat /\ MaxFaults \in Nat

Day == 1 .. MaxDay
Row == 1 .. MaxRows
NoRow == 0

VARIABLES
  clock,     \* the trading day, and whether its run time has come
  lake,      \* newest date with a partition in the price lake
  config,    \* last_run_trade_date and last_run_skipped
  sched,     \* the scheduler thread: where it is and its local variables
  row,       \* [Row -> running rows of data_jobs]
  pipeline,  \* ids of the rows whose pipeline thread is alive
  manual,    \* row of a refresh that a request runs, or NoRow
  fate,      \* history: [Day -> pipelines started, and whether none was due]
  used       \* manual refreshes, crashes and faults so far

vars == <<clock, lake, config, sched, row, pipeline, manual, fate, used>>
world == <<clock, pipeline, manual, used>>

----------------------------------------------------------------------------

Status == {"success", "partial", "unusable"}  \* unusable: failed or empty

Free   == [type |-> "free", old |-> FALSE]
New(t) == [type |-> t, old |-> FALSE]
Asleep == [pc |-> "idle", date |-> 0, via |-> "none", job |-> NoRow,
           pipe |-> NoRow, status |-> "unusable"]

Init ==
  /\ clock = [day |-> 1, due |-> FALSE]
  /\ lake = 0
  /\ config = [day |-> 0, skipped |-> FALSE]
  /\ sched = Asleep
  /\ row = [i \in Row |-> Free]
  /\ pipeline = {}
  /\ manual = NoRow
  /\ fate = [d \in Day |-> [starts |-> 0, spared |-> FALSE]]
  /\ used = [manual |-> 0, crashes |-> 0, faults |-> 0]

At(pc) == sched.pc = pc
Goto(pc) == sched' = [sched EXCEPT !.pc = pc]
Sleep == sched' = Asleep

Running(type) == {i \in Row : row[i].type = type}
Unused(i) ==
  row[i] = Free /\ i \notin pipeline \cup {manual, sched.job, sched.pipe}

\* The id that the next insert gets: the lowest one nobody uses.
NextRow(i) == Unused(i) /\ \A j \in Row : Unused(j) => i <= j

Create(i, type) == row' = [row EXCEPT ![i] = New(type)]
Close(i) == row' = [row EXCEPT ![i] = Free]

\* complete_stale_running_jobs for one type.
Swept(type) ==
  [i \in Row |-> IF row[i].type = type /\ row[i].old THEN Free ELSE row[i]]

\* get_latest_lake_trade_date: a session counts when it is complete.
Latest == IF clock.due \/ lake < clock.day THEN lake ELSE clock.day - 1

\* Mutation of Persisted: the next session is recorded.
PersistedNext(d, skipped) == [day |-> d + 1, skipped |-> skipped]

Persisted(d, skipped) == [day |-> d, skipped |-> skipped]

\* No pipeline is owed to the day.
Spare(d) == fate' = [fate EXCEPT ![d].spared = TRUE]

----------------------------------------------------------------------------
(* run_due_job.                                                            *)

\* Mutation of Owed: the day is not compared with the last run.
OwedAlways == clock.due

\* Mutation of Owed: a skipped run counts as a run.
OwedUnlessRun == clock.due /\ config.day # clock.day

\* The run time has come and the day is not recorded as done.
Owed == clock.due /\ (config.day # clock.day \/ config.skipped)

Poll ==
  /\ At("idle") /\ Owed
  /\ sched' = [Asleep EXCEPT
       !.pc = IF Latest >= clock.day THEN "recoverCreate" ELSE "check",
       !.via = IF Latest >= clock.day THEN "recovery" ELSE "refresh",
       !.date = clock.day]
  /\ UNCHANGED <<world, lake, config, row, fate>>

----------------------------------------------------------------------------
(* _recover_post_close_pipeline: the lake is fresh already.                *)

RecoverCreate ==
  /\ At("recoverCreate")
  /\ \E i \in Row :
       /\ NextRow(i) /\ Create(i, "refresh")
       /\ sched' = [sched EXCEPT !.pc = "recoverComplete", !.job = i]
  /\ UNCHANGED <<world, lake, config, fate>>

RecoverComplete ==
  /\ At("recoverComplete")
  /\ Close(sched.job)
  /\ Goto("recoverPersist")
  /\ UNCHANGED <<world, lake, config, fate>>

RecoverPersist ==
  /\ At("recoverPersist")
  /\ config' = Persisted(sched.date, FALSE)
  /\ Goto("startCheck")
  /\ UNCHANGED <<world, lake, row, fate>>

\* The pipeline could not be started: keep the recovery eligible.
RecoverSkip ==
  /\ At("recoverSkip")
  /\ config' = Persisted(sched.date, TRUE)
  /\ Sleep
  /\ UNCHANGED <<world, lake, row, fate>>

----------------------------------------------------------------------------
(* run_now(trigger="scheduler").                                           *)

\* Sweep old refresh rows; when one is still running, try at the next poll.
Check ==
  /\ At("check")
  /\ row' = Swept("refresh")
  /\ IF \E i \in Row : Swept("refresh")[i].type = "refresh"
     THEN Sleep ELSE Goto("create")
  /\ UNCHANGED <<world, lake, config, fate>>

CreateRefresh ==
  /\ At("create")
  /\ \E i \in Row :
       /\ NextRow(i) /\ Create(i, "refresh")
       /\ sched' = [sched EXCEPT !.pc = "metadata", !.job = i]
  /\ UNCHANGED <<world, lake, config, fate>>

\* The second commit of create_job, still outside the try block.
Metadata ==
  /\ At("metadata")
  /\ Goto("refresh")
  /\ UNCHANGED <<world, lake, config, row, fate>>

\* What the lake may hold after an attempt to write d to it.
Written(d) == {lake, IF d > lake THEN d ELSE lake}

\* _refresh_cn_price_lake.  Whatever its result says, the date may not show in
\* the lake, whose cached listing can be older than the write.
Refresh(status) ==
  /\ At("refresh")
  /\ lake' \in Written(sched.date)
  /\ sched' = [sched EXCEPT !.pc = "complete", !.status = status]
  /\ UNCHANGED <<world, config, row, fate>>

RefreshRaises ==
  /\ At("refresh")
  /\ lake' \in Written(sched.date)
  /\ Goto("fail")
  /\ UNCHANGED <<world, config, row, fate>>

Complete ==
  /\ At("complete")
  /\ Close(sched.job)
  /\ Goto("persist")
  /\ UNCHANGED <<world, lake, config, fate>>

\* The day is done, whatever the result was.
Persist ==
  /\ At("persist")
  /\ config' = Persisted(sched.date, FALSE)
  /\ Goto("ready")
  /\ UNCHANGED <<world, lake, row, fate>>

\* Mutation of Usable: a partial refresh strands the pipeline.
UsableSuccess(status) == status = "success"

Usable(status) == status \in {"success", "partial"}

\* _post_refresh_ready.
Ready ==
  /\ At("ready")
  /\ IF Usable(sched.status) /\ Latest >= sched.date
     THEN Goto("startCheck") ELSE Sleep
  /\ IF sched.status = "unusable" \/ Latest < sched.date
     THEN Spare(sched.date) ELSE UNCHANGED fate
  /\ UNCHANGED <<world, lake, config, row>>

\* The outer except: the refresh row ends as failed, the day stays as it is.
Fail ==
  /\ At("fail")
  /\ Close(sched.job)
  /\ Sleep
  /\ UNCHANGED <<world, lake, config, fate>>

----------------------------------------------------------------------------
(* _start_post_close_pipeline, for both callers.                           *)

\* Mutation of StartCheck: nobody asks whether a pipeline is running.
StartCheckBlind ==
  /\ At("startCheck")
  /\ row' = Swept("pipeline")
  /\ Goto("startCreate")
  /\ UNCHANGED <<world, lake, config, fate>>

\* Sweep old pipeline rows; when one is still running, return silently.
StartCheck ==
  /\ At("startCheck")
  /\ row' = Swept("pipeline")
  /\ IF \E i \in Row : Swept("pipeline")[i].type = "pipeline"
     THEN Goto("collect") /\ Spare(sched.date)
     ELSE Goto("startCreate") /\ UNCHANGED fate
  /\ UNCHANGED <<world, lake, config>>

StartCreate ==
  /\ At("startCreate")
  /\ \E i \in Row :
       /\ NextRow(i) /\ Create(i, "pipeline")
       /\ sched' = [sched EXCEPT !.pc = "startThread", !.pipe = i]
  /\ UNCHANGED <<world, lake, config, fate>>

\* The row's metadata is committed and the thread started.
StartThread ==
  /\ At("startThread")
  /\ pipeline' = pipeline \cup {sched.pipe}
  /\ fate' = [fate EXCEPT ![sched.date].starts = @ + 1]
  /\ sched' = [sched EXCEPT !.pc = "collect", !.pipe = NoRow]
  /\ UNCHANGED <<clock, lake, config, row, manual, used>>

\* The risk and collection threads, whose rows nobody here reads.
Collect ==
  /\ At("collect")
  /\ Sleep
  /\ UNCHANGED <<world, lake, config, row, fate>>

----------------------------------------------------------------------------
(* Errors of the scheduler's database calls, and where they are caught.    *)

Starting == {"startCheck", "startCreate", "startThread"}
Tried    == {"complete", "persist", "ready"} \cup Starting \cup {"collect"}
Loop     == {"recoverCreate", "recoverComplete", "recoverPersist",
             "recoverSkip", "check", "create", "metadata", "fail"}

Handler ==
  CASE At("collect") /\ sched.via = "recovery"      -> "idle"
    [] sched.pc \in Starting /\ sched.via = "recovery" -> "recoverSkip"
    [] sched.pc \in Tried /\ sched.via = "refresh"  -> "fail"
    [] OTHER                                        -> "idle"

\* An exception in a row's metadata leaves the row running.
Fault ==
  /\ used.faults < MaxFaults
  /\ sched.pc \in Tried \cup Loop
  /\ IF Handler = "idle" THEN Sleep
     ELSE sched' = [sched EXCEPT !.pc = Handler, !.pipe = NoRow]
  /\ used' = [used EXCEPT !.faults = @ + 1]
  /\ UNCHANGED <<clock, lake, config, row, pipeline, manual, fate>>

----------------------------------------------------------------------------
(* The pipeline threads, requests, the dashboard, time and crashes.        *)

\* _run_post_close_pipeline completes its row, whether its stages failed or not.
PipelineEnds(i) ==
  /\ i \in pipeline
  /\ pipeline' = pipeline \ {i}
  /\ Close(i)
  /\ UNCHANGED <<clock, lake, config, sched, manual, fate, used>>

\* Completing the row fails in both handlers: it stays running.
PipelineFault(i) ==
  /\ i \in pipeline /\ used.faults < MaxFaults
  /\ pipeline' = pipeline \ {i}
  /\ used' = [used EXCEPT !.faults = @ + 1]
  /\ UNCHANGED <<clock, lake, config, sched, row, manual, fate>>

\* POST /jobs/refresh-cn-market-data-lake-only: no check, no pipeline.
ManualStart ==
  /\ manual = NoRow /\ used.manual < MaxManual
  /\ \E i \in Row : NextRow(i) /\ Create(i, "refresh") /\ manual' = i
  /\ used' = [used EXCEPT !.manual = @ + 1]
  /\ UNCHANGED <<clock, lake, config, sched, pipeline, fate>>

ManualEnds ==
  /\ manual # NoRow
  /\ lake' \in Written(clock.day)
  /\ Close(manual)
  /\ manual' = NoRow
  /\ UNCHANGED <<clock, config, sched, pipeline, fate, used>>

\* A row passes the age limit of the sweeps.
Age(i) ==
  /\ row[i].type # "free" /\ ~row[i].old
  /\ row' = [row EXCEPT ![i].old = TRUE]
  /\ UNCHANGED <<world, lake, config, sched, fate>>

\* The dashboard sweeps the rows of every type.
Dashboard ==
  /\ \E i \in Row : row[i].old
  /\ row' = [i \in Row |-> IF row[i].old THEN Free ELSE row[i]]
  /\ UNCHANGED <<world, lake, config, sched, fate>>

Tick ==
  /\ \/ ~clock.due /\ clock' = [clock EXCEPT !.due = TRUE]
     \/ /\ clock.due /\ clock.day < MaxDay
        /\ clock' = [day |-> clock.day + 1, due |-> FALSE]
  /\ UNCHANGED <<lake, config, sched, row, pipeline, manual, fate, used>>

Crash ==
  /\ used.crashes < MaxCrashes
  /\ used' = [used EXCEPT !.crashes = @ + 1]
  /\ Sleep /\ pipeline' = {} /\ manual' = NoRow
  /\ UNCHANGED <<clock, lake, config, row, fate>>

----------------------------------------------------------------------------

\* What the scheduler does by itself; a refresh may hang in a provider.
SchedStep ==
  \/ Poll \/ RecoverCreate \/ RecoverComplete \/ RecoverPersist \/ RecoverSkip
  \/ Check \/ CreateRefresh \/ Metadata \/ Complete \/ Persist \/ Ready \/ Fail
  \/ StartCheck \/ StartCreate \/ StartThread \/ Collect

Next ==
  \/ SchedStep
  \/ RefreshRaises \/ \E s \in Status : Refresh(s)
  \/ Fault
  \/ \E i \in Row : PipelineEnds(i) \/ PipelineFault(i) \/ Age(i)
  \/ ManualStart \/ ManualEnds \/ Dashboard \/ Tick \/ Crash

Spec == Init /\ [][Next]_vars

\* The polling thread is alive while the process is, and its database calls
\* return.  Time, requests and providers owe nothing.
FairSpec == Spec /\ WF_vars(SchedStep)

----------------------------------------------------------------------------
(* Properties. *)

SchedPC   == {"idle", "refresh"} \cup Tried \cup Loop
ClockRec  == [day : Day, due : BOOLEAN]
ConfigRec == [day : 0 .. MaxDay, skipped : BOOLEAN]
SchedRec  == [pc : SchedPC, date : 0 .. MaxDay,
              via : {"none", "recovery", "refresh"}, job : Row \cup {NoRow},
              pipe : Row \cup {NoRow}, status : Status]
RowRec    == [type : {"free", "refresh", "pipeline"}, old : BOOLEAN]
FateRec   == [starts : Nat, spared : BOOLEAN]
UsedRec   == [manual : 0 .. MaxManual, crashes : 0 .. MaxCrashes,
              faults : 0 .. MaxFaults]

TypeOK ==
  /\ clock \in ClockRec
  /\ lake \in 0 .. MaxDay
  /\ config \in ConfigRec
  /\ sched \in SchedRec
  /\ row \in [Row -> RowRec]
  /\ pipeline \subseteq Row
  /\ manual \in Row \cup {NoRow}
  /\ fate \in [Day -> FateRec]
  /\ used \in UsedRec

\* A trading day's pipeline is started at most once, however often the day is
\* polled, refreshed, recovered, interrupted by a crash or retried: training and
\* the report are not run twice.
PipelineOncePerDay == \A d \in Day : fate[d].starts <= 1

\* There is never a second running row of the pipeline: the one of yesterday,
\* or one whose thread died, keeps the next away until a sweep closes it.
OnePipelineRow ==
  \A i, j \in Row : row[i].type = "pipeline" /\ row[j].type = "pipeline" => i = j

Done(d) == At("idle") /\ config = Persisted(d, FALSE) /\ fate[d].starts = 0

\* When nothing fails, a day that is recorded as done had its pipeline, unless
\* its refresh was not usable or another pipeline was running: a partial
\* refresh does not strand the day.
NoDayLost ==
  \A d \in Day : Done(d) => fate[d].spared \/ used.crashes + used.faults > 0

\* "Keep the recovery eligible for the next 30-second scheduler poll.  A fresh
\* lake alone must not permanently suppress dependent models": an exception
\* does not cost the day its pipeline either.
StartNotAbandoned ==
  \A d \in Day : Done(d) => fate[d].spared \/ used.crashes > 0

Exhausted == used.crashes = MaxCrashes /\ used.faults = MaxFaults

\* A fresh lake gets its pipeline at a poll, also after a refresh that was
\* interrupted by a crash and after a recovery that failed to start it, if the
\* day lasts, nothing fails again and no other pipeline row is running.
FreshLakeRuns ==
  \A d \in Day :
    (/\ At("idle") /\ clock = [day |-> d, due |-> TRUE] /\ lake >= d
     /\ config.day # d \/ config.skipped
     /\ Exhausted)
    ~> fate[d].starts > 0 \/ clock.day > d \/ Running("pipeline") # {}
=============================================================================
