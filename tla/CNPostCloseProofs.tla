------------------------- MODULE CNPostCloseProofs -------------------------
(***************************************************************************)
(* For any number of days, rows, manual refreshes, crashes and database    *)
(* errors: the types, at most one pipeline per trading day, at most one    *)
(* running row of the pipeline, and no day lost without a cause.           *)
(*                                                                         *)
(* PipelineOncePerDay is not inductive: StartThread must know that the day *)
(* has no pipeline yet.  It has none because the thread came through a     *)
(* poll that found the day open (Fresh), because only days up to the last  *)
(* recorded one have a pipeline (NoneAhead), because a day recorded as     *)
(* skipped has none (SkippedFree), and because the day is recorded before  *)
(* the start (Recorded), so no later poll finds it open again.             *)
(***************************************************************************)
EXTENDS CNPostClose, TLAPS

\* Where a scheduler that is awake has not started the pipeline of its date.
Unstarted == SchedPC \ {"idle", "collect", "fail"}

Awake == sched.pc # "idle" =>
  /\ sched.date \in Day
  /\ sched.date <= clock.day /\ config.day <= sched.date

\* It has inserted the row of the thread it is about to start.
Holding == sched.pc = "startThread" => sched.pipe \in Row

NoneAhead == \A d \in Day : d > config.day => fate[d].starts = 0

SkippedFree == config.skipped /\ config.day \in Day => fate[config.day].starts = 0

Fresh == sched.pc \in Unstarted => fate[sched.date].starts = 0

Recorded ==
  sched.pc \in Starting \cup {"ready"} => config = [day |-> sched.date, skipped |-> FALSE]

OnceInv ==
  /\ TypeOK /\ Holding /\ Awake /\ NoneAhead /\ SkippedFree /\ Fresh /\ Recorded
  /\ config.day <= clock.day
  /\ PipelineOncePerDay

----------------------------------------------------------------------------
(* Types. *)

\* The scheduler's record stays one wherever it goes.
LEMMA SchedTypes ==
  ASSUME TypeOK
  PROVE  /\ Asleep \in SchedRec
         /\ \A pc \in SchedPC : [sched EXCEPT !.pc = pc] \in SchedRec
         /\ \A pc \in SchedPC, i \in Row :
              /\ [sched EXCEPT !.pc = pc, !.job = i] \in SchedRec
              /\ [sched EXCEPT !.pc = pc, !.pipe = i] \in SchedRec
         /\ \A pc \in SchedPC : [sched EXCEPT !.pc = pc, !.pipe = NoRow] \in SchedRec
         /\ \A pc \in SchedPC, s \in Status :
              [sched EXCEPT !.pc = pc, !.status = s] \in SchedRec
<1> USE DEF TypeOK, SchedRec
<1>1. Asleep \in SchedRec
  BY BoundsAssumption DEF Asleep, SchedPC, Status, NoRow
<1> QED BY <1>1 DEF NoRow

\* So do the rows.
LEMMA RowTypes ==
  ASSUME TypeOK
  PROVE  /\ Free \in RowRec
         /\ \A i : Close(i) => row' \in [Row -> RowRec]
         /\ \A i, t : t \in {"refresh", "pipeline"} /\ Create(i, t)
              => row' \in [Row -> RowRec]
         /\ \A t : Swept(t) \in [Row -> RowRec]
<1>1. Free \in RowRec /\ \A t \in {"refresh", "pipeline"} : New(t) \in RowRec
  BY DEF Free, New, RowRec
<1> QED BY <1>1 DEF TypeOK, Close, Create, Swept

LEMMA OtherTypes ==
  ASSUME TypeOK
  PROVE  /\ \A d \in Day, b \in BOOLEAN : Persisted(d, b) \in ConfigRec
         /\ \A d \in Day : Written(d) \subseteq 0 .. MaxDay
         /\ \A d \in Day : Spare(d) => fate' \in [Day -> FateRec]
         /\ used.manual < MaxManual => [used EXCEPT !.manual = @ + 1] \in UsedRec
         /\ used.crashes < MaxCrashes => [used EXCEPT !.crashes = @ + 1] \in UsedRec
         /\ used.faults < MaxFaults => [used EXCEPT !.faults = @ + 1] \in UsedRec
<1> USE BoundsAssumption DEF TypeOK
<1>1. \A d \in Day, b \in BOOLEAN : Persisted(d, b) \in ConfigRec
  BY DEF Persisted, ConfigRec, Day
<1>2. \A d \in Day : Written(d) \subseteq 0 .. MaxDay
  BY DEF Written, Day
<1>3. \A d \in Day : Spare(d) => fate' \in [Day -> FateRec]
  BY DEF Spare, FateRec
<1>4. /\ used.manual < MaxManual => [used EXCEPT !.manual = @ + 1] \in UsedRec
      /\ used.crashes < MaxCrashes => [used EXCEPT !.crashes = @ + 1] \in UsedRec
      /\ used.faults < MaxFaults => [used EXCEPT !.faults = @ + 1] \in UsedRec
  BY DEF UsedRec
<1> QED BY <1>1, <1>2, <1>3, <1>4

----------------------------------------------------------------------------

LEMMA OnceInit == Init => OnceInv
<1> SUFFICES ASSUME Init PROVE OnceInv
  OBVIOUS
<1> USE BoundsAssumption DEF Init
<1>1. TypeOK
  <2>1. clock \in ClockRec /\ lake \in 0 .. MaxDay /\ config \in ConfigRec
    BY DEF ClockRec, ConfigRec, Day
  <2>2. sched \in SchedRec
    BY DEF Asleep, SchedRec, SchedPC, Status, NoRow
  <2>3. row \in [Row -> RowRec] /\ pipeline \subseteq Row /\ manual \in Row \cup {NoRow}
    BY DEF Free, RowRec
  <2>4. fate \in [Day -> FateRec] /\ used \in UsedRec
    BY DEF FateRec, UsedRec
  <2> QED BY <2>1, <2>2, <2>3, <2>4 DEF TypeOK
<1>2. Awake /\ Fresh /\ Recorded
  BY DEF Asleep, Awake, Fresh, Recorded, Unstarted, Starting
<1>2a. Holding
  BY DEF Asleep, Holding
<1>3. NoneAhead /\ SkippedFree /\ PipelineOncePerDay /\ config.day <= clock.day
  BY DEF NoneAhead, SkippedFree, PipelineOncePerDay, Day
<1> QED BY <1>1, <1>2, <1>2a, <1>3 DEF OnceInv

\* The history of the days is what OnceInv says of config, sched and fate.
Once == /\ Awake /\ NoneAhead /\ SkippedFree /\ Fresh /\ Recorded
        /\ config.day <= clock.day /\ PipelineOncePerDay

\* A step of the scheduler that touches neither config nor fate, and keeps its
\* date, keeps Once if it stays before the start of the pipeline, or leaves it.
LEMMA MoveKeeps ==
  ASSUME OnceInv, UNCHANGED <<clock, config, fate>>,
         sched'.pc # "idle" => sched'.date = sched.date /\ sched.pc # "idle",
         sched'.pc \in Unstarted => sched.pc \in Unstarted,
         sched'.pc \in Starting \cup {"ready"} =>
           config = [day |-> sched.date, skipped |-> FALSE]
  PROVE  Once'
BY DEF OnceInv, Once, Awake, NoneAhead, SkippedFree, Fresh, Recorded,
       PipelineOncePerDay, Unstarted, Starting

\* A step that leaves the scheduler alone, or sends it to sleep.
LEMMA RestKeeps ==
  ASSUME OnceInv, UNCHANGED <<config, fate>>, TypeOK',
         clock.day <= clock'.day, UNCHANGED sched \/ Sleep
  PROVE  Once'
<1>1. Sleep => sched'.pc = "idle"
  BY DEF Sleep, Asleep
<1>2. clock.day \in Nat /\ clock'.day \in Nat /\ config.day \in Nat /\ sched.date \in Nat
  BY BoundsAssumption DEF OnceInv, TypeOK, ClockRec, ConfigRec, SchedRec, Day
<1>3. Awake'
  BY <1>1, <1>2 DEF OnceInv, Awake
<1>4. NoneAhead' /\ SkippedFree' /\ PipelineOncePerDay' /\ (config.day <= clock.day)'
  BY <1>2 DEF OnceInv, NoneAhead, SkippedFree, PipelineOncePerDay
<1>5. Fresh' /\ Recorded'
  BY <1>1 DEF OnceInv, Fresh, Recorded, Unstarted, Starting
<1> QED BY <1>3, <1>4, <1>5 DEF Once

----------------------------------------------------------------------------
(* The types, action by action.                                            *)

LEMMA TypeStep ==
  ASSUME TypeOK, Awake, Holding, [Next]_vars
  PROVE  TypeOK'
<1> USE DEF At, world
<1> DEFINE Named == {"recoverCreate", "recoverComplete", "recoverPersist",
                     "recoverSkip", "check", "create", "metadata", "refresh",
                     "complete", "persist", "ready", "fail", "startCheck",
                     "startCreate", "startThread", "collect", "idle"}
<1>0. Named = SchedPC
  BY DEF SchedPC, Tried, Loop, Starting
<1>a. At("idle") \/ sched.date \in Day
  BY DEF Awake
<1>b. clock.day \in Day /\ clock.due \in BOOLEAN
  BY DEF TypeOK, ClockRec
<1>s. /\ Asleep \in SchedRec
      /\ \A pc \in Named : [sched EXCEPT !.pc = pc] \in SchedRec
      /\ \A pc \in Named, i \in Row :
           /\ [sched EXCEPT !.pc = pc, !.job = i] \in SchedRec
           /\ [sched EXCEPT !.pc = pc, !.pipe = i] \in SchedRec
      /\ \A pc \in Named : [sched EXCEPT !.pc = pc, !.pipe = NoRow] \in SchedRec
      /\ \A pc \in Named, s \in Status :
           [sched EXCEPT !.pc = pc, !.status = s] \in SchedRec
  BY <1>0, SchedTypes
<1>g. \A pc \in Named : Goto(pc) => sched' \in SchedRec
  BY <1>s DEF Goto
<1>z. Sleep => sched' \in SchedRec
  BY <1>s DEF Sleep
<1>3. CASE Poll
  <2> DEFINE next == IF Latest >= clock.day THEN "recoverCreate" ELSE "check"
             way == IF Latest >= clock.day THEN "recovery" ELSE "refresh"
  <2>1. next \in SchedPC /\ way \in {"none", "recovery", "refresh"}
    BY <1>0
  <2>2. clock.day \in 0 .. MaxDay
    BY <1>b, BoundsAssumption DEF Day
  <2>3. sched' = [Asleep EXCEPT !.pc = next, !.via = way, !.date = clock.day]
    BY <1>3 DEF Poll
  <2> HIDE DEF next, way
  <2>4. sched' \in SchedRec
    BY <2>1, <2>2, <2>3, <1>s DEF SchedRec
  <2> QED BY <1>3, <2>4 DEF Poll, TypeOK
<1>4. CASE RecoverCreate \/ CreateRefresh
  <2>1. PICK i \in Row : /\ Create(i, "refresh")
                         /\ \/ sched' = [sched EXCEPT !.pc = "recoverComplete", !.job = i]
                            \/ sched' = [sched EXCEPT !.pc = "metadata", !.job = i]
    BY <1>4 DEF RecoverCreate, CreateRefresh
  <2>2. sched' \in SchedRec
    <3>1. "recoverComplete" \in Named /\ "metadata" \in Named
      OBVIOUS
    <3> HIDE DEF Named
    <3> QED BY <1>s, <2>1, <3>1
  <2>3. row' \in [Row -> RowRec]
    BY RowTypes, <2>1
  <2> QED BY <1>4, <2>2, <2>3 DEF RecoverCreate, CreateRefresh, TypeOK
<1>5. CASE RecoverComplete \/ Metadata \/ Complete \/ Fail \/ Collect
  <2>1. sched' \in SchedRec
    BY <1>g, <1>z, <1>5 DEF RecoverComplete, Metadata, Complete, Fail, Collect
  <2>2. row' \in [Row -> RowRec]
    BY RowTypes, <1>5
    DEF RecoverComplete, Metadata, Complete, Fail, Collect, TypeOK
  <2>3. UNCHANGED <<clock, lake, config, pipeline, manual, fate, used>>
    BY <1>5 DEF RecoverComplete, Metadata, Complete, Fail, Collect
  <2> QED BY <2>1, <2>2, <2>3 DEF TypeOK
<1>6. CASE RecoverPersist \/ RecoverSkip \/ Persist
  <2>1. sched' \in SchedRec
    BY <1>g, <1>z, <1>6 DEF RecoverPersist, RecoverSkip, Persist
  <2>2. config' \in ConfigRec
    BY OtherTypes, <1>a, <1>6 DEF RecoverPersist, RecoverSkip, Persist
  <2> QED BY <1>6, <2>1, <2>2 DEF RecoverPersist, RecoverSkip, Persist, TypeOK
<1>7. CASE Check
  <2>1. sched' \in SchedRec
    BY <1>g, <1>z, <1>7 DEF Check
  <2>2. row' \in [Row -> RowRec]
    BY RowTypes, <1>7 DEF Check
  <2> QED BY <1>7, <2>1, <2>2 DEF Check, TypeOK
<1>8. CASE RefreshRaises \/ \E s \in Status : Refresh(s)
  <2>1. lake' \in 0 .. MaxDay
    BY OtherTypes, <1>a, <1>8 DEF RefreshRaises, Refresh
  <2>2. sched' \in SchedRec
    BY <1>g, <1>s, <1>8 DEF RefreshRaises, Refresh
  <2> QED BY <1>8, <2>1, <2>2 DEF RefreshRaises, Refresh, TypeOK
<1>9. CASE Ready
  <2>1. sched' \in SchedRec
    BY <1>g, <1>z, <1>9 DEF Ready
  <2>2. fate' \in [Day -> FateRec]
    BY OtherTypes, <1>a, <1>9 DEF Ready, TypeOK
  <2> QED BY <1>9, <2>1, <2>2 DEF Ready, TypeOK
<1>10. CASE StartCheck
  <2>1. sched' \in SchedRec
    BY <1>g, <1>10 DEF StartCheck
  <2>2. row' \in [Row -> RowRec]
    BY RowTypes, <1>10 DEF StartCheck
  <2>3. fate' \in [Day -> FateRec]
    BY OtherTypes, <1>a, <1>10 DEF StartCheck, TypeOK
  <2> QED BY <1>10, <2>1, <2>2, <2>3 DEF StartCheck, TypeOK
<1>11. CASE StartCreate
  <2>1. PICK i \in Row : /\ Create(i, "pipeline")
                         /\ sched' = [sched EXCEPT !.pc = "startThread", !.pipe = i]
    BY <1>11 DEF StartCreate
  <2>2. sched' \in SchedRec
    BY <1>s, <2>1
  <2>3. row' \in [Row -> RowRec]
    BY RowTypes, <2>1
  <2> QED BY <1>11, <2>2, <2>3 DEF StartCreate, TypeOK
<1>12. CASE StartThread
  <2>1. sched.date \in Day
    BY <1>a, <1>12 DEF StartThread
  <2>2. sched' \in SchedRec
    BY <1>s, <1>12 DEF StartThread
  <2>3. fate' \in [Day -> FateRec]
    <3>1. fate[sched.date] \in FateRec
      BY <2>1 DEF TypeOK
    <3>2. [fate[sched.date] EXCEPT !.starts = @ + 1] \in FateRec
      BY <3>1 DEF FateRec
    <3>3. fate' = [fate EXCEPT ![sched.date] =
                     [fate[sched.date] EXCEPT !.starts = @ + 1]]
      BY <1>12, <2>1 DEF StartThread
    <3> QED BY <3>2, <3>3 DEF TypeOK
  <2>4. pipeline' \subseteq Row
    BY <1>12 DEF StartThread, TypeOK, Holding
  <2> QED BY <1>12, <2>2, <2>3, <2>4 DEF StartThread, TypeOK
<1>13. CASE Fault
  <2>1. Handler \in Named
    BY DEF Handler
  <2>2. sched' \in SchedRec
    BY <1>13, <1>s, <1>z, <2>1 DEF Fault
  <2>3. used' \in UsedRec
    BY OtherTypes, <1>13 DEF Fault
  <2> QED BY <1>13, <2>2, <2>3 DEF Fault, TypeOK
<1>14. CASE \E i \in Row : PipelineEnds(i) \/ PipelineFault(i) \/ Age(i)
  <2>1. PICK i \in Row : PipelineEnds(i) \/ PipelineFault(i) \/ Age(i)
    BY <1>14
  <2>2. row' \in [Row -> RowRec]
    <3>1. CASE Age(i)
      BY <3>1 DEF Age, TypeOK, RowRec
    <3> QED BY <2>1, <3>1, RowTypes DEF PipelineEnds, PipelineFault, TypeOK
  <2>3. used' \in UsedRec
    BY OtherTypes, <2>1 DEF PipelineEnds, PipelineFault, Age, TypeOK
  <2> QED BY <2>1, <2>2, <2>3 DEF PipelineEnds, PipelineFault, Age, TypeOK
<1>15. CASE ManualStart
  <2>1. row' \in [Row -> RowRec] /\ manual' \in Row
    BY RowTypes, <1>15 DEF ManualStart
  <2>2. used' \in UsedRec
    BY OtherTypes, <1>15 DEF ManualStart
  <2> QED BY <1>15, <2>1, <2>2 DEF ManualStart, TypeOK
<1>16. CASE ManualEnds
  <2>1. row' \in [Row -> RowRec] /\ lake' \in 0 .. MaxDay
    BY RowTypes, OtherTypes, <1>b, <1>16 DEF ManualEnds
  <2> QED BY <1>16, <2>1 DEF ManualEnds, TypeOK
<1>17. CASE Dashboard
  <2>1. row' \in [Row -> RowRec]
    BY RowTypes, <1>17 DEF Dashboard, TypeOK
  <2> QED BY <1>17, <2>1 DEF Dashboard, TypeOK
<1>18. CASE Tick
  <2>1. CASE clock' = [clock EXCEPT !.due = TRUE]
    BY <1>18, <2>1 DEF Tick, TypeOK, ClockRec
  <2>2. CASE /\ clock.day < MaxDay
             /\ clock' = [day |-> clock.day + 1, due |-> FALSE]
    <3>1. clock.day + 1 \in Day
      BY <1>b, <2>2, BoundsAssumption DEF Day
    <3> QED BY <1>18, <2>2, <3>1 DEF Tick, TypeOK, ClockRec
  <2> QED BY <1>18, <2>1, <2>2 DEF Tick
<1>19. CASE Crash
  <2>1. sched' \in SchedRec /\ used' \in UsedRec
    BY <1>z, OtherTypes, <1>19 DEF Crash
  <2> QED BY <1>19, <2>1 DEF Crash, TypeOK
<1>20. CASE UNCHANGED vars
  BY <1>20 DEF vars, TypeOK
<1> QED BY <1>3, <1>4, <1>5, <1>6, <1>7, <1>8, <1>9, <1>10, <1>11, <1>12,
           <1>13, <1>14, <1>15, <1>16, <1>17, <1>18, <1>19, <1>20
        DEF Next, SchedStep

----------------------------------------------------------------------------
(* The history, action by action.                                          *)

\* What a step does to the place of the scheduler.
LEMMA Places ==
  ASSUME TypeOK
  PROVE  /\ \A pc : Goto(pc) => /\ sched'.pc = pc /\ sched'.date = sched.date
                                /\ sched'.pipe = sched.pipe
         /\ Sleep => sched'.pc = "idle"
         /\ \A pc, i : sched' = [sched EXCEPT !.pc = pc, !.job = i]
              => /\ sched'.pc = pc /\ sched'.date = sched.date
                 /\ sched'.pipe = sched.pipe
         /\ \A pc, i : sched' = [sched EXCEPT !.pc = pc, !.pipe = i]
              => sched'.pc = pc /\ sched'.date = sched.date /\ sched'.pipe = i
         /\ \A pc, s : sched' = [sched EXCEPT !.pc = pc, !.status = s]
              => /\ sched'.pc = pc /\ sched'.date = sched.date
                 /\ sched'.pipe = sched.pipe
<1>1. sched \in SchedRec
  BY DEF TypeOK
<1>2. \A pc : /\ [sched EXCEPT !.pc = pc].pc = pc
             /\ [sched EXCEPT !.pc = pc].date = sched.date
             /\ [sched EXCEPT !.pc = pc].pipe = sched.pipe
  BY <1>1 DEF SchedRec
<1>3. \A pc, i : /\ [sched EXCEPT !.pc = pc, !.job = i].pc = pc
                /\ [sched EXCEPT !.pc = pc, !.job = i].date = sched.date
                /\ [sched EXCEPT !.pc = pc, !.job = i].pipe = sched.pipe
  BY <1>1 DEF SchedRec
<1>4. \A pc, i : /\ [sched EXCEPT !.pc = pc, !.pipe = i].pc = pc
                /\ [sched EXCEPT !.pc = pc, !.pipe = i].date = sched.date
                /\ [sched EXCEPT !.pc = pc, !.pipe = i].pipe = i
  BY <1>1 DEF SchedRec
<1>5. \A pc, s : /\ [sched EXCEPT !.pc = pc, !.status = s].pc = pc
                /\ [sched EXCEPT !.pc = pc, !.status = s].date = sched.date
                /\ [sched EXCEPT !.pc = pc, !.status = s].pipe = sched.pipe
  BY <1>1 DEF SchedRec
<1>6. Sleep => sched'.pc = "idle"
  BY DEF Sleep, Asleep
<1>7. \A pc : Goto(pc) => /\ sched'.pc = pc /\ sched'.date = sched.date
                         /\ sched'.pipe = sched.pipe
  BY <1>2 DEF Goto
<1>8. \A pc, i : sched' = [sched EXCEPT !.pc = pc, !.job = i]
        => sched'.pc = pc /\ sched'.date = sched.date /\ sched'.pipe = sched.pipe
  BY <1>3
<1>9. \A pc, i : sched' = [sched EXCEPT !.pc = pc, !.pipe = i]
        => sched'.pc = pc /\ sched'.date = sched.date /\ sched'.pipe = i
  BY <1>4
<1>10. \A pc, s : sched' = [sched EXCEPT !.pc = pc, !.status = s]
        => sched'.pc = pc /\ sched'.date = sched.date /\ sched'.pipe = sched.pipe
  BY <1>5
<1> QED BY <1>6, <1>7, <1>8, <1>9, <1>10

LEMMA PollPlace ==
  Poll => /\ sched'.pc \in {"recoverCreate", "check"}
          /\ sched'.date = clock.day
BY DEF Poll, Asleep

\* The steps before the start of the pipeline that change no history.
Early ==
  \/ RecoverCreate \/ RecoverComplete \/ CreateRefresh \/ Metadata \/ Check
  \/ Complete \/ RefreshRaises \/ \E s \in Status : Refresh(s)

LEMMA EarlyPlaces ==
  ASSUME TypeOK, Early
  PROVE  /\ UNCHANGED <<clock, config, fate>>
         /\ sched.pc \in Unstarted
         /\ sched'.pc \in {"recoverComplete", "recoverPersist", "metadata", "refresh",
                           "create", "idle", "persist", "complete", "fail"}
         /\ sched'.pc # "idle" => sched'.date = sched.date
<1> USE Places DEF At, world, Unstarted, SchedPC, Tried, Loop
<1>1. CASE RecoverCreate \/ CreateRefresh
  BY <1>1 DEF RecoverCreate, CreateRefresh
<1>2. CASE RecoverComplete \/ Metadata \/ Complete
  BY <1>2 DEF RecoverComplete, Metadata, Complete
<1>3. CASE Check
  BY <1>3 DEF Check
<1>4. CASE RefreshRaises \/ \E s \in Status : Refresh(s)
  BY <1>4 DEF RefreshRaises, Refresh
<1> QED BY <1>1, <1>2, <1>3, <1>4 DEF Early

LEMMA HoldingStep ==
  ASSUME TypeOK, Holding, [Next]_vars
  PROVE  Holding'
<1> SUFFICES ASSUME sched'.pc = "startThread" PROVE sched'.pipe \in Row
  BY DEF Holding
<1>1. CASE UNCHANGED sched
  BY <1>1 DEF Holding
<1>2. CASE StartCreate
  BY <1>2, Places DEF StartCreate
<1>3. CASE Fault
  <2>1. Handler # "startThread"
    BY DEF Handler
  <2> QED BY <1>3, <2>1, Places DEF Fault
<1>4. CASE Poll \/ Early
  BY <1>4, PollPlace, EarlyPlaces
<1>5. CASE RecoverPersist \/ RecoverSkip \/ Persist \/ Fail \/ Collect \/ Crash
  <2>1. Sleep \/ Goto("startCheck") \/ Goto("ready")
    BY <1>5 DEF RecoverPersist, RecoverSkip, Persist, Fail, Collect, Crash
  <2>2. sched'.pc \in {"idle", "startCheck", "ready"}
    BY <2>1, Places DEF Goto
  <2> QED BY <2>2
<1>6. CASE Ready \/ StartCheck \/ StartThread
  <2>1. CASE Ready \/ StartCheck
    <3>1. Sleep \/ Goto("startCheck") \/ Goto("startCreate") \/ Goto("collect")
      BY <2>1 DEF Ready, StartCheck
    <3>2. sched'.pc \in {"idle", "startCheck", "startCreate", "collect"}
      BY <3>1, Places DEF Goto
    <3> QED BY <3>2
  <2>2. CASE StartThread
    <3>1. sched'.pc = "collect"
      BY <2>2, Places DEF StartThread
    <3> QED BY <3>1
  <2> QED BY <1>6, <2>1, <2>2
<1>7. CASE \/ \E i \in Row : PipelineEnds(i) \/ PipelineFault(i) \/ Age(i)
           \/ ManualStart \/ ManualEnds \/ Dashboard \/ Tick
  BY <1>1, <1>7 DEF PipelineEnds, PipelineFault, Age, ManualStart, ManualEnds,
                    Dashboard, Tick
<1> QED BY <1>1, <1>2, <1>3, <1>4, <1>5, <1>6, <1>7
        DEF Next, SchedStep, Early, vars

LEMMA OnceStep ==
  ASSUME OnceInv, [Next]_vars
  PROVE  OnceInv'
<1>0. TypeOK' /\ Holding'
  BY TypeStep, HoldingStep DEF OnceInv
<1>n. /\ clock.day \in Day /\ config.day \in 0 .. MaxDay
      /\ \A d \in Day : d \in Nat /\ fate[d] \in FateRec
  BY BoundsAssumption DEF OnceInv, TypeOK, ClockRec, ConfigRec, Day
<1> USE DEF world
<1>1. CASE Poll
  <2>1. sched'.pc \in {"recoverCreate", "check"} /\ sched'.date = clock.day
    BY <1>1 DEF Poll, Asleep
  <2>2. fate[clock.day].starts = 0
    <3>1. CASE config.day # clock.day
      BY <1>n, <3>1 DEF OnceInv, NoneAhead, Day
    <3>2. CASE config.day = clock.day
      BY <1>1, <1>n, <3>2 DEF Poll, Owed, OnceInv, SkippedFree
    <3> QED BY <3>1, <3>2
  <2>3. UNCHANGED <<clock, config, fate>>
    BY <1>1 DEF Poll
  <2> QED BY <1>0, <1>n, <2>1, <2>2, <2>3
          DEF OnceInv, Awake, NoneAhead, SkippedFree, Fresh, Recorded,
              PipelineOncePerDay, Starting, Day
<1>2. CASE Early
  <2>1. TypeOK
    BY DEF OnceInv
  <2>2. /\ UNCHANGED <<clock, config, fate>>
        /\ sched.pc \in Unstarted /\ sched.pc # "idle"
        /\ sched'.pc # "idle" => sched'.date = sched.date
        /\ sched'.pc \notin Starting \cup {"ready"}
    BY <1>2, <2>1, EarlyPlaces DEF Starting, Unstarted
  <2>3. Once'
    BY <2>2, MoveKeeps
  <2> QED BY <1>0, <2>3 DEF OnceInv, Once
<1>3. CASE RecoverPersist \/ Persist
  <2>1. /\ config' = [day |-> sched.date, skipped |-> FALSE]
        /\ UNCHANGED <<clock, fate>>
        /\ sched'.pc \in {"startCheck", "ready"} /\ sched'.date = sched.date
        /\ sched.pc \in Unstarted
    BY <1>3, Places DEF RecoverPersist, Persist, Persisted, At, OnceInv,
                Unstarted, SchedPC, Tried, Loop
  <2>2. sched.date \in Day /\ sched.date <= clock.day /\ config.day <= sched.date
    BY <2>1 DEF OnceInv, Awake, Unstarted
  <2> QED BY <1>0, <1>n, <2>1, <2>2
          DEF OnceInv, Awake, NoneAhead, SkippedFree, Fresh, Recorded,
              PipelineOncePerDay, Starting, Day
<1>4. CASE RecoverSkip
  <2>1. /\ config' = [day |-> sched.date, skipped |-> TRUE]
        /\ UNCHANGED <<clock, fate>>
        /\ sched'.pc = "idle" /\ sched.pc \in Unstarted
    BY <1>4, Places DEF RecoverSkip, Persisted, At, OnceInv, Unstarted, SchedPC,
                Tried, Loop
  <2>2. sched.date \in Day /\ sched.date <= clock.day /\ config.day <= sched.date
    BY <2>1 DEF OnceInv, Awake, Unstarted
  <2> QED BY <1>0, <1>n, <2>1, <2>2
          DEF OnceInv, Awake, NoneAhead, SkippedFree, Fresh, Recorded,
              PipelineOncePerDay, Starting, Unstarted, Day
<1>5. CASE Ready \/ StartCheck \/ StartCreate
  <2>1. /\ sched.pc \in {"ready", "startCheck", "startCreate"}
        /\ sched'.pc \in {"startCheck", "idle", "collect", "startCreate", "startThread"}
        /\ sched'.pc # "idle" => sched'.date = sched.date
        /\ UNCHANGED <<clock, config>>
    BY <1>5, Places DEF Ready, StartCheck, StartCreate, At, OnceInv
  <2>2. \A d \in Day : fate'[d].starts = fate[d].starts
    <3>1. fate' = fate \/ Spare(sched.date)
      BY <1>5 DEF Ready, StartCheck, StartCreate
    <3>2. fate \in [Day -> FateRec]
      BY DEF OnceInv, TypeOK
    <3>3. ASSUME Spare(sched.date), NEW d \in Day
          PROVE  fate'[d].starts = fate[d].starts
      <4>1. [fate[d] EXCEPT !.spared = TRUE].starts = fate[d].starts
        BY <1>n DEF FateRec
      <4>2. fate'[d] = fate[d] \/ fate'[d] = [fate[d] EXCEPT !.spared = TRUE]
        BY <3>2, <3>3 DEF Spare
      <4> QED BY <4>1, <4>2
    <3> QED BY <3>1, <3>3
  <2>3. sched.pc \in Unstarted /\ sched.pc \in Starting \cup {"ready"}
    BY <2>1 DEF Unstarted, SchedPC, Tried, Starting
  <2>4. sched.date \in Day
    BY <2>3 DEF OnceInv, Awake, Unstarted
  <2> QED BY <1>0, <1>n, <2>1, <2>2, <2>3, <2>4
          DEF OnceInv, Awake, NoneAhead, SkippedFree, Fresh, Recorded,
              PipelineOncePerDay, Unstarted, Starting, Day
<1>6. CASE StartThread
  <2>1. /\ sched.pc = "startThread" /\ sched'.pc = "collect"
        /\ sched'.date = sched.date
        /\ UNCHANGED <<clock, config>>
    BY <1>6, Places DEF StartThread, At, OnceInv
  <2>2. /\ sched.date \in Day /\ fate[sched.date].starts = 0
        /\ config = [day |-> sched.date, skipped |-> FALSE]
    BY <2>1 DEF OnceInv, Awake, Fresh, Recorded, Unstarted, Starting, SchedPC, Tried
  <2>3. \A d \in Day : fate'[d].starts =
                         IF d = sched.date THEN 1 ELSE fate[d].starts
    BY <1>6, <1>n, <2>2 DEF StartThread, FateRec, OnceInv, TypeOK
  <2> QED BY <1>0, <1>n, <2>1, <2>2, <2>3
          DEF OnceInv, Awake, NoneAhead, SkippedFree, Fresh, Recorded,
              PipelineOncePerDay, Unstarted, Starting, Day
<1>7. CASE Fault
  <2>1. /\ sched'.pc = Handler
        /\ sched'.pc # "idle" => sched'.date = sched.date
        /\ sched.pc # "idle"
        /\ UNCHANGED <<clock, config, fate>>
    BY <1>7, Places DEF Fault, OnceInv, Tried, Loop, Starting
  <2>2. /\ Handler \in {"idle", "fail", "recoverSkip"}
        /\ Handler = "recoverSkip" => sched.pc \in Unstarted
    BY DEF Handler, At, Unstarted, Starting, SchedPC, Tried
  <2>3. Once'
    BY <2>1, <2>2, MoveKeeps DEF Unstarted, Starting
  <2> QED BY <1>0, <2>3 DEF OnceInv, Once
<1>8. CASE Fail \/ Collect \/ Crash
  <2>1. Sleep /\ UNCHANGED <<clock, config, fate>>
    BY <1>8 DEF Fail, Collect, Crash
  <2>2. clock.day <= clock'.day
    BY <1>n, <2>1 DEF Day
  <2>3. Once'
    BY <1>0, <2>1, <2>2, RestKeeps
  <2> QED BY <1>0, <2>3 DEF OnceInv, Once
<1>9. CASE \/ \E i \in Row : PipelineEnds(i) \/ PipelineFault(i) \/ Age(i)
           \/ ManualStart \/ ManualEnds \/ Dashboard \/ Tick \/ UNCHANGED vars
  <2>1. UNCHANGED <<sched, config, fate>>
    BY <1>9 DEF PipelineEnds, PipelineFault, Age, ManualStart, ManualEnds,
                Dashboard, Tick, vars
  <2>2. clock.day <= clock'.day
    <3>1. CASE Tick
      BY <1>n, <3>1 DEF Tick, Day, OnceInv, TypeOK, ClockRec
    <3>2. CASE ~Tick
      BY <1>9, <1>n, <3>2 DEF PipelineEnds, PipelineFault, Age, ManualStart,
                              ManualEnds, Dashboard, vars, Day
    <3> QED BY <3>1, <3>2
  <2>3. Once'
    BY <1>0, <2>1, <2>2, RestKeeps
  <2> QED BY <1>0, <2>3 DEF OnceInv, Once
<1> QED BY <1>1, <1>2, <1>3, <1>4, <1>5, <1>6, <1>7, <1>8, <1>9
        DEF Next, SchedStep, Early

LEMMA OnceInvariant == Spec => []OnceInv
BY OnceInit, OnceStep, PTL DEF Spec

\* Every variable keeps its type; StartThread needs Holding for it.
THEOREM SchedulerTypeCorrect == Spec => []TypeOK
<1>1. OnceInv => TypeOK
  BY DEF OnceInv
<1> QED BY OnceInvariant, <1>1, PTL

\* The scheduler starts at most one pipeline for a trading day, for any number
\* of days, polls, crashes, database errors and refreshes.
THEOREM PipelineStartsOnce == Spec => []PipelineOncePerDay
<1>1. OnceInv => PipelineOncePerDay
  BY DEF OnceInv
<1> QED BY OnceInvariant, <1>1, PTL

----------------------------------------------------------------------------
(* One running row of the pipeline.                                        *)

\* The scheduler is about to insert a row of the pipeline: there is none.
Clear == sched.pc = "startCreate" => Running("pipeline") = {}

LEMMA NoNewPipeline ==
  ASSUME TypeOK, [Next]_vars, ~StartCreate
  PROVE  \A i \in Row : row'[i].type = "pipeline" => row[i].type = "pipeline"
<1> USE DEF world
<1>0. row \in [Row -> RowRec]
  BY DEF TypeOK
<1>c. \A j : Create(j, "refresh") \/ Close(j)
        => \A i \in Row : row'[i].type = "pipeline" => row[i].type = "pipeline"
  BY <1>0 DEF Create, Close, New, Free
<1>s. \A t : \A i \in Row : Swept(t)[i].type = "pipeline" => row[i].type = "pipeline"
  BY DEF Swept, Free
<1>1. CASE UNCHANGED row
  BY <1>1
<1>2. CASE \/ RecoverCreate \/ CreateRefresh \/ RecoverComplete \/ Complete \/ Fail
           \/ ManualStart \/ ManualEnds \/ \E i \in Row : PipelineEnds(i)
  BY <1>2, <1>c DEF RecoverCreate, CreateRefresh, RecoverComplete, Complete, Fail,
                    ManualStart, ManualEnds, PipelineEnds
<1>3. CASE Check \/ StartCheck
  <2>1. row' = Swept("refresh") \/ row' = Swept("pipeline")
    BY <1>3 DEF Check, StartCheck
  <2> QED BY <2>1, <1>s
<1>4. CASE \E j \in Row : Age(j)
  <2>1. PICK j \in Row : row' = [row EXCEPT ![j].old = TRUE]
    BY <1>4 DEF Age
  <2>2. [row[j] EXCEPT !.old = TRUE].type = row[j].type
    BY <1>0 DEF RowRec
  <2> QED BY <1>0, <2>1, <2>2
<1>5. CASE Dashboard
  BY <1>5 DEF Dashboard, Free
<1>6. CASE \/ Poll \/ RecoverPersist \/ RecoverSkip \/ Metadata \/ Persist \/ Ready
           \/ StartThread \/ Collect \/ RefreshRaises \/ Fault \/ Tick \/ Crash
           \/ \E s \in Status : Refresh(s)
           \/ \E i \in Row : PipelineFault(i)
  BY <1>1, <1>6 DEF Poll, RecoverPersist, RecoverSkip, Metadata, Persist, Ready,
                    StartThread, Collect, RefreshRaises, Fault, Tick, Crash, Refresh,
                    PipelineFault
<1>7. CASE \E i \in Row : PipelineEnds(i) \/ PipelineFault(i) \/ Age(i)
  BY <1>2, <1>4, <1>6, <1>7
<1>8. CASE SchedStep
  BY <1>2, <1>3, <1>6, <1>8 DEF SchedStep
<1>9. CASE UNCHANGED vars
  BY <1>1, <1>9 DEF vars
<1> QED BY <1>2, <1>5, <1>6, <1>7, <1>8, <1>9 DEF Next

\* Only the check of the running rows leads to the insert.
LEMMA ToStartCreate ==
  ASSUME TypeOK, [Next]_vars, sched'.pc = "startCreate"
  PROVE  \/ UNCHANGED sched
         \/ StartCheck /\ \A i \in Row : row'[i].type # "pipeline"
<1>g. \A pc : Goto(pc) => sched'.pc = pc
  BY Places DEF Goto
<1>z. Sleep => sched'.pc = "idle"
  BY Places
<1>1. CASE Poll \/ Early
  <2>1. CASE Poll
    <3>1. sched'.pc \in {"recoverCreate", "check"}
      BY <2>1, PollPlace
    <3> QED BY <3>1
  <2>2. CASE Early
    <3>1. sched'.pc \in {"recoverComplete", "recoverPersist", "metadata", "refresh",
                         "create", "idle", "persist", "complete", "fail"}
      BY <2>2, EarlyPlaces
    <3> QED BY <3>1
  <2> QED BY <1>1, <2>1, <2>2
<1>2. CASE RecoverPersist \/ RecoverSkip \/ Persist \/ Fail \/ Collect \/ Crash
  <2>1. Sleep \/ Goto("startCheck") \/ Goto("ready")
    BY <1>2 DEF RecoverPersist, RecoverSkip, Persist, Fail, Collect, Crash
  <2>2. sched'.pc \in {"idle", "startCheck", "ready"}
    BY <2>1, <1>g, <1>z
  <2> QED BY <2>2
<1>3. CASE Ready
  <2>1. Sleep \/ Goto("startCheck")
    BY <1>3 DEF Ready
  <2>2. sched'.pc \in {"idle", "startCheck"}
    BY <2>1, <1>g, <1>z
  <2> QED BY <2>2
<1>4. CASE StartCheck
  <2>1. CASE \E i \in Row : Swept("pipeline")[i].type = "pipeline"
    <3>1. Goto("collect")
      BY <1>4, <2>1 DEF StartCheck
    <3>2. sched'.pc = "collect"
      BY <3>1, <1>g
    <3> QED BY <3>2
  <2>2. CASE ~\E i \in Row : Swept("pipeline")[i].type = "pipeline"
    BY <1>4, <2>2 DEF StartCheck
  <2> QED BY <2>1, <2>2
<1>5. CASE StartCreate \/ StartThread
  <2>1. sched'.pc \in {"startThread", "collect"}
    BY <1>5, Places DEF StartCreate, StartThread
  <2> QED BY <2>1
<1>6. CASE Fault
  <2>1. Handler \in {"idle", "fail", "recoverSkip"}
    BY DEF Handler
  <2>2. sched'.pc \in {"idle", "fail", "recoverSkip"}
    BY <1>6, <2>1, Places DEF Fault
  <2> QED BY <2>2
<1>7. CASE \/ \E i \in Row : PipelineEnds(i) \/ PipelineFault(i) \/ Age(i)
           \/ ManualStart \/ ManualEnds \/ Dashboard \/ Tick \/ UNCHANGED vars
  BY <1>7 DEF PipelineEnds, PipelineFault, Age, ManualStart, ManualEnds,
              Dashboard, Tick, vars
<1> QED BY <1>1, <1>2, <1>3, <1>4, <1>5, <1>6, <1>7 DEF Next, SchedStep, Early

LEMMA RowStep ==
  ASSUME TypeOK, Clear, OnePipelineRow, [Next]_vars
  PROVE  Clear' /\ OnePipelineRow'
<1>1. CASE StartCreate
  <2>1. PICK i \in Row : /\ row' = [row EXCEPT ![i] = New("pipeline")]
                         /\ sched' = [sched EXCEPT !.pc = "startThread", !.pipe = i]
    BY <1>1 DEF StartCreate, Create
  <2>2. sched'.pc = "startThread"
    BY <2>1, Places
  <2>3. \A j \in Row : row[j].type # "pipeline"
    BY <1>1 DEF StartCreate, At, Clear, Running
  <2>4. \A j \in Row : row'[j].type = "pipeline" => j = i
    BY <2>1, <2>3 DEF TypeOK
  <2> QED BY <2>2, <2>4 DEF Clear, OnePipelineRow
<1>2. CASE ~StartCreate
  <2>1. \A i \in Row : row'[i].type = "pipeline" => row[i].type = "pipeline"
    BY <1>2, NoNewPipeline
  <2>2. OnePipelineRow'
    BY <2>1 DEF OnePipelineRow
  <2>3. Clear'
    <3>1. CASE UNCHANGED sched
      BY <2>1, <3>1 DEF Clear, Running
    <3>2. CASE ~UNCHANGED sched
      BY <3>2, ToStartCreate DEF Clear, Running
    <3> QED BY <3>1, <3>2
  <2> QED BY <2>2, <2>3
<1> QED BY <1>1, <1>2

\* There is never a second running row of the pipeline, whatever is swept, aged,
\* faulted or restarted: the check and the insert are steps of one thread.
THEOREM PipelineRowIsOne == Spec => []OnePipelineRow
<1>1. Init => Clear /\ OnePipelineRow
  BY DEF Init, Asleep, Free, Clear, OnePipelineRow
<1>2. TypeOK /\ Clear /\ OnePipelineRow /\ [Next]_vars => Clear' /\ OnePipelineRow'
  BY RowStep
<1> QED BY <1>1, <1>2, SchedulerTypeCorrect, PTL DEF Spec

----------------------------------------------------------------------------
(* No day is lost when nothing fails.                                      *)

Smooth == used.crashes + used.faults = 0

\* The steps between the record of the day and the start of its pipeline.
Between == Starting \cup {"ready"}

\* A recorded day without a pipeline is spared one, or on its way to it.
Kept ==
  Smooth => \A d \in Day :
    config = Persisted(d, FALSE) /\ fate[d].starts = 0
      => fate[d].spared \/ (sched.date = d /\ sched.pc \in Between)

\* A step elsewhere, which leaves the record of the days alone.
LEMMA KeptElsewhere ==
  ASSUME Kept, Smooth' => Smooth, UNCHANGED <<config, fate>>,
         UNCHANGED sched \/ sched.pc \notin Between
  PROVE  Kept'
BY DEF Kept, Between, Starting, Persisted

LEMMA SmoothBefore ==
  ASSUME TypeOK, TypeOK', [Next]_vars, Smooth'
  PROVE  Smooth /\ ~Fault /\ ~Crash /\ ~\E i \in Row : PipelineFault(i)
<1>1. /\ used.crashes \in Nat /\ used.faults \in Nat
      /\ used'.crashes \in Nat /\ used'.faults \in Nat
  BY BoundsAssumption DEF TypeOK, UsedRec
<1>2. used'.crashes = 0 /\ used'.faults = 0
  BY <1>1 DEF Smooth
<1>3. ~Fault /\ ~Crash /\ ~\E i \in Row : PipelineFault(i)
  <2>1. Fault \/ (\E i \in Row : PipelineFault(i)) => used'.faults = used.faults + 1
    BY DEF Fault, PipelineFault, TypeOK, UsedRec
  <2>2. Crash => used'.crashes = used.crashes + 1
    BY DEF Crash, TypeOK, UsedRec
  <2> QED BY <1>1, <1>2, <2>1, <2>2
<1>4. CASE ManualStart
  <2>1. used'.crashes = used.crashes /\ used'.faults = used.faults
    BY <1>4 DEF ManualStart, TypeOK, UsedRec
  <2> QED BY <1>2, <1>3, <2>1 DEF Smooth
<1>5. CASE ~ManualStart
  <2>1. UNCHANGED used
    <3>1. SchedStep => UNCHANGED used
      BY DEF SchedStep, Poll, RecoverCreate, RecoverComplete, RecoverPersist,
             RecoverSkip, Check, CreateRefresh, Metadata, Complete, Persist, Ready,
             Fail, StartCheck, StartCreate, StartThread, Collect, world
    <3>2. RefreshRaises \/ (\E s \in Status : Refresh(s)) => UNCHANGED used
      BY DEF RefreshRaises, Refresh, world
    <3>3. (\E i \in Row : PipelineEnds(i) \/ Age(i)) => UNCHANGED used
      BY DEF PipelineEnds, Age, world
    <3>4. ManualEnds \/ Dashboard \/ Tick \/ UNCHANGED vars => UNCHANGED used
      BY DEF ManualEnds, Dashboard, Tick, vars, world
    <3> QED BY <1>3, <1>5, <3>1, <3>2, <3>3, <3>4 DEF Next
  <2> QED BY <1>2, <1>3, <2>1 DEF Smooth
<1> QED BY <1>4, <1>5

LEMMA KeptStep ==
  ASSUME TypeOK, TypeOK', Awake, Kept, [Next]_vars
  PROVE  Kept'
<1> SUFFICES ASSUME Smooth' PROVE Kept'
  BY DEF Kept
<1>0. Smooth /\ ~Fault /\ ~Crash /\ ~\E i \in Row : PipelineFault(i)
  BY SmoothBefore
<1>h. \A d \in Day : config = Persisted(d, FALSE) /\ fate[d].starts = 0
        => fate[d].spared \/ (sched.date = d /\ sched.pc \in Between)
  BY <1>0 DEF Kept
<1>f. fate \in [Day -> FateRec]
  BY DEF TypeOK
<1>p. \A d \in Day : Spare(d) => /\ fate'[d].spared
                                 /\ \A x \in Day : fate'[x].starts = fate[x].starts
                                 /\ \A x \in Day : fate[x].spared => fate'[x].spared
  <2> SUFFICES ASSUME NEW d \in Day, Spare(d)
               PROVE  /\ fate'[d].spared
                      /\ \A x \in Day : fate'[x].starts = fate[x].starts
                      /\ \A x \in Day : fate[x].spared => fate'[x].spared
    OBVIOUS
  <2>1. fate' = [fate EXCEPT ![d] = [fate[d] EXCEPT !.spared = TRUE]]
    BY <1>f DEF Spare
  <2>2. /\ [fate[d] EXCEPT !.spared = TRUE].spared = TRUE
        /\ [fate[d] EXCEPT !.spared = TRUE].starts = fate[d].starts
    BY <1>f DEF FateRec
  <2> QED BY <1>f, <2>1, <2>2
<1> USE DEF world
<1>1. CASE Poll \/ Early \/ Fail \/ Collect
  <2>1. sched.pc \notin Between
    BY <1>1 DEF Poll, Early, RecoverCreate, RecoverComplete, CreateRefresh, Metadata,
                Check, Complete, RefreshRaises, Refresh, Fail, Collect, At, Between,
                Starting
  <2>2. UNCHANGED <<config, fate>>
    BY <1>1, EarlyPlaces DEF Poll, Fail, Collect
  <2> QED BY <1>0, <2>1, <2>2, KeptElsewhere
<1>2. CASE RecoverPersist \/ Persist
  <2>1. /\ config' = Persisted(sched.date, FALSE)
        /\ sched'.pc \in Between /\ sched'.date = sched.date
    BY <1>2, Places DEF RecoverPersist, Persist, Between, Starting
  <2> QED BY <2>1 DEF Kept, Persisted
<1>3. CASE RecoverSkip
  <2>1. config'.skipped = TRUE
    BY <1>3 DEF RecoverSkip, Persisted
  <2> QED BY <2>1 DEF Kept, Persisted
<1>4. CASE Ready
  <2>1. sched.pc = "ready" /\ sched.date \in Day /\ UNCHANGED config
    BY <1>4 DEF Ready, At, Awake
  <2>2. CASE sched.status = "unusable" \/ Latest < sched.date
    <3>1. Spare(sched.date)
      BY <1>4, <2>2 DEF Ready
    <3> QED BY <1>h, <1>p, <2>1, <3>1 DEF Kept
  <2>3. CASE ~(sched.status = "unusable" \/ Latest < sched.date)
    <3>1. sched.status \in {"success", "partial"}
      BY <2>3 DEF TypeOK, SchedRec, Status
    <3>2. Latest \in Nat /\ sched.date \in Nat
      BY <2>1, BoundsAssumption DEF Latest, TypeOK, ClockRec, Day
    <3>3. Usable(sched.status) /\ Latest >= sched.date
      BY <2>3, <3>1, <3>2 DEF Usable
    <3>4. Goto("startCheck") /\ UNCHANGED fate
      BY <1>4, <2>3, <3>3 DEF Ready
    <3>5. sched'.pc = "startCheck" /\ sched'.date = sched.date
      BY <3>4, Places
    <3> QED BY <1>h, <2>1, <3>4, <3>5 DEF Kept, Between, Starting
  <2> QED BY <2>2, <2>3
<1>5. CASE StartCheck
  <2>1. sched.pc = "startCheck" /\ sched.date \in Day /\ UNCHANGED config
    BY <1>5 DEF StartCheck, At, Awake
  <2>2. CASE Spare(sched.date)
    BY <1>h, <1>p, <2>1, <2>2 DEF Kept
  <2>3. CASE ~Spare(sched.date)
    <3>1. Goto("startCreate") /\ UNCHANGED fate
      BY <1>5, <2>3 DEF StartCheck
    <3>2. sched'.pc = "startCreate" /\ sched'.date = sched.date
      BY <3>1, Places
    <3> QED BY <1>h, <2>1, <3>1, <3>2 DEF Kept, Between, Starting
  <2> QED BY <2>2, <2>3
<1>6. CASE StartCreate
  <2>1. PICK i \in Row : sched' = [sched EXCEPT !.pc = "startThread", !.pipe = i]
    BY <1>6 DEF StartCreate
  <2>2. sched'.pc = "startThread" /\ sched'.date = sched.date
    BY <2>1, Places
  <2>3. UNCHANGED <<config, fate>>
    BY <1>6 DEF StartCreate
  <2> QED BY <1>h, <2>2, <2>3 DEF Kept, Between, Starting
<1>7. CASE StartThread
  <2>1. sched.pc = "startThread" /\ sched.date \in Day /\ UNCHANGED config
    BY <1>7 DEF StartThread, At, Awake
  <2>2. fate' = [fate EXCEPT ![sched.date] = [fate[sched.date] EXCEPT !.starts = @ + 1]]
    BY <1>7, <1>f, <2>1 DEF StartThread
  <2>3. fate'[sched.date].starts # 0
    BY <1>f, <2>1, <2>2 DEF FateRec
  <2>4. \A d \in Day : d # sched.date => fate'[d] = fate[d]
    BY <1>f, <2>2
  <2> QED BY <1>h, <2>1, <2>3, <2>4 DEF Kept
<1>8. CASE \/ \E i \in Row : PipelineEnds(i) \/ Age(i)
           \/ ManualStart \/ ManualEnds \/ Dashboard \/ Tick \/ UNCHANGED vars
  <2>1. UNCHANGED <<sched, config, fate>>
    BY <1>8 DEF PipelineEnds, Age, ManualStart, ManualEnds, Dashboard, Tick, vars
  <2> QED BY <1>0, <2>1, KeptElsewhere
<1> QED BY <1>0, <1>1, <1>2, <1>3, <1>4, <1>5, <1>6, <1>7, <1>8
        DEF Next, SchedStep, Early

\* When nothing fails, every day recorded as done had its pipeline, or its
\* refresh was not usable, or another pipeline was running.
THEOREM NoDayIsLost == Spec => []NoDayLost
<1>1. Init => Kept
  <2>1. Init => \A d \in Day : config # Persisted(d, FALSE)
    BY DEF Init, Persisted, Day
  <2> QED BY <2>1 DEF Kept
<1>2. OnceInv /\ OnceInv' /\ Kept /\ [Next]_vars => Kept'
  BY KeptStep DEF OnceInv
<1>3. OnceInv /\ Kept => NoDayLost
  <2> SUFFICES ASSUME OnceInv, Kept, NEW d \in Day, Done(d), ~fate[d].spared
               PROVE  used.crashes + used.faults > 0
    BY DEF NoDayLost
  <2>1. used.crashes \in Nat /\ used.faults \in Nat
    BY BoundsAssumption DEF OnceInv, TypeOK, UsedRec
  <2>2. sched.pc \notin Between
    BY DEF Done, At, Between, Starting
  <2>3. ~Smooth
    BY <2>2 DEF Kept, Done
  <2> QED BY <2>1, <2>3 DEF Smooth
<1> QED BY OnceInvariant, <1>1, <1>2, <1>3, PTL DEF Spec
=============================================================================
