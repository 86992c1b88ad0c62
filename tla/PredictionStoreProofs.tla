----------------------- MODULE PredictionStoreProofs -----------------------
(***************************************************************************)
(* Proofs about the prediction store, for any set of runs, any settings    *)
(* and any bounds: every part of the state has its type, and no run that   *)
(* was written to the mirror or to a folder of its own loses a row.        *)
(*                                                                         *)
(* The argument: a run that has not been committed yet is unknown to the   *)
(* archive and to retention, so its first commit meets an empty store or   *)
(* the publisher's own folder.  From then on, while the run stays intact,  *)
(* its mirror is what it was published with until it is purged, an archive *)
(* of it holds just those rows, a registration names a folder with them,   *)
(* and retention has it on its list only when it is registered.            *)
(***************************************************************************)
EXTENDS PredictionStore, TLAPS

\* Runs whose first publication has not been committed.
Before == {"none", "sweep", "fit", "plan", "write", "register", "rows", "commit"}
Fresh(r) == pub[r].pc \in Before /\ ~pub[r].again

\* A fresh run is unknown to all others, and has its folder once it was written.
FreshUnknown(r) ==
  /\ status[r] # "success" /\ ~pub[r].late
  /\ owed[r] = {} /\ mirror[r] = {}
  /\ r \notin ret.good /\ r \notin ret.bad
  /\ arc.pc # "idle" => arc.run # r
FreshFolder(r) ==
  /\ pub[r].wrote => pub[r].pc \in {"register", "rows", "commit"}
  /\ pub[r].pc = "register" => pub[r].wrote
  /\ pub[r].wrote => folder[r].rows = Rows
  /\ pub[r].wrote /\ pub[r].pc \in {"rows", "commit"} => registry[r] = "verified"
  /\ ~pub[r].wrote => folder[r] = NoFolder /\ registry[r] = "none"

\* What keeps the rows of an intact run: its own folder, or the mirror and then
\* an archive of the mirror.
FolderKeeps(r) ==
  pub[r].wrote => registry[r] = "verified" /\ folder[r].rows = Rows
MirrorKeeps(r) ==
  pub[r].dual /\ ~pub[r].wrote =>
    /\ folder[r] = NoFolder \/ folder[r].rows = owed[r]
    /\ registry[r] = "verified" => folder[r] # NoFolder
    /\ registry[r] = "verified" \/ mirror[r] = owed[r]
    /\ arc.pc # "idle" /\ arc.run = r => arc.rows = owed[r]

RunInv(r) ==
  /\ pub[r].pc = "none" => ~pub[r].again /\ ~pub[r].wrote
  /\ Fresh(r) => FreshUnknown(r) /\ FreshFolder(r)
  /\ pub[r].pc \in Undoing /\ ~pub[r].again => pub[r].late \/ status[r] # "success"
  /\ Intact(r) => FolderKeeps(r) /\ MirrorKeeps(r) /\ owed[r] \subseteq Rows
  /\ r \in ret.good /\ Intact(r) => registry[r] = "verified"
  /\ r \in ret.bad => ~Intact(r)

\* An archive registers a folder that is there.
ArchiveInv == arc.pc = "register" => folder[arc.run] # NoFolder

StoreInv == ArchiveInv /\ \A r \in Runs : RunInv(r)

----------------------------------------------------------------------------
(* Types.                                                                  *)

PublisherPcs == {"none", "sweep", "fit", "ended", "prune", "prune_delete"}
                  \cup Tried \cup Undoing
Statuses == {"absent", "running", "success", "failed"}

\* A handler's steps are steps.
LEMMA HandlerTyped ==
  \A r \in Runs : Handler(r) \in Undoing \cup {"ended"} /\ AfterUndo(r) \in Undoing \cup {"ended"}
BY DEF Handler, AfterUndo, Undoing

\* The rows a publisher puts into the tables, and the archived folder.
LEMMA RowsTyped ==
  /\ \A r \in Runs : HotRows(r) \subseteq Rows /\ HotRows(r) # {}
  /\ \A r \in Runs : TypeOK => Artifact(r) \in Content
  /\ TypeOK => Archived \in Content
<1>1. \A r \in Runs : HotRows(r) \subseteq Rows /\ HotRows(r) # {}
  BY DEF HotRows, Rows
<1>2. \A r \in Runs : TypeOK => Artifact(r) \in Content
  BY DEF TypeOK, Artifact, Content, Publisher
<1>3. TypeOK => Archived \in Content
  BY DEF TypeOK, Archived, Content
<1> QED BY <1>1, <1>2, <1>3

\* A publisher that becomes a publisher leaves the publishers typed.
LEMMA BecomesTyped ==
  ASSUME TypeOK, NEW r \in Runs, NEW p \in Publisher, Becomes(r, p)
  PROVE  pub' \in [Runs -> Publisher] /\ pub'[r] = p /\ \A q \in Runs \ {r} : pub'[q] = pub[q]
BY DEF TypeOK, Becomes

\* A publisher that moves on stays one, and keeps all but its place.
LEMMA GotoTyped ==
  ASSUME TypeOK, NEW r \in Runs, NEW pc \in PublisherPcs
  PROVE  [pub[r] EXCEPT !.pc = pc] \in Publisher
<1>1. pub[r] \in Publisher BY DEF TypeOK
<1> QED BY <1>1 DEF Publisher, PublisherPcs

LEMMA CompleteTyped ==
  ASSUME TypeOK, NEW r \in Runs, NEW s \in Statuses, Complete(r, s)
  PROVE  status' \in [Runs -> Statuses] /\ older' \subseteq Runs \X Runs
<1>1. status' \in [Runs -> Statuses] BY DEF Complete, TypeOK, Statuses
<1>2. older' \subseteq Runs \X Runs BY DEF Complete, TypeOK
<1> QED BY <1>1, <1>2

\* The budgets only grow.
LEMMA UsedTyped ==
  ASSUME TypeOK, NEW b \in Budgets
  PROVE  [used EXCEPT ![b] = @ + 1] \in [Budgets -> Nat]
BY DEF TypeOK

\* What a publisher's own step makes of it is a publisher.
LEMMA PublishTyped ==
  ASSUME TypeOK, NEW r \in Runs, Publish(r) \/ Undo(r) \/ Fails(r) \/ Killed(r) \/ Again(r)
  PROVE  pub' \in [Runs -> Publisher]
<1> USE DEF PublisherPcs
<1>0. pub[r] \in Publisher BY DEF TypeOK
<1>h. Handler(r) \in PublisherPcs /\ AfterUndo(r) \in PublisherPcs
  BY HandlerTyped DEF Undoing
<1>g. ASSUME NEW pc \in PublisherPcs, Goto(r, pc) PROVE pub' \in [Runs -> Publisher]
  <2>1. [pub[r] EXCEPT !.pc = pc] \in Publisher BY GotoTyped
  <2> QED BY <1>g, <2>1, BecomesTyped DEF Goto
<1>r. ASSUME Raise(r) PROVE pub' \in [Runs -> Publisher]
  <2>1. [pub[r] EXCEPT !.pc = Handler(r), !.chosen = {},
                       !.late = pub[r].late \/ pub[r].pc = "timing"] \in Publisher
    BY <1>0, <1>h DEF Publisher
  <2> QED BY <1>r, <2>1, BecomesTyped DEF Raise
<1>1. CASE Start(r)
  <2>1. PICK k \in Kinds, s \in Settings, stale \in SUBSET {q \in Runs : status[q] = "running"} :
          Becomes(r, [Idle EXCEPT
            !.pc = IF k = "train" THEN "sweep" ELSE "plan", !.kind = k,
            !.artifacts = s.artifacts, !.dual = s.mirror, !.full = s.full,
            !.chosen = stale])
    BY <1>1 DEF Start
  <2>2. k \in {"train", "kronos", "import"} /\ stale \subseteq Runs
    BY RunsAssumption
  <2>3. s.artifacts \in BOOLEAN /\ s.mirror \in BOOLEAN /\ s.full \in BOOLEAN
    BY RunsAssumption
  <2>4. [Idle EXCEPT
            !.pc = IF k = "train" THEN "sweep" ELSE "plan", !.kind = k,
            !.artifacts = s.artifacts, !.dual = s.mirror, !.full = s.full,
            !.chosen = stale] \in Publisher
    BY <2>2, <2>3 DEF Idle, Publisher, Tried
  <2> QED BY <2>1, <2>4, BecomesTyped
<1>2. CASE Sweep(r) \/ PruneDelete(r) \/ Killed(r)
  <2>1. [pub[r] EXCEPT !.pc = "fit", !.chosen = {}] \in Publisher BY <1>0 DEF Publisher
  <2>2. [pub[r] EXCEPT !.pc = "ended", !.chosen = {}] \in Publisher BY <1>0 DEF Publisher
  <2> QED BY <1>2, <2>1, <2>2, BecomesTyped DEF Sweep, PruneDelete, Killed
<1>3. CASE Fit(r)
  BY <1>3, <1>g DEF Fit, Tried
<1>4. CASE Plan(r)
  <2>1. [pub[r] EXCEPT !.pc = IF WritesFolder(r) THEN "write" ELSE "rows",
                       !.dual = pub[r].dual /\ ~marker] \in Publisher
    BY <1>0 DEF Publisher, Tried
  <2> QED BY <1>4, <2>1, BecomesTyped DEF Plan
<1>5. CASE Blocked(r)
  BY <1>5, <1>g, <1>h DEF Blocked
<1>6. CASE Write(r)
  <2>1. [pub[r] EXCEPT !.pc = "register", !.wrote = TRUE] \in Publisher
    BY <1>0 DEF Publisher, Tried
  <2> QED BY <1>6, <1>r, <2>1, BecomesTyped DEF Write
<1>7. CASE Register(r) \/ Timing(r)
  BY <1>7, <1>g DEF Register, Timing, Tried
<1>8. CASE StageRows(r)
  <2>1. [pub[r] EXCEPT !.pc = "commit", !.epoch = used.cutovers] \in Publisher
    BY <1>0 DEF Publisher, Tried, TypeOK, Budgets
  <2> QED BY <1>8, <1>r, <2>1, BecomesTyped DEF StageRows
<1>9. CASE Commit(r)
  <2>1. [pub[r] EXCEPT
           !.pc = IF pub[r].kind = "train" THEN "timing" ELSE "ended",
           !.raced = \E q \in Runs : At(q, "prune_delete")] \in Publisher
    BY <1>0 DEF Publisher, Tried
  <2> QED BY <1>9, <2>1, BecomesTyped DEF Commit
<1>10. CASE PruneSelect(r)
  <2>1. Newest(KeepLive, LiveSuccess) \subseteq Runs
    BY DEF Newest, LiveSuccess, TypeOK
  <2>2. [pub[r] EXCEPT
           !.chosen = Newest(KeepLive, LiveSuccess),
           !.pc = IF LiveSuccess = {} THEN "ended" ELSE "prune_delete"] \in Publisher
    BY <1>0, <2>1 DEF Publisher
  <2> QED BY <1>10, <2>2, BecomesTyped DEF PruneSelect
<1>11. CASE Undo(r)
  BY <1>11, <1>g, <1>h DEF Undo, UndoMirror, UndoLive, UndoHot, UndoRegistry, UndoStatus
<1>12. CASE Fails(r)
  BY <1>12, <1>g, <1>h, <1>r DEF Fails
<1>13. CASE Again(r)
  <2>1. PICK s \in Settings :
          Becomes(r, [Idle EXCEPT !.pc = "plan", !.kind = "kronos",
                                  !.dual = s.mirror, !.again = TRUE])
    BY <1>13 DEF Again
  <2>2. s.mirror \in BOOLEAN BY RunsAssumption
  <2>3. [Idle EXCEPT !.pc = "plan", !.kind = "kronos",
                     !.dual = s.mirror, !.again = TRUE] \in Publisher
    BY <2>2 DEF Idle, Publisher, Tried
  <2> QED BY <2>1, <2>3, BecomesTyped
<1> QED
  BY <1>1, <1>2, <1>3, <1>4, <1>5, <1>6, <1>7, <1>8, <1>9, <1>10, <1>11, <1>12, <1>13 DEF Publish

\* Nobody but a publisher's own step changes the publishers.
LEMMA OthersTyped ==
  ASSUME TypeOK, [Next]_vars
  PROVE  pub' \in [Runs -> Publisher]
<1>1. ASSUME NEW r \in Runs, Publish(r) \/ Undo(r) \/ Fails(r) \/ Killed(r) \/ Again(r)
      PROVE  pub' \in [Runs -> Publisher]
  BY <1>1, PublishTyped
<1>2. ASSUME Archive \/ Retention \/ Cutover \/ UNCHANGED vars
      PROVE  pub' \in [Runs -> Publisher]
  <2>1. pub' = pub
    BY <1>2 DEF Archive, ArchiveStart, ArchiveLoad, ArchiveWrite, ArchiveRegister, ArchiveStops,
                Retention, RetentionSelect, RetentionCheck, RetentionDelete, RetentionStops,
                Cutover, vars
  <2> QED BY <2>1 DEF TypeOK
<1> QED BY <1>1, <1>2 DEF Next

\* The status and the order of completion.
LEMMA StatusTyped ==
  ASSUME TypeOK, [Next]_vars
  PROVE  status' \in [Runs -> Statuses] /\ older' \subseteq Runs \X Runs
<1>0. status \in [Runs -> Statuses] /\ older \subseteq Runs \X Runs
  BY DEF TypeOK, Statuses
<1>k. ASSUME UNCHANGED <<status, older>>
      PROVE  status' \in [Runs -> Statuses] /\ older' \subseteq Runs \X Runs
  BY <1>k, <1>0
<1>c. ASSUME NEW r \in Runs, NEW s \in {"success", "failed"}, Complete(r, s)
      PROVE  status' \in [Runs -> Statuses] /\ older' \subseteq Runs \X Runs
  <2>1. s \in Statuses BY DEF Statuses
  <2> QED BY <1>c, <2>1, CompleteTyped
<1>1. ASSUME NEW r \in Runs, Start(r)
      PROVE  status' \in [Runs -> Statuses] /\ older' \subseteq Runs \X Runs
  BY <1>1, <1>0 DEF Start, Statuses
<1>2. ASSUME NEW r \in Runs, Sweep(r)
      PROVE  status' \in [Runs -> Statuses] /\ older' \subseteq Runs \X Runs
  <2>1. pub[r].chosen \subseteq Runs BY DEF TypeOK, Publisher
  <2>2. status' \in [Runs -> Statuses] BY <1>2, <1>0 DEF Sweep, Statuses
  <2>3. older' \subseteq Runs \X Runs BY <1>2, <1>0, <2>1 DEF Sweep
  <2> QED BY <2>2, <2>3
<1>3. ASSUME NEW r \in Runs, Fit(r) \/ Blocked(r) \/ Commit(r) \/ UndoStatus(r)
      PROVE  status' \in [Runs -> Statuses] /\ older' \subseteq Runs \X Runs
  BY <1>3, <1>k, <1>c DEF Fit, Blocked, Commit, UndoStatus
<1>4. ASSUME NEW r \in Runs,
             \/ Plan(r) \/ Write(r) \/ Register(r) \/ StageRows(r) \/ Timing(r)
             \/ PruneSelect(r) \/ PruneDelete(r) \/ UndoMirror(r) \/ UndoLive(r)
             \/ UndoHot(r) \/ UndoRegistry(r) \/ Fails(r) \/ Killed(r) \/ Again(r)
      PROVE  UNCHANGED <<status, older>>
  BY <1>4 DEF Plan, Write, Register, StageRows, Timing, PruneSelect, PruneDelete,
              UndoMirror, UndoLive, UndoHot, UndoRegistry, Fails, Killed, Again
<1>5. ASSUME Archive \/ Retention \/ Cutover \/ UNCHANGED vars
      PROVE  UNCHANGED <<status, older>>
  BY <1>5 DEF Archive, ArchiveStart, ArchiveLoad, ArchiveWrite, ArchiveRegister, ArchiveStops,
              Retention, RetentionSelect, RetentionCheck, RetentionDelete, RetentionStops,
              Cutover, vars
<1> QED BY <1>k, <1>1, <1>2, <1>3, <1>4, <1>5 DEF Next, Publish, Undo

\* The rows in the tables, and what a run was published with.
LEMMA TablesTyped ==
  ASSUME TypeOK, [Next]_vars
  PROVE  /\ mirror' \in [Runs -> SUBSET Rows] /\ hot' \in [Runs -> SUBSET Rows]
         /\ live' \subseteq Runs /\ owed' \in [Runs -> SUBSET Rows]
<1> DEFINE Typed == /\ mirror' \in [Runs -> SUBSET Rows] /\ hot' \in [Runs -> SUBSET Rows]
                    /\ live' \subseteq Runs /\ owed' \in [Runs -> SUBSET Rows]
<1>0. /\ mirror \in [Runs -> SUBSET Rows] /\ hot \in [Runs -> SUBSET Rows]
      /\ live \subseteq Runs /\ owed \in [Runs -> SUBSET Rows]
  BY DEF TypeOK
<1>1. ASSUME NEW r \in Runs, Commit(r) PROVE Typed
  <2>1. HotRows(r) \in SUBSET Rows BY RowsTyped
  <2>2. mirror' \in [Runs -> SUBSET Rows] BY <1>0, <1>1, <2>1 DEF Commit
  <2>3. hot' \in [Runs -> SUBSET Rows] BY <1>0, <1>1, <2>1 DEF Commit
  <2>4. owed' \in [Runs -> SUBSET Rows] BY <1>0, <1>1, <2>1 DEF Commit
  <2>5. live' \subseteq Runs BY <1>0, <1>1 DEF Commit
  <2> QED BY <2>2, <2>3, <2>4, <2>5
<1>2. ASSUME NEW r \in Runs, PruneDelete(r) \/ UndoMirror(r) \/ UndoLive(r) \/ UndoHot(r)
      PROVE  Typed
  BY <1>0, <1>2 DEF PruneDelete, UndoMirror, UndoLive, UndoHot, tables
<1>3. ASSUME RetentionDelete PROVE Typed
  BY <1>0, <1>3 DEF RetentionDelete
<1>4. ASSUME NEW r \in Runs,
             \/ Start(r) \/ Sweep(r) \/ Fit(r) \/ Blocked(r) \/ UndoStatus(r)
             \/ Plan(r) \/ Write(r) \/ Register(r) \/ StageRows(r) \/ Timing(r)
             \/ PruneSelect(r) \/ UndoRegistry(r) \/ Fails(r) \/ Killed(r) \/ Again(r)
      PROVE  UNCHANGED <<tables, owed>>
  BY <1>4 DEF Start, Sweep, Fit, Blocked, UndoStatus, Plan, Write, Register, StageRows,
              Timing, PruneSelect, UndoRegistry, Fails, Killed, Again
<1>5. ASSUME Archive \/ RetentionSelect \/ RetentionCheck \/ RetentionStops \/ Cutover \/ UNCHANGED vars
      PROVE  UNCHANGED <<tables, owed>>
  BY <1>5 DEF Archive, ArchiveStart, ArchiveLoad, ArchiveWrite, ArchiveRegister, ArchiveStops,
              RetentionSelect, RetentionCheck, RetentionStops, Cutover, vars, tables
<1>6. ASSUME UNCHANGED <<tables, owed>> PROVE Typed
  BY <1>0, <1>6 DEF tables
<1> HIDE DEF Typed
<1>7. Typed
  BY <1>1, <1>2, <1>3, <1>4, <1>5, <1>6 DEF Next, Publish, Undo, Retention
<1> QED BY <1>7 DEF Typed

\* Folders and their registrations.
LEMMA FoldersTyped ==
  ASSUME TypeOK, [Next]_vars
  PROVE  /\ folder' \in [Runs -> Content \cup {NoFolder}]
         /\ registry' \in [Runs -> {"none", "verified", "failed_run"}]
<1> DEFINE Typed == /\ folder' \in [Runs -> Content \cup {NoFolder}]
                    /\ registry' \in [Runs -> {"none", "verified", "failed_run"}]
<1>0. /\ folder \in [Runs -> Content \cup {NoFolder}]
      /\ registry \in [Runs -> {"none", "verified", "failed_run"}]
  BY DEF TypeOK
<1>1. ASSUME NEW r \in Runs, Write(r) PROVE Typed
  <2>1. Artifact(r) \in Content BY RowsTyped
  <2> QED BY <1>0, <1>1, <2>1 DEF Write
<1>2. ASSUME NEW r \in Runs, Register(r) \/ UndoRegistry(r) PROVE Typed
  BY <1>0, <1>2 DEF Register, UndoRegistry, Withdrawn
<1>3. ASSUME ArchiveWrite PROVE Typed
  <2>1. Archived \in Content BY RowsTyped
  <2> QED BY <1>0, <1>3, <2>1 DEF ArchiveWrite
<1>4. ASSUME ArchiveRegister PROVE Typed
  BY <1>0, <1>4 DEF ArchiveRegister
<1>5. ASSUME NEW r \in Runs,
             \/ Start(r) \/ Sweep(r) \/ Fit(r) \/ Blocked(r) \/ UndoStatus(r)
             \/ Plan(r) \/ StageRows(r) \/ Commit(r) \/ Timing(r) \/ PruneSelect(r)
             \/ PruneDelete(r) \/ UndoMirror(r) \/ UndoLive(r) \/ UndoHot(r)
             \/ Fails(r) \/ Killed(r) \/ Again(r)
      PROVE  UNCHANGED <<folder, registry>>
  BY <1>5 DEF Start, Sweep, Fit, Blocked, UndoStatus, Plan, StageRows, Commit, Timing,
              PruneSelect, PruneDelete, UndoMirror, UndoLive, UndoHot, Fails, Killed, Again
<1>6. ASSUME (\E r \in Runs : ArchiveStart(r)) \/ ArchiveLoad \/ ArchiveStops
               \/ Retention \/ Cutover \/ UNCHANGED vars
      PROVE  UNCHANGED <<folder, registry>>
  BY <1>6 DEF ArchiveStart, ArchiveLoad, ArchiveStops, Retention, RetentionSelect,
              RetentionCheck, RetentionDelete, RetentionStops, Cutover, vars
<1>7. ASSUME UNCHANGED <<folder, registry>> PROVE Typed
  BY <1>0, <1>7
<1> HIDE DEF Typed
<1>8. Typed
  BY <1>1, <1>2, <1>3, <1>4, <1>5, <1>6, <1>7 DEF Next, Publish, Undo, Archive
<1> QED BY <1>8 DEF Typed

Archives   == {a \in [pc : {"idle", "load", "write", "register"}, run : Runs \cup {0},
                       rows : SUBSET Rows, stream : BOOLEAN, cut : SUBSET Runs] :
                 a.pc # "idle" => a.run \in Runs}
Retentions == [pc : {"idle", "check", "delete"}, good : SUBSET Runs, bad : SUBSET Runs]

\* A publisher's own step leaves the archive, the batch and the marker alone.
LEMMA PublisherKeeps ==
  ASSUME NEW r \in Runs, Publish(r) \/ Undo(r) \/ Fails(r) \/ Killed(r) \/ Again(r)
  PROVE  arc' = arc /\ ret' = ret /\ marker' = marker
<1>1. CASE Publish(r)
  BY <1>1 DEF Publish, Start, Sweep, Fit, Blocked, Plan, Write, Register, StageRows, Commit,
              Timing, PruneSelect, PruneDelete
<1>2. CASE Undo(r)
  BY <1>2 DEF Undo, UndoMirror, UndoLive, UndoHot, UndoRegistry, UndoStatus
<1>3. CASE Fails(r) \/ Killed(r) \/ Again(r)
  BY <1>3 DEF Fails, Killed, Again
<1> QED BY <1>1, <1>2, <1>3

\* The archive, the retention batch and the marker.
LEMMA MoversTyped ==
  ASSUME TypeOK, [Next]_vars
  PROVE  arc' \in Archives /\ ret' \in Retentions /\ marker' \in BOOLEAN
<1> DEFINE Typed == arc' \in Archives /\ ret' \in Retentions /\ marker' \in BOOLEAN
<1>0. arc \in Archives /\ ret \in Retentions /\ marker \in BOOLEAN
  BY DEF TypeOK, Archives, Retentions
<1>e. ASSUME ArchiveEnd PROVE arc' \in Archives
  BY <1>e, <1>0 DEF ArchiveEnd, NoArchive, Archives
<1>1. ASSUME NEW r \in Runs, ArchiveStart(r) PROVE Typed
  <2>1. PICK stream \in Streaming :
          arc' = [arc EXCEPT !.pc = "load", !.run = r, !.rows = mirror[r], !.stream = stream]
    BY <1>1 DEF ArchiveStart
  <2>2. stream \in BOOLEAN /\ mirror[r] \in SUBSET Rows BY RunsAssumption DEF TypeOK
  <2>3. arc' \in Archives BY <1>0, <2>1, <2>2 DEF Archives
  <2> QED BY <1>0, <1>1, <2>3 DEF ArchiveStart
<1>2. ASSUME ArchiveLoad \/ ArchiveWrite \/ ArchiveRegister \/ ArchiveStops PROVE Typed
  <2>1. arc.pc # "idle" => [arc EXCEPT !.pc = "write"] \in Archives BY <1>0 DEF Archives
  <2>2. arc.pc # "idle" => [arc EXCEPT !.pc = "register"] \in Archives BY <1>0 DEF Archives
  <2>4. CASE ArchiveLoad \/ ArchiveWrite \/ ArchiveRegister
    BY <1>0, <1>e, <2>1, <2>2, <2>4 DEF ArchiveLoad, ArchiveWrite, ArchiveRegister
  <2>5. CASE ArchiveStops
    <3>1. arc.cut \cup (IF arc.pc = "register" THEN {arc.run} ELSE {}) \subseteq Runs
      BY <1>0, <2>5 DEF Archives
    <3>2. [NoArchive EXCEPT !.cut = arc.cut \cup
             IF arc.pc = "register" THEN {arc.run} ELSE {}] \in Archives
      BY <3>1 DEF NoArchive, Archives
    <3> QED BY <1>0, <2>5, <3>2 DEF ArchiveStops
  <2> QED BY <1>2, <2>4, <2>5
<1>3. ASSUME Retention PROVE Typed
  <2>1. NoRetention \in Retentions BY DEF NoRetention, Retentions
  <2>2. [ret EXCEPT !.pc = "delete"] \in Retentions BY <1>0 DEF Retentions
  <2>3. [pc   |-> "check",
         good |-> {r \in Stale : registry[r] = "verified"},
         bad  |-> FailedOutputs] \in Retentions
    BY DEF Retentions, Stale, Successful, FailedOutputs
  <2> QED
    BY <1>0, <1>3, <2>1, <2>2, <2>3 DEF Retention, RetentionSelect, RetentionCheck,
                                        RetentionDelete, RetentionStops
<1>4. ASSUME Cutover PROVE Typed
  BY <1>0, <1>4 DEF Cutover
<1>5. ASSUME UNCHANGED vars PROVE Typed
  BY <1>0, <1>5 DEF vars
<1>6. ASSUME NEW r \in Runs, Publish(r) \/ Undo(r) \/ Fails(r) \/ Killed(r) \/ Again(r)
      PROVE  Typed
  BY <1>0, <1>6, PublisherKeeps
<1> HIDE DEF Typed
<1>7. Typed
  BY <1>1, <1>2, <1>3, <1>4, <1>5, <1>6 DEF Next, Archive
<1> QED BY <1>7 DEF Typed

\* The budgets.
LEMMA BudgetsTyped ==
  ASSUME TypeOK, [Next]_vars
  PROVE  used' \in [Budgets -> Nat]
<1>0. used \in [Budgets -> Nat] BY DEF TypeOK
<1>1. ASSUME NEW b \in Budgets, used' = [used EXCEPT ![b] = @ + 1]
      PROVE  used' \in [Budgets -> Nat]
  BY <1>0, <1>1
<1>2. {"faults", "crashes", "cutovers", "archives", "retentions", "again"} = Budgets
  BY DEF Budgets
<1>3. ASSUME NEW r \in Runs, Publish(r) \/ Undo(r) PROVE used' = used
  BY <1>3 DEF Publish, Start, Sweep, Fit, Blocked, Plan, Write, Register, StageRows, Commit,
              Timing, PruneSelect, PruneDelete, Undo, UndoMirror, UndoLive, UndoHot,
              UndoRegistry, UndoStatus
<1>4. ASSUME NEW r \in Runs, Fails(r) \/ Killed(r) \/ Again(r)
      PROVE  \E b \in Budgets : used' = [used EXCEPT ![b] = @ + 1]
  BY <1>4, <1>2 DEF Fails, Killed, Again
<1>5. ASSUME Archive \/ Retention \/ Cutover
      PROVE  used' = used \/ \E b \in Budgets : used' = [used EXCEPT ![b] = @ + 1]
  <2>1. CASE Archive
    BY <2>1, <1>2 DEF Archive, ArchiveStart, ArchiveLoad, ArchiveWrite, ArchiveRegister, ArchiveStops
  <2>2. CASE Retention
    BY <2>2, <1>2 DEF Retention, RetentionSelect, RetentionCheck, RetentionDelete, RetentionStops
  <2>3. CASE Cutover
    BY <2>3, <1>2 DEF Cutover
  <2> QED BY <1>5, <2>1, <2>2, <2>3
<1> QED BY <1>0, <1>1, <1>3, <1>4, <1>5 DEF Next, vars

\* Every part of the state always has its type.
LEMMA TypeInit == Init => TypeOK
<1> SUFFICES ASSUME Init PROVE TypeOK OBVIOUS
<1>1. Idle \in Publisher BY DEF Idle, Publisher
<1>2. NoArchive \in Archives /\ NoRetention \in Retentions
  BY DEF NoArchive, Archives, NoRetention, Retentions
<1>3. pub \in [Runs -> Publisher] BY <1>1 DEF Init
<1>4. used \in [Budgets -> Nat] BY DEF Init, Budgets
<1>5. /\ status \in [Runs -> {"absent", "running", "success", "failed"}]
      /\ older \subseteq Runs \X Runs /\ live \subseteq Runs /\ marker \in BOOLEAN
      /\ registry \in [Runs -> {"none", "verified", "failed_run"}]
  BY DEF Init
<1>6. /\ mirror \in [Runs -> SUBSET Rows] /\ hot \in [Runs -> SUBSET Rows]
      /\ owed \in [Runs -> SUBSET Rows] /\ folder \in [Runs -> Content \cup {NoFolder}]
  BY DEF Init
<1> QED BY <1>2, <1>3, <1>4, <1>5, <1>6 DEF TypeOK, Init, Archives, Retentions

LEMMA TypeStep == TypeOK /\ [Next]_vars => TypeOK'
<1> SUFFICES ASSUME TypeOK, [Next]_vars PROVE TypeOK' OBVIOUS
<1>1. /\ status' \in [Runs -> Statuses] /\ older' \subseteq Runs \X Runs
  BY StatusTyped
<1>2. /\ mirror' \in [Runs -> SUBSET Rows] /\ hot' \in [Runs -> SUBSET Rows]
      /\ live' \subseteq Runs /\ owed' \in [Runs -> SUBSET Rows]
  BY TablesTyped
<1>3. /\ folder' \in [Runs -> Content \cup {NoFolder}]
      /\ registry' \in [Runs -> {"none", "verified", "failed_run"}]
  BY FoldersTyped
<1>4. pub' \in [Runs -> Publisher] BY OthersTyped
<1>5. arc' \in Archives /\ ret' \in Retentions /\ marker' \in BOOLEAN BY MoversTyped
<1>6. used' \in [Budgets -> Nat] BY BudgetsTyped
<1> QED BY <1>1, <1>2, <1>3, <1>4, <1>5, <1>6 DEF TypeOK, Statuses, Archives, Retentions

\* TypeOK holds in every reachable state.
THEOREM TypeCorrect == Spec => []TypeOK
<1> QED BY TypeInit, TypeStep, PTL DEF Spec

----------------------------------------------------------------------------
(* The rows of a run.                                                      *)

\* What a step of another leaves of a run: all, or a status that failed.
Untouched(r) ==
  /\ pub'[r] = pub[r] /\ owed'[r] = owed[r] /\ mirror'[r] = mirror[r]
  /\ folder'[r] = folder[r] /\ registry'[r] = registry[r]
  /\ status'[r] = status[r] \/ status'[r] = "failed"

LEMMA UntouchedKeeps ==
  ASSUME NEW r \in Runs, RunInv(r), Untouched(r), arc' = arc, ret' = ret
  PROVE  RunInv(r)'
BY DEF Untouched, RunInv, Fresh, FreshUnknown, FreshFolder, Intact, FolderKeeps, MirrorKeeps

\* A publisher's own step touches no other run.
LEMMA PublisherTouches ==
  ASSUME TypeOK, NEW q \in Runs, NEW r \in Runs \ {q},
         Publish(q) \/ Undo(q) \/ Fails(q) \/ Killed(q) \/ Again(q)
  PROVE  Untouched(r)
<1>1. pub'[r] = pub[r]
  BY DEF TypeOK, Becomes, Goto, Raise, Publish, Start, Sweep, Fit, Blocked, Plan, Write, Register,
         StageRows, Commit, Timing, PruneSelect, PruneDelete, Undo, UndoMirror, UndoLive,
         UndoHot, UndoRegistry, UndoStatus, Fails, Killed, Again
<1>2. status'[r] = status[r] \/ status'[r] = "failed"
  BY DEF TypeOK, Complete, Publish, Start, Sweep, Fit, Blocked, Plan, Write, Register,
         StageRows, Commit, Timing, PruneSelect, PruneDelete, Undo, UndoMirror, UndoLive,
         UndoHot, UndoRegistry, UndoStatus, Fails, Killed, Again
<1>3. owed'[r] = owed[r] /\ mirror'[r] = mirror[r]
  BY DEF TypeOK, tables, Publish, Start, Sweep, Fit, Blocked, Plan, Write, Register,
         StageRows, Commit, Timing, PruneSelect, PruneDelete, Undo, UndoMirror, UndoLive,
         UndoHot, UndoRegistry, UndoStatus, Fails, Killed, Again
<1>4. folder'[r] = folder[r] /\ registry'[r] = registry[r]
  BY DEF TypeOK, Publish, Start, Sweep, Fit, Blocked, Plan, Write, Register,
         StageRows, Commit, Timing, PruneSelect, PruneDelete, Undo, UndoMirror, UndoLive,
         UndoHot, UndoRegistry, UndoStatus, Fails, Killed, Again
<1> QED BY <1>1, <1>2, <1>3, <1>4 DEF Untouched

\* What a run is made of, but for its place and its status.
Stores(r) ==
  /\ owed'[r] = owed[r] /\ mirror'[r] = mirror[r]
  /\ folder'[r] = folder[r] /\ registry'[r] = registry[r]
Marks(r) ==
  /\ pub'[r].again = pub[r].again /\ pub'[r].wrote = pub[r].wrote
  /\ pub'[r].dual = pub[r].dual

\* Goto changes the place only, Raise leads to the handler.
LEMMA GotoMarks ==
  ASSUME TypeOK, NEW r \in Runs, NEW pc \in PublisherPcs, Goto(r, pc)
  PROVE  pub'[r].pc = pc /\ pub'[r].late = pub[r].late /\ Marks(r)
<1>1. pub'[r] = [pub[r] EXCEPT !.pc = pc] BY DEF Goto, Becomes, TypeOK
<1>2. pub[r] \in Publisher BY DEF TypeOK
<1> QED BY <1>1, <1>2 DEF Marks, Publisher

LEMMA RaiseMarks ==
  ASSUME TypeOK, NEW r \in Runs, Raise(r)
  PROVE  /\ pub'[r].pc = Handler(r) /\ Marks(r)
         /\ pub'[r].late = (pub[r].late \/ pub[r].pc = "timing")
<1>1. pub'[r] = [pub[r] EXCEPT !.pc = Handler(r), !.chosen = {},
                               !.late = pub[r].late \/ pub[r].pc = "timing"]
  BY DEF Raise, Becomes, TypeOK
<1>2. pub[r] \in Publisher BY DEF TypeOK
<1> QED BY <1>1, <1>2 DEF Marks, Publisher

\* A publication that goes wrong keeps the invariant of its run.
LEMMA RaiseKeeps ==
  ASSUME TypeOK, NEW r \in Runs, RunInv(r), Raise(r), Stores(r), status' = status,
         arc' = arc, ret' = ret, pub[r].pc # "none"
  PROVE  RunInv(r)'
<1>1. /\ pub'[r].pc = Handler(r) /\ Marks(r)
      /\ pub'[r].late = (pub[r].late \/ pub[r].pc = "timing")
  BY RaiseMarks
<1>2. Handler(r) \in Undoing \cup {"ended"} BY HandlerTyped
<1>3. pub[r].pc \in PublisherPcs BY DEF TypeOK, Publisher, PublisherPcs
<1>4. pub[r].pc \in {"timing", "prune", "prune_delete", "ended"} \cup Undoing \cup Before
  BY <1>3 DEF PublisherPcs, Tried, Before
<1>5. pub'[r].pc \notin Before /\ pub'[r].pc # "none"
  BY <1>1, <1>2 DEF Undoing, Before
<1>6. pub[r].pc \in {"prune", "prune_delete", "ended"} \cup Undoing => Handler(r) = "ended"
  BY DEF Handler, Undoing, Tried
<1> QED
  BY <1>1, <1>2, <1>4, <1>5, <1>6
  DEF Stores, Marks, RunInv, Fresh, FreshUnknown, FreshFolder, Intact, FolderKeeps, MirrorKeeps, Undoing

\* A publisher's own step keeps the invariant of its run.
LEMMA OwnStepKeeps ==
  ASSUME TypeOK, NEW r \in Runs, RunInv(r),
         Publish(r) \/ Undo(r) \/ Fails(r) \/ Killed(r) \/ Again(r)
  PROVE  RunInv(r)'
<1> USE DEF Before
<1>a. arc' = arc /\ ret' = ret BY PublisherKeeps
<1>p. pub[r] \in Publisher BY DEF TypeOK
<1>1. CASE Start(r)
  <2>1. PICK k \in Kinds, s \in Settings, stale \in SUBSET {q \in Runs : status[q] = "running"} :
          Becomes(r, [Idle EXCEPT
            !.pc = IF k = "train" THEN "sweep" ELSE "plan", !.kind = k,
            !.artifacts = s.artifacts, !.dual = s.mirror, !.full = s.full,
            !.chosen = stale])
    BY <1>1 DEF Start
  <2>2. pub'[r] = [Idle EXCEPT
            !.pc = IF k = "train" THEN "sweep" ELSE "plan", !.kind = k,
            !.artifacts = s.artifacts, !.dual = s.mirror, !.full = s.full,
            !.chosen = stale]
    BY <2>1 DEF Becomes, TypeOK
  <2>3. pub'[r].pc \in {"sweep", "plan"} /\ ~pub'[r].again /\ ~pub'[r].late /\ ~pub'[r].wrote
    BY <2>2 DEF Idle
  <2>4. status'[r] \in {status[r], "running"} /\ Stores(r) /\ pub[r].pc = "none"
    BY <1>1 DEF Start, TypeOK, tables, Stores, At
  <2> QED
    BY <1>a, <2>3, <2>4 DEF Stores, RunInv, Fresh, FreshUnknown, FreshFolder, Intact, Undoing
<1>2. CASE Sweep(r)
  <2>1. pub'[r] = [pub[r] EXCEPT !.pc = "fit", !.chosen = {}]
    BY <1>2 DEF Sweep, Becomes, TypeOK
  <2>2. pub'[r].pc = "fit" /\ Marks(r) /\ pub'[r].late = pub[r].late
    BY <1>p, <2>1 DEF Marks, Publisher
  <2>3. status'[r] = "running" /\ Stores(r) /\ pub[r].pc = "sweep"
    BY <1>2 DEF Sweep, TypeOK, tables, Stores, At
  <2> QED
    BY <1>a, <2>2, <2>3 DEF Stores, Marks, RunInv, Fresh, FreshUnknown, FreshFolder, Intact, Undoing
<1>3. CASE Fit(r)
  <2>1. \E pc \in {"plan", "ended"} : Goto(r, pc) /\ (pc = "plan" => status' = status)
          /\ (pc = "ended" => Complete(r, "failed"))
    BY <1>3 DEF Fit
  <2>2. PICK pc \in {"plan", "ended"} : Goto(r, pc) /\ (pc = "plan" => status' = status)
          /\ (pc = "ended" => Complete(r, "failed"))
    BY <2>1
  <2>3. pc \in PublisherPcs BY DEF PublisherPcs, Tried
  <2>4. pub'[r].pc = pc /\ pub'[r].late = pub[r].late /\ Marks(r) BY <2>2, <2>3, GotoMarks
  <2>5. Stores(r) /\ pub[r].pc = "fit" /\ (pc = "ended" => status'[r] = "failed")
    BY <1>3, <2>2 DEF Fit, Complete, TypeOK, tables, Stores, At
  <2> QED
    BY <1>a, <2>2, <2>4, <2>5
    DEF Stores, Marks, RunInv, Fresh, FreshUnknown, FreshFolder, Intact, Undoing
<1>4. CASE Plan(r)
  <2>1. pub'[r] = [pub[r] EXCEPT !.pc = IF WritesFolder(r) THEN "write" ELSE "rows",
                                 !.dual = pub[r].dual /\ ~marker]
    BY <1>4 DEF Plan, Becomes, TypeOK
  <2>2. /\ pub'[r].pc = (IF WritesFolder(r) THEN "write" ELSE "rows")
        /\ pub'[r].late = pub[r].late /\ pub'[r].again = pub[r].again
        /\ pub'[r].wrote = pub[r].wrote /\ pub'[r].pc \in {"write", "rows"}
    BY <1>p, <2>1 DEF Publisher
  <2>3. status' = status /\ Stores(r) /\ pub[r].pc = "plan"
    BY <1>4 DEF Plan, TypeOK, tables, Stores, At
  <2> QED
    BY <1>a, <2>2, <2>3 DEF Stores, RunInv, Fresh, FreshUnknown, FreshFolder, Intact, Undoing
<1>5. CASE Blocked(r)
  <2>1. Handler(r) \in Undoing \cup {"ended"} BY HandlerTyped
  <2>2. PICK pc \in Undoing \cup {"ended"} : Goto(r, pc)
    BY <1>5, <2>1 DEF Blocked
  <2>3. pc \in PublisherPcs BY DEF PublisherPcs
  <2>4. pub'[r].pc = pc /\ pub'[r].late = pub[r].late /\ Marks(r) BY <2>2, <2>3, GotoMarks
  <2>5. Stores(r) /\ pub[r].pc = "plan" /\ status'[r] \in {status[r], "failed"}
    BY <1>5 DEF Blocked, Complete, TypeOK, tables, Stores, At
  <2> QED
    BY <1>a, <2>2, <2>4, <2>5
    DEF Stores, Marks, RunInv, Fresh, FreshUnknown, FreshFolder, Intact, Undoing
<1>6. CASE Write(r)
  <2>1. status' = status /\ pub[r].pc = "write" /\ registry' = registry
        /\ owed' = owed /\ mirror' = mirror
    BY <1>6 DEF Write, tables, At
  <2>2. CASE folder[r] \in {NoFolder, Artifact(r)}
    <3>1. pub'[r] = [pub[r] EXCEPT !.pc = "register", !.wrote = TRUE]
      BY <1>6, <2>2 DEF Write, Becomes, TypeOK
    <3>2. /\ pub'[r].pc = "register" /\ pub'[r].late = pub[r].late
          /\ pub'[r].again = pub[r].again /\ pub'[r].wrote
      BY <1>p, <3>1 DEF Publisher
    <3>3. folder'[r].rows = Rows BY <1>6, <2>2 DEF Write, TypeOK, Artifact
    <3> QED
      BY <1>a, <2>1, <3>2, <3>3 DEF RunInv, Fresh, FreshUnknown, FreshFolder, Intact, Undoing
  <2>3. CASE folder[r] \notin {NoFolder, Artifact(r)}
    <3>1. Raise(r) /\ Stores(r) BY <1>6, <2>1, <2>3 DEF Write, Stores
    <3> QED BY <1>a, <2>1, <3>1, RaiseKeeps
  <2> QED BY <2>2, <2>3
<1>7. CASE Register(r)
  <2>1. pub'[r].pc = "rows" /\ pub'[r].late = pub[r].late /\ Marks(r)
    BY <1>7, GotoMarks DEF Register, PublisherPcs, Tried
  <2>2. /\ status' = status /\ owed' = owed /\ mirror' = mirror /\ folder' = folder
        /\ pub[r].pc = "register" /\ registry'[r] = "verified"
    BY <1>7 DEF Register, TypeOK, tables, At
  <2>3. pub[r].wrote \/ pub[r].again
    BY <1>7 DEF Register, At, RunInv, Fresh, FreshFolder
  <2> QED
    BY <1>a, <2>1, <2>2, <2>3 DEF Marks, RunInv, Fresh, FreshUnknown, FreshFolder, Intact, Undoing
<1>8. CASE StageRows(r)
  <2>1. status' = status /\ pub[r].pc = "rows" /\ Stores(r)
    BY <1>8 DEF StageRows, tables, Stores, At
  <2>2. CASE Refused(r)
    BY <1>8, <1>a, <2>1, <2>2, RaiseKeeps DEF StageRows
  <2>3. CASE ~Refused(r)
    <3>1. pub'[r] = [pub[r] EXCEPT !.pc = "commit", !.epoch = used.cutovers]
      BY <1>8, <2>3 DEF StageRows, Becomes, TypeOK
    <3>2. pub'[r].pc = "commit" /\ Marks(r) /\ pub'[r].late = pub[r].late
      BY <1>p, <3>1 DEF Marks, Publisher
    <3> QED
      BY <1>a, <2>1, <3>2
      DEF Stores, Marks, RunInv, Fresh, FreshUnknown, FreshFolder, Intact, Undoing
  <2> QED BY <2>2, <2>3
<1>9. CASE Commit(r)
  <2>1. pub'[r] = [pub[r] EXCEPT
           !.pc = IF pub[r].kind = "train" THEN "timing" ELSE "ended",
           !.raced = \E q \in Runs : At(q, "prune_delete")]
    BY <1>9 DEF Commit, Becomes, TypeOK
  <2>2. pub'[r].pc \in {"timing", "ended"} /\ Marks(r) /\ pub'[r].late = pub[r].late
    BY <1>p, <2>1 DEF Marks, Publisher
  <2>3. /\ pub[r].pc = "commit" /\ folder' = folder /\ registry' = registry
        /\ owed'[r] = (IF pub[r].wrote THEN Rows ELSE HotRows(r))
        /\ pub[r].dual => mirror'[r] = HotRows(r)
    BY <1>9 DEF Commit, TypeOK, At
  <2>4. HotRows(r) \subseteq Rows BY RowsTyped
  <2>5. pub[r].wrote \in BOOLEAN /\ pub[r].dual \in BOOLEAN BY <1>p DEF Publisher
  <2> QED
    BY <1>a, <2>2, <2>3, <2>4, <2>5
    DEF Marks, RunInv, Fresh, FreshUnknown, FreshFolder, Intact, FolderKeeps, MirrorKeeps, Undoing
<1>10. CASE Timing(r)
  <2>1. pub'[r].pc = "prune" /\ pub'[r].late = pub[r].late /\ Marks(r)
    BY <1>10, GotoMarks DEF Timing, PublisherPcs
  <2>2. status' = status /\ Stores(r) BY <1>10 DEF Timing, tables, Stores
  <2> QED
    BY <1>a, <2>1, <2>2
    DEF Stores, Marks, RunInv, Fresh, Intact, FolderKeeps, MirrorKeeps, Undoing
<1>11. CASE PruneSelect(r) \/ PruneDelete(r) \/ Killed(r)
  <2>1. \E c \in SUBSET Runs, pc \in {"ended", "prune_delete"} :
          \/ pub'[r] = [pub[r] EXCEPT !.pc = pc, !.chosen = c]
          \/ pub'[r] = [pub[r] EXCEPT !.chosen = c, !.pc = pc]
    <3>1. Newest(KeepLive, LiveSuccess) \in SUBSET Runs
      BY DEF Newest, LiveSuccess, TypeOK
    <3>2. PruneSelect(r) => pub'[r] = [pub[r] EXCEPT
             !.chosen = Newest(KeepLive, LiveSuccess),
             !.pc = IF LiveSuccess = {} THEN "ended" ELSE "prune_delete"]
      BY DEF PruneSelect, Becomes, TypeOK
    <3>3. PruneDelete(r) \/ Killed(r) => pub'[r] = [pub[r] EXCEPT !.pc = "ended", !.chosen = {}]
      BY DEF PruneDelete, Killed, Becomes, TypeOK
    <3> QED BY <1>11, <3>1, <3>2, <3>3
  <2>2. pub'[r].pc \in {"ended", "prune_delete"} /\ Marks(r) /\ pub'[r].late = pub[r].late
    BY <1>p, <2>1 DEF Marks, Publisher
  <2>3. status' = status /\ Stores(r)
    BY <1>11 DEF PruneSelect, PruneDelete, Killed, tables, Stores
  <2> QED
    BY <1>a, <2>2, <2>3
    DEF Stores, Marks, RunInv, Fresh, FreshUnknown, Intact, FolderKeeps, MirrorKeeps, Undoing
<1>12. CASE Undo(r)
  <2>1. AfterUndo(r) \in Undoing \cup {"ended"} BY HandlerTyped
  <2>2. PICK pc \in Undoing \cup {"ended"} : Goto(r, pc)
    BY <1>12, <2>1 DEF Undo, UndoMirror, UndoLive, UndoHot, UndoRegistry, UndoStatus
  <2>3. pc \in PublisherPcs BY DEF PublisherPcs
  <2>4. pub'[r].pc = pc /\ pub'[r].late = pub[r].late /\ Marks(r) BY <2>2, <2>3, GotoMarks
  <2>5. status'[r] \in {status[r], "failed"} /\ pub[r].pc \in Undoing
    BY <1>12 DEF Undo, UndoMirror, UndoLive, UndoHot, UndoRegistry, UndoStatus, Complete,
                 TypeOK, At, Undoing
  <2>6. status'[r] = "success" => status[r] = "success"
    BY <2>5
  <2> QED
    BY <1>a, <2>2, <2>4, <2>5, <2>6 DEF Marks, RunInv, Fresh, Intact, Undoing
<1>13. CASE Fails(r)
  <2>1. status' = status /\ Stores(r) /\ pub[r].pc # "none"
    BY <1>13 DEF Fails, tables, Stores
  <2>2. CASE pub[r].pc \in Undoing
    <3>1. AfterUndo(r) \in Undoing \cup {"ended"} BY HandlerTyped
    <3>2. Goto(r, AfterUndo(r)) BY <1>13, <2>2 DEF Fails
    <3>3. AfterUndo(r) \in PublisherPcs BY <3>1 DEF PublisherPcs
    <3>4. pub'[r].pc = AfterUndo(r) /\ pub'[r].late = pub[r].late /\ Marks(r)
      BY <3>2, <3>3, GotoMarks
    <3> QED
      BY <1>a, <2>1, <2>2, <3>1, <3>4 DEF Marks, RunInv, Fresh, Intact, Undoing
  <2>3. CASE pub[r].pc \notin Undoing
    BY <1>13, <1>a, <2>1, <2>3, RaiseKeeps DEF Fails
  <2> QED BY <2>2, <2>3
<1>14. CASE Again(r)
  <2>1. PICK s \in Settings :
          Becomes(r, [Idle EXCEPT !.pc = "plan", !.kind = "kronos",
                                  !.dual = s.mirror, !.again = TRUE])
    BY <1>14 DEF Again
  <2>2. pub'[r].pc = "plan" /\ pub'[r].again
    BY <2>1 DEF Becomes, TypeOK, Idle
  <2> QED BY <2>2 DEF RunInv, Fresh, Intact
<1> QED
  BY <1>1, <1>2, <1>3, <1>4, <1>5, <1>6, <1>7, <1>8, <1>9, <1>10, <1>11, <1>12, <1>13, <1>14
  DEF Publish

\* The steps of the archive keep the invariant of every run.
LEMMA ArchiveKeeps ==
  ASSUME TypeOK, StoreInv, Archive, NEW r \in Runs
  PROVE  RunInv(r)'
<1> USE DEF Before
<1>0. RunInv(r) /\ ArchiveInv BY DEF StoreInv
<1>a. arc \in Archives BY DEF TypeOK, Archives
<1>1. /\ status' = status /\ pub' = pub /\ ret' = ret /\ owed' = owed /\ mirror' = mirror
  BY DEF Archive, ArchiveStart, ArchiveLoad, ArchiveWrite, ArchiveRegister, ArchiveStops, tables
<1>2. ASSUME NEW q \in Runs, ArchiveStart(q) PROVE RunInv(r)'
  <2>1. PICK stream \in Streaming :
          arc' = [arc EXCEPT !.pc = "load", !.run = q, !.rows = mirror[q], !.stream = stream]
    BY <1>2 DEF ArchiveStart
  <2>2. arc'.pc = "load" /\ arc'.run = q /\ arc'.rows = mirror[q]
    BY <1>a, <2>1 DEF Archives
  <2>3. folder' = folder /\ registry' = registry /\ status[q] = "success" /\ registry[q] # "verified"
    BY <1>2 DEF ArchiveStart
  <2> QED
    BY <1>0, <1>1, <2>2, <2>3
    DEF RunInv, Fresh, FreshUnknown, FreshFolder, Intact, FolderKeeps, MirrorKeeps, Undoing
<1>3. ASSUME ArchiveLoad \/ ArchiveStops PROVE RunInv(r)'
  <2>1. folder' = folder /\ registry' = registry
    BY <1>3 DEF ArchiveLoad, ArchiveStops
  <2>2. arc'.pc = "idle" \/ (arc.pc # "idle" /\ arc'.run = arc.run /\ arc'.rows = arc.rows)
    BY <1>3, <1>a DEF ArchiveLoad, ArchiveStops, ArchiveEnd, NoArchive, Archives
  <2> QED
    BY <1>0, <1>1, <2>1, <2>2
    DEF RunInv, Fresh, FreshUnknown, FreshFolder, Intact, FolderKeeps, MirrorKeeps, Undoing
<1>4. ASSUME ArchiveWrite PROVE RunInv(r)'
  <2>1. registry' = registry /\ arc.pc = "write" /\ arc.run \in Runs
    BY <1>4, <1>a DEF ArchiveWrite, Archives
  <2>2. arc'.pc = "idle" \/ (arc'.run = arc.run /\ arc'.rows = arc.rows)
    BY <1>4, <1>a DEF ArchiveWrite, ArchiveEnd, NoArchive, Archives
  <2>3. folder' = folder \/
          (folder[arc.run] \in {NoFolder, Archived} /\ folder' = [folder EXCEPT ![arc.run] = Archived])
    BY <1>4 DEF ArchiveWrite
  <2>4. Archived.rows = arc.rows /\ Archived # NoFolder
    BY <1>a DEF Archived, NoFolder, Archives
  <2>5. folder \in [Runs -> Content \cup {NoFolder}] BY DEF TypeOK
  <2>6. folder'[r] = folder[r] \/
          (r = arc.run /\ folder[r] \in {NoFolder, Archived} /\ folder'[r] = Archived)
    BY <2>1, <2>3, <2>5
  <2>7. NoFolder.rows # Rows BY DEF NoFolder, Rows
  <2>8. folder[r] = NoFolder \/ folder'[r] = folder[r] \/ r = arc.run
    BY <2>6
  <2> HIDE DEF Archived, NoFolder
  <2> QED
    BY <1>0, <1>1, <2>1, <2>2, <2>4, <2>6, <2>7
    DEF RunInv, Fresh, FreshUnknown, FreshFolder, Intact, FolderKeeps, MirrorKeeps, Undoing
<1>5. ASSUME ArchiveRegister PROVE RunInv(r)'
  <2>1. /\ folder' = folder /\ arc.pc = "register" /\ arc.run \in Runs /\ arc'.pc = "idle"
        /\ folder[arc.run] # NoFolder
    BY <1>0, <1>5, <1>a DEF ArchiveRegister, ArchiveEnd, NoArchive, Archives, ArchiveInv
  <2>2. registry'[r] = registry[r] \/ (r = arc.run /\ registry'[r] = "verified")
    BY <1>5, <2>1 DEF ArchiveRegister, TypeOK
  <2> QED
    BY <1>0, <1>1, <2>1, <2>2
    DEF RunInv, Fresh, FreshUnknown, FreshFolder, Intact, FolderKeeps, MirrorKeeps, Undoing
<1> QED BY <1>2, <1>3, <1>4, <1>5 DEF Archive

\* The steps of a retention batch keep the invariant of every run.
LEMMA RetentionKeeps ==
  ASSUME TypeOK, StoreInv, Retention, NEW r \in Runs
  PROVE  RunInv(r)'
<1> USE DEF Before
<1>0. RunInv(r) BY DEF StoreInv
<1>a. ret \in Retentions BY DEF TypeOK, Retentions
<1>1. /\ status' = status /\ pub' = pub /\ arc' = arc /\ owed' = owed
      /\ folder' = folder /\ registry' = registry
  BY DEF Retention, RetentionSelect, RetentionCheck, RetentionDelete, RetentionStops
<1>2. CASE RetentionSelect
  <2>1. mirror' = mirror BY <1>2 DEF RetentionSelect, tables
  <2>2. r \in ret'.good => registry[r] = "verified" /\ status[r] = "success"
    BY <1>2 DEF RetentionSelect, Stale, Successful
  <2>3. r \in ret'.bad => status[r] = "failed" /\ mirror[r] # {}
    BY <1>2 DEF RetentionSelect, FailedOutputs
  <2> QED
    BY <1>0, <1>1, <2>1, <2>2, <2>3
    DEF RunInv, Fresh, FreshUnknown, FreshFolder, Intact, FolderKeeps, MirrorKeeps, Undoing
<1>3. CASE RetentionCheck \/ RetentionStops
  <2>1. mirror' = mirror BY <1>3 DEF RetentionCheck, RetentionStops, tables
  <2>2. \/ r \notin ret'.good /\ r \notin ret'.bad
        \/ ret'.good = ret.good /\ ret'.bad = ret.bad
    BY <1>3, <1>a DEF RetentionCheck, RetentionStops, NoRetention, Retentions
  <2> QED
    BY <1>0, <1>1, <2>1, <2>2
    DEF RunInv, Fresh, FreshUnknown, FreshFolder, Intact, FolderKeeps, MirrorKeeps, Undoing
<1>4. CASE RetentionDelete
  <2>1. mirror'[r] = (IF r \in ret.good \/ r \in ret.bad THEN {} ELSE mirror[r])
    BY <1>4 DEF RetentionDelete, Purged
  <2>2. r \notin ret'.good /\ r \notin ret'.bad
    BY <1>4 DEF RetentionDelete, NoRetention
  <2> QED
    BY <1>0, <1>1, <2>1, <2>2
    DEF RunInv, Fresh, FreshUnknown, FreshFolder, Intact, FolderKeeps, MirrorKeeps, Undoing
<1> QED BY <1>2, <1>3, <1>4 DEF Retention

\* An archive about to register has its folder.
LEMMA ArchiveInvStep ==
  ASSUME TypeOK, StoreInv, [Next]_vars
  PROVE  ArchiveInv'
<1>0. ArchiveInv BY DEF StoreInv
<1>a. arc \in Archives /\ folder \in [Runs -> Content \cup {NoFolder}]
  BY DEF TypeOK, Archives
<1>n. NoFolder \notin Content BY DEF NoFolder, Content
<1>1. ASSUME NEW q \in Runs, Publish(q) \/ Undo(q) \/ Fails(q) \/ Killed(q) \/ Again(q)
      PROVE  ArchiveInv'
  <2>1. arc' = arc BY <1>1, PublisherKeeps
  <2>2. \A r \in Runs : folder'[r] = folder[r] \/ folder'[r] \in Content
    <3>1. CASE Write(q)
      <4>1. Artifact(q) \in Content BY RowsTyped
      <4> QED BY <3>1, <4>1, <1>a DEF Write
    <3>2. CASE folder' = folder
      BY <3>2
    <3> QED
      BY <1>1, <3>1, <3>2
      DEF Publish, Start, Sweep, Fit, Blocked, Plan, Register, StageRows, Commit, Timing,
          PruneSelect, PruneDelete, Undo, UndoMirror, UndoLive, UndoHot, UndoRegistry,
          UndoStatus, Fails, Killed, Again
  <2> QED BY <1>0, <1>a, <1>n, <2>1, <2>2 DEF ArchiveInv, Archives
<1>2. CASE ArchiveWrite
  <2>1. arc.run \in Runs BY <1>2, <1>a DEF ArchiveWrite, Archives
  <2>2. arc'.pc = "idle" \/ (arc'.run = arc.run /\ folder'[arc.run] = Archived)
    BY <1>2, <1>a, <2>1 DEF ArchiveWrite, ArchiveEnd, NoArchive, Archives
  <2>3. Archived \in Content BY RowsTyped
  <2> QED BY <1>n, <2>2, <2>3 DEF ArchiveInv
<1>3. ASSUME (\E q \in Runs : ArchiveStart(q)) \/ ArchiveLoad \/ ArchiveRegister \/ ArchiveStops
      PROVE  ArchiveInv'
  <2>1. arc'.pc # "register"
    BY <1>3, <1>a DEF ArchiveStart, ArchiveLoad, ArchiveRegister, ArchiveStops, ArchiveEnd,
                      NoArchive, Archives
  <2> QED BY <2>1 DEF ArchiveInv
<1>4. CASE Retention \/ Cutover \/ UNCHANGED vars
  <2>1. arc' = arc /\ folder' = folder
    BY <1>4 DEF Retention, RetentionSelect, RetentionCheck, RetentionDelete, RetentionStops,
                Cutover, vars
  <2> QED BY <1>0, <2>1 DEF ArchiveInv
<1> QED BY <1>1, <1>2, <1>3, <1>4 DEF Next, Archive

LEMMA StoreInit == Init => StoreInv
BY DEF Init, StoreInv, ArchiveInv, RunInv, Fresh, FreshUnknown, FreshFolder, Intact, Undoing,
       NoArchive, NoRetention, Idle

LEMMA StoreStep == TypeOK /\ StoreInv /\ [Next]_vars => StoreInv'
<1> SUFFICES ASSUME TypeOK, StoreInv, [Next]_vars PROVE StoreInv' OBVIOUS
<1>1. ArchiveInv' BY ArchiveInvStep
<1>2. ASSUME NEW r \in Runs PROVE RunInv(r)'
  <2>0. RunInv(r) BY DEF StoreInv
  <2>1. ASSUME NEW q \in Runs, Publish(q) \/ Undo(q) \/ Fails(q) \/ Killed(q) \/ Again(q)
        PROVE  RunInv(r)'
    <3>1. CASE q = r BY <2>0, <2>1, <3>1, OwnStepKeeps
    <3>2. CASE q # r
      <4>1. arc' = arc /\ ret' = ret BY <2>1, PublisherKeeps
      <4>2. Untouched(r) BY <2>1, <3>2, PublisherTouches
      <4> QED BY <2>0, <4>1, <4>2, UntouchedKeeps
    <3> QED BY <3>1, <3>2
  <2>2. CASE Archive BY <2>2, ArchiveKeeps
  <2>3. CASE Retention BY <2>3, RetentionKeeps
  <2>4. CASE Cutover \/ UNCHANGED vars
    <3>1. Untouched(r) /\ arc' = arc /\ ret' = ret
      BY <2>4 DEF Cutover, vars, tables, Untouched
    <3> QED BY <2>0, <3>1, UntouchedKeeps
  <2> QED BY <2>1, <2>2, <2>3, <2>4 DEF Next
<1> QED BY <1>1, <1>2 DEF StoreInv

LEMMA StoreAlways == Spec => [](TypeOK /\ StoreInv)
<1>1. Init => TypeOK /\ StoreInv BY TypeInit, StoreInit
<1>2. TypeOK /\ StoreInv /\ [Next]_vars => (TypeOK /\ StoreInv)' BY TypeStep, StoreStep
<1> QED BY <1>1, <1>2, PTL DEF Spec

\* No run that was written to the mirror or to a folder of its own loses a row.
THEOREM RowsKept == Spec => []MirroredHistoryKept
<1>1. TypeOK /\ StoreInv => MirroredHistoryKept
  <2> SUFFICES ASSUME TypeOK, StoreInv, NEW r \in Runs, Intact(r), pub[r].dual \/ pub[r].wrote
               PROVE  owed[r] \subseteq Kept(r)
    BY DEF MirroredHistoryKept
  <2>1. FolderKeeps(r) /\ MirrorKeeps(r) /\ owed[r] \subseteq Rows
    BY DEF StoreInv, RunInv
  <2>2. CASE pub[r].wrote
    BY <2>1, <2>2 DEF FolderKeeps, Kept
  <2>3. CASE ~pub[r].wrote
    BY <2>1, <2>3 DEF MirrorKeeps, Kept
  <2> QED BY <2>2, <2>3
<1> QED BY <1>1, StoreAlways, PTL

\* A run loses its success only by a late error, a repeated publication or an
\* overlapping sweep.
THEOREM SuccessKept == Spec => SuccessStays
<1> DEFINE Reason(r) == \/ pub[r].late \/ pub[r].again
                        \/ \E q \in Runs : At(q, "sweep") /\ r \in pub[q].chosen
           Step(r) == status[r] = "success" /\ status'[r] # "success" => Reason(r)
<1>1. TypeOK /\ StoreInv /\ [Next]_vars => [\A r \in Runs : Step(r)]_vars
  <2> SUFFICES ASSUME TypeOK, StoreInv, [Next]_vars, NEW r \in Runs,
                      status[r] = "success", status'[r] # "success"
               PROVE  Reason(r)
    OBVIOUS
  <2>0. RunInv(r) BY DEF StoreInv
  <2>1. PICK q \in Runs : \/ Start(q) \/ Sweep(q) \/ Fit(q) \/ Blocked(q) \/ Commit(q) \/ UndoStatus(q)
    BY DEF Next, Publish, Undo, Plan, Write, Register, StageRows, Timing, PruneSelect, PruneDelete,
           UndoMirror, UndoLive, UndoHot, UndoRegistry, Fails, Killed, Again,
           Archive, ArchiveStart, ArchiveLoad, ArchiveWrite, ArchiveRegister, ArchiveStops,
           Retention, RetentionSelect, RetentionCheck, RetentionDelete, RetentionStops,
           Cutover, vars
  <2>2. CASE q # r
    BY <2>1, <2>2 DEF Start, Sweep, Fit, Blocked, Commit, UndoStatus, Complete, TypeOK
  <2>3. CASE q = r
    <3>1. pub[r].pc \in Before \/ pub[r].pc = "undo_status"
      BY <2>1, <2>3 DEF Start, Sweep, Fit, Blocked, Commit, UndoStatus, At, Before
    <3> QED BY <2>0, <3>1 DEF RunInv, Fresh, FreshUnknown, Undoing
  <2> QED BY <2>2, <2>3
<1> QED BY <1>1, StoreAlways, PTL DEF Spec, SuccessStays

----------------------------------------------------------------------------
(* The mirror after the cutover.                                           *)

\* About to commit: if the cutover is there, it came after the check.
EpochInv ==
  \A r \in Runs : pub[r].pc = "commit" =>
    /\ pub[r].epoch <= used.cutovers
    /\ pub[r].dual /\ marker => pub[r].epoch < used.cutovers

\* Only the check leads to the commit.
LEMMA CommitComesFromCheck ==
  ASSUME TypeOK, NEW r \in Runs, pub'[r].pc = "commit",
         Publish(r) \/ Undo(r) \/ Fails(r) \/ Killed(r) \/ Again(r)
  PROVE  ~Refused(r) /\ pub'[r].epoch = used.cutovers /\ pub'[r].dual = pub[r].dual
<1>p. pub[r] \in Publisher BY DEF TypeOK
<1>h. /\ Handler(r) # "commit" /\ AfterUndo(r) # "commit"
      /\ Handler(r) \in PublisherPcs /\ AfterUndo(r) \in PublisherPcs
  BY HandlerTyped DEF Undoing, PublisherPcs
<1>g. \A pc \in PublisherPcs \ {"commit"} : ~Goto(r, pc)
  BY GotoMarks
<1>r. ~Raise(r) BY <1>h, RaiseMarks
<1>2. ~Start(r) /\ ~Again(r)
  <2>1. ASSUME Start(r) PROVE FALSE
    <3>1. PICK k \in Kinds, s \in Settings, stale \in SUBSET {q \in Runs : status[q] = "running"} :
            Becomes(r, [Idle EXCEPT
              !.pc = IF k = "train" THEN "sweep" ELSE "plan", !.kind = k,
              !.artifacts = s.artifacts, !.dual = s.mirror, !.full = s.full,
              !.chosen = stale])
      BY <2>1 DEF Start
    <3>2. pub'[r] = [Idle EXCEPT
              !.pc = IF k = "train" THEN "sweep" ELSE "plan", !.kind = k,
              !.artifacts = s.artifacts, !.dual = s.mirror, !.full = s.full,
              !.chosen = stale]
      BY <3>1 DEF Becomes, TypeOK
    <3>3. pub'[r].pc \in {"sweep", "plan"} BY <3>2 DEF Idle
    <3> QED BY <3>3
  <2>2. ASSUME Again(r) PROVE FALSE
    <3>1. PICK s \in Settings :
            Becomes(r, [Idle EXCEPT !.pc = "plan", !.kind = "kronos",
                                    !.dual = s.mirror, !.again = TRUE])
      BY <2>2 DEF Again
    <3>2. pub'[r].pc = "plan" BY <3>1 DEF Becomes, TypeOK, Idle
    <3> QED BY <3>2
  <2> QED BY <2>1, <2>2
<1>3. ~(Sweep(r) \/ PruneDelete(r) \/ Killed(r))
  <2>1. Sweep(r) => pub'[r] = [pub[r] EXCEPT !.pc = "fit", !.chosen = {}]
    BY DEF Sweep, Becomes, TypeOK
  <2>2. PruneDelete(r) \/ Killed(r) => pub'[r] = [pub[r] EXCEPT !.pc = "ended", !.chosen = {}]
    BY DEF PruneDelete, Killed, Becomes, TypeOK
  <2> QED BY <1>p, <2>1, <2>2 DEF Publisher
<1>4. ~(Fit(r) \/ Blocked(r) \/ Register(r) \/ Timing(r) \/ Undo(r))
  BY <1>g, <1>h DEF Fit, Blocked, Register, Timing, Undo, UndoMirror, UndoLive, UndoHot,
                    UndoRegistry, UndoStatus, PublisherPcs, Tried
<1>5. ~(Plan(r) \/ PruneSelect(r) \/ Commit(r))
  <2>1. ASSUME Plan(r) PROVE pub'[r].pc \in {"write", "rows"}
    <3>1. pub'[r] = [pub[r] EXCEPT !.pc = IF WritesFolder(r) THEN "write" ELSE "rows",
                                   !.dual = pub[r].dual /\ ~marker]
      BY <2>1 DEF Plan, Becomes, TypeOK
    <3> QED BY <1>p, <3>1 DEF Publisher
  <2>2. ASSUME PruneSelect(r) PROVE pub'[r].pc \in {"ended", "prune_delete"}
    <3>1. pub'[r] = [pub[r] EXCEPT
             !.chosen = Newest(KeepLive, LiveSuccess),
             !.pc = IF LiveSuccess = {} THEN "ended" ELSE "prune_delete"]
      BY <2>2 DEF PruneSelect, Becomes, TypeOK
    <3> QED BY <1>p, <3>1 DEF Publisher
  <2>3. ASSUME Commit(r) PROVE pub'[r].pc \in {"timing", "ended"}
    <3>1. pub'[r] = [pub[r] EXCEPT
             !.pc = IF pub[r].kind = "train" THEN "timing" ELSE "ended",
             !.raced = \E q \in Runs : At(q, "prune_delete")]
      BY <2>3 DEF Commit, Becomes, TypeOK
    <3> QED BY <1>p, <3>1 DEF Publisher
  <2> QED BY <2>1, <2>2, <2>3
<1>6. ~Write(r)
  <2>1. Write(r) => pub'[r] = [pub[r] EXCEPT !.pc = "register", !.wrote = TRUE]
    BY <1>r DEF Write, Becomes, TypeOK
  <2> QED BY <1>p, <2>1 DEF Publisher
<1>7. ~Fails(r)
  BY <1>g, <1>h, <1>r DEF Fails
<1>8. StageRows(r) BY <1>2, <1>3, <1>4, <1>5, <1>6, <1>7 DEF Publish
<1>9. ~Refused(r) /\ pub'[r] = [pub[r] EXCEPT !.pc = "commit", !.epoch = used.cutovers]
  BY <1>8, <1>r DEF StageRows, Becomes, TypeOK
<1> QED BY <1>9, <1>p DEF Publisher

LEMMA EpochStep == TypeOK /\ EpochInv /\ [Next]_vars => EpochInv'
<1> SUFFICES ASSUME TypeOK, EpochInv, [Next]_vars, NEW r \in Runs, pub'[r].pc = "commit"
             PROVE  /\ pub'[r].epoch <= used'.cutovers
                    /\ pub'[r].dual /\ marker' => pub'[r].epoch < used'.cutovers
  BY DEF EpochInv
<1>0. /\ used \in [Budgets -> Nat] /\ "cutovers" \in Budgets /\ marker \in BOOLEAN
      /\ pub[r] \in Publisher
  BY DEF TypeOK, Budgets
<1>1. ASSUME NEW q \in Runs, Publish(q) \/ Undo(q) \/ Fails(q) \/ Killed(q) \/ Again(q)
      PROVE  used'.cutovers = used.cutovers /\ marker' = marker
  <2>1. marker' = marker BY <1>1, PublisherKeeps
  <2>2. used'.cutovers = used.cutovers
    BY <1>0, <1>1 DEF Publish, Start, Sweep, Fit, Blocked, Plan, Write, Register, StageRows,
              Commit, Timing, PruneSelect, PruneDelete, Undo, UndoMirror, UndoLive, UndoHot,
              UndoRegistry, UndoStatus, Fails, Killed, Again, Budgets
  <2> QED BY <2>1, <2>2
<1>2. CASE Publish(r) \/ Undo(r) \/ Fails(r) \/ Killed(r) \/ Again(r)
  <2>1. ~Refused(r) /\ pub'[r].epoch = used.cutovers /\ pub'[r].dual = pub[r].dual
    BY <1>2, CommitComesFromCheck
  <2> QED BY <1>0, <1>1, <1>2, <2>1 DEF Refused
<1>3. ASSUME NEW q \in Runs \ {r}, Publish(q) \/ Undo(q) \/ Fails(q) \/ Killed(q) \/ Again(q)
      PROVE  /\ pub'[r].epoch <= used'.cutovers
             /\ pub'[r].dual /\ marker' => pub'[r].epoch < used'.cutovers
  <2>1. pub'[r] = pub[r] BY <1>3, PublisherTouches DEF Untouched
  <2> QED BY <1>1, <1>3, <2>1 DEF EpochInv
<1>4. CASE Archive \/ Retention \/ UNCHANGED vars
  <2>1. pub' = pub /\ used'.cutovers = used.cutovers /\ marker' = marker
    BY <1>0, <1>4 DEF Archive, ArchiveStart, ArchiveLoad, ArchiveWrite, ArchiveRegister, ArchiveStops,
                Retention, RetentionSelect, RetentionCheck, RetentionDelete, RetentionStops,
                vars, Budgets
  <2> QED BY <2>1 DEF EpochInv
<1>5. CASE Cutover
  <2>1. pub' = pub /\ used'.cutovers = used.cutovers + 1
    BY <1>0, <1>5 DEF Cutover
  <2>2. pub[r].epoch \in Nat BY <1>0 DEF Publisher
  <2> QED BY <1>0, <2>1, <2>2 DEF EpochInv
<1> QED BY <1>2, <1>3, <1>4, <1>5 DEF Next

\* While the cutover is active, the mirror grows only by a publication whose
\* check came before the marker.
THEOREM MirrorStaysFrozen == Spec => MirrorFrozen
<1>1. Init => EpochInv BY DEF Init, EpochInv, Idle
<1>2. Spec => [](TypeOK /\ EpochInv)
  BY <1>1, TypeInit, TypeStep, EpochStep, PTL DEF Spec
<1>3. TypeOK /\ EpochInv /\ [Next]_vars
        => [\A r \in Runs : marker /\ ~(mirror'[r] \subseteq mirror[r])
                              => pub[r].epoch < used.cutovers]_vars
  <2> SUFFICES ASSUME TypeOK, EpochInv, [Next]_vars, NEW r \in Runs, marker,
                      ~(mirror'[r] \subseteq mirror[r])
               PROVE  pub[r].epoch < used.cutovers
    OBVIOUS
  <2>1. PICK q \in Runs : Commit(q) \/ UndoMirror(q)
    BY DEF Next, Publish, Undo, Start, Sweep, Fit, Blocked, Plan, Write, Register, StageRows, Timing,
           PruneSelect, PruneDelete, UndoLive, UndoHot, UndoRegistry, UndoStatus, Fails, Killed, Again,
           Archive, ArchiveStart, ArchiveLoad, ArchiveWrite, ArchiveRegister, ArchiveStops,
           Retention, RetentionSelect, RetentionCheck, RetentionDelete, RetentionStops,
           Cutover, vars, tables, TypeOK
  <2>2. q = r /\ pub[r].pc = "commit" /\ pub[r].dual
    BY <2>1 DEF Commit, UndoMirror, At, TypeOK
  <2> QED BY <2>2 DEF EpochInv
<1> QED BY <1>2, <1>3, PTL DEF Spec, MirrorFrozen
=============================================================================
