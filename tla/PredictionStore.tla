-------------------------- MODULE PredictionStore --------------------------
(***************************************************************************)
(* Where the predictions of one market's model runs are kept, and who      *)
(* moves them: the publication of a trained run (trainer.py), of a Kronos  *)
(* research run and of an imported run, the archive migration, the         *)
(* retention batch and the cutover marker that ends the shared mirror.     *)
(*                                                                         *)
(* A run's rows are in the shared mirror (predictions), in the market's    *)
(* own tables (cn_predictions, ...), in an immutable folder of Parquet     *)
(* files that prediction_artifacts registers, or in several of them.  Every *)
(* step below is one commit, one file operation, or one read that a later  *)
(* step relies on; none of these programs takes a lock, so their steps     *)
(* interleave.  Details and explanations go the way of their predictions.  *)
(***************************************************************************)
EXTENDS Naturals, FiniteSets

CONSTANTS
  Runs,           \* ids of model runs
  Kinds,          \* who publishes: "train", "kronos", "import"
  Settings,       \* settings a publisher may find
  Streaming,      \* whether a run is beyond the size of an archive in memory
  KeepHistory,    \* successful runs a retention batch keeps
  KeepLive,       \* runs a pruning of the live table keeps
  MaxFaults,      \* bound: steps that raise
  MaxCrashes,     \* bound: processes that are killed
  MaxCutovers,    \* bound: changes of the cutover marker
  MaxArchives,    \* bound: archives started
  MaxRetentions,  \* bound: retention batches started
  MaxAgain        \* bound: research runs published again

ASSUME RunsAssumption ==
  /\ Runs \subseteq Nat
  /\ Kinds \subseteq {"train", "kronos", "import"}
  /\ Settings \subseteq [artifacts : BOOLEAN, mirror : BOOLEAN, full : BOOLEAN]
  /\ Streaming \subseteq BOOLEAN
  /\ KeepHistory \in Nat /\ KeepLive \in Nat
  /\ MaxFaults \in Nat /\ MaxCrashes \in Nat /\ MaxCutovers \in Nat
  /\ MaxArchives \in Nat /\ MaxRetentions \in Nat /\ MaxAgain \in Nat

VARIABLES
  status,    \* [Runs -> status of the row of model_runs]
  older,     \* pairs <<q, r>>: q was completed before r
  mirror,    \* [Runs -> rows in the shared tables]
  hot,       \* [Runs -> rows in the market's tables]
  live,      \* runs with rows in the market's live table
  folder,    \* [Runs -> published folder, or NoFolder]
  registry,  \* [Runs -> status in prediction_artifacts]
  marker,    \* whether the physical-only cutover is active
  pub,       \* [Runs -> the process that publishes the run]
  arc,       \* the archive migration
  ret,       \* the retention batch
  owed,      \* history: [Runs -> rows the run was published with]
  used       \* faults, crashes, ... so far

tables == <<mirror, hot, live>>
vars == <<status, older, mirror, hot, live, folder, registry, marker, pub,
          arc, ret, owed, used>>

----------------------------------------------------------------------------

\* The compact rows (recent days and the top ranks) and the rest of a run.
Rows == {"compact", "rest"}

NoFolder == [rows |-> {}, by |-> "nobody", dual |-> FALSE]
Content  == [rows : SUBSET Rows, by : {"publish", "archive", "stream"},
             dual : BOOLEAN]

\* Steps under the handler of a publication, and the steps of that handler.
Tried == {"plan", "write", "register", "rows", "commit", "timing"}
Undoing == {"undo_mirror", "undo_live", "undo_hot", "undo_registry", "undo_status"}

Idle     == [pc |-> "none", kind |-> "train", artifacts |-> FALSE,
             dual |-> FALSE, full |-> FALSE, wrote |-> FALSE, chosen |-> {},
             epoch |-> 0, late |-> FALSE, again |-> FALSE, raced |-> FALSE]
Publisher == [pc : {"none", "sweep", "fit", "ended", "prune", "prune_delete"}
                     \cup Tried \cup Undoing,
              kind : {"train", "kronos", "import"}, artifacts : BOOLEAN,
              dual : BOOLEAN, full : BOOLEAN, wrote : BOOLEAN,
              chosen : SUBSET Runs, epoch : Nat, late : BOOLEAN,
              again : BOOLEAN, raced : BOOLEAN]
Budgets == {"faults", "crashes", "cutovers", "archives", "retentions", "again"}
NoArchive   == [pc |-> "idle", run |-> 0, rows |-> {}, stream |-> FALSE,
                cut |-> {}]
NoRetention == [pc |-> "idle", good |-> {}, bad |-> {}]

Init ==
  /\ status = [r \in Runs |-> "absent"]
  /\ older = {}
  /\ mirror = [r \in Runs |-> {}]
  /\ hot = [r \in Runs |-> {}]
  /\ live = {}
  /\ folder = [r \in Runs |-> NoFolder]
  /\ registry = [r \in Runs |-> "none"]
  /\ marker = FALSE
  /\ pub = [r \in Runs |-> Idle]
  /\ arc = NoArchive
  /\ ret = NoRetention
  /\ owed = [r \in Runs |-> {}]
  /\ used = [faults |-> 0, crashes |-> 0, cutovers |-> 0, archives |-> 0,
             retentions |-> 0, again |-> 0]

----------------------------------------------------------------------------
(* What the steps share.                                                   *)

At(r, pc) == pub[r].pc = pc
Becomes(r, p) == pub' = [pub EXCEPT ![r] = p]
Goto(r, pc) == Becomes(r, [pub[r] EXCEPT !.pc = pc])

\* complete_run: the status and the time of completion.
Complete(r, s) ==
  /\ status' = [status EXCEPT ![r] = s]
  /\ older' = {p \in older : p[1] # r} \cup {<<q, r>> : q \in Runs \ {r}}

\* select_hot_prediction_rows, in the mode the settings name.
HotRows(r) == IF pub[r].full THEN Rows ELSE {"compact"}

WritesFolder(r) == pub[r].kind = "kronos" \/ pub[r].artifacts

\* Mutation of Handler: the pruning is inside the try without one of its own.
HandlerOfPrune(r) ==
  CASE pub[r].kind = "train" -> "undo_mirror"
    [] pub[r].wrote -> "undo_registry"
    [] OTHER -> "undo_status"

\* The handler around a publication: where an exception leads from a step.
Handler(r) ==
  CASE pub[r].kind = "train" /\ pub[r].pc \in Tried -> "undo_mirror"
    [] pub[r].kind = "kronos" /\ pub[r].pc \in Tried \ {"plan"} ->
         IF pub[r].wrote THEN "undo_registry" ELSE "undo_status"
    [] pub[r].kind = "import" /\ pub[r].pc \in Tried \ {"plan"} -> "undo_status"
    [] OTHER -> "ended"

\* The handler's steps, each with a handler of its own but the last.
AfterUndo(r) ==
  CASE pub[r].pc = "undo_mirror"   -> "undo_live"
    [] pub[r].pc = "undo_live"     -> "undo_hot"
    [] pub[r].pc = "undo_hot"      ->
         IF pub[r].wrote THEN "undo_registry" ELSE "undo_status"
    [] pub[r].pc = "undo_registry" -> "undo_status"
    [] OTHER -> "ended"

Raise(r) ==
  Becomes(r, [pub[r] EXCEPT !.pc = Handler(r), !.chosen = {},
                            !.late = pub[r].late \/ pub[r].pc = "timing"])

----------------------------------------------------------------------------
(* Publication.                                                            *)

\* A training, a research panel or an import starts.  Run ids are taken in
\* order; a training first reads the running rows that are older than six
\* hours (complete_stale_running_runs), which age any running row may have.
Start(r) ==
  /\ At(r, "none")
  /\ \A q \in Runs : q < r => ~At(q, "none")
  /\ \E k \in Kinds, s \in Settings, stale \in SUBSET {q \in Runs : status[q] = "running"} :
       /\ k # "train" => stale = {} /\ ~s.artifacts /\ ~s.full
       /\ Becomes(r, [Idle EXCEPT
            !.pc = IF k = "train" THEN "sweep" ELSE "plan", !.kind = k,
            !.artifacts = s.artifacts, !.dual = s.mirror, !.full = s.full,
            !.chosen = stale])
       /\ status' = IF k = "train" THEN status
                                   ELSE [status EXCEPT ![r] = "running"]
  /\ UNCHANGED <<older, tables, folder, registry, marker, arc, ret, owed, used>>

\* The stale rows become failed, whatever they are by now, and the training
\* gets its row.
Sweep(r) ==
  /\ At(r, "sweep")
  /\ status' = [q \in Runs |-> IF q = r THEN "running"
                               ELSE IF q \in pub[r].chosen THEN "failed"
                               ELSE status[q]]
  /\ older' = {p \in older : p[1] \notin pub[r].chosen}
                \cup ((Runs \ pub[r].chosen) \X pub[r].chosen)
  /\ Becomes(r, [pub[r] EXCEPT !.pc = "fit", !.chosen = {}])
  /\ UNCHANGED <<tables, folder, registry, marker, arc, ret, owed, used>>

\* The model is fitted, or its window is blocked and the row fails.
Fit(r) ==
  /\ At(r, "fit")
  /\ \/ Goto(r, "plan") /\ UNCHANGED <<status, older>>
     \/ Goto(r, "ended") /\ Complete(r, "failed")
  /\ UNCHANGED <<tables, folder, registry, marker, arc, ret, owed, used>>

\* The publication plan passes its limits (an import has none), and the
\* publisher reads once whether it also writes the shared mirror.
Plan(r) ==
  /\ At(r, "plan")
  /\ Becomes(r, [pub[r] EXCEPT !.pc = IF WritesFolder(r) THEN "write" ELSE "rows",
                                !.dual = pub[r].dual /\ ~marker])
  /\ UNCHANGED <<status, older, tables, folder, registry, marker, arc, ret, owed, used>>

\* PredictionPublicationLimitError, which an import cannot meet; or, for a panel
\* or an import, no known symbols or symbols of another market.
Blocked(r) ==
  /\ At(r, "plan")
  /\ \/ /\ pub[r].kind # "import"
        /\ Goto(r, Handler(r)) /\ UNCHANGED <<status, older>>
     \/ /\ pub[r].kind # "train"
        /\ Goto(r, "ended") /\ Complete(r, "failed")
  /\ UNCHANGED <<tables, folder, registry, marker, arc, ret, owed, used>>

\* PredictionArtifactWriter.write: the temporary folder becomes the final one
\* by a rename.  A final folder with the same content is used as it is, one
\* with another content refuses the write.
Artifact(r) == [rows |-> Rows, by |-> "publish", dual |-> pub[r].dual]

Write(r) ==
  /\ At(r, "write")
  /\ IF folder[r] \in {NoFolder, Artifact(r)}
       THEN /\ folder' = [folder EXCEPT ![r] = Artifact(r)]
            /\ Becomes(r, [pub[r] EXCEPT !.pc = "register", !.wrote = TRUE])
       ELSE Raise(r) /\ UNCHANGED folder
  /\ UNCHANGED <<status, older, tables, registry, marker, arc, ret, owed, used>>

\* Mutation of Register: the registration is forgotten.
RegisterForgotten(r) ==
  /\ At(r, "register")
  /\ Goto(r, "rows")
  /\ UNCHANGED <<status, older, tables, folder, registry, marker, arc, ret, owed, used>>

\* upsert_manifest commits the registration on its own.
Register(r) ==
  /\ At(r, "register")
  /\ registry' = [registry EXCEPT ![r] = "verified"]
  /\ Goto(r, "rows")
  /\ UNCHANGED <<status, older, tables, folder, marker, arc, ret, owed, used>>

\* Mutation of Refused: what the plan said still holds.
RefusedNever(r) == FALSE

\* _assert_legacy_prediction_write_allowed: a publisher that meant to write the
\* mirror is refused when the cutover is active by now.
Refused(r) == pub[r].dual /\ marker

\* The rows are written, not committed.
StageRows(r) ==
  /\ At(r, "rows")
  /\ IF Refused(r)
       THEN Raise(r)
       ELSE Becomes(r, [pub[r] EXCEPT !.pc = "commit", !.epoch = used.cutovers])
  /\ UNCHANGED <<status, older, tables, folder, registry, marker, arc, ret, owed, used>>

\* The commit of the publication: mirror, market tables, live rows and the
\* success of the run.  A pruning that has chosen its runs does not know it.
Commit(r) ==
  /\ At(r, "commit")
  /\ mirror' = IF pub[r].dual THEN [mirror EXCEPT ![r] = HotRows(r)] ELSE mirror
  /\ hot' = [hot EXCEPT ![r] = HotRows(r)]
  /\ live' = IF pub[r].kind = "train" THEN live \cup {r} ELSE live
  /\ Complete(r, "success")
  /\ owed' = [owed EXCEPT ![r] = IF pub[r].wrote THEN Rows ELSE HotRows(r)]
  /\ Becomes(r, [pub[r] EXCEPT
       !.pc = IF pub[r].kind = "train" THEN "timing" ELSE "ended",
       !.raced = \E q \in Runs : At(q, "prune_delete")])
  /\ UNCHANGED <<folder, registry, marker, arc, ret, used>>

\* The timings are merged into the run's configuration, in the same try.
Timing(r) ==
  /\ At(r, "timing")
  /\ Goto(r, "prune")
  /\ UNCHANGED <<status, older, tables, folder, registry, marker, arc, ret, owed, used>>

\* prune_market_snapshots: the newest successful runs with live rows are read,
\* then the live rows of all others are deleted.
LiveSuccess == {q \in live : status[q] = "success"}

\* Mutation of Newest: the query forgets to sort in descending order.
Oldest(n, S) == {q \in S : Cardinality({p \in S : p < q}) < n}

Newest(n, S) == {q \in S : Cardinality({p \in S : p > q}) < n}

PruneSelect(r) ==
  /\ At(r, "prune")
  /\ Becomes(r, [pub[r] EXCEPT
       !.chosen = Newest(KeepLive, LiveSuccess),
       !.pc = IF LiveSuccess = {} THEN "ended" ELSE "prune_delete"])
  /\ UNCHANGED <<status, older, tables, folder, registry, marker, arc, ret, owed, used>>

PruneDelete(r) ==
  /\ At(r, "prune_delete")
  /\ live' = live \cap pub[r].chosen
  /\ Becomes(r, [pub[r] EXCEPT !.pc = "ended", !.chosen = {}])
  /\ UNCHANGED <<status, older, mirror, hot, folder, registry, marker, arc, ret, owed, used>>

----------------------------------------------------------------------------
(* The handler of a failed publication.                                    *)

\* replace_for_model_run with no rows; refused, and so skipped, after cutover.
UndoMirror(r) ==
  /\ At(r, "undo_mirror")
  /\ mirror' = IF marker THEN mirror ELSE [mirror EXCEPT ![r] = {}]
  /\ Goto(r, AfterUndo(r))
  /\ UNCHANGED <<status, older, hot, live, folder, registry, marker, arc, ret, owed, used>>

UndoLive(r) ==
  /\ At(r, "undo_live")
  /\ live' = live \ {r}
  /\ Goto(r, AfterUndo(r))
  /\ UNCHANGED <<status, older, mirror, hot, folder, registry, marker, arc, ret, owed, used>>

UndoHot(r) ==
  /\ At(r, "undo_hot")
  /\ hot' = [hot EXCEPT ![r] = {}]
  /\ Goto(r, AfterUndo(r))
  /\ UNCHANGED <<status, older, mirror, live, folder, registry, marker, arc, ret, owed, used>>

\* Mutation of Withdrawn: a status that no reader of the registry knows.
WithdrawnUnlisted(s) == IF s = "none" THEN s ELSE "failed"

\* set_status("failed_run"), when there is a registration.
Withdrawn(s) == IF s = "none" THEN s ELSE "failed_run"

UndoRegistry(r) ==
  /\ At(r, "undo_registry")
  /\ registry' = [registry EXCEPT ![r] = Withdrawn(@)]
  /\ Goto(r, AfterUndo(r))
  /\ UNCHANGED <<status, older, tables, folder, marker, arc, ret, owed, used>>

UndoStatus(r) ==
  /\ At(r, "undo_status")
  /\ Complete(r, "failed")
  /\ Goto(r, "ended")
  /\ UNCHANGED <<tables, folder, registry, marker, arc, ret, owed, used>>

\* A step raises: the try leads to the handler, the handler goes on, and the
\* pruning swallows it.
Fails(r) ==
  /\ pub[r].pc \notin {"none", "ended"}
  /\ used.faults < MaxFaults
  /\ used' = [used EXCEPT !.faults = @ + 1]
  /\ IF pub[r].pc \in Undoing
       THEN Goto(r, AfterUndo(r))
       ELSE Raise(r)
  /\ UNCHANGED <<status, older, tables, folder, registry, marker, arc, ret, owed>>

\* The process is killed; nothing takes its publication up again.
Killed(r) ==
  /\ pub[r].pc \notin {"none", "ended"}
  /\ used.crashes < MaxCrashes
  /\ used' = [used EXCEPT !.crashes = @ + 1]
  /\ Becomes(r, [pub[r] EXCEPT !.pc = "ended", !.chosen = {}])
  /\ UNCHANGED <<status, older, tables, folder, registry, marker, arc, ret, owed>>

\* A research panel is evaluated again: its run is found by name and published
\* over, whatever its status.
Again(r) ==
  /\ At(r, "ended")
  /\ pub[r].kind = "kronos"
  /\ used.again < MaxAgain
  /\ used' = [used EXCEPT !.again = @ + 1]
  /\ \E s \in Settings :
       Becomes(r, [Idle EXCEPT !.pc = "plan", !.kind = "kronos",
                               !.dual = s.mirror, !.again = TRUE])
  /\ UNCHANGED <<status, older, tables, folder, registry, marker, arc, ret, owed>>

----------------------------------------------------------------------------
(* The archive migration: from the shared mirror to a registered folder.   *)

\* The run is successful and has no verified registration; its rows in the
\* mirror are counted.
ArchiveStart(r) ==
  /\ arc.pc = "idle"
  /\ status[r] = "success"
  /\ registry[r] # "verified"
  /\ used.archives < MaxArchives
  /\ used' = [used EXCEPT !.archives = @ + 1]
  /\ \E stream \in Streaming :
       /\ stream => mirror[r] # {}
       /\ arc' = [arc EXCEPT !.pc = "load", !.run = r, !.rows = mirror[r],
                             !.stream = stream]
  /\ UNCHANGED <<status, older, tables, folder, registry, marker, pub, ret, owed>>

ArchiveEnd == arc' = [NoArchive EXCEPT !.cut = arc.cut]

\* The rows are read; other counts than before stop the archive.
ArchiveLoad ==
  /\ arc.pc = "load"
  /\ IF mirror[arc.run] = arc.rows THEN arc' = [arc EXCEPT !.pc = "write"]
                                   ELSE ArchiveEnd
  /\ UNCHANGED <<status, older, tables, folder, registry, marker, pub, ret, owed, used>>

\* The folder is published as Write does it; a streamed archive refuses any
\* folder that exists.
Archived == [rows |-> arc.rows, by |-> IF arc.stream THEN "stream" ELSE "archive",
             dual |-> FALSE]

ArchiveWrite ==
  /\ arc.pc = "write"
  /\ IF folder[arc.run] = NoFolder \/ (~arc.stream /\ folder[arc.run] = Archived)
       THEN /\ folder' = [folder EXCEPT ![arc.run] = Archived]
            /\ arc' = [arc EXCEPT !.pc = "register"]
       ELSE ArchiveEnd /\ UNCHANGED folder
  /\ UNCHANGED <<status, older, tables, registry, marker, pub, ret, owed, used>>

ArchiveRegister ==
  /\ arc.pc = "register"
  /\ registry' = [registry EXCEPT ![arc.run] = "verified"]
  /\ ArchiveEnd
  /\ UNCHANGED <<status, older, tables, folder, marker, pub, ret, owed, used>>

\* A step raises or the process is killed.
ArchiveStops ==
  /\ arc.pc # "idle"
  /\ \/ used.faults < MaxFaults /\ used' = [used EXCEPT !.faults = @ + 1]
     \/ used.crashes < MaxCrashes /\ used' = [used EXCEPT !.crashes = @ + 1]
  /\ arc' = [NoArchive EXCEPT !.cut = arc.cut \cup
               IF arc.pc = "register" THEN {arc.run} ELSE {}]
  /\ UNCHANGED <<status, older, tables, folder, registry, marker, pub, ret, owed>>

----------------------------------------------------------------------------
(* The retention batch.                                                    *)

HasRows(r) == mirror[r] # {} \/ hot[r] # {} \/ r \in live
Successful == {r \in Runs : status[r] = "success" /\ HasRows(r)}

\* Successful runs beyond the ones to keep, by the time of completion.
Stale == {r \in Successful :
            Cardinality({q \in Successful : <<r, q>> \in older}) >= KeepHistory}

\* Mutation of FailedOutputs: a run that has not succeeded yet counts as failed.
UnendedOutputs == {r \in Runs : status[r] # "success"}

\* Failed runs that still have rows in the shared mirror.
FailedOutputs == {r \in Runs : status[r] = "failed" /\ mirror[r] # {}}

\* The candidates: stale runs with a verified registration, and failed runs.
\* The acceptance gate, or an operator's override of it, has let the batch in.
RetentionSelect ==
  /\ ret.pc = "idle"
  /\ used.retentions < MaxRetentions
  /\ used' = [used EXCEPT !.retentions = @ + 1]
  /\ ret' = [pc   |-> "check",
             good |-> {r \in Stale : registry[r] = "verified"},
             bad  |-> FailedOutputs]
  /\ UNCHANGED <<status, older, tables, folder, registry, marker, pub, arc, owed>>

\* Every candidate is registered and its folder still verifies, or all stops.
RetentionCheck ==
  /\ ret.pc = "check"
  /\ ret' = IF \A r \in ret.good : registry[r] = "verified" /\ folder[r] # NoFolder
              THEN [ret EXCEPT !.pc = "delete"] ELSE NoRetention
  /\ UNCHANGED <<status, older, tables, folder, registry, marker, pub, arc, owed, used>>

Purged == ret.good \cup ret.bad

RetentionDelete ==
  /\ ret.pc = "delete"
  /\ mirror' = [r \in Runs |-> IF r \in Purged THEN {} ELSE mirror[r]]
  /\ hot' = [r \in Runs |-> IF r \in Purged THEN {} ELSE hot[r]]
  /\ live' = live \ Purged
  /\ ret' = NoRetention
  /\ UNCHANGED <<status, older, folder, registry, marker, pub, arc, owed, used>>

\* A step raises or the process is killed; its transaction is gone.
RetentionStops ==
  /\ ret.pc # "idle"
  /\ \/ used.faults < MaxFaults /\ used' = [used EXCEPT !.faults = @ + 1]
     \/ used.crashes < MaxCrashes /\ used' = [used EXCEPT !.crashes = @ + 1]
  /\ ret' = NoRetention
  /\ UNCHANGED <<status, older, tables, folder, registry, marker, pub, arc, owed>>

----------------------------------------------------------------------------
(* The cutover marker, activated or rolled back by an operator.            *)

Cutover ==
  /\ used.cutovers < MaxCutovers
  /\ used' = [used EXCEPT !.cutovers = @ + 1]
  /\ marker' = ~marker
  /\ UNCHANGED <<status, older, tables, folder, registry, pub, arc, ret, owed>>

Publish(r) ==
  \/ Start(r) \/ Sweep(r) \/ Fit(r) \/ Plan(r) \/ Blocked(r) \/ Write(r)
  \/ Register(r) \/ StageRows(r) \/ Commit(r) \/ Timing(r) \/ PruneSelect(r)
  \/ PruneDelete(r)
Undo(r) ==
  \/ UndoMirror(r) \/ UndoLive(r) \/ UndoHot(r) \/ UndoRegistry(r) \/ UndoStatus(r)
Archive ==
  \/ \E r \in Runs : ArchiveStart(r)
  \/ ArchiveLoad \/ ArchiveWrite \/ ArchiveRegister \/ ArchiveStops
Retention ==
  RetentionSelect \/ RetentionCheck \/ RetentionDelete \/ RetentionStops

Next ==
  \/ \E r \in Runs : Publish(r) \/ Undo(r) \/ Fails(r) \/ Killed(r) \/ Again(r)
  \/ Archive
  \/ Retention
  \/ Cutover

Spec == Init /\ [][Next]_vars

----------------------------------------------------------------------------
(* Properties.                                                             *)

\* Every part of the state has its type.
TypeOK ==
  /\ status \in [Runs -> {"absent", "running", "success", "failed"}]
  /\ older \subseteq Runs \X Runs
  /\ mirror \in [Runs -> SUBSET Rows]
  /\ hot \in [Runs -> SUBSET Rows]
  /\ live \subseteq Runs
  /\ folder \in [Runs -> Content \cup {NoFolder}]
  /\ registry \in [Runs -> {"none", "verified", "failed_run"}]
  /\ marker \in BOOLEAN
  /\ pub \in [Runs -> Publisher]
  /\ arc \in [pc : {"idle", "load", "write", "register"}, run : Runs \cup {0},
              rows : SUBSET Rows, stream : BOOLEAN, cut : SUBSET Runs]
  /\ arc.pc # "idle" => arc.run \in Runs
  /\ ret \in [pc : {"idle", "check", "delete"}, good : SUBSET Runs, bad : SUBSET Runs]
  /\ owed \in [Runs -> SUBSET Rows]
  /\ used \in [Budgets -> Nat]

\* Where the rows of a run can still be read.
Kept(r) == mirror[r] \cup hot[r]
             \cup (IF registry[r] = "verified" THEN folder[r].rows ELSE {})

\* Retention "turning a database cleanup into data loss" (storage_retention.py)
\* is what its check for a verified artifact is there to prevent: a successful
\* run whose publication was neither undone late nor repeated still has every
\* row it was published with.
Intact(r) == status[r] = "success" /\ ~pub[r].late /\ ~pub[r].again
HistoryKept == \A r \in Runs : Intact(r) => owed[r] \subseteq Kept(r)

\* The same, for the runs that were written to the shared mirror or to a folder
\* of their own: between publishers, archives, cutovers and retention batches
\* that take no lock, no such run loses a row.
MirroredHistoryKept ==
  \A r \in Runs : Intact(r) /\ (pub[r].dual \/ pub[r].wrote) => owed[r] \subseteq Kept(r)

\* The live table serves a trained run until enough newer ones were published:
\* its live rows go before that only by a late error, by a retention batch, or
\* by a pruning that chose its runs before this one was committed.
LiveUntilReplaced ==
  \A r \in Runs :
    /\ pub[r].kind = "train" /\ Intact(r) /\ ~pub[r].raced
    /\ hot[r] # {} /\ r \notin live
    => Cardinality({q \in Runs : q > r /\ pub[q].kind = "train" /\ owed[q] # {}}) >= KeepLive

\* A run of success has a folder without registration only while its archive is
\* at work or was cut off there: a publisher registers its folder before its
\* success, and no other step takes a registration away from one.
FolderRegistered ==
  \A r \in Runs :
    status[r] = "success" /\ folder[r] # NoFolder /\ registry[r] = "none"
    => (arc.pc = "register" /\ arc.run = r) \/ r \in arc.cut

\* "An old importer must not silently repopulate the shared fact tables": while
\* the cutover is active the mirror grows only by a publication that passed
\* the check before the marker was set and committed after.
MirrorFrozen ==
  [][\A r \in Runs : marker /\ ~(mirror'[r] \subseteq mirror[r])
                     => pub[r].epoch < used.cutovers]_vars

\* A run loses its success only by an error after its commit, by a repeated
\* publication, or by a sweep that had read it as running.
SuccessStays ==
  [][\A r \in Runs :
       status[r] = "success" /\ status'[r] # "success"
       => \/ pub[r].late \/ pub[r].again
          \/ \E q \in Runs : At(q, "sweep") /\ r \in pub[q].chosen]_vars
=============================================================================
