-------------------- MODULE PredictionStoreServingProofs --------------------
(***************************************************************************)
(* Proofs about what the prediction store serves, for any set of runs and  *)
(* any settings: the folder of a successful run is registered unless its   *)
(* archive was cut off before the registration, and the live rows of a     *)
(* trained run go only when enough newer trainings were published.         *)
(*                                                                         *)
(* The first rests on the order of a publication (folder, registration,    *)
(* rows) and on the fact that a registration is never taken back to none.  *)
(* The second rests on what a pruning knows: the runs it did not choose    *)
(* had their replacements when it chose, replacements stay published, and  *)
(* a run that was committed after the choice is marked as raced.           *)
(***************************************************************************)
EXTENDS PredictionStoreProofs, FiniteSetTheorems

\* Trainings that were published, and the newer ones of a set.
Trained == {q \in Runs : pub[q].kind = "train" /\ owed[q] # {}}
Newer(r, S) == {q \in S : q > r}

FolderInv(r) ==
  /\ pub[r].again => pub[r].kind = "kronos"
  /\ pub[r].kind = "kronos" /\ pub[r].pc \in {"rows", "commit"} => registry[r] # "none"
  /\ pub[r].kind = "kronos" /\ status[r] = "success" => registry[r] # "none"
  /\ status[r] = "success" /\ folder[r] # NoFolder /\ registry[r] = "none"
     => (arc.pc = "register" /\ arc.run = r) \/ r \in arc.cut

\* A run the live table is to serve, and one that was replaced.
Serves(r) == pub[r].kind = "train" /\ Intact(r) /\ ~pub[r].raced /\ hot[r] # {}
Replaced(r) == Cardinality(Newer(r, Trained)) >= KeepLive

LiveInv(r) ==
  /\ r \in live => pub[r].kind = "train" /\ owed[r] # {}
  /\ Serves(r) /\ r \notin live => Replaced(r)
  /\ \A p \in Runs : At(p, "prune_delete") /\ Serves(r) /\ r \notin pub[p].chosen => Replaced(r)

ServeInv == IsFiniteSet(Trained) /\ \A r \in Runs : FolderInv(r) /\ LiveInv(r)

----------------------------------------------------------------------------
(* What the steps of a publisher make of it.                               *)

Step(r) == Publish(r) \/ Undo(r) \/ Fails(r) \/ Killed(r) \/ Again(r)

\* The steps that begin or complete a publication, or choose for a pruning.
Turns(r) == Start(r) \/ Again(r) \/ Commit(r) \/ PruneSelect(r)

\* All that the other steps may change of a run of theirs.
Moves(r) ==
  /\ pub'[r].kind = pub[r].kind /\ pub'[r].again = pub[r].again
  /\ pub'[r].raced = pub[r].raced /\ (pub[r].late => pub'[r].late)
  /\ pub'[r].pc # "prune_delete"
  /\ pub'[r].pc \in {"rows", "commit"} =>
       pub[r].kind # "kronos" \/ pub[r].pc = "rows" \/ registry'[r] = "verified"

\* Goto and Raise keep what a run is.
LEMMA GotoServes ==
  ASSUME TypeOK, NEW r \in Runs, NEW pc \in PublisherPcs, Goto(r, pc)
  PROVE  /\ pub'[r].pc = pc /\ pub'[r].kind = pub[r].kind /\ pub'[r].again = pub[r].again
         /\ pub'[r].raced = pub[r].raced /\ pub'[r].late = pub[r].late
<1>1. pub'[r] = [pub[r] EXCEPT !.pc = pc] BY DEF Goto, Becomes, TypeOK
<1>2. pub[r] \in Publisher BY DEF TypeOK
<1> QED BY <1>1, <1>2 DEF Publisher

LEMMA RaiseServes ==
  ASSUME TypeOK, NEW r \in Runs, Raise(r)
  PROVE  Moves(r)
<1>1. pub'[r] = [pub[r] EXCEPT !.pc = Handler(r), !.chosen = {},
                               !.late = pub[r].late \/ pub[r].pc = "timing"]
  BY DEF Raise, Becomes, TypeOK
<1>2. pub[r] \in Publisher BY DEF TypeOK
<1>3. Handler(r) \notin {"rows", "commit", "prune_delete"} BY HandlerTyped DEF Undoing
<1>4. /\ pub'[r].pc = Handler(r) /\ pub'[r].kind = pub[r].kind
  BY <1>1, <1>2 DEF Publisher
<1>5. pub'[r].again = pub[r].again /\ pub'[r].raced = pub[r].raced
  BY <1>1, <1>2 DEF Publisher
<1>6. pub[r].late => pub'[r].late
  BY <1>1, <1>2 DEF Publisher
<1> QED BY <1>3, <1>4, <1>5, <1>6 DEF Moves

\* Every other step of a publisher only moves it.
LEMMA StepMoves ==
  ASSUME TypeOK, NEW r \in Runs, Step(r), ~Turns(r)
  PROVE  Moves(r)
<1>p. pub[r] \in Publisher BY DEF TypeOK
<1>h. /\ Handler(r) \in PublisherPcs /\ AfterUndo(r) \in PublisherPcs
      /\ Handler(r) \notin {"rows", "commit", "prune_delete"}
      /\ AfterUndo(r) \notin {"rows", "commit", "prune_delete"}
  BY HandlerTyped DEF Undoing, PublisherPcs
<1>g. ASSUME NEW pc \in PublisherPcs \ {"rows", "commit", "prune_delete"}, Goto(r, pc)
      PROVE  Moves(r)
  BY <1>g, GotoServes DEF Moves
<1>1. CASE Sweep(r)
  <2>1. pub'[r] = [pub[r] EXCEPT !.pc = "fit", !.chosen = {}]
    BY <1>1 DEF Sweep, Becomes, TypeOK
  <2> QED BY <1>p, <2>1 DEF Publisher, Moves
<1>2. CASE PruneDelete(r) \/ Killed(r)
  <2>1. pub'[r] = [pub[r] EXCEPT !.pc = "ended", !.chosen = {}]
    BY <1>2 DEF PruneDelete, Killed, Becomes, TypeOK
  <2> QED BY <1>p, <2>1 DEF Publisher, Moves
<1>3. CASE Fit(r) \/ Blocked(r) \/ Timing(r) \/ Undo(r)
  BY <1>3, <1>g, <1>h DEF Fit, Blocked, Timing, Undo, UndoMirror, UndoLive, UndoHot,
                          UndoRegistry, UndoStatus, PublisherPcs, Tried
<1>4. CASE Fails(r)
  BY <1>4, <1>g, <1>h, RaiseServes DEF Fails
<1>5. CASE Plan(r)
  <2>1. pub'[r] = [pub[r] EXCEPT !.pc = IF WritesFolder(r) THEN "write" ELSE "rows",
                                 !.dual = pub[r].dual /\ ~marker]
    BY <1>5 DEF Plan, Becomes, TypeOK
  <2> QED BY <1>p, <2>1 DEF Publisher, Moves, WritesFolder
<1>6. CASE Write(r)
  <2>1. CASE Becomes(r, [pub[r] EXCEPT !.pc = "register", !.wrote = TRUE])
    <3>1. pub'[r] = [pub[r] EXCEPT !.pc = "register", !.wrote = TRUE]
      BY <2>1 DEF Becomes, TypeOK
    <3> QED BY <1>p, <3>1 DEF Publisher, Moves
  <2> QED BY <1>6, <2>1, RaiseServes DEF Write
<1>7. CASE Register(r)
  <2>1. "rows" \in PublisherPcs BY DEF PublisherPcs, Tried
  <2>2. registry'[r] = "verified" BY <1>7 DEF Register, TypeOK
  <2>3. Goto(r, "rows") BY <1>7 DEF Register
  <2> QED BY <2>1, <2>2, <2>3, GotoServes DEF Moves
<1>8. CASE StageRows(r)
  <2>1. CASE Becomes(r, [pub[r] EXCEPT !.pc = "commit", !.epoch = used.cutovers])
    <3>1. pub'[r] = [pub[r] EXCEPT !.pc = "commit", !.epoch = used.cutovers]
      BY <2>1 DEF Becomes, TypeOK
    <3>2. pub[r].pc = "rows" BY <1>8 DEF StageRows, At
    <3> QED BY <1>p, <3>1, <3>2 DEF Publisher, Moves
  <2> QED BY <1>8, <2>1, RaiseServes DEF StageRows
<1> QED
  BY <1>1, <1>2, <1>3, <1>4, <1>5, <1>6, <1>7, <1>8 DEF Step, Turns, Publish

\* A publication begins.
LEMMA StartServes ==
  ASSUME TypeOK, NEW r \in Runs, Start(r)
  PROVE  pub'[r].pc \in {"sweep", "plan"} /\ ~pub'[r].again
<1>1. PICK k \in Kinds, s \in Settings, stale \in SUBSET {q \in Runs : status[q] = "running"} :
        Becomes(r, [Idle EXCEPT
          !.pc = IF k = "train" THEN "sweep" ELSE "plan", !.kind = k,
          !.artifacts = s.artifacts, !.dual = s.mirror, !.full = s.full,
          !.chosen = stale])
  BY DEF Start
<1>2. pub'[r] = [Idle EXCEPT
          !.pc = IF k = "train" THEN "sweep" ELSE "plan", !.kind = k,
          !.artifacts = s.artifacts, !.dual = s.mirror, !.full = s.full,
          !.chosen = stale]
  BY <1>1 DEF Becomes, TypeOK
<1>3. pub'[r].pc \in {"sweep", "plan"} BY <1>2 DEF Idle
<1>4. ~pub'[r].again BY <1>2 DEF Idle
<1> QED BY <1>3, <1>4

LEMMA AgainServes ==
  ASSUME TypeOK, NEW r \in Runs, Again(r)
  PROVE  pub[r].kind = "kronos" /\ pub'[r].kind = "kronos" /\ pub'[r].pc = "plan" /\ pub'[r].again
<1>1. PICK s \in Settings :
        Becomes(r, [Idle EXCEPT !.pc = "plan", !.kind = "kronos",
                                !.dual = s.mirror, !.again = TRUE])
  BY DEF Again
<1>2. pub'[r] = [Idle EXCEPT !.pc = "plan", !.kind = "kronos",
                             !.dual = s.mirror, !.again = TRUE]
  BY <1>1 DEF Becomes, TypeOK
<1>3. pub'[r].kind = "kronos" /\ pub'[r].pc = "plan" BY <1>2 DEF Idle
<1>4. pub'[r].again BY <1>2 DEF Idle
<1> QED BY <1>3, <1>4 DEF Again

LEMMA CommitServes ==
  ASSUME TypeOK, NEW r \in Runs, Commit(r)
  PROVE  /\ pub[r].pc = "commit" /\ pub'[r].pc \in {"timing", "ended"}
         /\ pub'[r].kind = pub[r].kind /\ pub'[r].again = pub[r].again
         /\ pub'[r].late = pub[r].late
         /\ pub'[r].raced = \E q \in Runs : At(q, "prune_delete")
<1>1. pub'[r] = [pub[r] EXCEPT
         !.pc = IF pub[r].kind = "train" THEN "timing" ELSE "ended",
         !.raced = \E q \in Runs : At(q, "prune_delete")]
  BY DEF Commit, Becomes, TypeOK
<1>2. pub[r] \in Publisher BY DEF TypeOK
<1>3. /\ pub'[r].pc \in {"timing", "ended"} /\ pub'[r].kind = pub[r].kind
  BY <1>1, <1>2 DEF Publisher
<1>4. pub'[r].again = pub[r].again /\ pub'[r].late = pub[r].late
  BY <1>1, <1>2 DEF Publisher
<1>5. pub'[r].raced = \E q \in Runs : At(q, "prune_delete")
  BY <1>1, <1>2, Zenon DEF Publisher
<1> QED BY <1>3, <1>4, <1>5 DEF Commit, At

LEMMA SelectServes ==
  ASSUME TypeOK, NEW r \in Runs, PruneSelect(r)
  PROVE  /\ pub'[r].kind = pub[r].kind /\ pub'[r].again = pub[r].again
         /\ pub'[r].late = pub[r].late /\ pub'[r].raced = pub[r].raced
         /\ pub'[r].pc \in {"ended", "prune_delete"}
         /\ pub'[r].chosen = Newest(KeepLive, LiveSuccess)
<1>1. pub'[r] = [pub[r] EXCEPT
         !.chosen = Newest(KeepLive, LiveSuccess),
         !.pc = IF LiveSuccess = {} THEN "ended" ELSE "prune_delete"]
  BY DEF PruneSelect, Becomes, TypeOK
<1>2. pub[r] \in Publisher BY DEF TypeOK
<1>3. /\ pub'[r].kind = pub[r].kind /\ pub'[r].pc \in {"ended", "prune_delete"}
      /\ pub'[r].chosen = Newest(KeepLive, LiveSuccess)
  BY <1>1, <1>2 DEF Publisher
<1>4. pub'[r].again = pub[r].again /\ pub'[r].late = pub[r].late /\ pub'[r].raced = pub[r].raced
  BY <1>1, <1>2 DEF Publisher
<1> QED BY <1>3, <1>4

----------------------------------------------------------------------------
(* Folders and their registrations.                                        *)

\* What a step of a publisher's own leaves in the stores.
LEMMA StepStores ==
  ASSUME TypeOK, NEW r \in Runs, Step(r), ~Commit(r)
  PROVE  /\ status'[r] = "success" => status[r] = "success"
         /\ registry'[r] = "none" => registry[r] = "none"
         /\ folder'[r] = folder[r] \/ pub[r].pc = "write"
         /\ hot'[r] # {} => hot'[r] = hot[r]
         /\ owed' = owed
<1>1. status'[r] = "success" => status[r] = "success"
  BY DEF TypeOK, Complete, Step, Publish, Start, Sweep, Fit, Blocked, Plan, Write, Register,
         StageRows, Timing, PruneSelect, PruneDelete, Undo, UndoMirror, UndoLive,
         UndoHot, UndoRegistry, UndoStatus, Fails, Killed, Again
<1>2. registry'[r] = "none" => registry[r] = "none"
  BY DEF TypeOK, Step, Publish, Start, Sweep, Fit, Blocked, Plan, Write, Register,
         StageRows, Timing, PruneSelect, PruneDelete, Undo, UndoMirror, UndoLive,
         UndoHot, UndoRegistry, UndoStatus, Fails, Killed, Again, Withdrawn
<1>3. folder'[r] = folder[r] \/ pub[r].pc = "write"
  BY DEF At, Step, Publish, Start, Sweep, Fit, Blocked, Plan, Write, Register,
         StageRows, Timing, PruneSelect, PruneDelete, Undo, UndoMirror, UndoLive,
         UndoHot, UndoRegistry, UndoStatus, Fails, Killed, Again
<1>4. hot'[r] # {} => hot'[r] = hot[r]
  BY DEF TypeOK, tables, Step, Publish, Start, Sweep, Fit, Blocked, Plan, Write, Register,
         StageRows, Timing, PruneSelect, PruneDelete, Undo, UndoMirror, UndoLive,
         UndoHot, UndoRegistry, UndoStatus, Fails, Killed, Again
<1>5. owed' = owed
  BY DEF Step, Publish, Start, Sweep, Fit, Blocked, Plan, Write, Register,
         StageRows, Timing, PruneSelect, PruneDelete, Undo, UndoMirror, UndoLive,
         UndoHot, UndoRegistry, UndoStatus, Fails, Killed, Again
<1> QED BY <1>1, <1>2, <1>3, <1>4, <1>5

\* A publisher's own step keeps its folder registered.
LEMMA OwnFolder ==
  ASSUME TypeOK, NEW r \in Runs, RunInv(r), FolderInv(r), Step(r)
  PROVE  FolderInv(r)'
<1>a. arc' = arc BY PublisherKeeps DEF Step
<1>1. CASE Commit(r)
  <2>1. /\ pub[r].pc = "commit" /\ pub'[r].pc \in {"timing", "ended"}
        /\ pub'[r].kind = pub[r].kind /\ pub'[r].again = pub[r].again
    BY <1>1, CommitServes
  <2>2. folder' = folder /\ registry' = registry BY <1>1 DEF Commit
  <2>3. ~pub[r].again => registry[r] # "none" \/ folder[r] = NoFolder
    BY <2>1 DEF RunInv, Fresh, FreshFolder, Before
  <2>4. pub[r].kind = "kronos" => registry[r] # "none"
    BY <2>1 DEF FolderInv
  <2> QED BY <2>1, <2>2, <2>3, <2>4 DEF FolderInv
<1>2. CASE ~Commit(r)
  <2>0. /\ status'[r] = "success" => status[r] = "success"
        /\ registry'[r] = "none" => registry[r] = "none"
        /\ folder'[r] = folder[r] \/ pub[r].pc = "write"
    BY <1>2, StepStores
  <2>w. pub[r].pc = "write" /\ status[r] = "success" => registry[r] # "none"
    BY DEF RunInv, Fresh, FreshUnknown, Before, FolderInv
  <2>5. ASSUME (pub'[r].kind = "kronos" /\ status[r] = "success" => pub[r].kind = "kronos")
        PROVE  /\ pub'[r].kind = "kronos" /\ status'[r] = "success" => registry'[r] # "none"
               /\ status'[r] = "success" /\ folder'[r] # NoFolder /\ registry'[r] = "none"
                  => (arc'.pc = "register" /\ arc'.run = r) \/ r \in arc'.cut
    BY <1>a, <2>0, <2>w, <2>5 DEF FolderInv
  <2>1. CASE Start(r)
    <3>1. pub'[r].pc \in {"sweep", "plan"} /\ ~pub'[r].again BY <2>1, StartServes
    <3>2. status[r] # "success"
      BY <2>1 DEF Start, At, RunInv, Fresh, FreshUnknown, Before
    <3> QED BY <2>5, <3>1, <3>2 DEF FolderInv
  <2>2. CASE Again(r)
    <3>1. pub[r].kind = "kronos" /\ pub'[r].kind = "kronos" /\ pub'[r].pc = "plan" /\ pub'[r].again
      BY <2>2, AgainServes
    <3> QED BY <2>5, <3>1 DEF FolderInv
  <2>3. CASE PruneSelect(r)
    <3>1. /\ pub'[r].kind = pub[r].kind /\ pub'[r].again = pub[r].again
          /\ pub'[r].pc \in {"ended", "prune_delete"}
      BY <2>3, SelectServes
    <3> QED BY <2>5, <3>1 DEF FolderInv
  <2>4. CASE ~Turns(r)
    <3>1. Moves(r) BY <2>4, StepMoves
    <3>2. pub'[r].kind = "kronos" /\ pub'[r].pc \in {"rows", "commit"} => registry'[r] # "none"
      BY <2>0, <3>1 DEF Moves, FolderInv
    <3> QED BY <2>5, <3>1, <3>2 DEF FolderInv, Moves
  <2> QED BY <1>2, <2>1, <2>2, <2>3, <2>4 DEF Turns
<1> QED BY <1>1, <1>2

\* The archive registers the folder it wrote, or is cut off and remembered.
LEMMA ArchiveFolder ==
  ASSUME TypeOK, NEW r \in Runs, FolderInv(r), Archive
  PROVE  FolderInv(r)'
<1>a. arc \in Archives BY DEF TypeOK, Archives
<1>1. status' = status /\ pub' = pub
  BY DEF Archive, ArchiveStart, ArchiveLoad, ArchiveWrite, ArchiveRegister, ArchiveStops
<1>2. ASSUME NEW q \in Runs, ArchiveStart(q) PROVE FolderInv(r)'
  <2>1. folder' = folder /\ registry' = registry BY <1>2 DEF ArchiveStart
  <2>2. arc.pc = "idle" /\ arc'.cut = arc.cut BY <1>2, <1>a DEF ArchiveStart, Archives
  <2> QED BY <1>1, <2>1, <2>2 DEF FolderInv
<1>3. CASE ArchiveLoad
  <2>1. folder' = folder /\ registry' = registry BY <1>3 DEF ArchiveLoad
  <2>2. arc.pc = "load" /\ arc'.cut = arc.cut
    BY <1>3, <1>a DEF ArchiveLoad, ArchiveEnd, NoArchive, Archives
  <2> QED BY <1>1, <2>1, <2>2 DEF FolderInv
<1>4. CASE ArchiveWrite
  <2>1. registry' = registry /\ arc.pc = "write" /\ arc.run \in Runs
    BY <1>4, <1>a DEF ArchiveWrite, Archives
  <2>2. arc'.cut = arc.cut
    BY <1>4, <1>a DEF ArchiveWrite, ArchiveEnd, NoArchive, Archives
  <2>3. folder'[r] = folder[r] \/ (arc'.pc = "register" /\ arc'.run = r)
    BY <1>4, <1>a, <2>1 DEF ArchiveWrite, Archives, TypeOK
  <2> QED BY <1>1, <2>1, <2>2, <2>3 DEF FolderInv
<1>5. CASE ArchiveRegister
  <2>1. folder' = folder /\ arc.run \in Runs BY <1>5, <1>a DEF ArchiveRegister, Archives
  <2>2. arc'.cut = arc.cut
    BY <1>5, <1>a DEF ArchiveRegister, ArchiveEnd, NoArchive, Archives
  <2>3. registry'[r] = IF r = arc.run THEN "verified" ELSE registry[r]
    BY <1>5, <2>1 DEF ArchiveRegister, TypeOK
  <2> QED BY <1>1, <2>1, <2>2, <2>3 DEF FolderInv
<1>6. CASE ArchiveStops
  <2>1. folder' = folder /\ registry' = registry BY <1>6 DEF ArchiveStops
  <2>2. arc'.cut = arc.cut \cup (IF arc.pc = "register" THEN {arc.run} ELSE {})
    BY <1>6 DEF ArchiveStops, NoArchive
  <2> QED BY <1>1, <2>1, <2>2 DEF FolderInv
<1> QED BY <1>2, <1>3, <1>4, <1>5, <1>6 DEF Archive

LEMMA FolderStep ==
  ASSUME TypeOK, StoreInv, NEW r \in Runs, FolderInv(r), [Next]_vars
  PROVE  FolderInv(r)'
<1>0. RunInv(r) BY DEF StoreInv
<1>1. ASSUME NEW q \in Runs, Step(q) PROVE FolderInv(r)'
  <2>1. CASE q = r BY <1>0, <1>1, <2>1, OwnFolder
  <2>2. CASE q # r
    <3>1. arc' = arc BY <1>1, PublisherKeeps DEF Step
    <3>2. Untouched(r) BY <1>1, <2>2, PublisherTouches DEF Step
    <3> QED BY <3>1, <3>2 DEF Untouched, FolderInv
  <2> QED BY <2>1, <2>2
<1>2. CASE Archive BY <1>2, ArchiveFolder
<1>3. CASE Retention \/ Cutover \/ UNCHANGED vars
  <2>1. UNCHANGED <<status, pub, folder, registry, arc>>
    BY <1>3 DEF Retention, RetentionSelect, RetentionCheck, RetentionDelete, RetentionStops,
                Cutover, vars
  <2> QED BY <2>1 DEF FolderInv
<1> QED BY <1>1, <1>2, <1>3 DEF Next, Step

----------------------------------------------------------------------------
(* The live table.                                                         *)

\* A step publishes at most one training, and none is ever unpublished.
LEMMA TrainedGrows ==
  ASSUME TypeOK, StoreInv, [Next]_vars
  PROVE  /\ Trained \subseteq Trained'
         /\ IsFiniteSet(Trained) => IsFiniteSet(Trained')
<1>1. ASSUME NEW q \in Runs, Step(q), NEW r \in Runs \ {q}
      PROVE  pub'[r] = pub[r] /\ owed'[r] = owed[r]
  BY <1>1, PublisherTouches DEF Step, Untouched
<1>2. ASSUME NEW q \in Runs, Step(q), q \in Trained
      PROVE  q \in Trained'
  <2>0. pub[q].kind = "train" /\ owed[q] # {} BY <1>2 DEF Trained
  <2>1. CASE Commit(q)
    <3>1. pub'[q].kind = pub[q].kind BY <2>1, CommitServes
    <3>2. owed'[q] # {}
      <4>1. owed'[q] = IF pub[q].wrote THEN Rows ELSE HotRows(q)
        BY <2>1 DEF Commit, TypeOK
      <4> QED BY <4>1, RowsTyped DEF Rows
    <3> QED BY <2>0, <3>1, <3>2 DEF Trained
  <2>2. CASE ~Commit(q)
    <3>1. owed' = owed BY <1>2, <2>2, StepStores
    <3>2. ~Start(q)
      BY <2>0 DEF Start, At, StoreInv, RunInv, Fresh, FreshUnknown, Before
    <3>3. ~Again(q) BY <2>0 DEF Again
    <3>4. pub'[q].kind = pub[q].kind
      BY <1>2, <2>2, <3>2, <3>3, SelectServes, StepMoves DEF Turns, Moves
    <3> QED BY <2>0, <3>1, <3>4 DEF Trained
  <2> QED BY <2>1, <2>2
<1>3. ASSUME NEW q \in Runs, Step(q)
      PROVE  Trained \subseteq Trained' /\ Trained' \subseteq Trained \cup {q}
  BY <1>1, <1>2, <1>3 DEF Trained
<1>4. CASE Archive \/ Retention \/ Cutover \/ UNCHANGED vars
  <2>1. pub' = pub /\ owed' = owed
    BY <1>4 DEF Archive, ArchiveStart, ArchiveLoad, ArchiveWrite, ArchiveRegister, ArchiveStops,
                Retention, RetentionSelect, RetentionCheck, RetentionDelete, RetentionStops,
                Cutover, vars
  <2>2. Trained' = Trained BY <2>1 DEF Trained
  <2> QED BY <2>2
<1>5. ASSUME NEW q \in Runs, Step(q), IsFiniteSet(Trained) PROVE IsFiniteSet(Trained')
  <2>1. IsFiniteSet(Trained \cup {q}) BY <1>5, FS_AddElement
  <2> QED BY <1>3, <1>5, <2>1, FS_Subset
<1> QED BY <1>3, <1>4, <1>5 DEF Next, Step

\* Who was replaced stays so.
LEMMA ReplacedStays ==
  ASSUME TypeOK, StoreInv, ServeInv, [Next]_vars, NEW r \in Runs, Replaced(r)
  PROVE  Replaced(r)'
<1> DEFINE N == Newer(r, Trained)
           M == Newer(r, Trained')
<1>1. Trained \subseteq Trained' /\ IsFiniteSet(Trained')
  BY TrainedGrows DEF ServeInv
<1>2. N \subseteq M /\ M \subseteq Trained' BY <1>1 DEF Newer
<1>3. IsFiniteSet(M) BY <1>1, <1>2, FS_Subset
<1>4. Cardinality(N) <= Cardinality(M) /\ Cardinality(N) \in Nat /\ Cardinality(M) \in Nat
  BY <1>2, <1>3, FS_Subset, FS_CardinalityType
<1>5. Cardinality(N) >= KeepLive BY DEF Replaced
<1>6. Cardinality(M) >= KeepLive BY <1>4, <1>5, RunsAssumption
<1> QED BY <1>6 DEF Replaced, Newer

\* A pruning leaves out a live run only when it was replaced.
LEMMA SelectKnows ==
  ASSUME TypeOK, ServeInv, NEW r \in Runs, LiveInv(r), Serves(r),
         r \notin Newest(KeepLive, LiveSuccess)
  PROVE  Replaced(r)
<1>1. CASE r \notin live BY <1>1 DEF LiveInv
<1>2. CASE r \in live
  <2> DEFINE P == {p \in LiveSuccess : p > r}
             N == Newer(r, Trained)
  <2>1. r \in LiveSuccess BY <1>2 DEF LiveSuccess, Serves, Intact
  <2>2. ~(Cardinality(P) < KeepLive) BY <2>1 DEF Newest
  <2>3. P \subseteq N
    BY DEF Newer, Trained, LiveSuccess, ServeInv, LiveInv, TypeOK
  <2>4. N \subseteq Trained BY DEF Newer
  <2>5. IsFiniteSet(N) BY <2>4, FS_Subset DEF ServeInv
  <2>6. Cardinality(P) <= Cardinality(N) /\ Cardinality(N) \in Nat /\ Cardinality(P) \in Nat
    BY <2>3, <2>5, FS_Subset, FS_CardinalityType
  <2>7. Cardinality(N) >= KeepLive BY <2>2, <2>6, RunsAssumption
  <2> QED BY <2>7 DEF Replaced
<1> QED BY <1>1, <1>2

\* A run serves that served before, but for one that is committed.
LEMMA ServesComes ==
  ASSUME TypeOK, StoreInv, [Next]_vars, NEW r \in Runs, Serves(r)'
  PROVE  Serves(r) \/ (Step(r) /\ Commit(r))
<1>0. RunInv(r) BY DEF StoreInv
<1>s. /\ pub'[r].kind = "train" /\ status'[r] = "success" /\ ~pub'[r].late
      /\ ~pub'[r].again /\ ~pub'[r].raced /\ hot'[r] # {}
  BY DEF Serves, Intact
<1>1. CASE Step(r) /\ ~Commit(r)
  <2>1. /\ status[r] = "success" /\ hot'[r] = hot[r]
    BY <1>1, <1>s, StepStores
  <2>2. ~Start(r)
    BY <2>1, <1>0 DEF Start, At, RunInv, Fresh, FreshUnknown, Before
  <2>3. ~Again(r) BY <1>s, AgainServes
  <2>4. /\ pub'[r].kind = pub[r].kind /\ pub'[r].again = pub[r].again
        /\ pub'[r].raced = pub[r].raced /\ (pub[r].late => pub'[r].late)
    BY <1>1, <2>2, <2>3, SelectServes, StepMoves DEF Turns, Moves
  <2> QED BY <1>s, <2>1, <2>4 DEF Serves, Intact
<1>2. ASSUME NEW q \in Runs \ {r}, Step(q) PROVE Serves(r)
  <2>1. Untouched(r) BY <1>2, PublisherTouches DEF Step
  <2>2. hot'[r] = hot[r]
    BY <1>2 DEF TypeOK, tables, Step, Publish, Start, Sweep, Fit, Blocked, Plan, Write, Register,
         StageRows, Commit, Timing, PruneSelect, PruneDelete, Undo, UndoMirror, UndoLive,
         UndoHot, UndoRegistry, UndoStatus, Fails, Killed, Again
  <2> QED BY <1>s, <2>1, <2>2 DEF Untouched, Serves, Intact
<1>3. CASE Archive \/ Retention \/ Cutover \/ UNCHANGED vars
  <2>1. pub' = pub /\ status' = status
    BY <1>3 DEF Archive, ArchiveStart, ArchiveLoad, ArchiveWrite, ArchiveRegister, ArchiveStops,
                Retention, RetentionSelect, RetentionCheck, RetentionDelete, RetentionStops,
                Cutover, vars
  <2>2. hot'[r] # {} => hot[r] # {}
    BY <1>3 DEF Archive, ArchiveStart, ArchiveLoad, ArchiveWrite, ArchiveRegister, ArchiveStops,
                Retention, RetentionSelect, RetentionCheck, RetentionDelete, RetentionStops,
                Cutover, vars, tables
  <2> QED BY <1>s, <2>1, <2>2 DEF Serves, Intact
<1> QED BY <1>1, <1>2, <1>3 DEF Next, Step

\* Live rows go by a pruning, by the handler of their own run, or by retention.
LEMMA LiveGoes ==
  ASSUME TypeOK, [Next]_vars, NEW r \in Runs, r \in live, r \notin live'
  PROVE  \/ \E p \in Runs : At(p, "prune_delete") /\ r \notin pub[p].chosen
         \/ Step(r) /\ ~Commit(r) /\ pub[r].pc = "undo_live"
         \/ hot'[r] = {}
<1>1. ASSUME NEW q \in Runs, Step(q)
      PROVE  \/ At(q, "prune_delete") /\ r \notin pub[q].chosen
             \/ q = r /\ ~Commit(r) /\ pub[r].pc = "undo_live"
  <2>1. CASE PruneDelete(q) BY <2>1 DEF PruneDelete
  <2>2. CASE UndoLive(q)
    <3>1. q = r /\ pub[r].pc = "undo_live" BY <2>2 DEF UndoLive, At
    <3> QED BY <3>1 DEF Commit, At
  <2>3. CASE ~PruneDelete(q) /\ ~UndoLive(q)
    BY <1>1, <2>3 DEF tables, Step, Publish, Start, Sweep, Fit, Blocked, Plan, Write, Register,
         StageRows, Commit, Timing, PruneSelect, Undo, UndoMirror,
         UndoHot, UndoRegistry, UndoStatus, Fails, Killed, Again
  <2> QED BY <2>1, <2>2, <2>3
<1>2. CASE RetentionDelete
  <2>1. r \in Purged BY <1>2 DEF RetentionDelete
  <2> QED BY <1>2, <2>1 DEF RetentionDelete
<1>3. ~(Archive \/ RetentionSelect \/ RetentionCheck \/ RetentionStops \/ Cutover \/ UNCHANGED vars)
  BY DEF Archive, ArchiveStart, ArchiveLoad, ArchiveWrite, ArchiveRegister, ArchiveStops,
         RetentionSelect, RetentionCheck, RetentionStops, Cutover, vars, tables
<1> QED BY <1>1, <1>2, <1>3 DEF Next, Step, Retention

\* Who is about to prune has just chosen, or keeps its choice.
LEMMA PrunerKeeps ==
  ASSUME TypeOK, [Next]_vars, NEW p \in Runs, pub'[p].pc = "prune_delete"
  PROVE  \/ At(p, "prune_delete") /\ pub'[p].chosen = pub[p].chosen
         \/ pub'[p].chosen = Newest(KeepLive, LiveSuccess)
<1>1. CASE Step(p)
  BY <1>1, StartServes, AgainServes, CommitServes, SelectServes, StepMoves DEF Turns, Moves
<1>2. ASSUME NEW q \in Runs \ {p}, Step(q) PROVE pub'[p] = pub[p]
  BY <1>2, PublisherTouches DEF Step, Untouched
<1>3. ASSUME Archive \/ Retention \/ Cutover \/ UNCHANGED vars PROVE pub' = pub
  BY <1>3 DEF Archive, ArchiveStart, ArchiveLoad, ArchiveWrite, ArchiveRegister, ArchiveStops,
              Retention, RetentionSelect, RetentionCheck, RetentionDelete, RetentionStops,
              Cutover, vars
<1> QED BY <1>1, <1>2, <1>3 DEF Next, Step, At

LEMMA LiveStep ==
  ASSUME TypeOK, StoreInv, ServeInv, [Next]_vars, NEW r \in Runs
  PROVE  LiveInv(r)'
<1>0. RunInv(r) /\ LiveInv(r) BY DEF StoreInv, ServeInv
<1>1. Replaced(r) => Replaced(r)' BY ReplacedStays
<1>2. ASSUME Step(r), Commit(r), Serves(r)'
      PROVE  r \in live' /\ \A p \in Runs : ~At(p, "prune_delete")' /\ pub'[p].pc # "prune_delete"
  <2>1. /\ pub'[r].pc \in {"timing", "ended"} /\ pub'[r].kind = pub[r].kind
        /\ pub'[r].raced = \E q \in Runs : At(q, "prune_delete")
    BY <1>2, CommitServes
  <2>2. pub'[r].kind = "train" /\ ~pub'[r].raced BY <1>2 DEF Serves
  <2>3. r \in live' BY <1>2, <2>1, <2>2 DEF Commit
  <2>4. ASSUME NEW p \in Runs PROVE pub'[p].pc # "prune_delete"
    <3>1. CASE p = r BY <2>1, <3>1
    <3>2. CASE p # r
      <4>1. pub'[p] = pub[p] BY <1>2, <3>2, PublisherTouches DEF Step, Untouched
      <4> QED BY <2>1, <2>2, <4>1 DEF At
    <3> QED BY <3>1, <3>2
  <2> QED BY <2>3, <2>4 DEF At
<1>3. r \in live' => pub'[r].kind = "train" /\ owed'[r] # {}
  <2>1. CASE r \in live
    <3>1. r \in Trained BY <1>0, <2>1 DEF LiveInv, Trained
    <3>2. r \in Trained' BY <3>1, TrainedGrows
    <3> QED BY <3>2 DEF Trained
  <2>2. CASE r \notin live /\ r \in live'
    <3>1. Step(r) /\ Commit(r) /\ pub[r].kind = "train"
      BY <2>2 DEF Next, Step, Publish, Start, Sweep, Fit, Blocked, Plan, Write, Register,
         StageRows, Commit, Timing, PruneSelect, PruneDelete, Undo, UndoMirror, UndoLive,
         UndoHot, UndoRegistry, UndoStatus, Fails, Killed, Again, tables, vars,
         Archive, ArchiveStart, ArchiveLoad, ArchiveWrite, ArchiveRegister, ArchiveStops,
         Retention, RetentionSelect, RetentionCheck, RetentionDelete, RetentionStops, Cutover
    <3>2. pub'[r].kind = pub[r].kind BY <3>1, CommitServes
    <3>3. owed'[r] = IF pub[r].wrote THEN Rows ELSE HotRows(r)
      BY <3>1 DEF Commit, TypeOK
    <3> QED BY <3>1, <3>2, <3>3, RowsTyped DEF Rows
  <2> QED BY <2>1, <2>2
<1>4. Serves(r)' /\ r \notin live' => Replaced(r)'
  <2> SUFFICES ASSUME Serves(r)', r \notin live' PROVE Replaced(r)' OBVIOUS
  <2>1. Serves(r) BY <1>2, ServesComes
  <2>2. CASE r \notin live BY <1>0, <1>1, <2>1, <2>2 DEF LiveInv
  <2>3. CASE r \in live
    <3>1. ASSUME NEW p \in Runs, At(p, "prune_delete"), r \notin pub[p].chosen PROVE Replaced(r)'
      BY <1>0, <1>1, <2>1, <3>1 DEF LiveInv
    <3>2. pub[r].pc # "undo_live"
      BY <1>0, <2>1 DEF RunInv, Undoing, Serves, Intact
    <3>3. hot'[r] # {} BY DEF Serves
    <3> QED BY <2>3, <3>1, <3>2, <3>3, LiveGoes
  <2> QED BY <2>2, <2>3
<1>5. ASSUME NEW p \in Runs, pub'[p].pc = "prune_delete", Serves(r)', r \notin pub'[p].chosen
      PROVE  Replaced(r)'
  <2>1. Serves(r) BY <1>2, <1>5, ServesComes
  <2>2. CASE At(p, "prune_delete") /\ pub'[p].chosen = pub[p].chosen
    BY <1>0, <1>1, <1>5, <2>1, <2>2 DEF LiveInv
  <2>3. CASE pub'[p].chosen = Newest(KeepLive, LiveSuccess)
    BY <1>0, <1>1, <1>5, <2>1, <2>3, SelectKnows
  <2> QED BY <1>5, <2>2, <2>3, PrunerKeeps
<1> QED BY <1>3, <1>4, <1>5 DEF LiveInv, At

----------------------------------------------------------------------------
(* The invariant, and the theorems.                                        *)

LEMMA ServeInit == Init => ServeInv
<1> SUFFICES ASSUME Init PROVE ServeInv OBVIOUS
<1>1. Trained = {} BY DEF Init, Trained
<1>2. IsFiniteSet(Trained) BY <1>1, FS_EmptySet
<1>3. ASSUME NEW r \in Runs PROVE FolderInv(r) /\ LiveInv(r)
  <2>1. pub[r] = Idle /\ status[r] = "absent" /\ live = {} BY DEF Init
  <2>2. \A p \in Runs : ~At(p, "prune_delete") BY DEF Init, At, Idle
  <2> QED BY <2>1, <2>2 DEF FolderInv, LiveInv, Idle, Serves, Intact
<1> QED BY <1>2, <1>3 DEF ServeInv

LEMMA ServeStep == TypeOK /\ StoreInv /\ ServeInv /\ [Next]_vars => ServeInv'
<1> SUFFICES ASSUME TypeOK, StoreInv, ServeInv, [Next]_vars PROVE ServeInv' OBVIOUS
<1>1. IsFiniteSet(Trained)' BY TrainedGrows DEF ServeInv
<1>2. ASSUME NEW r \in Runs PROVE FolderInv(r)' /\ LiveInv(r)'
  BY FolderStep, LiveStep DEF ServeInv
<1> QED BY <1>1, <1>2 DEF ServeInv

LEMMA ServeAlways == Spec => [](TypeOK /\ ServeInv)
<1>1. Init => TypeOK /\ StoreInv /\ ServeInv BY TypeInit, StoreInit, ServeInit
<1>2. TypeOK /\ StoreInv /\ ServeInv /\ [Next]_vars => (TypeOK /\ StoreInv /\ ServeInv)'
  BY TypeStep, StoreStep, ServeStep
<1> QED BY <1>1, <1>2, PTL DEF Spec

\* A successful run with a folder that is not registered is being archived, or
\* its archive was cut off between the folder and the registration.
THEOREM FoldersRegistered == Spec => []FolderRegistered
<1>1. TypeOK /\ ServeInv => FolderRegistered
  BY DEF ServeInv, FolderInv, FolderRegistered
<1> QED BY <1>1, ServeAlways, PTL

\* The live rows of a trained run go only after a late error, by retention, by a
\* pruning that chose before the commit, or when enough newer ones were published.
THEOREM LiveServes == Spec => []LiveUntilReplaced
<1>1. TypeOK /\ ServeInv => LiveUntilReplaced
  <2> SUFFICES ASSUME TypeOK, ServeInv, NEW r \in Runs,
                      pub[r].kind = "train", Intact(r), ~pub[r].raced, hot[r] # {}, r \notin live
               PROVE  Cardinality({q \in Runs : q > r /\ pub[q].kind = "train" /\ owed[q] # {}}) >= KeepLive
    BY DEF LiveUntilReplaced
  <2>1. Replaced(r) BY DEF ServeInv, LiveInv, Serves
  <2>2. Newer(r, Trained) = {q \in Runs : q > r /\ pub[q].kind = "train" /\ owed[q] # {}}
    BY DEF Newer, Trained
  <2> QED BY <2>1, <2>2 DEF Replaced
<1> QED BY <1>1, ServeAlways, PTL
=============================================================================
