-------------------------- MODULE MarketLakeProofs --------------------------
(***************************************************************************)
(* Proofs about the daily Parquet lake, for any threads, scripts, symbols, *)
(* dates and bounds: every variable has its type, and on every date that   *)
(* no two processes worked on at the same time no merge is lost, nobody is *)
(* left with an unreadable partition unless a script died on it, and the   *)
(* two stores differ only where the code says so.                          *)
(***************************************************************************)
EXTENDS MarketLake, WellFoundedInduction, TLAPS

\* What a writer may be doing: a call under way has dates left.
GoodJobs == {j \in Jobs : j.pc # "idle" => j.todo # {}}
Cells == Store \X Date \X {"final", "temp"}

----------------------------------------------------------------------------
(* The date of a call.                                                     *)

\* Every set of dates has a first one.
LEMMA Least ==
  ASSUME NEW S \in SUBSET Nat, S # {}
  PROVE  \E d \in S : \A e \in S : d <= e
<1> DEFINE R == OpToRel(<, Nat)
<1>1. IsWellFoundedOn(R, Nat) BY NatLessThanWellFounded, Zenon
<1>2. ASSUME NEW x \in Nat, NEW y \in Nat, x < y PROVE <<x, y>> \in R
  <2>1. <<x, y>> \in Nat \X Nat OBVIOUS
  <2>2. R = {ss \in Nat \X Nat : ss[1] < ss[2]} BY Zenon DEF OpToRel
  <2> QED BY <1>2, <2>1, <2>2
<1> HIDE DEF R
<1>3. PICK d \in S : \A y \in S : ~(<<y, d>> \in R) BY <1>1, WFMin
<1>4. \A e \in S : ~(e < d) BY <1>2, <1>3
<1> QED BY <1>4

\* The date a writer is working on is one of those it has left.
LEMMA AtLeft ==
  ASSUME TypeOK, NEW w \in Writer, job[w].pc # "idle"
  PROVE  At(w) \in job[w].todo /\ At(w) \in Date
<1>1. job[w].todo \subseteq Date /\ job[w].todo # {} BY DEF TypeOK, Jobs
<1>2. \E d \in job[w].todo : \A e \in job[w].todo : d <= e
  BY <1>1, Least, DateAssumption
<1>3. At(w) \in job[w].todo BY <1>2 DEF At
<1> QED BY <1>1, <1>3

----------------------------------------------------------------------------
(* Types.                                                                  *)

LEMMA RowsTyped ==
  /\ NoRows \in Rows
  /\ \A a, b \in Rows : Merge(a, b) \in Rows
  /\ \A a \in Rows, S \in SUBSET Symbol : Without(a, S) \in Rows
<1>1. NoRow \in Batch BY LakeBoundsAssumption DEF NoRow, Batch
<1>2. NoRows \in Rows BY <1>1 DEF NoRows, Rows
<1>3. \A a, b \in Rows : Merge(a, b) \in Rows BY DEF Merge, Rows
<1>4. \A a \in Rows, S \in SUBSET Symbol : Without(a, S) \in Rows
  BY <1>1 DEF Without, Rows
<1> QED BY <1>2, <1>3, <1>4

\* What becomes of a file that is opened, written out, left or lost.
LEMMA CellsTyped ==
  ASSUME NEW f \in Cell, NEW w \in Writer
  PROVE  /\ \A rows \in Rows : Closed(f, w, rows) \subseteq Cell
         /\ Torn(f, w) \in Cell
         /\ [state |-> IF f.open = {} THEN "partial" ELSE "mixed",
             rows |-> NoRows, open |-> f.open \cup {w}] \in Cell
<1>0. f.state \in FileState /\ f.rows \in Rows /\ f.open \subseteq Writer BY DEF Cell
<1>n. NoRows \in Rows BY RowsTyped
<1>1. ASSUME NEW rows \in Rows PROVE Closed(f, w, rows) \subseteq Cell
  <2>1. [f EXCEPT !.open = @ \ {w}] \in Cell BY <1>0 DEF Cell
  <2>2. [state |-> "ok", rows |-> rows, open |-> {}] \in Cell BY DEF Cell, FileState
  <2>3. [state |-> "torn", rows |-> NoRows, open |-> {}] \in Cell BY <1>n DEF Cell, FileState
  <2> QED BY <2>1, <2>2, <2>3 DEF Closed
<1>2. Torn(f, w) \in Cell BY <1>0, <1>n DEF Torn, Cell, FileState
<1>3. [state |-> IF f.open = {} THEN "partial" ELSE "mixed",
       rows |-> NoRows, open |-> f.open \cup {w}] \in Cell
  BY <1>0, <1>n DEF Cell, FileState
<1> QED BY <1>1, <1>2, <1>3

\* A writer that does something else leaves the writers typed.
LEMMA GoesTyped ==
  ASSUME TypeOK, NEW w \in Writer, NEW j \in GoodJobs, Goes(w, j)
  PROVE  job' \in [Writer -> GoodJobs]
<1>1. job \in [Writer -> GoodJobs] BY DEF TypeOK, GoodJobs
<1> QED BY <1>1 DEF Goes

LEMMA IdleTyped == Idle \in GoodJobs
<1>1. NoRows \in Rows BY RowsTyped
<1> QED BY <1>1 DEF Idle, GoodJobs, Jobs, Store

LEMMA FirstTyped ==
  \A k \in {"write", "clean", "fill"} : First(k) \in {"prepare", "clean_read", "fill_read"}
BY DEF First

\* Another place of the same call.
LEMMA PlaceTyped ==
  ASSUME TypeOK, NEW w \in Writer, job[w].pc # "idle",
         NEW pc \in {"shadow", "open", "close", "move", "invalidate",
                     "clean_open", "clean_close"}
  PROVE  /\ [job[w] EXCEPT !.pc = pc] \in GoodJobs
         /\ \A rows \in Rows : [job[w] EXCEPT !.pc = pc, !.frame = rows] \in GoodJobs
         /\ \A rows \in Rows : [job[w] EXCEPT !.pc = pc, !.rows = rows] \in GoodJobs
         /\ \A rows \in Rows, s \in Store :
              [job[w] EXCEPT !.pc = pc, !.store = s, !.shadow = rows] \in GoodJobs
<1>1. job[w] \in Jobs /\ job[w].todo # {} BY DEF TypeOK
<1>2. [job[w] EXCEPT !.pc = pc] \in GoodJobs BY <1>1 DEF Jobs, GoodJobs
<1>3. \A rows \in Rows : [job[w] EXCEPT !.pc = pc, !.frame = rows] \in GoodJobs
  BY <1>1 DEF Jobs, GoodJobs
<1>4. \A rows \in Rows : [job[w] EXCEPT !.pc = pc, !.rows = rows] \in GoodJobs
  BY <1>1 DEF Jobs, GoodJobs
<1>5. \A rows \in Rows, s \in Store :
        [job[w] EXCEPT !.pc = pc, !.store = s, !.shadow = rows] \in GoodJobs
  BY <1>1 DEF Jobs, GoodJobs
<1> QED BY <1>2, <1>3, <1>4, <1>5

LEMMA NextDateTyped ==
  ASSUME TypeOK, NEW w \in Writer, job[w].pc # "idle"
  PROVE  NextDate(w) \in GoodJobs
<1>1. job[w] \in Jobs /\ At(w) \in job[w].todo BY AtLeft DEF TypeOK
<1>2. First(job[w].kind) \in {"prepare", "clean_read", "fill_read"}
  BY <1>1, FirstTyped DEF Jobs
<1>3. CASE job[w].todo = {At(w)} BY <1>3, IdleTyped DEF NextDate
<1>4. CASE job[w].todo # {At(w)}
  <2>1. job[w].todo \ {At(w)} # {} BY <1>1, <1>4
  <2>2. [job[w] EXCEPT !.pc = First(job[w].kind), !.store = "v1",
                       !.todo = job[w].todo \ {At(w)}] \in GoodJobs
    BY <1>1, <1>2, <2>1 DEF Jobs, GoodJobs, Store
  <2> QED BY <1>4, <2>2 DEF NextDate
<1> QED BY <1>3, <1>4

LEMMA RaisesTyped ==
  ASSUME TypeOK, NEW w \in Writer, job[w].pc # "idle", Raises(w)
  PROVE  job' \in [Writer -> GoodJobs] /\ lock' \in [Store \X Date -> Writer \cup {NoOne}]
<1>1. (IF job[w].kind = "fill" THEN NextDate(w) ELSE Idle) \in GoodJobs
  BY NextDateTyped, IdleTyped
<1>2. job' \in [Writer -> GoodJobs] BY <1>1, GoesTyped DEF Raises
<1>3. lock' \in [Store \X Date -> Writer \cup {NoOne}]
  BY DEF Raises, LeaveAll, TypeOK
<1> QED BY <1>2, <1>3
\* Every step leaves each writer with a call that has its type.
LEMMA JobTyped ==
  ASSUME TypeOK, [Next]_vars
  PROVE  job' \in [Writer -> GoodJobs]
<1>0. job \in [Writer -> GoodJobs] BY DEF TypeOK, GoodJobs
<1>n. NoRows \in Rows BY RowsTyped
<1>f. /\ \A x \in Cells : file[x] \in Cell
      /\ \A s \in Store, d \in Date : Final(s, d).rows \in Rows
  BY DEF TypeOK, Cells, Cell, Final
<1>1. ASSUME NEW w \in Writer, StartWrite(w) PROVE job' \in [Writer -> GoodJobs]
  <2>1. PICK dates \in (SUBSET Date) \ {{}}, symbols \in (SUBSET Symbol) \ {{}} :
          Goes(w, [Idle EXCEPT !.pc = "prepare", !.todo = dates,
                  !.rows = [s \in Symbol |-> IF s \in symbols
                                             THEN used.batches + 1 ELSE NoRow]])
    BY <1>1 DEF StartWrite
  <2> DEFINE rows == [s \in Symbol |-> IF s \in symbols THEN used.batches + 1 ELSE NoRow]
  <2>2. used.batches + 1 \in Batch /\ NoRow \in Batch
    BY <1>1, LakeBoundsAssumption DEF StartWrite, TypeOK, Batch, NoRow
  <2>3. rows \in Rows BY <2>2 DEF Rows
  <2> HIDE DEF rows
  <2>4. [Idle EXCEPT !.pc = "prepare", !.todo = dates, !.rows = rows] \in GoodJobs
    BY <1>n, <2>3 DEF Idle, GoodJobs, Jobs, Store
  <2>5. Goes(w, [Idle EXCEPT !.pc = "prepare", !.todo = dates, !.rows = rows])
    BY <2>1 DEF rows
  <2> QED BY <2>4, <2>5, GoesTyped
<1>2. ASSUME NEW w \in Writer, StartScript(w) PROVE job' \in [Writer -> GoodJobs]
  <2> DEFINE dates == {d \in Date : Final("v1", d).state # "none"}
  <2>1. dates # {} BY <1>2 DEF StartScript
  <2>2. CASE Goes(w, [Idle EXCEPT !.pc = "fill_read", !.kind = "fill", !.todo = dates])
    <3>1. [Idle EXCEPT !.pc = "fill_read", !.kind = "fill", !.todo = dates] \in GoodJobs
      BY <1>n, <2>1 DEF Idle, GoodJobs, Jobs, Store
    <3> QED BY <2>2, <3>1, GoesTyped
  <2>3. CASE \E drop \in (SUBSET Symbol) \ {{}} :
             Goes(w, [Idle EXCEPT !.pc = "clean_read", !.kind = "clean",
                                  !.todo = dates, !.drop = drop])
    <3>1. PICK drop \in (SUBSET Symbol) \ {{}} :
             Goes(w, [Idle EXCEPT !.pc = "clean_read", !.kind = "clean",
                                  !.todo = dates, !.drop = drop])
      BY <2>3
    <3>2. [Idle EXCEPT !.pc = "clean_read", !.kind = "clean",
                       !.todo = dates, !.drop = drop] \in GoodJobs
      BY <1>n, <2>1 DEF Idle, GoodJobs, Jobs, Store
    <3> QED BY <3>1, <3>2, GoesTyped
  <2> QED BY <1>2, <2>2, <2>3 DEF StartScript
<1>3. ASSUME NEW w \in Writer, WriterStep(w) PROVE job' \in [Writer -> GoodJobs]
  <2>0. job[w].pc # "idle"
    BY <1>3 DEF WriterStep, Prepare, ReadShadow, ShadowRefuses, OpenTemp, CloseTemp, MoveTemp,
                MoveFails, Invalidate, FillRead, CleanRead, CleanOpen, CleanClose, CleanFails
  <2>d. At(w) \in Date BY <2>0, AtLeft
  <2>j. job[w] \in Jobs BY DEF TypeOK
  <2>r. Raises(w) => job' \in [Writer -> GoodJobs] BY <2>0, RaisesTyped
  <2>n. Goes(w, NextDate(w)) => job' \in [Writer -> GoodJobs]
    BY <2>0, NextDateTyped, GoesTyped
  <2>p. ASSUME NEW pc \in {"shadow", "open", "close", "move", "invalidate",
                           "clean_open", "clean_close"}
        PROVE  Goes(w, [job[w] EXCEPT !.pc = pc]) => job' \in [Writer -> GoodJobs]
    BY <2>0, PlaceTyped, GoesTyped
  <2>1. CASE Prepare(w)
    <3>1. Merge(Final("v1", At(w)).rows, job[w].rows) \in Rows
      BY <1>f, <2>d, <2>j, RowsTyped DEF Jobs, Store
    <3>2. [job[w] EXCEPT !.pc = "shadow",
                         !.frame = Merge(Final("v1", At(w)).rows, job[w].rows)] \in GoodJobs
      BY <2>0, <3>1, PlaceTyped
    <3> QED BY <2>1, <2>r, <3>2, GoesTyped DEF Prepare
  <2>2. CASE ReadShadow(w)
    <3>1. Merge(Final("v2", At(w)).rows, job[w].rows) \in Rows
      BY <1>f, <2>d, <2>j, RowsTyped DEF Jobs, Store
    <3>2. [job[w] EXCEPT !.pc = "open", !.store = "v2",
                !.shadow = Merge(Final("v2", At(w)).rows, job[w].rows)] \in GoodJobs
      BY <2>0, <3>1, PlaceTyped DEF Store
    <3> QED BY <2>2, <3>2, GoesTyped DEF ReadShadow
  <2>3. CASE ShadowRefuses(w) BY <2>3, <2>r DEF ShadowRefuses
  <2>4. CASE OpenTemp(w) BY <2>4, <2>r, <2>p DEF OpenTemp, WriteFails
  <2>5. CASE CloseTemp(w) BY <2>5, <2>r, <2>p DEF CloseTemp, WriteFails
  <2>6. CASE MoveTemp(w)
    <3>1. [job[w] EXCEPT !.pc = "invalidate", !.frame = NoRows] \in GoodJobs
      BY <2>0, <1>n, PlaceTyped
    <3>2. [job[w] EXCEPT !.pc = "open", !.store = "v1", !.shadow = NoRows] \in GoodJobs
      BY <2>0, <1>n, PlaceTyped DEF Store
    <3>3. CASE job[w].store = "v1" BY <2>6, <3>1, <3>3, GoesTyped DEF MoveTemp
    <3>4. CASE job[w].store # "v1" /\ job[w].kind = "write"
      BY <2>6, <3>2, <3>4, GoesTyped DEF MoveTemp
    <3>5. CASE job[w].store # "v1" /\ job[w].kind # "write"
      BY <2>6, <2>n, <3>5 DEF MoveTemp
    <3> QED BY <3>3, <3>4, <3>5
  <2>7. CASE MoveFails(w) BY <2>7, <2>r DEF MoveFails, WriteFails
  <2>8. CASE Invalidate(w) BY <2>8, <2>n DEF Invalidate
  <2>9. CASE FillRead(w)
    <3>1. Final("v1", At(w)).rows \in Rows BY <1>f, <2>d DEF Store
    <3>2. [job[w] EXCEPT !.pc = "shadow", !.rows = Final("v1", At(w)).rows] \in GoodJobs
      BY <2>0, <3>1, PlaceTyped
    <3> QED BY <2>9, <2>n, <3>2, GoesTyped DEF FillRead
  <2>10. CASE CleanRead(w)
    <3>1. Without(Final("v1", At(w)).rows, job[w].drop) \in Rows
      BY <1>f, <2>d, <2>j, RowsTyped DEF Store, Jobs
    <3>2. [job[w] EXCEPT !.pc = "clean_open",
             !.rows = Without(Final("v1", At(w)).rows, job[w].drop)] \in GoodJobs
      BY <2>0, <3>1, PlaceTyped
    <3> QED BY <2>10, <2>n, <2>r, <3>2, GoesTyped DEF CleanRead
  <2>11. CASE CleanOpen(w) BY <2>11, <2>p DEF CleanOpen
  <2>12. CASE CleanClose(w) BY <2>12, <2>p, <2>n DEF CleanClose
  <2>13. CASE CleanFails(w) BY <2>13, <2>r DEF CleanFails
  <2> QED
    BY <1>3, <2>1, <2>2, <2>3, <2>4, <2>5, <2>6, <2>7, <2>8, <2>9, <2>10, <2>11, <2>12, <2>13
    DEF WriterStep
<1>4. ASSUME NEW dead, Crash(dead) PROVE job' \in [Writer -> GoodJobs]
  BY <1>0, <1>4, IdleTyped DEF Crash
<1>5. ASSUME (\E r \in Reader : ListFiles(r) \/ StoreListing(r)) \/ Expire \/ UNCHANGED vars
      PROVE  job' \in [Writer -> GoodJobs]
  BY <1>0, <1>5 DEF ListFiles, StoreListing, Expire, vars
<1> QED BY <1>1, <1>2, <1>3, <1>4, <1>5 DEF Next
\* Every step leaves each file a file.
LEMMA FileTyped ==
  ASSUME TypeOK, [Next]_vars
  PROVE  file' \in [Cells -> Cell]
<1>0. file \in [Cells -> Cell] BY DEF TypeOK, Cells
<1>n. NoFile \in Cell BY RowsTyped DEF NoFile, Cell, FileState
<1>1. ASSUME NEW w \in Writer, WriterStep(w) PROVE file' \in [Cells -> Cell]
  <2>0. \/ UNCHANGED file
        \/ job[w].pc # "idle" /\ (OpenTemp(w) \/ CloseTemp(w) \/ MoveTemp(w) \/ CleanOpen(w)
                                    \/ CleanClose(w) \/ CleanFails(w))
    BY <1>1 DEF WriterStep, Prepare, ReadShadow, ShadowRefuses, OpenTemp, CloseTemp, MoveTemp,
                MoveFails, Invalidate, FillRead, CleanRead, CleanOpen, CleanClose, CleanFails
  <2>1. CASE UNCHANGED file BY <1>0, <2>1
  <2>2. CASE job[w].pc # "idle" /\ (OpenTemp(w) \/ CloseTemp(w) \/ MoveTemp(w) \/ CleanOpen(w)
                                      \/ CleanClose(w) \/ CleanFails(w))
    <3>1. At(w) \in Date BY <2>2, AtLeft
    <3>2. /\ job[w].store \in Store /\ job[w].rows \in Rows /\ job[w].frame \in Rows
          /\ job[w].shadow \in Rows /\ "v1" \in Store
      BY DEF TypeOK, Jobs, Store
    <3>3. /\ <<job[w].store, At(w), "temp">> \in Cells /\ <<job[w].store, At(w), "final">> \in Cells
          /\ <<"v1", At(w), "final">> \in Cells
      BY <3>1, <3>2 DEF Cells
    <3>4. CASE OpenTemp(w)
      BY <1>0, <3>3, <3>4, CellsTyped DEF OpenTemp
    <3>5. CASE CloseTemp(w)
      <4> DEFINE place == IF w \in Temp(job[w].store, At(w)).open THEN "temp" ELSE "final"
                 f == <<job[w].store, At(w), place>>
                 frame == IF job[w].store = "v2" THEN job[w].shadow ELSE job[w].frame
      <4>1. f \in Cells BY <3>1, <3>2 DEF Cells
      <4>2. frame \in Rows BY <3>2
      <4>3. \/ \E new \in Closed(file[f], w, frame) : file' = [file EXCEPT ![f] = new]
            \/ file' = [file EXCEPT ![f] = Torn(file[f], w)]
        BY <3>5 DEF CloseTemp
      <4> HIDE DEF f, frame
      <4>4. Closed(file[f], w, frame) \subseteq Cell /\ Torn(file[f], w) \in Cell
        BY <1>0, <4>1, <4>2, CellsTyped
      <4> QED BY <1>0, <4>1, <4>3, <4>4
    <3>6. CASE MoveTemp(w)
      BY <1>0, <1>n, <3>3, <3>6 DEF MoveTemp, Temp
    <3>7. CASE CleanOpen(w)
      BY <1>0, <3>3, <3>7, CellsTyped DEF CleanOpen
    <3>8. CASE CleanClose(w)
      <4>1. PICK new \in Closed(file[<<"v1", At(w), "final">>], w, job[w].rows) :
              file' = [file EXCEPT ![<<"v1", At(w), "final">>] = new]
        BY <3>8 DEF CleanClose
      <4>2. new \in Cell BY <1>0, <3>2, <3>3, <4>1, CellsTyped
      <4> QED BY <1>0, <3>3, <4>1, <4>2
    <3>9. CASE CleanFails(w)
      <4>1. Torn(file[<<"v1", At(w), "final">>], w) \in Cell BY <1>0, <3>3, CellsTyped
      <4>2. file' = [file EXCEPT ![<<"v1", At(w), "final">>] = Torn(file[<<"v1", At(w), "final">>], w)]
        BY <3>9 DEF CleanFails
      <4> QED BY <1>0, <3>3, <4>1, <4>2
    <3> QED BY <2>2, <3>4, <3>5, <3>6, <3>7, <3>8, <3>9
  <2> QED BY <2>0, <2>1, <2>2
<1>2. ASSUME NEW dead, Crash(dead) PROVE file' \in [Cells -> Cell]
  <2>1. \A f \in Cells : [state |-> IF file[f].open \subseteq dead THEN "torn" ELSE "mixed",
                          rows |-> NoRows, open |-> file[f].open \ dead] \in Cell
    BY <1>0, RowsTyped DEF Cell, FileState
  <2>2. DOMAIN file = Cells BY <1>0
  <2>3. file' = [f \in Cells |->
               IF file[f].open \cap dead = {} THEN file[f]
               ELSE [state |-> IF file[f].open \subseteq dead THEN "torn" ELSE "mixed",
                     rows |-> NoRows, open |-> file[f].open \ dead]]
    BY <1>2, <2>2 DEF Crash
  <2> QED BY <1>0, <2>1, <2>3
<1>3. ASSUME \/ \E w \in Writer : StartWrite(w) \/ StartScript(w)
             \/ \E r \in Reader : ListFiles(r) \/ StoreListing(r)
             \/ Expire \/ UNCHANGED vars
      PROVE  UNCHANGED file
  BY <1>3 DEF StartWrite, StartScript, ListFiles, StoreListing, Expire, vars
<1> QED BY <1>0, <1>1, <1>2, <1>3 DEF Next

\* The locks, the divergence log and what the scripts removed.
LEMMA LockTyped ==
  ASSUME TypeOK, [Next]_vars
  PROVE  lock' \in [Store \X Date -> Writer \cup {NoOne}]
<1> DEFINE Locks == [Store \X Date -> Writer \cup {NoOne}]
<1>0. lock \in Locks BY DEF TypeOK
<1>1. ASSUME NEW w \in Writer, NEW s \in Store, NEW d \in Date, Take(w, s, d) \/ Leave(w, s, d)
      PROVE  lock' \in Locks
  BY <1>0, <1>1 DEF Take, Leave
<1>2. ASSUME NEW w \in Writer, WriterStep(w) PROVE lock' \in Locks
  <2>0. job[w].pc # "idle"
    BY <1>2 DEF WriterStep, Prepare, ReadShadow, ShadowRefuses, OpenTemp, CloseTemp, MoveTemp,
                MoveFails, Invalidate, FillRead, CleanRead, CleanOpen, CleanClose, CleanFails
  <2>1. At(w) \in Date /\ job[w].store \in Store /\ "v1" \in Store /\ "v2" \in Store
    BY <2>0, AtLeft DEF TypeOK, Jobs, Store
  <2>2. Raises(w) => lock' \in Locks BY <2>0, RaisesTyped
  <2>3. CASE Prepare(w) BY <1>1, <2>1, <2>2, <2>3 DEF Prepare
  <2>4. CASE ReadShadow(w) BY <1>1, <2>1, <2>4 DEF ReadShadow
  <2>5. CASE MoveTemp(w) BY <1>1, <2>1, <2>5 DEF MoveTemp
  <2>6. CASE lock' = lock BY <1>0, <2>6
  <2> QED
    BY <1>2, <2>2, <2>3, <2>4, <2>5, <2>6
    DEF WriterStep, ShadowRefuses, OpenTemp, CloseTemp, WriteFails,
        MoveFails, Invalidate, FillRead, CleanRead, CleanOpen, CleanClose, CleanFails
<1>3. ASSUME NEW dead, Crash(dead) PROVE lock' \in Locks
  BY <1>0, <1>3 DEF Crash
<1>4. ASSUME \/ \E w \in Writer : StartWrite(w) \/ StartScript(w)
             \/ \E r \in Reader : ListFiles(r) \/ StoreListing(r)
             \/ Expire \/ UNCHANGED vars
      PROVE  UNCHANGED lock
  BY <1>4 DEF StartWrite, StartScript, ListFiles, StoreListing, Expire, vars
<1> QED BY <1>0, <1>2, <1>3, <1>4 DEF Next
\* Who is between its two commits has a date.
LEMMA HalfDoneAt ==
  ASSUME TypeOK, NEW w \in Writer, HalfDone(w)
  PROVE  job[w].pc # "idle" /\ At(w) \in Date
<1>1. job[w].pc # "idle" BY DEF HalfDone
<1> QED BY <1>1, AtLeft

\* The divergence log and the histories.
LEMMA HistoryTyped ==
  ASSUME TypeOK, [Next]_vars
  PROVE  /\ logged' \in [Date -> SUBSET Symbol] /\ committed' \in [Date -> Rows]
         /\ cleaned' \in [Date -> SUBSET Symbol] /\ overlapped' \subseteq Date
         /\ killed' \subseteq Date /\ returned' \subseteq Date
<1> DEFINE Typed == /\ logged' \in [Date -> SUBSET Symbol] /\ committed' \in [Date -> Rows]
                    /\ cleaned' \in [Date -> SUBSET Symbol] /\ overlapped' \subseteq Date
                    /\ killed' \subseteq Date /\ returned' \subseteq Date
<1>0. /\ logged \in [Date -> SUBSET Symbol] /\ committed \in [Date -> Rows]
      /\ cleaned \in [Date -> SUBSET Symbol] /\ overlapped \subseteq Date
      /\ killed \subseteq Date /\ returned \subseteq Date
  BY DEF TypeOK
<1>1. ASSUME NEW w \in Writer, WriterStep(w) PROVE Typed
  <2>0. job[w].pc # "idle"
    BY <1>1 DEF WriterStep, Prepare, ReadShadow, ShadowRefuses, OpenTemp, CloseTemp, MoveTemp,
                MoveFails, Invalidate, FillRead, CleanRead, CleanOpen, CleanClose, CleanFails
  <2>1. /\ At(w) \in Date /\ job[w].rows \in Rows /\ job[w].drop \in SUBSET Symbol
        /\ job[w] \in Jobs
    BY <2>0, AtLeft DEF TypeOK, Jobs
  <2>2. CASE Prepare(w) \/ FillRead(w) \/ CleanRead(w)
    BY <1>0, <2>1, <2>2 DEF Prepare, FillRead, CleanRead, Overlap
  <2>3. CASE OpenTemp(w) \/ CloseTemp(w) \/ MoveFails(w)
    <3>1. CASE WriteFails(w, 0) \/ WriteFails(w, 1)
      <4>1. \E lost \in {0, 1} : logged' = Logs(w, lost)
        BY <3>1 DEF WriteFails
      <4>2. \A lost \in {0, 1} : Logs(w, lost) \in [Date -> SUBSET Symbol]
        BY <1>0, <2>1 DEF Logs, Present
      <4>3. killed' \subseteq Date BY <1>0, <2>1, <3>1 DEF WriteFails
      <4> QED BY <1>0, <3>1, <4>1, <4>2, <4>3 DEF WriteFails
    <3>2. CASE UNCHANGED <<logged, ghosts>>
      BY <1>0, <3>2 DEF ghosts
    <3> QED BY <2>3, <3>1, <3>2 DEF OpenTemp, CloseTemp, MoveFails
  <2>4. CASE MoveTemp(w)
    <3>1. committed' \in [Date -> Rows]
      <4>1. Merge(committed[At(w)], job[w].rows) \in Rows BY <1>0, <2>1, RowsTyped
      <4> QED BY <1>0, <2>1, <2>4, <4>1 DEF MoveTemp
    <3> QED BY <1>0, <2>4, <3>1 DEF MoveTemp
  <2>5. CASE Invalidate(w) BY <1>0, <2>1, <2>5 DEF Invalidate
  <2>6. CASE CleanClose(w)
    <3>1. committed' \in [Date -> Rows]
      <4>1. Without(committed[At(w)], job[w].drop) \in Rows BY <1>0, <2>1, RowsTyped
      <4> QED BY <1>0, <2>1, <2>6, <4>1 DEF CleanClose
    <3>2. cleaned' \in [Date -> SUBSET Symbol] BY <1>0, <2>1, <2>6 DEF CleanClose
    <3> QED BY <1>0, <2>6, <3>1, <3>2 DEF CleanClose
  <2>7. CASE CleanFails(w) BY <1>0, <2>1, <2>7 DEF CleanFails
  <2>8. CASE UNCHANGED <<logged, ghosts>>
    BY <1>0, <2>8 DEF ghosts
  <2> HIDE DEF Typed
  <2> QED
    BY <1>1, <2>2, <2>3, <2>4, <2>5, <2>6, <2>7, <2>8
    DEF WriterStep, ReadShadow, ShadowRefuses, CleanOpen
<1>2. ASSUME NEW dead \in SUBSET Writer, Crash(dead) PROVE Typed
  <2>1. {At(w) : w \in {x \in dead : HalfDone(x)}} \subseteq Date BY HalfDoneAt
  <2> QED BY <1>0, <1>2, <2>1 DEF Crash
<1>3. ASSUME \/ \E w \in Writer : StartWrite(w) \/ StartScript(w)
             \/ \E r \in Reader : ListFiles(r) \/ StoreListing(r)
             \/ Expire \/ UNCHANGED vars
      PROVE  Typed
  <2>1. UNCHANGED <<logged, ghosts>>
    BY <1>3 DEF StartWrite, StartScript, ListFiles, StoreListing, Expire, vars, ghosts
  <2> QED BY <1>0, <2>1 DEF ghosts
<1> HIDE DEF Typed
<1>4. Thread \in SUBSET Writer /\ \A w \in Script : {w} \in SUBSET Writer BY DEF Writer
<1>5. Typed BY <1>1, <1>2, <1>3, <1>4 DEF Next
<1> QED BY <1>5 DEF Typed

\* The cached listing and who reads it.
LEMMA ListingTyped ==
  ASSUME TypeOK, [Next]_vars
  PROVE  /\ listing' \in [known : BOOLEAN, files : SUBSET Date, late : SUBSET Date]
         /\ reader' \in [Reader -> [pc : {"idle", "store"}, seen : SUBSET Date,
                                    missed : SUBSET Date]]
<1> DEFINE Listings == [known : BOOLEAN, files : SUBSET Date, late : SUBSET Date]
           Calls == [pc : {"idle", "store"}, seen : SUBSET Date, missed : SUBSET Date]
           Typed == listing' \in Listings /\ reader' \in [Reader -> Calls]
<1>0. listing \in Listings /\ reader \in [Reader -> Calls] BY DEF TypeOK
<1>n. Dropped \in Listings /\ NoReader \in Calls BY DEF Dropped, NoReader
<1>1. ASSUME NEW w \in Writer, Invalidate(w) PROVE Typed
  <2>1. At(w) \in Date BY <1>1, AtLeft DEF Invalidate
  <2>2. listing' \in Listings BY <1>0, <1>n, <1>1 DEF Invalidate
  <2>3. \A r \in Reader : [reader[r] EXCEPT !.missed = reader[r].missed \cup {At(w)}] \in Calls
    BY <1>0, <2>1
  <2>4. reader' \in [Reader -> Calls] BY <1>0, <1>1, <2>3 DEF Invalidate
  <2> QED BY <2>2, <2>4
<1>2. ASSUME NEW r \in Reader, ListFiles(r) PROVE Typed
  <2>1. PICK short \in SUBSET {d \in Date : Unreadable(Final("v1", d))} :
       reader' = [reader EXCEPT ![r] =
         [pc |-> "store",
          seen |-> {d \in Date \ short : Final("v1", d).state # "none"},
          missed |-> short]]
    BY <1>2 DEF ListFiles
  <2>2. reader' \in [Reader -> Calls] BY <1>0, <2>1
  <2> QED BY <1>0, <1>2, <2>2 DEF ListFiles
<1>3. ASSUME NEW r \in Reader, StoreListing(r) PROVE Typed
  <2>1. reader' \in [Reader -> Calls] BY <1>0, <1>n, <1>3 DEF StoreListing
  <2>2. listing' \in Listings BY <1>0, <1>3 DEF StoreListing
  <2> QED BY <2>1, <2>2
<1>4. ASSUME Expire \/ \E dead : Crash(dead) PROVE Typed
  <2>1. listing' \in Listings BY <1>0, <1>n, <1>4 DEF Expire, Crash
  <2>2. reader' \in [Reader -> Calls] BY <1>0, <1>n, <1>4 DEF Expire, Crash
  <2> QED BY <2>1, <2>2
<1>5. ASSUME \/ \E w \in Writer : StartWrite(w) \/ StartScript(w) \/ (WriterStep(w) /\ ~Invalidate(w))
             \/ UNCHANGED vars
      PROVE  Typed
  <2>1. UNCHANGED <<listing, reader>>
    BY <1>5 DEF StartWrite, StartScript, vars, WriterStep, Prepare, ReadShadow, ShadowRefuses,
                OpenTemp, CloseTemp, WriteFails, MoveTemp, MoveFails, FillRead, CleanRead,
                CleanOpen, CleanClose, CleanFails
  <2> QED BY <1>0, <2>1
<1> HIDE DEF Typed
<1>6. Typed BY <1>1, <1>2, <1>3, <1>4, <1>5 DEF Next
<1> QED BY <1>6 DEF Typed

\* The counters stay within their bounds.
LEMMA UsedTyped ==
  ASSUME TypeOK, [Next]_vars
  PROVE  used' \in [batches : 1 .. MaxBatches + 1, faults : 0 .. MaxFaults,
                    crashes : 0 .. MaxCrashes]
<1> DEFINE Counts == [batches : 1 .. MaxBatches + 1, faults : 0 .. MaxFaults,
                      crashes : 0 .. MaxCrashes]
<1>0. used \in Counts BY DEF TypeOK
<1>b. MaxBatches \in Nat /\ MaxFaults \in Nat /\ MaxCrashes \in Nat BY LakeBoundsAssumption
<1>1. ASSUME NEW w \in Writer, StartWrite(w) \/ StartScript(w) PROVE used' \in Counts
  <2>1. used.batches <= MaxBatches /\ used' = [used EXCEPT !.batches = used.batches + 1]
    BY <1>1 DEF StartWrite, StartScript
  <2> QED BY <1>0, <1>b, <2>1
<1>2. ASSUME NEW dead, Crash(dead) PROVE used' \in Counts
  <2>1. used.crashes < MaxCrashes /\ used' = [used EXCEPT !.crashes = used.crashes + 1]
    BY <1>2 DEF Crash
  <2> QED BY <1>0, <1>b, <2>1
<1>3. ASSUME NEW w \in Writer, WriterStep(w) PROVE used' \in Counts
  <2>1. CASE ShadowRefuses(w) \/ CleanFails(w)
    <3>1. used' = used \/ (used.faults < MaxFaults /\ used' = [used EXCEPT !.faults = used.faults + 1])
      BY <2>1 DEF ShadowRefuses, CleanFails
    <3> QED BY <1>0, <1>b, <3>1
  <2>2. ASSUME NEW n \in {0, 1}, WriteFails(w, n) PROVE used' \in Counts
    <3>1. PICK lost \in {0, 1} :
             /\ used.faults + n + lost <= MaxFaults
             /\ used' = [used EXCEPT !.faults = used.faults + n + lost]
      BY <2>2 DEF WriteFails
    <3>2. used.faults + n + lost \in 0 .. MaxFaults BY <1>0, <1>b, <3>1
    <3> QED BY <1>0, <3>1, <3>2
  <2>3. CASE used' = used BY <1>0, <2>3
  <2> QED
    BY <1>3, <2>1, <2>2, <2>3
    DEF WriterStep, Prepare, ReadShadow, OpenTemp, CloseTemp, MoveTemp, MoveFails, Invalidate,
        FillRead, CleanRead, CleanOpen, CleanClose
<1>4. ASSUME \/ \E r \in Reader : ListFiles(r) \/ StoreListing(r)
             \/ Expire \/ UNCHANGED vars
      PROVE  used' = used
  BY <1>4 DEF ListFiles, StoreListing, Expire, vars
<1> QED BY <1>0, <1>1, <1>2, <1>3, <1>4 DEF Next

LEMMA TypeInit == Init => TypeOK
<1> SUFFICES ASSUME Init PROVE TypeOK OBVIOUS
<1>1. PICK old \in SUBSET Symbol, d \in Date :
       LET legacy == [s \in Symbol |-> IF s \in old THEN Legacy ELSE NoRow] IN
       /\ file = [f \in Store \X Date \X {"final", "temp"} |->
                   IF old # {} /\ f = <<"v1", d, "final">>
                   THEN [state |-> "ok", rows |-> legacy, open |-> {}]
                   ELSE NoFile]
       /\ committed = [e \in Date |-> IF e = d THEN legacy ELSE NoRows]
  BY DEF Init
<1> DEFINE legacy == [s \in Symbol |-> IF s \in old THEN Legacy ELSE NoRow]
<1>2. legacy \in Rows BY LakeBoundsAssumption DEF Rows, Batch, Legacy, NoRow
<1>3. NoRows \in Rows /\ Idle \in GoodJobs BY RowsTyped, IdleTyped
<1> HIDE DEF legacy
<1>4. [state |-> "ok", rows |-> legacy, open |-> {}] \in Cell /\ NoFile \in Cell
  BY <1>2, <1>3 DEF Cell, FileState, NoFile
<1>5. file \in [Cells -> Cell] BY <1>1, <1>4 DEF legacy, Cells
<1>6. committed \in [Date -> Rows] BY <1>1, <1>2, <1>3 DEF legacy
<1>7. job \in [Writer -> GoodJobs] BY <1>3 DEF Init
<1>8. used \in [batches : 1 .. MaxBatches + 1, faults : 0 .. MaxFaults, crashes : 0 .. MaxCrashes]
  BY LakeBoundsAssumption DEF Init, Legacy
<1>9. /\ lock \in [Store \X Date -> Writer \cup {NoOne}]
      /\ logged \in [Date -> SUBSET Symbol] /\ cleaned \in [Date -> SUBSET Symbol]
      /\ overlapped \subseteq Date /\ killed \subseteq Date /\ returned \subseteq Date
  BY DEF Init
<1>10. /\ listing \in [known : BOOLEAN, files : SUBSET Date, late : SUBSET Date]
       /\ reader \in [Reader -> [pc : {"idle", "store"}, seen : SUBSET Date, missed : SUBSET Date]]
  BY DEF Init, Dropped, NoReader
<1> QED BY <1>5, <1>6, <1>7, <1>8, <1>9, <1>10 DEF TypeOK, Cells, GoodJobs

LEMMA TypeStep == TypeOK /\ [Next]_vars => TypeOK'
<1> SUFFICES ASSUME TypeOK, [Next]_vars PROVE TypeOK' OBVIOUS
<1>1. job' \in [Writer -> GoodJobs] /\ file' \in [Cells -> Cell] BY JobTyped, FileTyped
<1>2. lock' \in [Store \X Date -> Writer \cup {NoOne}] BY LockTyped
<1>3. /\ logged' \in [Date -> SUBSET Symbol] /\ committed' \in [Date -> Rows]
      /\ cleaned' \in [Date -> SUBSET Symbol] /\ overlapped' \subseteq Date
      /\ killed' \subseteq Date /\ returned' \subseteq Date
  BY HistoryTyped
<1>4. /\ listing' \in [known : BOOLEAN, files : SUBSET Date, late : SUBSET Date]
      /\ reader' \in [Reader -> [pc : {"idle", "store"}, seen : SUBSET Date,
                                 missed : SUBSET Date]]
  BY ListingTyped
<1>5. used' \in [batches : 1 .. MaxBatches + 1, faults : 0 .. MaxFaults,
                 crashes : 0 .. MaxCrashes]
  BY UsedTyped
<1> QED BY <1>1, <1>2, <1>3, <1>4, <1>5 DEF TypeOK, Cells, GoodJobs

\* Every part of the lake's state always has its type.
THEOREM LakeTypeCorrect == Spec => []TypeOK
<1> QED BY TypeInit, TypeStep, PTL DEF Spec
----------------------------------------------------------------------------
(* The listing.                                                            *)

\* A date whose write has returned has its partition, and a listing that lacks
\* it knows that it may.
ListInv ==
  /\ \A d \in returned : Final("v1", d).state # "none"
  /\ \A w \in Writer : job[w].pc = "invalidate" => Final("v1", At(w)).state # "none"
  /\ \A r \in Reader : reader[r].pc = "store" => returned \ reader[r].seen \subseteq reader[r].missed
  /\ listing.known => returned \ listing.files \subseteq listing.late

\* The first date of a set, whatever set it is.
FirstOf(S) == CHOOSE d \in S : \A e \in S : d <= e

LEMMA AtIsFirst == \A w \in Writer : At(w) = FirstOf(job[w].todo)
BY Zenon DEF At, FirstOf

LEMMA AtNext == \A w \in Writer : At(w)' = FirstOf(job'[w].todo)
BY Zenon DEF At, FirstOf

\* No step takes a partition away.
LEMMA FinalStays ==
  ASSUME TypeOK, [Next]_vars, NEW d \in Date, Final("v1", d).state # "none"
  PROVE  Final("v1", d)'.state # "none"
<1> DEFINE c == <<"v1", d, "final">>
<1>0. file \in [Cells -> Cell] /\ c \in Cells BY DEF TypeOK, Cells, Store
<1>1. file[c].state # "none" BY DEF Final
<1> HIDE DEF c
<1>2. ASSUME NEW f \in Cells, NEW v, file' = [file EXCEPT ![f] = v],
             v.state # "none" \/ v.state = file[f].state
      PROVE  file'[c].state # "none"
  BY <1>0, <1>1, <1>2
<1>3. ASSUME NEW w \in Writer, WriterStep(w) PROVE file'[c].state # "none"
  <2>0. \/ UNCHANGED file
        \/ job[w].pc # "idle" /\ (OpenTemp(w) \/ CloseTemp(w) \/ MoveTemp(w) \/ CleanOpen(w)
                                    \/ CleanClose(w) \/ CleanFails(w))
    BY <1>3 DEF WriterStep, Prepare, ReadShadow, ShadowRefuses, OpenTemp, CloseTemp, MoveTemp,
                MoveFails, Invalidate, FillRead, CleanRead, CleanOpen, CleanClose, CleanFails
  <2>1. CASE UNCHANGED file BY <1>1, <2>1
  <2>2. CASE job[w].pc # "idle" /\ (OpenTemp(w) \/ CloseTemp(w) \/ MoveTemp(w) \/ CleanOpen(w)
                                      \/ CleanClose(w) \/ CleanFails(w))
    <3>1. At(w) \in Date /\ job[w].store \in Store BY <2>2, AtLeft DEF TypeOK, Jobs
    <3>3. /\ <<job[w].store, At(w), "temp">> \in Cells /\ <<job[w].store, At(w), "final">> \in Cells
          /\ <<"v1", At(w), "final">> \in Cells
      BY <3>1 DEF Cells, Store
    <3>c. \A f \in Cells, rows \in Rows : \A new \in Closed(file[f], w, rows) :
            new.state # "none" \/ new.state = file[f].state
      BY <1>0 DEF Closed, Cell
    <3>t. \A f \in Cells : Torn(file[f], w).state # "none" \/ Torn(file[f], w).state = file[f].state
      BY DEF Torn
    <3>r. job[w].rows \in Rows /\ job[w].shadow \in Rows /\ job[w].frame \in Rows
      BY DEF TypeOK, Jobs
    <3>4. CASE OpenTemp(w)
      BY <1>0, <1>1, <1>2, <3>3, <3>4 DEF OpenTemp
    <3>5. CASE CloseTemp(w)
      <4> DEFINE place == IF w \in Temp(job[w].store, At(w)).open THEN "temp" ELSE "final"
                 f == <<job[w].store, At(w), place>>
                 frame == IF job[w].store = "v2" THEN job[w].shadow ELSE job[w].frame
      <4>1. f \in Cells BY <3>1 DEF Cells
      <4>2. frame \in Rows BY <3>r
      <4>3. \/ \E new \in Closed(file[f], w, frame) : file' = [file EXCEPT ![f] = new]
            \/ file' = [file EXCEPT ![f] = Torn(file[f], w)]
        BY <3>5 DEF CloseTemp
      <4> HIDE DEF f, frame
      <4> QED BY <1>2, <3>c, <3>t, <4>1, <4>2, <4>3
    <3>6. CASE MoveTemp(w)
      BY <1>0, <1>1, <3>3, <3>6 DEF MoveTemp, Temp, c
    <3>7. CASE CleanOpen(w)
      BY <1>0, <1>1, <1>2, <3>3, <3>7 DEF CleanOpen
    <3>8. CASE CleanClose(w)
      BY <1>2, <3>3, <3>8, <3>c, <3>r DEF CleanClose
    <3>9. CASE CleanFails(w)
      BY <1>2, <3>3, <3>9, <3>t DEF CleanFails
    <3> QED BY <2>2, <3>4, <3>5, <3>6, <3>7, <3>8, <3>9
  <2> QED BY <2>0, <2>1, <2>2
<1>4. ASSUME NEW dead, Crash(dead) PROVE file'[c].state # "none"
  BY <1>0, <1>1, <1>4 DEF Crash
<1>5. ASSUME \/ \E w \in Writer : StartWrite(w) \/ StartScript(w)
             \/ \E r \in Reader : ListFiles(r) \/ StoreListing(r)
             \/ Expire \/ UNCHANGED vars
      PROVE  UNCHANGED file
  BY <1>5 DEF StartWrite, StartScript, ListFiles, StoreListing, Expire, vars
<1>6. file'[c].state # "none" BY <1>1, <1>3, <1>4, <1>5 DEF Next
<1> QED BY <1>6 DEF c, Final
\* The places from the first read of a date to the last rename.
WorkPlaces == {"shadow", "open", "close", "move", "clean_open", "clean_close"}

\* A call that goes on to its next date, or ends, is at no partition.
LEMMA NextDatePlace ==
  ASSUME TypeOK, NEW w \in Writer
  PROVE  /\ NextDate(w).pc \in {"idle", "prepare", "clean_read", "fill_read"}
         /\ Idle.pc = "idle"
         /\ Raises(w) => job'[w].pc \in {"idle", "prepare", "clean_read", "fill_read"}
<1>1. job[w] \in Jobs BY DEF TypeOK
<1>2. First(job[w].kind) \in {"prepare", "clean_read", "fill_read"}
  BY <1>1, FirstTyped DEF Jobs
<1>3. NextDate(w).pc \in {"idle", "prepare", "clean_read", "fill_read"}
  BY <1>1, <1>2 DEF NextDate, Idle, Jobs
<1>4. Idle.pc = "idle" BY DEF Idle
<1>5. Raises(w) => job'[w].pc \in {"idle", "prepare", "clean_read", "fill_read"}
  BY <1>3, <1>4 DEF Raises, Goes, TypeOK
<1> QED BY <1>3, <1>4, <1>5

\* A writer's step moves nobody else, and it only leaves its date for the
\* beginning of another one.
LEMMA StepShape ==
  ASSUME TypeOK, NEW w \in Writer, WriterStep(w)
  PROVE  /\ job[w].pc # "idle"
         /\ \A x \in Writer \ {w} : job'[x] = job[x]
         /\ \/ job'[w].todo = job[w].todo
            \/ job'[w].pc \in {"idle", "prepare", "clean_read", "fill_read"}
         /\ job'[w].pc = "invalidate" => MoveTemp(w) /\ job[w].store = "v1"
<1>0. job[w].pc # "idle"
  BY DEF WriterStep, Prepare, ReadShadow, ShadowRefuses, OpenTemp, CloseTemp, MoveTemp,
         MoveFails, Invalidate, FillRead, CleanRead, CleanOpen, CleanClose, CleanFails
<1>j. job[w] \in Jobs /\ job \in [Writer -> Jobs] BY DEF TypeOK
<1>1. \A x \in Writer \ {w} : job'[x] = job[x]
  BY DEF TypeOK, Goes, Raises, WriteFails, WriterStep, Prepare, ReadShadow, ShadowRefuses,
         OpenTemp, CloseTemp, MoveTemp, MoveFails, Invalidate, FillRead, CleanRead,
         CleanOpen, CleanClose, CleanFails
<1> DEFINE Good == /\ \/ job'[w].todo = job[w].todo
                      \/ job'[w].pc \in {"idle", "prepare", "clean_read", "fill_read"}
                   /\ job'[w].pc = "invalidate" => MoveTemp(w) /\ job[w].store = "v1"
<1>r. Raises(w) \/ Goes(w, NextDate(w)) => Good
  BY <1>j, NextDatePlace DEF Goes
<1>p. ASSUME NEW pc \in WorkPlaces, NEW rows, NEW s,
             \/ Goes(w, [job[w] EXCEPT !.pc = pc])
             \/ Goes(w, [job[w] EXCEPT !.pc = pc, !.frame = rows])
             \/ Goes(w, [job[w] EXCEPT !.pc = pc, !.rows = rows])
             \/ Goes(w, [job[w] EXCEPT !.pc = pc, !.store = s, !.shadow = rows])
      PROVE  Good
  BY <1>j, <1>p DEF Goes, Jobs, WorkPlaces
<1>w. \A pc \in {"shadow", "open", "close", "move", "clean_open", "clean_close"} : pc \in WorkPlaces
  BY DEF WorkPlaces
<1> HIDE DEF Good
<1>2. ASSUME Prepare(w) PROVE Good
  BY <1>r, <1>p, <1>w, <1>2 DEF Prepare
<1>3. ASSUME ReadShadow(w) PROVE Good
  BY <1>p, <1>w, <1>3 DEF ReadShadow
<1>4. ASSUME ShadowRefuses(w) PROVE Good
  BY <1>r, <1>4 DEF ShadowRefuses
<1>5. ASSUME OpenTemp(w) PROVE Good
  BY <1>r, <1>p, <1>w, <1>5 DEF OpenTemp, WriteFails
<1>6. ASSUME CloseTemp(w) PROVE Good
  BY <1>r, <1>p, <1>w, <1>6 DEF CloseTemp, WriteFails
<1>7. ASSUME MoveTemp(w) PROVE Good
  <2>1. CASE job[w].store = "v1"
    <3>1. job'[w] = [job[w] EXCEPT !.pc = "invalidate", !.frame = NoRows]
      BY <1>7, <1>j, <2>1 DEF MoveTemp, Goes
    <3>2. job'[w].todo = job[w].todo BY <3>1, <1>j DEF Jobs
    <3>3. job'[w].pc = "invalidate" BY <3>1, <1>j DEF Jobs
    <3> QED BY <1>7, <2>1, <3>2 DEF Good
  <2>2. CASE job[w].store # "v1" /\ job[w].kind = "write"
    <3>1. Goes(w, [job[w] EXCEPT !.pc = "open", !.store = "v1", !.shadow = NoRows])
      BY <1>7, <2>2 DEF MoveTemp
    <3> QED BY <1>p, <1>w, <3>1
  <2>3. CASE job[w].store # "v1" /\ job[w].kind # "write"
    BY <1>7, <1>r, <2>3 DEF MoveTemp
  <2> QED BY <2>1, <2>2, <2>3
<1>8. ASSUME MoveFails(w) PROVE Good
  BY <1>r, <1>8 DEF MoveFails, WriteFails
<1>9. ASSUME Invalidate(w) PROVE Good
  BY <1>r, <1>9 DEF Invalidate
<1>10. ASSUME FillRead(w) PROVE Good
  BY <1>r, <1>p, <1>w, <1>10 DEF FillRead
<1>11. ASSUME CleanRead(w) PROVE Good
  BY <1>r, <1>p, <1>w, <1>11 DEF CleanRead
<1>12. ASSUME CleanOpen(w) PROVE Good
  BY <1>p, <1>w, <1>12 DEF CleanOpen
<1>13. ASSUME CleanClose(w) PROVE Good
  BY <1>r, <1>p, <1>w, <1>13 DEF CleanClose
<1>14. ASSUME CleanFails(w) PROVE Good
  BY <1>r, <1>14 DEF CleanFails
<1>15. Good
  BY <1>2, <1>3, <1>4, <1>5, <1>6, <1>7, <1>8, <1>9, <1>10, <1>11, <1>12, <1>13, <1>14
  DEF WriterStep
<1> QED BY <1>0, <1>1, <1>15, Zenon DEF Good

\* A call begins at the beginning of its first date.
LEMMA StartShape ==
  ASSUME TypeOK, NEW w \in Writer, StartWrite(w) \/ StartScript(w)
  PROVE  /\ job[w].pc = "idle"
         /\ \A x \in Writer \ {w} : job'[x] = job[x]
         /\ \/ job'[w].pc = "prepare" /\ job'[w].kind = "write"
            \/ job'[w].pc = "fill_read" /\ job'[w].kind = "fill" /\ w \in Script
            \/ job'[w].pc = "clean_read" /\ job'[w].kind = "clean" /\ w \in Script
<1>1. job[w].pc = "idle" /\ \A x \in Writer \ {w} : job'[x] = job[x]
  BY DEF StartWrite, StartScript, Goes, TypeOK
<1>2. CASE StartWrite(w)
  <2> PICK dates \in (SUBSET Date) \ {{}}, symbols \in (SUBSET Symbol) \ {{}} :
             Goes(w, [Idle EXCEPT !.pc = "prepare", !.todo = dates,
                        !.rows = [s \in Symbol |-> IF s \in symbols
                                                   THEN used.batches + 1 ELSE NoRow]])
    BY <1>2 DEF StartWrite
  <2> DEFINE rows == [s \in Symbol |-> IF s \in symbols
                                       THEN used.batches + 1 ELSE NoRow]
  <2>1. Goes(w, [Idle EXCEPT !.pc = "prepare", !.todo = dates, !.rows = rows])
    OBVIOUS
  <2> HIDE DEF rows
  <2>2. job'[w].pc = "prepare" /\ job'[w].kind = "write"
    BY <2>1 DEF Goes, Idle, TypeOK
  <2> QED BY <1>1, <2>2
<1>3. CASE StartScript(w)
  <2> DEFINE dates == {d \in Date : Final("v1", d).state # "none"}
  <2>1. \/ Goes(w, [Idle EXCEPT !.pc = "fill_read", !.kind = "fill", !.todo = dates])
        \/ \E drop \in (SUBSET Symbol) \ {{}} :
             Goes(w, [Idle EXCEPT !.pc = "clean_read", !.kind = "clean",
                                  !.todo = dates, !.drop = drop])
    BY <1>3 DEF StartScript
  <2> HIDE DEF dates
  <2>2. ASSUME Goes(w, [Idle EXCEPT !.pc = "fill_read", !.kind = "fill", !.todo = dates])
        PROVE  job'[w].pc = "fill_read" /\ job'[w].kind = "fill"
    BY <2>2 DEF Goes, Idle, TypeOK
  <2>3. ASSUME NEW drop,
               Goes(w, [Idle EXCEPT !.pc = "clean_read", !.kind = "clean",
                                    !.todo = dates, !.drop = drop])
        PROVE  job'[w].pc = "clean_read" /\ job'[w].kind = "clean"
    BY <2>3 DEF Goes, Idle, TypeOK
  <2>4. w \in Script BY <1>3 DEF StartScript
  <2> QED BY <1>1, <2>1, <2>2, <2>3, <2>4
<1> QED BY <1>2, <1>3

\* The listing's invariant.
LEMMA ListStep ==
  ASSUME TypeOK, ListInv, [Next]_vars
  PROVE  ListInv'
<1>t. returned \subseteq Date BY DEF TypeOK
<1>1. \A w \in Writer : job'[w].pc = "invalidate" => Final("v1", At(w))'.state # "none"
  <2> SUFFICES ASSUME NEW w \in Writer, job'[w].pc = "invalidate"
               PROVE  Final("v1", At(w))'.state # "none"
    OBVIOUS
  <2>0. At(w)' = FirstOf(job'[w].todo) /\ At(w) = FirstOf(job[w].todo)
    BY AtNext, AtIsFirst
  <2>k. ASSUME job'[w] = job[w] PROVE Final("v1", At(w))'.state # "none"
    <3>1. At(w) \in Date BY <2>k, AtLeft
    <3>2. Final("v1", At(w)).state # "none" BY <2>k DEF ListInv
    <3>3. \A d \in Date : Final("v1", d).state # "none" => Final("v1", d)'.state # "none"
      BY FinalStays
    <3>4. file'[<<"v1", At(w), "final">>].state # "none" BY <3>1, <3>2, <3>3 DEF Final
    <3>5. At(w)' = At(w) BY <2>0, <2>k
    <3> QED BY <3>4, <3>5 DEF Final
  <2>1. CASE WriterStep(w)
    <3>1. MoveTemp(w) /\ job[w].store = "v1" BY <2>1, StepShape
    <3>2. job'[w].todo = job[w].todo BY <2>1, StepShape
    <3>3. At(w) \in Date /\ <<"v1", At(w), "final">> \in Cells /\ <<"v1", At(w), "temp">> \in Cells
      BY <3>1, AtLeft DEF MoveTemp, Cells, Store
    <3>4. file'[<<"v1", At(w), "final">>] = Temp("v1", At(w))
      BY <3>1, <3>3 DEF MoveTemp, TypeOK, Cells
    <3>5. At(w)' = At(w) BY <2>0, <3>2
    <3>6. Final("v1", At(w))' = file'[<<"v1", At(w)', "final">>] BY DEF Final
    <3> QED BY <3>1, <3>4, <3>5, <3>6 DEF MoveTemp
  <2>2. CASE StartWrite(w) \/ StartScript(w)
    <3>1. job'[w].pc # "invalidate" BY <2>2, StartShape
    <3> QED BY <3>1
  <2>3. ASSUME NEW x \in Writer \ {w}, StartWrite(x) \/ StartScript(x) \/ WriterStep(x)
        PROVE  job'[w] = job[w]
    BY <2>3, StepShape DEF StartWrite, StartScript, Goes, TypeOK
  <2>4. ASSUME NEW dead, Crash(dead) PROVE job'[w] = job[w] \/ job'[w].pc = "idle"
    BY <2>4 DEF Crash, Idle
  <2>5. ASSUME (\E r \in Reader : ListFiles(r) \/ StoreListing(r)) \/ Expire \/ UNCHANGED vars
        PROVE  job' = job
    BY <2>5 DEF ListFiles, StoreListing, Expire, vars
  <2> QED BY <2>k, <2>1, <2>2, <2>3, <2>4, <2>5 DEF Next
<1>2. \A d \in Date : Final("v1", d).state # "none" => Final("v1", d)'.state # "none"
  BY FinalStays
<1> DEFINE Rest == /\ \A d \in returned' : Final("v1", d)'.state # "none"
                   /\ \A r \in Reader : reader'[r].pc = "store" => returned' \ reader'[r].seen \subseteq reader'[r].missed
                   /\ listing'.known => returned' \ listing'.files \subseteq listing'.late
<1>3. ASSUME UNCHANGED <<returned, reader, listing>> PROVE Rest
  BY <1>t, <1>2, <1>3 DEF ListInv
<1>4. ASSUME NEW w \in Writer, Invalidate(w) PROVE Rest
  <2>1. At(w) \in Date /\ Final("v1", At(w)).state # "none"
    BY <1>4, AtLeft DEF Invalidate, ListInv
  <2>2. returned' = returned \/ returned' = returned \cup {At(w)}
    BY <1>4 DEF Invalidate
  <2>3. \A d \in returned' : Final("v1", d)'.state # "none"
    BY <1>t, <1>2, <2>1, <2>2 DEF ListInv
  <2>4. ASSUME w \in Thread PROVE Rest
    <3>1. listing' = Dropped /\ returned' = returned \cup {At(w)}
      BY <1>4, <2>4 DEF Invalidate
    <3>2. ASSUME NEW r \in Reader, reader'[r].pc = "store"
          PROVE  returned' \ reader'[r].seen \subseteq reader'[r].missed
      <4>1. reader'[r] = IF reader[r].pc = "store"
                         THEN [reader[r] EXCEPT !.missed = reader[r].missed \cup {At(w)}]
                         ELSE reader[r]
        BY <1>4, <2>4 DEF Invalidate
      <4>2. reader[r].pc = "store" BY <3>2, <4>1
      <4>3. /\ reader'[r].seen = reader[r].seen
            /\ reader'[r].missed = reader[r].missed \cup {At(w)}
        BY <4>1, <4>2 DEF TypeOK
      <4> QED BY <3>1, <4>2, <4>3 DEF ListInv
    <3> QED BY <2>3, <3>1, <3>2 DEF Dropped
  <2>5. ASSUME w \notin Thread PROVE Rest
    BY <1>3, <1>4, <2>5 DEF Invalidate
  <2> QED BY <2>4, <2>5
<1>5. ASSUME NEW q \in Reader, ListFiles(q) PROVE Rest
  <2>1. PICK short \in SUBSET {d \in Date : Unreadable(Final("v1", d))} :
       reader' = [reader EXCEPT ![q] =
         [pc |-> "store",
          seen |-> {d \in Date \ short : Final("v1", d).state # "none"},
          missed |-> short]]
    BY <1>5 DEF ListFiles
  <2>2. UNCHANGED <<returned, listing, file>> BY <1>5 DEF ListFiles, ghosts
  <2>3. returned \ {d \in Date \ short : Final("v1", d).state # "none"} \subseteq short
    BY <1>t DEF ListInv
  <2>4. \A r \in Reader : reader'[r].pc = "store" => returned' \ reader'[r].seen \subseteq reader'[r].missed
    BY <2>1, <2>2, <2>3 DEF ListInv, TypeOK
  <2>5. \A d \in returned' : Final("v1", d)'.state # "none"
    BY <1>t, <1>2, <2>2 DEF ListInv
  <2> QED BY <2>2, <2>4, <2>5 DEF ListInv
<1>6. ASSUME NEW q \in Reader, StoreListing(q) PROVE Rest
  <2>1. /\ returned' = returned /\ reader[q].pc = "store"
        /\ listing' = [known |-> TRUE, files |-> reader[q].seen, late |-> reader[q].missed]
        /\ reader' = [reader EXCEPT ![q] = NoReader]
    BY <1>6 DEF StoreListing, ghosts
  <2>2. \A d \in returned' : Final("v1", d)'.state # "none"
    BY <1>t, <1>2, <2>1 DEF ListInv
  <2>3. listing'.known => returned' \ listing'.files \subseteq listing'.late
    BY <2>1 DEF ListInv
  <2>4. \A r \in Reader : reader'[r].pc = "store" => returned' \ reader'[r].seen \subseteq reader'[r].missed
    BY <2>1 DEF ListInv, TypeOK, NoReader
  <2> QED BY <2>2, <2>3, <2>4
<1>7. ASSUME Expire \/ \E dead : Crash(dead) PROVE Rest
  <2>1. /\ returned' = returned
        /\ listing' = listing \/ listing' = Dropped
        /\ reader' = reader \/ reader' = [r \in Reader |-> NoReader]
    BY <1>7 DEF Expire, Crash, ghosts
  <2>2. \A d \in returned' : Final("v1", d)'.state # "none"
    BY <1>t, <1>2, <2>1 DEF ListInv
  <2>3. listing'.known => returned' \ listing'.files \subseteq listing'.late
    BY <2>1 DEF ListInv, Dropped
  <2>4. \A r \in Reader : reader'[r].pc = "store" => returned' \ reader'[r].seen \subseteq reader'[r].missed
    BY <2>1 DEF ListInv, NoReader
  <2> QED BY <2>2, <2>3, <2>4
<1>8. ASSUME \/ \E w \in Writer : StartWrite(w) \/ StartScript(w) \/ (WriterStep(w) /\ ~Invalidate(w))
             \/ UNCHANGED vars
      PROVE  UNCHANGED <<returned, reader, listing>>
  BY <1>8 DEF StartWrite, StartScript, vars, ghosts, WriterStep, Prepare, ReadShadow, ShadowRefuses,
              OpenTemp, CloseTemp, WriteFails, MoveTemp, MoveFails, FillRead, CleanRead,
              CleanOpen, CleanClose, CleanFails
<1> HIDE DEF Rest
<1>9. Rest BY <1>3, <1>4, <1>5, <1>6, <1>7, <1>8 DEF Next
<1> QED BY <1>1, <1>9 DEF Rest, ListInv

\* A listing served from the cache lacks a returned date only if the listing
\* was taken before the write dropped the cache, or met an incomplete file.
THEOREM ListingsFresh == Spec => []ListingFresh
<1>1. Init => ListInv BY DEF Init, ListInv, Idle, Dropped, NoReader
<1>2. TypeOK /\ ListInv /\ [Next]_vars => ListInv' BY ListStep
<1>3. ListInv => ListingFresh BY DEF ListInv, ListingFresh
<1> QED BY <1>1, <1>2, <1>3, TypeInit, TypeStep, PTL DEF Spec
----------------------------------------------------------------------------
(* Who works on a date.                                                    *)

\* A call is at a partition, or has v1 left to write after the shadow.
Works(j, d) == j.pc \in WorkPlaces /\ d = FirstOf(j.todo)
HalfWritten(j) ==
  j.kind = "write" /\ j.store = "v1" /\ j.pc \in {"open", "close", "move"}

\* Each kind of call is at places of its own, and a thread only writes.
KindOK(w, j) ==
  /\ w \in Thread => j.kind = "write"
  /\ j.pc \in {"prepare", "invalidate"} => j.kind = "write"
  /\ j.pc \in {"clean_read", "clean_open", "clean_close"} => j.kind = "clean"
  /\ j.pc = "fill_read" => j.kind = "fill"
  /\ j.pc \in {"open", "close", "move"} /\ j.store = "v1" => j.kind = "write"

\* A thread at a partition holds the lock of its v1 file.
HoldsLock(w) ==
  w \in Thread /\ job[w].pc \in WorkPlaces => lock[<<"v1", FirstOf(job[w].todo)>>] = w

\* Writers of two processes at the partition of one date were noticed.
Noticed(d) ==
  \A w, x \in Writer :
    Works(job[w], d) /\ Works(job[x], d) /\ ~SameProcess(w, x) => d \in overlapped

WhoInv ==
  /\ \A w \in Writer : KindOK(w, job[w]) /\ HoldsLock(w)
  /\ \A d \in Date : Noticed(d)

\* What a writer does next is what the action says, and nobody else moves.
LEMMA Becomes ==
  ASSUME TypeOK, NEW w \in Writer, NEW j, Goes(w, j)
  PROVE  job'[w] = j /\ \A x \in Writer \ {w} : job'[x] = job[x]
BY DEF Goes, TypeOK

\* A call that ends or goes on to its next date is at no partition, and of the
\* kind it was.
LEMMA LeavesFields ==
  ASSUME TypeOK, NEW w \in Writer, Raises(w) \/ Goes(w, NextDate(w)) \/ Goes(w, Idle)
  PROVE  /\ job'[w].pc \in {"idle", "prepare", "clean_read", "fill_read"}
         /\ KindOK(w, job[w]) => KindOK(w, job'[w])
         /\ \A x \in Writer \ {w} : job'[x] = job[x]
<1>0. Goes(w, NextDate(w)) \/ Goes(w, Idle) BY DEF Raises
<1>1. job'[w] \in {NextDate(w), Idle} /\ \A x \in Writer \ {w} : job'[x] = job[x]
  BY <1>0, Becomes
<1>2. job[w] \in Jobs BY DEF TypeOK
<1>3. KindOK(w, Idle) BY DEF KindOK, Idle
<1>4. ASSUME KindOK(w, job[w]) PROVE KindOK(w, NextDate(w))
  <2>1. CASE job[w].todo = {At(w)} BY <1>3, <2>1 DEF NextDate
  <2>2. CASE job[w].todo # {At(w)}
    <3>1. NextDate(w).pc = First(job[w].kind) /\ NextDate(w).kind = job[w].kind
      BY <1>2, <2>2 DEF NextDate, Jobs
    <3>2. job[w].kind \in {"write", "clean", "fill"} BY <1>2 DEF Jobs
    <3> HIDE DEF KindOK
    <3>3. \/ NextDate(w).pc = "prepare" /\ job[w].kind = "write"
          \/ NextDate(w).pc = "clean_read" /\ job[w].kind = "clean"
          \/ NextDate(w).pc = "fill_read" /\ job[w].kind = "fill"
      BY <3>1, <3>2 DEF First
    <3> QED BY <1>4, <3>1, <3>3 DEF KindOK
  <2> QED BY <2>1, <2>2
<1>5. NextDate(w).pc \in {"idle", "prepare", "clean_read", "fill_read"} /\ Idle.pc = "idle"
  BY NextDatePlace
<1> QED BY <1>1, <1>3, <1>4, <1>5
\* Where a writer's step takes its call: to its end or the beginning of its
\* next date, or to another place of this one.
LEMMA Effects ==
  ASSUME TypeOK, NEW w \in Writer, WriterStep(w)
  PROVE  \/ Raises(w) \/ Goes(w, NextDate(w))
         \/ /\ job'[w].kind = job[w].kind /\ job'[w].todo = job[w].todo
            /\ job'[w].drop = job[w].drop
            /\ \/ /\ Prepare(w) /\ job'[w].pc = "shadow" /\ job'[w].rows = job[w].rows
                  /\ job'[w].frame = Merge(Final("v1", At(w)).rows, job[w].rows)
               \/ /\ ReadShadow(w) /\ job'[w].pc = "open" /\ job'[w].store = "v2"
                  /\ job'[w].rows = job[w].rows /\ job'[w].frame = job[w].frame
                  /\ job'[w].shadow = Merge(Final("v2", At(w)).rows, job[w].rows)
               \/ /\ (OpenTemp(w) /\ job'[w].pc = "close") \/ (CloseTemp(w) /\ job'[w].pc = "move")
                  /\ job'[w].store = job[w].store /\ job'[w].rows = job[w].rows
                  /\ job'[w].frame = job[w].frame /\ job'[w].shadow = job[w].shadow
               \/ /\ MoveTemp(w) /\ job[w].store = "v2" /\ job[w].kind = "write"
                  /\ job'[w].pc = "open" /\ job'[w].store = "v1"
                  /\ job'[w].rows = job[w].rows /\ job'[w].frame = job[w].frame
               \/ MoveTemp(w) /\ job[w].store = "v1" /\ job'[w].pc = "invalidate"
               \/ /\ FillRead(w) /\ job'[w].pc = "shadow"
                  /\ job'[w].rows = Final("v1", At(w)).rows
               \/ /\ CleanRead(w) /\ job'[w].pc = "clean_open"
                  /\ job'[w].rows = Without(Final("v1", At(w)).rows, job[w].drop)
               \/ CleanOpen(w) /\ job'[w].pc = "clean_close" /\ job'[w].rows = job[w].rows
               \/ CleanClose(w) /\ job'[w].pc = "shadow" /\ job'[w].rows = job[w].rows
<1>j. job[w] \in Jobs BY DEF TypeOK
<1> DEFINE Same == /\ job'[w].kind = job[w].kind /\ job'[w].todo = job[w].todo
                   /\ job'[w].drop = job[w].drop
           Leaves == Raises(w) \/ Goes(w, NextDate(w))
<1>1. ASSUME Prepare(w)
      PROVE  \/ Leaves
             \/ /\ Same /\ job'[w].pc = "shadow" /\ job'[w].rows = job[w].rows
                /\ job'[w].frame = Merge(Final("v1", At(w)).rows, job[w].rows)
  <2>1. CASE Leaves BY <2>1
  <2>2. CASE ~Leaves
    <3>1. Goes(w, [job[w] EXCEPT !.pc = "shadow",
                          !.frame = Merge(Final("v1", At(w)).rows, job[w].rows)])
      BY <1>1, <2>2 DEF Prepare
    <3>2. job'[w] = [job[w] EXCEPT !.pc = "shadow",
                          !.frame = Merge(Final("v1", At(w)).rows, job[w].rows)]
      BY <3>1, Becomes
    <3> QED BY <1>j, <3>2 DEF Jobs
  <2> QED BY <2>1, <2>2
<1>2. ASSUME ReadShadow(w)
      PROVE  /\ Same /\ job'[w].pc = "open" /\ job'[w].store = "v2"
             /\ job'[w].rows = job[w].rows /\ job'[w].frame = job[w].frame
             /\ job'[w].shadow = Merge(Final("v2", At(w)).rows, job[w].rows)
  <2>1. job'[w] = [job[w] EXCEPT !.pc = "open", !.store = "v2",
                     !.shadow = Merge(Final("v2", At(w)).rows, job[w].rows)]
    BY <1>2, Becomes DEF ReadShadow
  <2> QED BY <1>j, <2>1 DEF Jobs
<1>3. ASSUME NEW pc, job'[w] = [job[w] EXCEPT !.pc = pc]
      PROVE  /\ Same /\ job'[w].pc = pc /\ job'[w].store = job[w].store
             /\ job'[w].rows = job[w].rows /\ job'[w].frame = job[w].frame
             /\ job'[w].shadow = job[w].shadow
  BY <1>j, <1>3 DEF Jobs
<1>4. ASSUME OpenTemp(w) PROVE Leaves \/ job'[w] = [job[w] EXCEPT !.pc = "close"]
  <2>1. CASE Leaves BY <2>1
  <2>2. CASE ~Leaves
    <3>1. Goes(w, [job[w] EXCEPT !.pc = "close"]) BY <1>4, <2>2 DEF OpenTemp, WriteFails
    <3> QED BY <3>1, Becomes
  <2> QED BY <2>1, <2>2
<1>5. ASSUME CloseTemp(w) PROVE Leaves \/ job'[w] = [job[w] EXCEPT !.pc = "move"]
  <2>1. CASE Leaves BY <2>1
  <2>2. CASE ~Leaves
    <3>1. Goes(w, [job[w] EXCEPT !.pc = "move"]) BY <1>5, <2>2 DEF CloseTemp, WriteFails
    <3> QED BY <3>1, Becomes
  <2> QED BY <2>1, <2>2
<1>6. ASSUME MoveTemp(w)
      PROVE  \/ Leaves
             \/ /\ Same /\ job[w].store = "v2" /\ job[w].kind = "write"
                /\ job'[w].pc = "open" /\ job'[w].store = "v1"
                /\ job'[w].rows = job[w].rows /\ job'[w].frame = job[w].frame
             \/ Same /\ job[w].store = "v1" /\ job'[w].pc = "invalidate"
  <2>1. CASE job[w].store = "v1"
    <3>1. job'[w] = [job[w] EXCEPT !.pc = "invalidate", !.frame = NoRows]
      BY <1>6, <2>1, Becomes DEF MoveTemp
    <3> QED BY <1>j, <2>1, <3>1 DEF Jobs
  <2>2. CASE job[w].store # "v1" /\ job[w].kind = "write"
    <3>1. job'[w] = [job[w] EXCEPT !.pc = "open", !.store = "v1", !.shadow = NoRows]
      BY <1>6, <2>2, Becomes DEF MoveTemp
    <3>2. job[w].store = "v2" BY <1>j, <2>2 DEF Jobs, Store
    <3> QED BY <1>j, <2>2, <3>1, <3>2 DEF Jobs
  <2>3. CASE job[w].store # "v1" /\ job[w].kind # "write"
    BY <1>6, <2>3 DEF MoveTemp
  <2> QED BY <2>1, <2>2, <2>3
<1>7. ASSUME FillRead(w)
      PROVE  \/ Leaves
             \/ Same /\ job'[w].pc = "shadow" /\ job'[w].rows = Final("v1", At(w)).rows
  <2>1. CASE Leaves BY <2>1
  <2>2. CASE ~Leaves
    <3>1. job'[w] = [job[w] EXCEPT !.pc = "shadow", !.rows = Final("v1", At(w)).rows]
      BY <1>7, <2>2, Becomes DEF FillRead
    <3> QED BY <1>j, <3>1 DEF Jobs
  <2> QED BY <2>1, <2>2
<1>8. ASSUME CleanRead(w)
      PROVE  \/ Leaves
             \/ /\ Same /\ job'[w].pc = "clean_open"
                /\ job'[w].rows = Without(Final("v1", At(w)).rows, job[w].drop)
  <2>1. CASE Leaves BY <2>1
  <2>2. CASE ~Leaves
    <3>1. job'[w] = [job[w] EXCEPT !.pc = "clean_open",
                       !.rows = Without(Final("v1", At(w)).rows, job[w].drop)]
      BY <1>8, <2>2, Becomes DEF CleanRead
    <3> QED BY <1>j, <3>1 DEF Jobs
  <2> QED BY <2>1, <2>2
<1>9. ASSUME CleanOpen(w) PROVE job'[w] = [job[w] EXCEPT !.pc = "clean_close"]
  BY <1>9, Becomes DEF CleanOpen
<1>10. ASSUME CleanClose(w) PROVE Leaves \/ job'[w] = [job[w] EXCEPT !.pc = "shadow"]
  BY <1>10, Becomes DEF CleanClose
<1>11. ShadowRefuses(w) \/ MoveFails(w) \/ Invalidate(w) \/ CleanFails(w) => Leaves
  BY DEF ShadowRefuses, MoveFails, WriteFails, Invalidate, CleanFails
<1> HIDE DEF Same, Leaves
<1>12. \/ Leaves
       \/ /\ Same
          /\ \/ /\ Prepare(w) /\ job'[w].pc = "shadow" /\ job'[w].rows = job[w].rows
                /\ job'[w].frame = Merge(Final("v1", At(w)).rows, job[w].rows)
             \/ /\ ReadShadow(w) /\ job'[w].pc = "open" /\ job'[w].store = "v2"
                /\ job'[w].rows = job[w].rows /\ job'[w].frame = job[w].frame
                /\ job'[w].shadow = Merge(Final("v2", At(w)).rows, job[w].rows)
             \/ /\ (OpenTemp(w) /\ job'[w].pc = "close") \/ (CloseTemp(w) /\ job'[w].pc = "move")
                /\ job'[w].store = job[w].store /\ job'[w].rows = job[w].rows
                /\ job'[w].frame = job[w].frame /\ job'[w].shadow = job[w].shadow
             \/ /\ MoveTemp(w) /\ job[w].store = "v2" /\ job[w].kind = "write"
                /\ job'[w].pc = "open" /\ job'[w].store = "v1"
                /\ job'[w].rows = job[w].rows /\ job'[w].frame = job[w].frame
             \/ MoveTemp(w) /\ job[w].store = "v1" /\ job'[w].pc = "invalidate"
             \/ /\ FillRead(w) /\ job'[w].pc = "shadow"
                /\ job'[w].rows = Final("v1", At(w)).rows
             \/ /\ CleanRead(w) /\ job'[w].pc = "clean_open"
                /\ job'[w].rows = Without(Final("v1", At(w)).rows, job[w].drop)
             \/ CleanOpen(w) /\ job'[w].pc = "clean_close" /\ job'[w].rows = job[w].rows
             \/ CleanClose(w) /\ job'[w].pc = "shadow" /\ job'[w].rows = job[w].rows
  BY <1>1, <1>2, <1>3, <1>4, <1>5, <1>6, <1>7, <1>8, <1>9, <1>10, <1>11, Zenon DEF WriterStep
<1> QED BY <1>12, Zenon DEF Same, Leaves

\* No step undoes a kind.
LEMMA KindStep ==
  ASSUME TypeOK, [Next]_vars, NEW w \in Writer, KindOK(w, job[w])
  PROVE  KindOK(w, job'[w])
<1>j. job[w] \in Jobs BY DEF TypeOK
<1>0. CASE job'[w] = job[w] BY <1>0
<1>1. CASE WriterStep(w)
  <2>1. CASE Raises(w) \/ Goes(w, NextDate(w)) BY <2>1, LeavesFields
  <2>2. CASE ~(Raises(w) \/ Goes(w, NextDate(w)))
    <3>1. /\ Prepare(w) => job[w].pc = "prepare"
          /\ FillRead(w) => job[w].pc = "fill_read"
          /\ CleanRead(w) => job[w].pc = "clean_read"
          /\ CleanOpen(w) => job[w].pc = "clean_open"
          /\ OpenTemp(w) => job[w].pc = "open"
          /\ CloseTemp(w) => job[w].pc = "close"
          /\ MoveTemp(w) => job[w].pc = "move"
      BY DEF Prepare, FillRead, CleanRead, CleanOpen, OpenTemp, CloseTemp, MoveTemp
    <3> QED BY <1>1, <2>2, <3>1, Effects DEF KindOK
  <2> QED BY <2>1, <2>2
<1>2. CASE StartWrite(w) \/ StartScript(w)
  <2>1. \/ job'[w].pc = "prepare" /\ job'[w].kind = "write"
        \/ job'[w].pc = "fill_read" /\ job'[w].kind = "fill" /\ w \in Script
        \/ job'[w].pc = "clean_read" /\ job'[w].kind = "clean" /\ w \in Script
    BY <1>2, StartShape
  <2> QED BY <2>1, WritersAssumption DEF KindOK
<1>3. ASSUME NEW x \in Writer \ {w}, StartWrite(x) \/ StartScript(x) \/ WriterStep(x)
      PROVE  job'[w] = job[w]
  BY <1>3, StepShape, StartShape
<1>4. ASSUME NEW dead, Crash(dead) PROVE job'[w] = job[w] \/ job'[w] = Idle
  BY <1>4 DEF Crash
<1>5. ASSUME (\E r \in Reader : ListFiles(r) \/ StoreListing(r)) \/ Expire \/ UNCHANGED vars
      PROVE  job'[w] = job[w]
  BY <1>5 DEF ListFiles, StoreListing, Expire, vars
<1>6. KindOK(w, Idle) BY DEF KindOK, Idle
<1> QED BY <1>0, <1>1, <1>2, <1>3, <1>4, <1>5, <1>6 DEF Next

\* A writer that begins to work on a date: it has read the partition, waited for
\* its lock if it is a thread, and looked for other processes there.
LEMMA Enters ==
  ASSUME TypeOK, NEW w \in Writer, WriterStep(w), KindOK(w, job[w]),
         job'[w].pc \in WorkPlaces, job[w].pc \notin WorkPlaces
  PROVE  /\ job'[w].todo = job[w].todo
         /\ overlapped' = Overlap(w, At(w))
         /\ ~Unreadable(Final("v1", At(w)))
         /\ UNCHANGED <<file, logged, committed, killed, cleaned>>
         /\ \/ w \in Thread /\ lock[<<"v1", At(w)>>] = NoOne /\ Prepare(w)
               /\ lock' = [lock EXCEPT ![<<"v1", At(w)>>] = w]
            \/ w \notin Thread /\ lock' = lock
         /\ \/ /\ job'[w].pc = "shadow" /\ job'[w].kind = "write"
               /\ job'[w].frame = Merge(Final("v1", At(w)).rows, job'[w].rows)
            \/ /\ job'[w].pc = "shadow" /\ job'[w].kind = "fill"
               /\ job'[w].rows = Final("v1", At(w)).rows
            \/ /\ job'[w].pc = "clean_open" /\ job'[w].kind = "clean"
               /\ job'[w].rows = Without(Final("v1", At(w)).rows, job'[w].drop)
<1>l. ~Raises(w) /\ ~Goes(w, NextDate(w)) BY LeavesFields DEF WorkPlaces
<1>0. Prepare(w) \/ FillRead(w) \/ CleanRead(w)
  <2>1. ~Invalidate(w) BY <1>l DEF Invalidate
  <2>2. /\ ReadShadow(w) \/ ShadowRefuses(w) => job[w].pc = "shadow"
        /\ OpenTemp(w) => job[w].pc = "open"
        /\ CloseTemp(w) => job[w].pc = "close"
        /\ MoveTemp(w) \/ MoveFails(w) => job[w].pc = "move"
        /\ CleanOpen(w) \/ CleanClose(w) \/ CleanFails(w) => job[w].pc \in {"clean_open", "clean_close"}
    BY DEF ReadShadow, ShadowRefuses, OpenTemp, CloseTemp, MoveTemp, MoveFails,
           CleanOpen, CleanClose, CleanFails
  <2> QED BY <2>1, <2>2 DEF WriterStep, WorkPlaces
<1>p. /\ Prepare(w) => job[w].pc = "prepare"
      /\ FillRead(w) => job[w].pc = "fill_read"
      /\ CleanRead(w) => job[w].pc = "clean_read"
      /\ ReadShadow(w) => job[w].pc = "shadow"
      /\ OpenTemp(w) => job[w].pc = "open"
      /\ CloseTemp(w) => job[w].pc = "close"
      /\ MoveTemp(w) => job[w].pc = "move"
      /\ CleanOpen(w) => job[w].pc = "clean_open"
      /\ CleanClose(w) => job[w].pc = "clean_close"
  BY DEF Prepare, FillRead, CleanRead, ReadShadow, OpenTemp, CloseTemp, MoveTemp, CleanOpen,
         CleanClose
<1>1. CASE Prepare(w)
  <2>1. ~Unreadable(Final("v1", At(w))) BY <1>1, <1>l DEF Prepare
  <2>2. /\ job'[w].pc = "shadow" /\ job'[w].kind = job[w].kind
        /\ job'[w].todo = job[w].todo /\ job'[w].rows = job[w].rows
        /\ job'[w].frame = Merge(Final("v1", At(w)).rows, job[w].rows)
    BY <1>1, <1>l, <1>p, Effects
  <2>3. Free(w, "v1", At(w)) /\ Take(w, "v1", At(w)) /\ job[w].pc = "prepare"
    BY <1>1, <2>1 DEF Prepare
  <2>4. \/ w \in Thread /\ lock[<<"v1", At(w)>>] = NoOne
           /\ lock' = [lock EXCEPT ![<<"v1", At(w)>>] = w]
        \/ w \notin Thread /\ lock' = lock
    BY <2>3, WritersAssumption DEF Free, Take, Writer
  <2>5. /\ overlapped' = Overlap(w, At(w))
        /\ UNCHANGED <<file, logged, committed, killed, cleaned>>
    BY <1>1, <2>1 DEF Prepare
  <2>6. job[w].kind = "write" BY <2>3 DEF KindOK
  <2> QED BY <1>1, <2>1, <2>2, <2>4, <2>5, <2>6
<1>2. CASE FillRead(w)
  <2>1. /\ job'[w].pc = "shadow" /\ job'[w].kind = job[w].kind
        /\ job'[w].todo = job[w].todo /\ job'[w].rows = Final("v1", At(w)).rows
    BY <1>2, <1>l, <1>p, Effects
  <2>2. /\ ~Unreadable(Final("v1", At(w))) /\ overlapped' = Overlap(w, At(w))
        /\ lock' = lock /\ UNCHANGED <<file, logged, committed, killed, cleaned>>
    BY <1>2, <1>l DEF FillRead
  <2>3. job[w].kind = "fill" /\ w \notin Thread BY <1>2, <1>p DEF KindOK
  <2> QED BY <2>1, <2>2, <2>3
<1>3. CASE CleanRead(w)
  <2>1. /\ job'[w].pc = "clean_open" /\ job'[w].kind = job[w].kind
        /\ job'[w].todo = job[w].todo /\ job'[w].drop = job[w].drop
        /\ job'[w].rows = Without(Final("v1", At(w)).rows, job[w].drop)
    BY <1>3, <1>l, <1>p, Effects
  <2>2. /\ ~Unreadable(Final("v1", At(w))) /\ overlapped' = Overlap(w, At(w))
        /\ lock' = lock /\ UNCHANGED <<file, logged, committed, killed, cleaned>>
    BY <1>3, <1>l DEF CleanRead
  <2>3. job[w].kind = "clean" /\ w \notin Thread BY <1>3, <1>p DEF KindOK
  <2> QED BY <2>1, <2>2, <2>3
<1> QED BY <1>0, <1>1, <1>2, <1>3
LEMMA InsideWorks == \A w \in Writer, d \in Date : Inside(w, d) <=> Works(job[w], d)
BY AtIsFirst DEF Inside, Works, WorkPlaces

\* Nothing that was noticed is forgotten.
LEMMA Remembered ==
  ASSUME [Next]_vars
  PROVE  /\ overlapped \subseteq overlapped' /\ killed \subseteq killed'
<1>1. ASSUME NEW w \in Writer, WriterStep(w)
      PROVE  overlapped \subseteq overlapped' /\ killed \subseteq killed'
  BY <1>1 DEF WriterStep, Prepare, ReadShadow, ShadowRefuses, OpenTemp, CloseTemp, MoveTemp,
              MoveFails, WriteFails, Invalidate, FillRead, CleanRead, CleanOpen, CleanClose,
              CleanFails, Overlap, ghosts
<1>2. ASSUME NEW w \in Writer, StartWrite(w) \/ StartScript(w)
      PROVE  overlapped \subseteq overlapped' /\ killed \subseteq killed'
  BY <1>2 DEF StartWrite, StartScript, ghosts
<1>3. ASSUME NEW dead, Crash(dead)
      PROVE  overlapped \subseteq overlapped' /\ killed \subseteq killed'
  BY <1>3 DEF Crash
<1>4. ASSUME (\E r \in Reader : ListFiles(r) \/ StoreListing(r)) \/ Expire \/ UNCHANGED vars
      PROVE  overlapped \subseteq overlapped' /\ killed \subseteq killed'
  BY <1>4 DEF ListFiles, StoreListing, Expire, vars, ghosts
<1> QED BY <1>1, <1>2, <1>3, <1>4 DEF Next

\* A call that is new at a partition came there by a read of its file.
LEMMA NewWorker ==
  ASSUME TypeOK, WhoInv, [Next]_vars, NEW w \in Writer, NEW d \in Date,
         Works(job'[w], d), ~Works(job[w], d)
  PROVE  WriterStep(w) /\ job[w].pc \notin WorkPlaces /\ d = At(w)
<1>1. CASE WriterStep(w)
  <2>1. job'[w].todo = job[w].todo BY <1>1, StepShape DEF Works, WorkPlaces
  <2>2. job[w].pc \notin WorkPlaces BY <2>1 DEF Works
  <2> QED BY <1>1, <2>1, <2>2, AtIsFirst DEF Works
<1>2. CASE StartWrite(w) \/ StartScript(w)
  <2>1. job'[w].pc \in {"prepare", "fill_read", "clean_read"} BY <1>2, StartShape
  <2> QED BY <2>1 DEF Works, WorkPlaces
<1>3. ASSUME NEW x \in Writer \ {w}, StartWrite(x) \/ StartScript(x) \/ WriterStep(x)
      PROVE  FALSE
  BY <1>3, StepShape, StartShape
<1>4. ASSUME NEW dead, Crash(dead) PROVE FALSE
  <2>1. job'[w] = job[w] \/ job'[w] = Idle BY <1>4 DEF Crash
  <2> QED BY <2>1 DEF Works, WorkPlaces, Idle
<1>5. ASSUME (\E r \in Reader : ListFiles(r) \/ StoreListing(r)) \/ Expire \/ UNCHANGED vars
      PROVE  FALSE
  BY <1>5 DEF ListFiles, StoreListing, Expire, vars
<1> QED BY <1>1, <1>2, <1>3, <1>4, <1>5 DEF Next

LEMMA NoticedStep ==
  ASSUME TypeOK, WhoInv, [Next]_vars, NEW d \in Date
  PROVE  Noticed(d)'
<1> DEFINE Both(w, x) == Works(job'[w], d) /\ Works(job'[x], d) /\ ~SameProcess(w, x)
<1>1. ASSUME NEW w \in Writer, NEW x \in Writer, Both(w, x), ~Works(job[w], d)
      PROVE  d \in overlapped'
  <2>1. WriterStep(w) /\ job[w].pc \notin WorkPlaces /\ d = At(w) BY <1>1, NewWorker
  <2>2. overlapped' = Overlap(w, d)
    BY <1>1, <2>1, Enters DEF WhoInv, Works
  <2>3. x # w BY <1>1 DEF SameProcess
  <2>4. job'[x] = job[x] BY <2>1, <2>3, StepShape
  <2>5. Inside(x, d) BY <1>1, <2>4, InsideWorks
  <2> QED BY <1>1, <2>2, <2>5 DEF Overlap
<1>2. ASSUME NEW w \in Writer, NEW x \in Writer, Both(w, x), Works(job[w], d), Works(job[x], d)
      PROVE  d \in overlapped'
  BY <1>2, Remembered DEF WhoInv, Noticed
<1>3. \A w, x \in Writer : Both(w, x) => Both(x, w) BY DEF SameProcess
<1> HIDE DEF Both
<1>4. \A w, x \in Writer : Both(w, x) => d \in overlapped' BY <1>1, <1>2, <1>3
<1> QED BY <1>4 DEF Both, Noticed

\* Only its holder gives a thread's lock of a v1 file away.
LEMMA HoldsLockStep ==
  ASSUME TypeOK, WhoInv, [Next]_vars, NEW w \in Writer
  PROVE  HoldsLock(w)'
<1> SUFFICES ASSUME w \in Thread, job'[w].pc \in WorkPlaces
             PROVE  lock'[<<"v1", FirstOf(job'[w].todo)>>] = w
  BY DEF HoldsLock
<1>a. \A x \in Writer : job[x].pc # "idle" => <<"v1", At(x)>> \in Store \X Date
  BY AtLeft DEF Store
<1>f. \A x \in Writer : At(x) = FirstOf(job[x].todo) BY AtIsFirst
<1>n. NoOne # w /\ w \notin Script BY WritersAssumption DEF Writer
<1> DEFINE v == <<"v1", At(w)>>
\* Another writer's step leaves a lock that w holds alone.
<1>x. ASSUME NEW x \in Writer \ {w}, WriterStep(x), job[w].pc \in WorkPlaces, lock[v] = w
      PROVE  lock'[v] = w
  <2>1. v \in Store \X Date BY <1>a, <1>x DEF WorkPlaces
  <2>2. HoldsLock(x) BY DEF WhoInv
  <2>3. CASE Raises(x) BY <1>x, <2>1, <2>3 DEF Raises, LeaveAll
  <2>4. ASSUME NEW s, NEW e, Free(x, s, e), Take(x, s, e) PROVE lock'[v] = w
    <3>1. CASE x \in Script BY <1>x, <2>4, <3>1 DEF Take
    <3>2. CASE x \notin Script
      <4>1. lock[<<s, e>>] = NoOne /\ lock' = [lock EXCEPT ![<<s, e>>] = x]
        BY <2>4, <3>2 DEF Free, Take
      <4>2. v # <<s, e>> BY <1>x, <1>n, <4>1
      <4> QED BY <1>x, <2>1, <4>1, <4>2 DEF TypeOK
    <3> QED BY <3>1, <3>2
  <2>5. CASE MoveTemp(x)
    <3>1. CASE x \in Script BY <1>x, <2>5, <3>1 DEF MoveTemp, Leave
    <3>2. CASE x \notin Script
      <4>1. lock' = [lock EXCEPT ![<<job[x].store, At(x)>>] = NoOne]
        BY <2>5, <3>2 DEF MoveTemp, Leave
      <4>2. x \in Thread BY <3>2 DEF Writer
      <4>3. job[x].store = "v1" => lock[<<job[x].store, At(x)>>] = x
        BY <1>f, <2>2, <2>5, <4>2 DEF HoldsLock, MoveTemp, WorkPlaces
      <4>4. v # <<job[x].store, At(x)>> BY <1>x, <4>3
      <4> QED BY <1>x, <2>1, <4>1, <4>4 DEF TypeOK
    <3> QED BY <3>1, <3>2
  <2>6. CASE lock' = lock BY <1>x, <2>6
  <2> HIDE DEF v
  <2> QED
    BY <1>x, <2>3, <2>4, <2>5, <2>6
    DEF WriterStep, Prepare, ReadShadow, ShadowRefuses, OpenTemp, CloseTemp, WriteFails,
        MoveFails, Invalidate, FillRead, CleanRead, CleanOpen, CleanClose, CleanFails
<1>1. CASE WriterStep(w) /\ job[w].pc \notin WorkPlaces
  <2>1. /\ job'[w].todo = job[w].todo
        /\ lock' = [lock EXCEPT ![<<"v1", At(w)>>] = w]
    BY <1>1, <1>n, Enters DEF WhoInv
  <2>2. job[w].pc # "idle" BY <1>1, StepShape
  <2> QED BY <1>a, <1>f, <2>1, <2>2 DEF TypeOK
<1>2. CASE WriterStep(w) /\ job[w].pc \in WorkPlaces
  <2>1. lock[v] = w BY <1>2, <1>f DEF WhoInv, HoldsLock
  <2>2. v \in Store \X Date BY <1>a, <1>2 DEF WorkPlaces
  <2>l. ~Raises(w) /\ ~Goes(w, NextDate(w)) BY LeavesFields DEF WorkPlaces
  <2>3. job'[w].todo = job[w].todo BY <1>2, StepShape DEF WorkPlaces
  <2>4. \/ lock' = lock \/ lock' = [lock EXCEPT ![<<"v2", At(w)>>] = w]
        \/ lock' = [lock EXCEPT ![<<"v2", At(w)>>] = NoOne]
    <3>1. CASE ReadShadow(w) BY <3>1, <1>n DEF ReadShadow, Take
    <3>2. CASE MoveTemp(w)
      <4>j. job[w] \in Jobs BY DEF TypeOK
      <4>1. job[w].store # "v1"
        <5> SUFFICES ASSUME job[w].store = "v1" PROVE FALSE OBVIOUS
        <5>1. job'[w] = [job[w] EXCEPT !.pc = "invalidate", !.frame = NoRows]
          BY <3>2, Becomes DEF MoveTemp
        <5> QED BY <4>j, <5>1 DEF Jobs, WorkPlaces
      <4>2. job[w].store = "v2" BY <4>j, <4>1 DEF Jobs, Store
      <4> QED BY <3>2, <4>2, <1>n DEF MoveTemp, Leave
    <3>3. ~Prepare(w) BY <1>2 DEF Prepare, WorkPlaces
    <3> QED
      BY <1>2, <2>l, <3>1, <3>2, <3>3
      DEF WriterStep, ShadowRefuses, OpenTemp, CloseTemp, WriteFails,
          MoveFails, Invalidate, FillRead, CleanRead, CleanOpen, CleanClose, CleanFails
  <2>5. lock'[v] = w BY <2>1, <2>2, <2>4 DEF TypeOK
  <2> QED BY <1>f, <2>3, <2>5
<1>3. CASE StartWrite(w) \/ StartScript(w)
  <2>1. job'[w].pc \in {"prepare", "fill_read", "clean_read"} BY <1>3, StartShape
  <2> QED BY <2>1 DEF WorkPlaces
<1>4. ASSUME NEW x \in Writer \ {w}, StartWrite(x) \/ StartScript(x) \/ WriterStep(x)
      PROVE  lock'[<<"v1", FirstOf(job'[w].todo)>>] = w
  <2>1. job'[w] = job[w] BY <1>4, StepShape, StartShape
  <2>2. lock[v] = w BY <1>f, <2>1 DEF WhoInv, HoldsLock
  <2>3. StartWrite(x) \/ StartScript(x) => lock' = lock BY DEF StartWrite, StartScript
  <2>4. lock'[v] = w BY <1>4, <1>x, <2>1, <2>2, <2>3
  <2> QED BY <1>f, <2>1, <2>4
<1>5. ASSUME NEW dead, Crash(dead) PROVE lock'[<<"v1", FirstOf(job'[w].todo)>>] = w
  <2>1. job'[w] = IF w \in dead THEN Idle ELSE job[w] BY <1>5 DEF Crash
  <2>2. w \notin dead /\ job'[w] = job[w] BY <2>1 DEF Idle, WorkPlaces
  <2>3. lock[v] = w BY <1>f, <2>2 DEF WhoInv, HoldsLock
  <2>4. v \in Store \X Date BY <1>a, <2>2 DEF WorkPlaces
  <2>5. lock'[v] = w BY <1>5, <2>2, <2>3, <2>4 DEF Crash
  <2> QED BY <1>f, <2>2, <2>5
<1>6. ASSUME (\E r \in Reader : ListFiles(r) \/ StoreListing(r)) \/ Expire \/ UNCHANGED vars
      PROVE  lock'[<<"v1", FirstOf(job'[w].todo)>>] = w
  <2>1. job' = job /\ lock' = lock BY <1>6 DEF ListFiles, StoreListing, Expire, vars
  <2> QED BY <2>1 DEF WhoInv, HoldsLock
<1> DEFINE Goal == lock'[<<"v1", FirstOf(job'[w].todo)>>] = w
<1> HIDE DEF Goal
<1>7. \A x \in Writer : StartWrite(x) \/ StartScript(x) \/ WriterStep(x) => Goal
  BY <1>1, <1>2, <1>3, <1>4 DEF Goal
<1>8. Goal BY <1>5, <1>6, <1>7 DEF Next, Goal
<1> QED BY <1>8 DEF Goal

LEMMA WhoStep == TypeOK /\ WhoInv /\ [Next]_vars => WhoInv'
<1> SUFFICES ASSUME TypeOK, WhoInv, [Next]_vars PROVE WhoInv' OBVIOUS
<1>1. \A w \in Writer : KindOK(w, job'[w]) BY KindStep DEF WhoInv
<1>2. \A w \in Writer : HoldsLock(w)' BY HoldsLockStep
<1>3. \A d \in Date : Noticed(d)' BY NoticedStep
<1> QED BY <1>1, <1>2, <1>3 DEF WhoInv

\* No two writers are at the partition of a date on which no overlap was noticed.
LEMMA Alone ==
  ASSUME TypeOK, WhoInv, NEW d \in Date \ overlapped, NEW w \in Writer, NEW x \in Writer,
         Works(job[w], d), Works(job[x], d)
  PROVE  w = x
<1>1. SameProcess(w, x) BY DEF WhoInv, Noticed
<1>2. CASE {w, x} \subseteq Thread
  <2>1. lock[<<"v1", d>>] = w /\ lock[<<"v1", d>>] = x
    BY <1>2 DEF WhoInv, HoldsLock, Works
  <2> QED BY <2>1
<1> QED BY <1>1, <1>2 DEF SameProcess
----------------------------------------------------------------------------
(* The partitions of a date on which no two processes met.                 *)

Writes(j) == j.kind = "write" /\ j.pc \in {"shadow", "open", "close", "move"}
Fills(j) == j.kind # "write" /\ j.pc \in {"shadow", "open", "close", "move"}

\* What a call at a partition carries was computed from what is committed.
Carries(w, d) ==
  LET j == job[w] IN
  /\ Writes(j) => j.frame = Merge(committed[d], j.rows)
  /\ Fills(j) => j.rows = committed[d]
  /\ j.pc \in {"clean_open", "clean_close"} => j.rows = Without(committed[d], j.drop)
  /\ j.pc \in {"open", "close", "move"} /\ j.store = "v2" =>
       j.shadow = Merge(Final("v2", d).rows, j.rows)
  /\ HalfWritten(j) =>
       \A s \in Symbol : j.rows[s] # NoRow => Final("v2", d).rows[s] = j.rows[s]

\* The file it has in hand is its own.
InHand(w, d) ==
  LET j == job[w] IN
  /\ j.pc = "close" => Temp(j.store, d).state = "partial" /\ Temp(j.store, d).open = {w}
  /\ j.pc = "move" =>
       Temp(j.store, d) = [state |-> "ok", open |-> {},
                           rows |-> IF j.store = "v2" THEN j.shadow ELSE j.frame]
  /\ j.pc = "clean_close" => Final("v1", d).state = "partial" /\ Final("v1", d).open = {w}
  /\ j.pc # "clean_close" => Final("v1", d).state \in {"none", "ok"}

\* A file is open only in the hands of who is writing it.
OpenInv(d) ==
  /\ \A s \in Store, x \in Writer :
       x \in Temp(s, d).open => Works(job[x], d) /\ job[x].pc = "close" /\ job[x].store = s
  /\ \A x \in Writer :
       x \in Final("v1", d).open => Works(job[x], d) /\ job[x].pc = "clean_close"
  /\ Final("v2", d).open = {}

\* A partition that can be read is what was committed.
FinalInv(d) ==
  /\ Final("v1", d).state \in {"none", "ok"} => Final("v1", d).rows = committed[d]
  /\ \/ Final("v1", d).state \in {"none", "ok"} \/ d \in killed
     \/ \E w \in Writer : Works(job[w], d) /\ job[w].pc = "clean_close"
  /\ Final("v2", d).state \in {"none", "ok"}

\* A row in which the stores differ has its reason.
Explained(d, s) ==
  \/ committed[d][s] = Final("v2", d).rows[s]
  \/ committed[d][s] = Legacy /\ Final("v2", d).rows[s] = NoRow
  \/ s \in logged[d] \/ s \in cleaned[d]
DivInv(d) ==
  d \notin killed => \A s \in Symbol :
    \/ Explained(d, s)
    \/ \E w \in Writer : Works(job[w], d) /\ HalfWritten(job[w]) /\ job[w].rows[s] # NoRow

DateInv(d) ==
  d \notin overlapped =>
    /\ OpenInv(d) /\ FinalInv(d) /\ DivInv(d)
    /\ \A w \in Writer : Works(job[w], d) => Carries(w, d) /\ InHand(w, d)

\* Nothing about a date changes in a step whose writers are elsewhere.
LEMMA Elsewhere ==
  ASSUME TypeOK, NEW d \in Date, DateInv(d),
         d \in overlapped => d \in overlapped',
         \A s \in Store : /\ file'[<<s, d, "final">>] = file[<<s, d, "final">>]
                          /\ file'[<<s, d, "temp">>] = file[<<s, d, "temp">>],
         committed'[d] = committed[d], logged'[d] = logged[d], cleaned'[d] = cleaned[d],
         d \in killed => d \in killed',
         \A x \in Writer : Works(job[x], d) \/ Works(job'[x], d) => job'[x] = job[x]
  PROVE  DateInv(d)'
<1> SUFFICES ASSUME d \notin overlapped'
             PROVE  /\ OpenInv(d)' /\ FinalInv(d)' /\ DivInv(d)'
                    /\ \A w \in Writer : Works(job'[w], d) => Carries(w, d)' /\ InHand(w, d)'
  BY DEF DateInv
<1>0. /\ OpenInv(d) /\ FinalInv(d) /\ DivInv(d)
      /\ \A w \in Writer : Works(job[w], d) => Carries(w, d) /\ InHand(w, d)
  BY DEF DateInv
<1>v. "v1" \in Store /\ "v2" \in Store BY DEF Store
<1>f. /\ file'[<<"v1", d, "final">>] = file[<<"v1", d, "final">>]
      /\ file'[<<"v2", d, "final">>] = file[<<"v2", d, "final">>]
  BY <1>v
<1>1. OpenInv(d)'
  <2>1. ASSUME NEW s \in Store, NEW x \in Writer, x \in file'[<<s, d, "temp">>].open
        PROVE  Works(job'[x], d) /\ job'[x].pc = "close" /\ job'[x].store = s
    <3>1. x \in file[<<s, d, "temp">>].open BY <2>1
    <3>2. Works(job[x], d) /\ job[x].pc = "close" /\ job[x].store = s
      BY <1>0, <3>1 DEF OpenInv, Temp
    <3> QED BY <3>2
  <2>2. ASSUME NEW x \in Writer, x \in file'[<<"v1", d, "final">>].open
        PROVE  Works(job'[x], d) /\ job'[x].pc = "clean_close"
    <3>1. Works(job[x], d) /\ job[x].pc = "clean_close"
      BY <1>0, <1>f, <2>2 DEF OpenInv, Final
    <3> QED BY <3>1
  <2> QED BY <1>0, <1>f, <2>1, <2>2 DEF OpenInv, Temp, Final
<1>2. FinalInv(d)'
  <2>1. (\E w \in Writer : Works(job[w], d) /\ job[w].pc = "clean_close")
          => \E w \in Writer : Works(job'[w], d) /\ job'[w].pc = "clean_close"
    OBVIOUS
  <2> QED BY <1>0, <1>f, <2>1 DEF FinalInv, Final
<1>3. DivInv(d)' BY <1>0, <1>v DEF DivInv, Explained, Final
<1>4. ASSUME NEW w \in Writer, Works(job'[w], d) PROVE Carries(w, d)' /\ InHand(w, d)'
  <2>1. job'[w] = job[w] /\ Carries(w, d) /\ InHand(w, d) BY <1>0, <1>4
  <2>2. job[w].store \in Store BY DEF TypeOK, Jobs
  <2>3. Carries(w, d)' BY <1>v, <2>1 DEF Carries, Final
  <2>4. InHand(w, d)' BY <1>v, <2>1, <2>2 DEF InHand, Final, Temp
  <2> QED BY <2>3, <2>4
<1> QED BY <1>1, <1>2, <1>3, <1>4

\* What there is of a date when one writer is at its partition.
Knows(w, d) ==
  /\ Carries(w, d) /\ InHand(w, d)
  /\ \A s \in Store : Temp(s, d).open # {} => job[w].pc = "close" /\ job[w].store = s
  /\ Final("v1", d).open # {} => job[w].pc = "clean_close"
  /\ Final("v2", d).open = {} /\ Final("v2", d).state \in {"none", "ok"}
  /\ Final("v1", d).state \in {"none", "ok"} => Final("v1", d).rows = committed[d]
  /\ d \notin killed => \A s \in Symbol :
       Explained(d, s) \/ (HalfWritten(job[w]) /\ job[w].rows[s] # NoRow)

LEMMA Solo ==
  ASSUME TypeOK, WhoInv, NEW d \in Date, DateInv(d), d \notin overlapped,
         NEW w \in Writer, Works(job[w], d)
  PROVE  /\ d = At(w) /\ Knows(w, d)
         /\ \A x \in Writer \ {w} : ~Works(job[x], d)
<1>0. /\ OpenInv(d) /\ FinalInv(d) /\ DivInv(d) /\ Carries(w, d) /\ InHand(w, d)
  BY DEF DateInv
<1>1. \A x \in Writer \ {w} : ~Works(job[x], d) BY Alone
<1>2. \A s \in Store : Temp(s, d).open \subseteq Writer /\ Final(s, d).open \subseteq Writer
  BY DEF TypeOK, Cell, Temp, Final
<1>v. "v1" \in Store BY DEF Store
<1>3. \A s \in Store : Temp(s, d).open # {} => job[w].pc = "close" /\ job[w].store = s
  BY <1>0, <1>1, <1>2 DEF OpenInv
<1>4. Final("v1", d).open # {} => job[w].pc = "clean_close"
  BY <1>0, <1>1, <1>2, <1>v DEF OpenInv
<1>5. d \notin killed => \A s \in Symbol :
              Explained(d, s) \/ (HalfWritten(job[w]) /\ job[w].rows[s] # NoRow)
  BY <1>0, <1>1 DEF DivInv
<1>6. d = At(w) BY AtIsFirst DEF Works
<1> QED BY <1>0, <1>1, <1>3, <1>4, <1>5, <1>6 DEF OpenInv, FinalInv, Knows

\* The state after a step is as it should be if what the one writer leaves is.
LEMMA SoloAfter ==
  ASSUME NEW d \in Date, NEW w \in Writer,
         \A x \in Writer \ {w} : ~Works(job'[x], d),
         \A s \in Store : \/ file'[<<s, d, "temp">>].open = {}
                          \/ /\ file'[<<s, d, "temp">>].open = {w} /\ Works(job'[w], d)
                             /\ job'[w].pc = "close" /\ job'[w].store = s,
         \/ file'[<<"v1", d, "final">>].open = {}
         \/ /\ file'[<<"v1", d, "final">>].open = {w} /\ Works(job'[w], d)
            /\ job'[w].pc = "clean_close",
         file'[<<"v2", d, "final">>].open = {},
         file'[<<"v1", d, "final">>].state \in {"none", "ok"} =>
           file'[<<"v1", d, "final">>].rows = committed'[d],
         \/ file'[<<"v1", d, "final">>].state \in {"none", "ok"} \/ d \in killed'
         \/ Works(job'[w], d) /\ job'[w].pc = "clean_close",
         file'[<<"v2", d, "final">>].state \in {"none", "ok"},
         d \notin killed' => \A s \in Symbol :
           \/ Explained(d, s)'
           \/ Works(job'[w], d) /\ HalfWritten(job'[w]) /\ job'[w].rows[s] # NoRow,
         Works(job'[w], d) => Carries(w, d)' /\ InHand(w, d)'
  PROVE  DateInv(d)'
<1>1. OpenInv(d)' BY DEF OpenInv, Final, Temp
<1>2. FinalInv(d)' BY DEF FinalInv, Final
<1>3. DivInv(d)' BY DEF DivInv
<1> QED BY <1>1, <1>2, <1>3 DEF DateInv
\* A writer that is not at the partition of a date leaves it alone.
LEMMA Outside ==
  ASSUME TypeOK, NEW w \in Writer, WriterStep(w), NEW d \in Date, ~Works(job[w], d)
  PROVE  /\ \A s \in Store : /\ file'[<<s, d, "final">>] = file[<<s, d, "final">>]
                             /\ file'[<<s, d, "temp">>] = file[<<s, d, "temp">>]
         /\ committed'[d] = committed[d] /\ logged'[d] = logged[d] /\ cleaned'[d] = cleaned[d]
<1>1. CASE job[w].pc \notin WorkPlaces
  <2>1. UNCHANGED <<file, committed, logged, cleaned>>
    BY <1>1 DEF WorkPlaces, ghosts, WriterStep, Prepare, ReadShadow, ShadowRefuses, OpenTemp,
                CloseTemp, MoveTemp, MoveFails, Invalidate, FillRead, CleanRead, CleanOpen,
                CleanClose, CleanFails
  <2> QED BY <2>1
<1>2. CASE job[w].pc \in WorkPlaces
  <2>0. At(w) # d BY <1>2, AtIsFirst DEF Works
  <2>1. At(w) \in Date /\ job[w].store \in Store BY <1>2, AtLeft DEF WorkPlaces, TypeOK, Jobs
  <2>2. ASSUME NEW s \in Store, NEW p \in {"final", "temp"}
        PROVE  file'[<<s, d, p>>] = file[<<s, d, p>>]
    <3> DEFINE c == <<s, d, p>>
    <3>1. c \in Cells /\ file \in [Cells -> Cell] BY DEF Cells, TypeOK
    <3>2. \A t, q : c # <<t, At(w), q>> BY <2>0
    <3>a. \A t \in Store, q \in {"final", "temp"} : <<t, At(w), q>> \in Cells BY <2>1 DEF Cells
    <3> HIDE DEF c
    <3>3. ASSUME NEW t \in Store, NEW q \in {"final", "temp"}, NEW v,
                 file' = [file EXCEPT ![<<t, At(w), q>>] = v]
          PROVE  file'[c] = file[c]
      BY <3>1, <3>2, <3>3
    <3>4. ASSUME file' = file PROVE file'[c] = file[c] BY <3>4
    <3>5. ASSUME OpenTemp(w) PROVE file'[c] = file[c] BY <2>1, <3>3, <3>4, <3>5 DEF OpenTemp
    <3>6. ASSUME CloseTemp(w) PROVE file'[c] = file[c]
      <4> DEFINE place == IF w \in Temp(job[w].store, At(w)).open THEN "temp" ELSE "final"
                 f == <<job[w].store, At(w), place>>
                 frame == IF job[w].store = "v2" THEN job[w].shadow ELSE job[w].frame
      <4>1. \/ \E new \in Closed(file[f], w, frame) : file' = [file EXCEPT ![f] = new]
            \/ file' = [file EXCEPT ![f] = Torn(file[f], w)]
        BY <3>6 DEF CloseTemp
      <4>2. place \in {"final", "temp"} OBVIOUS
      <4> HIDE DEF place, frame
      <4> QED BY <2>1, <3>3, <4>1, <4>2
    <3>7. ASSUME MoveTemp(w) PROVE file'[c] = file[c]
      <4>1. file' = [file EXCEPT ![<<job[w].store, At(w), "final">>] = Temp(job[w].store, At(w)),
                                 ![<<job[w].store, At(w), "temp">>] = NoFile]
        BY <3>7 DEF MoveTemp
      <4>2. c # <<job[w].store, At(w), "final">> /\ c # <<job[w].store, At(w), "temp">>
        BY <3>2
      <4> QED BY <3>1, <4>1, <4>2
    <3>8. ASSUME CleanOpen(w) \/ CleanClose(w) \/ CleanFails(w) PROVE file'[c] = file[c]
      BY <3>3, <3>8 DEF CleanOpen, CleanClose, CleanFails, Store
    <3>9. file'[c] = file[c]
      BY <3>4, <3>5, <3>6, <3>7, <3>8
      DEF WriterStep, Prepare, ReadShadow, ShadowRefuses, MoveFails, Invalidate, FillRead, CleanRead
    <3> QED BY <3>9 DEF c
  <2>3. committed'[d] = committed[d] /\ cleaned'[d] = cleaned[d]
    <3>1. committed \in [Date -> Rows] /\ cleaned \in [Date -> SUBSET Symbol] BY DEF TypeOK
    <3>2. CASE MoveTemp(w) \/ CleanClose(w) BY <2>0, <3>1, <3>2 DEF MoveTemp, CleanClose
    <3>3. CASE ~(MoveTemp(w) \/ CleanClose(w))
      <4>1. committed' = committed /\ cleaned' = cleaned
        BY <3>3 DEF ghosts, WriterStep, Prepare, ReadShadow, ShadowRefuses, OpenTemp,
                CloseTemp, WriteFails, MoveFails, Invalidate, FillRead, CleanRead, CleanOpen,
                CleanFails
      <4> QED BY <4>1
    <3> QED BY <3>2, <3>3
  <2>4. logged'[d] = logged[d]
    <3>1. logged \in [Date -> SUBSET Symbol] BY DEF TypeOK
    <3>2. CASE WriteFails(w, 0) \/ WriteFails(w, 1) BY <2>0, <3>1, <3>2 DEF WriteFails, Logs
    <3>3. CASE ~(WriteFails(w, 0) \/ WriteFails(w, 1))
      <4>1. logged' = logged
        BY <3>3 DEF ghosts, WriterStep, Prepare, ReadShadow, ShadowRefuses, OpenTemp,
                CloseTemp, MoveTemp, MoveFails, Invalidate, FillRead, CleanRead, CleanOpen,
                CleanClose, CleanFails
      <4> QED BY <4>1
    <3> QED BY <3>2, <3>3
  <2> QED BY <2>2, <2>3, <2>4
<1> QED BY <1>1, <1>2

\* A writer that comes to a partition finds nobody there.
LEMMA EntersKeeps ==
  ASSUME TypeOK, WhoInv, NEW d \in Date, DateInv(d), d \notin overlapped',
         NEW w \in Writer, WriterStep(w), Works(job'[w], d), ~Works(job[w], d)
  PROVE  DateInv(d)'
<1>n. [Next]_vars BY DEF Next
<1>1. job[w].pc \notin WorkPlaces /\ d = At(w) BY <1>n, NewWorker
<1>2. /\ overlapped' = Overlap(w, d)
      /\ ~Unreadable(Final("v1", d))
      /\ UNCHANGED <<file, logged, committed, killed, cleaned>>
      /\ w \in Thread => lock[<<"v1", d>>] = NoOne
      /\ \/ /\ job'[w].pc = "shadow" /\ job'[w].kind = "write"
            /\ job'[w].frame = Merge(Final("v1", d).rows, job'[w].rows)
         \/ /\ job'[w].pc = "shadow" /\ job'[w].kind = "fill"
            /\ job'[w].rows = Final("v1", d).rows
         \/ /\ job'[w].pc = "clean_open" /\ job'[w].kind = "clean"
            /\ job'[w].rows = Without(Final("v1", d).rows, job'[w].drop)
  BY <1>1, Enters DEF WhoInv, Works
<1>3. d \notin overlapped /\ DateInv(d) BY <1>2 DEF Overlap
<1>4. ASSUME NEW x \in Writer, Works(job[x], d) PROVE FALSE
  <2>1. SameProcess(w, x) BY <1>2, <1>4, InsideWorks DEF Overlap
  <2>2. x # w BY <1>4
  <2>3. w \in Thread /\ x \in Thread BY <2>1, <2>2 DEF SameProcess
  <2>4. lock[<<"v1", d>>] = x BY <1>4, <2>3 DEF WhoInv, HoldsLock, Works
  <2> QED BY <1>2, <2>3, <2>4, WritersAssumption DEF Writer
<1>5. \A x \in Writer \ {w} : ~Works(job'[x], d) BY <1>4, StepShape
<1>6. OpenInv(d) /\ FinalInv(d) /\ DivInv(d) BY <1>3 DEF DateInv
<1>7. \A s \in Store : Temp(s, d).open \subseteq Writer /\ Final(s, d).open \subseteq Writer
  BY DEF TypeOK, Cell, Temp, Final
<1>v. "v1" \in Store /\ "v2" \in Store BY DEF Store
<1>8. /\ \A s \in Store : Temp(s, d).open = {}
      /\ Final("v1", d).open = {} /\ Final("v2", d).open = {}
  BY <1>4, <1>6, <1>7, <1>v DEF OpenInv
<1>9. Final("v1", d).state \in {"none", "ok"}
  BY <1>2, <1>v DEF TypeOK, Cell, FileState, Final, Unreadable
<1>10. Final("v1", d).rows = committed[d] /\ Final("v2", d).state \in {"none", "ok"}
  BY <1>6, <1>9 DEF FinalInv
<1>11. d \notin killed => \A s \in Symbol : Explained(d, s)
  BY <1>4, <1>6 DEF DivInv
<1>12. Carries(w, d)' /\ InHand(w, d)'
  <2>1. Carries(w, d)'
    BY <1>2, <1>10 DEF Carries, Writes, Fills, HalfWritten
  <2>2. InHand(w, d)' BY <1>2, <1>9 DEF InHand, Final
  <2> QED BY <2>1, <2>2
<1>13. d \notin killed' => \A s \in Symbol : Explained(d, s)'
  BY <1>2, <1>11 DEF Explained, Final
<1>14. /\ \A s \in Store : file'[<<s, d, "temp">>].open = {}
       /\ file'[<<"v1", d, "final">>].open = {} /\ file'[<<"v2", d, "final">>].open = {}
       /\ file'[<<"v1", d, "final">>].state \in {"none", "ok"}
       /\ file'[<<"v1", d, "final">>].rows = committed'[d]
       /\ file'[<<"v2", d, "final">>].state \in {"none", "ok"}
  BY <1>2, <1>8, <1>9, <1>10 DEF Final, Temp
<1> QED BY <1>5, <1>12, <1>13, <1>14, SoloAfter
\* A call that fails on its way leaves a reason for every row that differs.
LEMMA FailureExplained ==
  ASSUME TypeOK, NEW w \in Writer, job[w].pc \in {"open", "close", "move"},
         NEW n \in Nat, WriteFails(w, n),
         NEW d \in Date, d = At(w),
         file'[<<"v2", d, "final">>] = file[<<"v2", d, "final">>],
         d \notin killed => \A s \in Symbol :
           Explained(d, s) \/ (HalfWritten(job[w]) /\ job[w].rows[s] # NoRow)
  PROVE  d \notin killed' => \A s \in Symbol : Explained(d, s)'
<1> SUFFICES ASSUME d \notin killed', NEW s \in Symbol PROVE Explained(d, s)'
  OBVIOUS
<1>1. PICK lost \in IF job[w].store = "v1" THEN {0, 1} ELSE {0} :
        /\ logged' = Logs(w, lost)
        /\ killed' = IF lost = 1 THEN killed \cup {At(w)} ELSE killed
  BY DEF WriteFails
<1>2. committed' = committed /\ cleaned' = cleaned BY DEF WriteFails
<1>3. lost = 0 /\ d \notin killed BY <1>1
<1>4. logged \in [Date -> SUBSET Symbol] BY DEF TypeOK
<1>5. logged[d] \subseteq logged'[d] BY <1>1, <1>4 DEF Logs
<1>6. CASE Explained(d, s) BY <1>2, <1>5, <1>6 DEF Explained, Final
<1>7. CASE HalfWritten(job[w]) /\ job[w].rows[s] # NoRow
  <2>1. logged'[d] = logged[d] \cup Present(job[w].rows)
    BY <1>1, <1>3, <1>4, <1>7 DEF Logs, HalfWritten
  <2>2. s \in Present(job[w].rows) BY <1>7 DEF Present
  <2> QED BY <2>1, <2>2 DEF Explained
<1> QED BY <1>3, <1>6, <1>7

\* What the merge of two batches holds.
LEMMA MergeHolds ==
  \A a, b, s : s \in Symbol =>
    Merge(a, b)[s] = IF b[s] # NoRow THEN b[s] ELSE a[s]
BY DEF Merge

\* The shadow is read: the call carries its rows merged with the batch.
LEMMA KeepsReadShadow ==
  ASSUME TypeOK, WhoInv, NEW d \in Date, DateInv(d), d \notin overlapped,
         NEW w \in Writer, Works(job[w], d), ReadShadow(w)
  PROVE  DateInv(d)'
<1>s. WriterStep(w) BY DEF WriterStep
<1>0. d = At(w) /\ Knows(w, d) /\ \A x \in Writer \ {w} : ~Works(job[x], d) BY Solo
<1>1. \A x \in Writer \ {w} : ~Works(job'[x], d) BY <1>0, <1>s, StepShape
<1>2. job[w].pc = "shadow" /\ UNCHANGED <<file, committed, logged, cleaned, killed>>
  BY DEF ReadShadow, ghosts
<1>j. job[w] \in Jobs BY DEF TypeOK
<1>3. /\ job'[w].pc = "open" /\ job'[w].kind = job[w].kind /\ job'[w].store = "v2"
      /\ job'[w].todo = job[w].todo
      /\ job'[w].rows = job[w].rows /\ job'[w].frame = job[w].frame
      /\ job'[w].shadow = Merge(Final("v2", d).rows, job[w].rows)
  <2>1. job'[w] = [job[w] EXCEPT !.pc = "open", !.store = "v2",
                     !.shadow = Merge(Final("v2", d).rows, job[w].rows)]
    BY <1>0, Becomes DEF ReadShadow
  <2> QED BY <1>j, <2>1 DEF Jobs
<1>4. Carries(w, d)'
  BY <1>0, <1>2, <1>3 DEF Knows, Carries, Writes, Fills, HalfWritten, Final
<1>5. InHand(w, d)' BY <1>0, <1>2, <1>3 DEF Knows, InHand, Final
<1>6. d \notin killed' => \A s \in Symbol : Explained(d, s)'
  BY <1>0, <1>2 DEF Knows, Explained, Final, HalfWritten
<1>7. /\ \A s \in Store : file'[<<s, d, "temp">>].open = {}
      /\ file'[<<"v1", d, "final">>].open = {} /\ file'[<<"v2", d, "final">>].open = {}
      /\ file'[<<"v1", d, "final">>].state \in {"none", "ok"}
      /\ file'[<<"v1", d, "final">>].rows = committed'[d]
      /\ file'[<<"v2", d, "final">>].state \in {"none", "ok"}
  BY <1>0, <1>2 DEF Knows, Final, Temp, InHand
<1> QED BY <1>1, <1>4, <1>5, <1>6, <1>7, SoloAfter

\* The shadow refuses: the call ends, and nothing was written.
LEMMA KeepsShadowRefuses ==
  ASSUME TypeOK, WhoInv, NEW d \in Date, DateInv(d), d \notin overlapped,
         NEW w \in Writer, Works(job[w], d), ShadowRefuses(w)
  PROVE  DateInv(d)'
<1>s. WriterStep(w) BY DEF WriterStep
<1>0. d = At(w) /\ Knows(w, d) /\ \A x \in Writer \ {w} : ~Works(job[x], d) BY Solo
<1>1. \A x \in Writer \ {w} : ~Works(job'[x], d) BY <1>0, <1>s, StepShape
<1>2. job[w].pc = "shadow" /\ UNCHANGED <<file, committed, logged, cleaned, killed>>
  BY DEF ShadowRefuses, ghosts
<1>3. ~Works(job'[w], d) BY LeavesFields DEF ShadowRefuses, Works, WorkPlaces
<1>6. d \notin killed' => \A s \in Symbol : Explained(d, s)'
  BY <1>0, <1>2 DEF Knows, Explained, Final, HalfWritten
<1>7. /\ \A s \in Store : file'[<<s, d, "temp">>].open = {}
      /\ file'[<<"v1", d, "final">>].open = {} /\ file'[<<"v2", d, "final">>].open = {}
      /\ file'[<<"v1", d, "final">>].state \in {"none", "ok"}
      /\ file'[<<"v1", d, "final">>].rows = committed'[d]
      /\ file'[<<"v2", d, "final">>].state \in {"none", "ok"}
  BY <1>0, <1>2 DEF Knows, Final, Temp, InHand
<1> QED BY <1>1, <1>3, <1>6, <1>7, SoloAfter
\* A step that writes one file of a date leaves the others.
LEMMA OneTemp ==
  ASSUME TypeOK, NEW d \in Date, NEW st \in Store, NEW v,
         file' = [file EXCEPT ![<<st, d, "temp">>] = v]
  PROVE  /\ file'[<<st, d, "temp">>] = v
         /\ \A s \in Store : file'[<<s, d, "final">>] = file[<<s, d, "final">>]
         /\ \A s \in Store : s # st => file'[<<s, d, "temp">>] = file[<<s, d, "temp">>]
<1>1. file \in [Cells -> Cell] /\ <<st, d, "temp">> \in Cells BY DEF TypeOK, Cells
<1>2. \A s \in Store : <<s, d, "final">> \in Cells /\ <<s, d, "temp">> \in Cells BY DEF Cells
<1>3. file'[<<st, d, "temp">>] = v BY <1>1
<1>4. ASSUME NEW s \in Store PROVE file'[<<s, d, "final">>] = file[<<s, d, "final">>]
  <2>1. <<s, d, "final">> # <<st, d, "temp">> OBVIOUS
  <2> QED BY <1>1, <1>2, <2>1
<1>5. ASSUME NEW s \in Store, s # st PROVE file'[<<s, d, "temp">>] = file[<<s, d, "temp">>]
  <2>1. <<s, d, "temp">> # <<st, d, "temp">> BY <1>5
  <2> QED BY <1>1, <1>2, <2>1
<1> QED BY <1>3, <1>4, <1>5

LEMMA OneFinal ==
  ASSUME TypeOK, NEW d \in Date, NEW v,
         file' = [file EXCEPT ![<<"v1", d, "final">>] = v]
  PROVE  /\ file'[<<"v1", d, "final">>] = v
         /\ file'[<<"v2", d, "final">>] = file[<<"v2", d, "final">>]
         /\ \A s \in Store : file'[<<s, d, "temp">>] = file[<<s, d, "temp">>]
<1>1. file \in [Cells -> Cell] /\ <<"v1", d, "final">> \in Cells BY DEF TypeOK, Cells, Store
<1>2. \A s \in Store : <<s, d, "final">> \in Cells /\ <<s, d, "temp">> \in Cells BY DEF Cells
<1>3. file'[<<"v1", d, "final">>] = v BY <1>1
<1>4. file'[<<"v2", d, "final">>] = file[<<"v2", d, "final">>] BY <1>1, <1>2 DEF Store
<1>5. ASSUME NEW s \in Store PROVE file'[<<s, d, "temp">>] = file[<<s, d, "temp">>]
  <2>1. <<s, d, "temp">> # <<"v1", d, "final">> OBVIOUS
  <2> QED BY <1>1, <1>2, <2>1
<1> QED BY <1>3, <1>4, <1>5

\* A temporary file is opened by its one writer, or the call fails.
LEMMA KeepsOpenTemp ==
  ASSUME TypeOK, WhoInv, NEW d \in Date, DateInv(d), d \notin overlapped,
         NEW w \in Writer, Works(job[w], d), OpenTemp(w)
  PROVE  DateInv(d)'
<1>s. WriterStep(w) BY DEF WriterStep
<1>0. d = At(w) /\ Knows(w, d) /\ \A x \in Writer \ {w} : ~Works(job[x], d) BY Solo
<1>1. \A x \in Writer \ {w} : ~Works(job'[x], d) BY <1>0, <1>s, StepShape
<1>2. job[w].pc = "open" BY DEF OpenTemp
<1>j. job[w] \in Jobs /\ job[w].store \in Store BY DEF TypeOK, Jobs
<1>t. \A s \in Store : Temp(s, d).open = {} BY <1>0, <1>2 DEF Knows
<1>f. Final("v1", d).state \in {"none", "ok"} BY <1>0, <1>2 DEF Knows, InHand
<1>v. "v1" \in Store /\ "v2" \in Store BY DEF Store
<1>3. CASE WriteFails(w, 1) /\ UNCHANGED file
  <2>1. ~Works(job'[w], d) BY <1>3, LeavesFields DEF WriteFails, Works, WorkPlaces
  <2>2. d \notin killed' => \A s \in Symbol : Explained(d, s)'
    BY <1>0, <1>2, <1>3, FailureExplained DEF Knows
  <2>3. /\ \A s \in Store : file'[<<s, d, "temp">>].open = {}
        /\ file'[<<"v1", d, "final">>].open = {} /\ file'[<<"v2", d, "final">>].open = {}
        /\ file'[<<"v1", d, "final">>].state \in {"none", "ok"}
        /\ file'[<<"v1", d, "final">>].rows = committed'[d]
        /\ file'[<<"v2", d, "final">>].state \in {"none", "ok"}
    BY <1>0, <1>2, <1>3, <1>t, <1>f DEF Knows, Final, Temp, WriteFails
  <2> QED BY <1>1, <2>1, <2>2, <2>3, SoloAfter
<1>4. CASE ~(WriteFails(w, 1) /\ UNCHANGED file)
  <2>1. /\ job'[w].pc = "close" /\ job'[w].kind = job[w].kind /\ job'[w].store = job[w].store
        /\ job'[w].todo = job[w].todo /\ job'[w].drop = job[w].drop
        /\ job'[w].rows = job[w].rows /\ job'[w].frame = job[w].frame
        /\ job'[w].shadow = job[w].shadow
    <3>1. job'[w] = [job[w] EXCEPT !.pc = "close"]
      BY <1>4, Becomes DEF OpenTemp
    <3> QED BY <1>j, <3>1 DEF Jobs
  <2>2. UNCHANGED <<committed, logged, cleaned, killed>> BY <1>4 DEF OpenTemp, ghosts
  <2> DEFINE new == [state |-> IF file[<<job[w].store, d, "temp">>].open = {}
                              THEN "partial" ELSE "mixed",
                    rows |-> NoRows, open |-> file[<<job[w].store, d, "temp">>].open \cup {w}]
  <2>3. file' = [file EXCEPT ![<<job[w].store, d, "temp">>] = new]
    BY <1>0, <1>4 DEF OpenTemp
  <2>4. file[<<job[w].store, d, "temp">>].open = {} BY <1>j, <1>t DEF Temp
  <2>n. new.state = "partial" /\ new.open = {w} BY <2>4
  <2> HIDE DEF new
  <2>m. file'[<<job[w].store, d, "temp">>] = new
    <3>1. file \in [Cells -> Cell] /\ <<job[w].store, d, "temp">> \in Cells
      BY <1>j DEF TypeOK, Cells
    <3> QED BY <2>3, <3>1
  <2>5. /\ file'[<<job[w].store, d, "temp">>].state = "partial"
        /\ file'[<<job[w].store, d, "temp">>].open = {w}
    BY <2>n, <2>m
  <2>6. /\ \A s \in Store : file'[<<s, d, "final">>] = file[<<s, d, "final">>]
        /\ \A s \in Store : s # job[w].store => file'[<<s, d, "temp">>] = file[<<s, d, "temp">>]
    BY <1>j, <2>3, OneTemp
  <2>w. Works(job'[w], d) BY <2>1 DEF Works, WorkPlaces
  <2>7. Carries(w, d)'
    BY <1>0, <1>2, <1>v, <2>1, <2>2, <2>6 DEF Knows, Carries, Writes, Fills, HalfWritten, Final
  <2>8. InHand(w, d)' BY <1>f, <1>v, <2>1, <2>5, <2>6 DEF InHand, Final, Temp
  <2>9. d \notin killed' => \A s \in Symbol :
          Explained(d, s)' \/ (HalfWritten(job'[w]) /\ job'[w].rows[s] # NoRow)
    BY <1>0, <1>2, <1>v, <2>1, <2>2, <2>6 DEF Knows, Explained, Final, HalfWritten
  <2>10. \A s \in Store : \/ file'[<<s, d, "temp">>].open = {}
                          \/ /\ file'[<<s, d, "temp">>].open = {w} /\ Works(job'[w], d)
                             /\ job'[w].pc = "close" /\ job'[w].store = s
    BY <1>t, <2>1, <2>5, <2>6, <2>w DEF Temp
  <2>11. /\ file'[<<"v1", d, "final">>].open = {} /\ file'[<<"v2", d, "final">>].open = {}
         /\ file'[<<"v1", d, "final">>].state \in {"none", "ok"}
         /\ file'[<<"v1", d, "final">>].rows = committed'[d]
         /\ file'[<<"v2", d, "final">>].state \in {"none", "ok"}
    BY <1>0, <1>2, <1>f, <1>v, <2>2, <2>6 DEF Knows, Final
  <2> QED BY <1>1, <2>w, <2>7, <2>8, <2>9, <2>10, <2>11, SoloAfter
<1> QED BY <1>3, <1>4

\* The temporary file is written out whole, or left torn by a call that fails.
LEMMA KeepsCloseTemp ==
  ASSUME TypeOK, WhoInv, NEW d \in Date, DateInv(d), d \notin overlapped,
         NEW w \in Writer, Works(job[w], d), CloseTemp(w)
  PROVE  DateInv(d)'
<1>s. WriterStep(w) BY DEF WriterStep
<1>0. d = At(w) /\ Knows(w, d) /\ \A x \in Writer \ {w} : ~Works(job[x], d) BY Solo
<1>1. \A x \in Writer \ {w} : ~Works(job'[x], d) BY <1>0, <1>s, StepShape
<1>2. job[w].pc = "close" BY DEF CloseTemp
<1>j. job[w] \in Jobs /\ job[w].store \in Store BY DEF TypeOK, Jobs
<1>t. \A s \in Store : s # job[w].store => Temp(s, d).open = {} BY <1>0 DEF Knows
<1>f. Final("v1", d).state \in {"none", "ok"} BY <1>0, <1>2 DEF Knows, InHand
<1>v. "v1" \in Store /\ "v2" \in Store BY DEF Store
<1> DEFINE t == <<job[w].store, d, "temp">>
           frame == IF job[w].store = "v2" THEN job[w].shadow ELSE job[w].frame
<1>h. file[t].state = "partial" /\ file[t].open = {w}
  BY <1>0, <1>2 DEF Knows, InHand, Temp
<1>k. LET place == IF w \in Temp(job[w].store, d).open THEN "temp" ELSE "final"
      IN  <<job[w].store, d, place>> = t
  BY <1>h DEF Temp
<1>c. Closed(file[t], w, frame) = {[state |-> "ok", rows |-> frame, open |-> {}]}
  BY <1>h DEF Closed
<1>e. \/ /\ file' = [file EXCEPT ![t] = [state |-> "ok", rows |-> frame, open |-> {}]]
         /\ Goes(w, [job[w] EXCEPT !.pc = "move"])
         /\ UNCHANGED <<lock, logged, listing, reader, ghosts, used>>
      \/ WriteFails(w, 1) /\ file' = [file EXCEPT ![t] = Torn(file[t], w)]
  BY <1>0, <1>k, <1>c DEF CloseTemp
<1>3. CASE WriteFails(w, 1) /\ file' = [file EXCEPT ![t] = Torn(file[t], w)]
  <2>1. ~Works(job'[w], d) BY <1>3, LeavesFields DEF WriteFails, Works, WorkPlaces
  <2>2. /\ file'[t] = Torn(file[t], w)
        /\ \A s \in Store : file'[<<s, d, "final">>] = file[<<s, d, "final">>]
        /\ \A s \in Store : s # job[w].store => file'[<<s, d, "temp">>] = file[<<s, d, "temp">>]
    BY <1>j, <1>3, OneTemp
  <2>3. Torn(file[t], w).open = {} BY <1>h DEF Torn
  <2>4. d \notin killed' => \A s \in Symbol : Explained(d, s)'
    BY <1>0, <1>2, <1>3, <1>v, <2>2, FailureExplained DEF Knows
  <2>5. \A s \in Store : file'[<<s, d, "temp">>].open = {}
    BY <1>t, <2>2, <2>3 DEF Temp
  <2>6. /\ file'[<<"v1", d, "final">>].open = {} /\ file'[<<"v2", d, "final">>].open = {}
        /\ file'[<<"v1", d, "final">>].state \in {"none", "ok"}
        /\ file'[<<"v1", d, "final">>].rows = committed'[d]
        /\ file'[<<"v2", d, "final">>].state \in {"none", "ok"}
    BY <1>0, <1>2, <1>3, <1>f, <1>v, <2>2 DEF Knows, Final, WriteFails
  <2> QED BY <1>1, <2>1, <2>4, <2>5, <2>6, SoloAfter
<1>4. CASE /\ file' = [file EXCEPT ![t] = [state |-> "ok", rows |-> frame, open |-> {}]]
           /\ Goes(w, [job[w] EXCEPT !.pc = "move"])
           /\ UNCHANGED <<lock, logged, listing, reader, ghosts, used>>
  <2>1. /\ job'[w].pc = "move" /\ job'[w].kind = job[w].kind /\ job'[w].store = job[w].store
        /\ job'[w].todo = job[w].todo /\ job'[w].drop = job[w].drop
        /\ job'[w].rows = job[w].rows /\ job'[w].frame = job[w].frame
        /\ job'[w].shadow = job[w].shadow
    <3>1. job'[w] = [job[w] EXCEPT !.pc = "move"] BY <1>4, Becomes
    <3> QED BY <1>j, <3>1 DEF Jobs
  <2>2. UNCHANGED <<committed, logged, cleaned, killed>> BY <1>4 DEF ghosts
  <2> DEFINE new == [state |-> "ok", rows |-> frame, open |-> {}]
  <2>n. file' = [file EXCEPT ![t] = new] BY <1>4
  <2> HIDE DEF new
  <2>m. /\ file'[t] = new
        /\ \A s \in Store : file'[<<s, d, "final">>] = file[<<s, d, "final">>]
        /\ \A s \in Store : s # job[w].store => file'[<<s, d, "temp">>] = file[<<s, d, "temp">>]
    BY <1>j, <2>n, OneTemp
  <2>3. /\ file'[t] = [state |-> "ok", rows |-> frame, open |-> {}]
        /\ \A s \in Store : file'[<<s, d, "final">>] = file[<<s, d, "final">>]
        /\ \A s \in Store : s # job[w].store => file'[<<s, d, "temp">>] = file[<<s, d, "temp">>]
    BY <2>m DEF new
  <2>w. Works(job'[w], d) BY <2>1 DEF Works, WorkPlaces
  <2>4. Carries(w, d)'
    BY <1>0, <1>2, <1>v, <2>1, <2>2, <2>3 DEF Knows, Carries, Writes, Fills, HalfWritten, Final
  <2>5. InHand(w, d)' BY <1>f, <1>v, <2>1, <2>3 DEF InHand, Final, Temp
  <2>6. d \notin killed' => \A s \in Symbol :
          Explained(d, s)' \/ (HalfWritten(job'[w]) /\ job'[w].rows[s] # NoRow)
    BY <1>0, <1>2, <1>v, <2>1, <2>2, <2>3 DEF Knows, Explained, Final, HalfWritten
  <2>7. ASSUME NEW s \in Store PROVE file'[<<s, d, "temp">>].open = {}
    <3>1. file'[t].open = {} BY <2>3
    <3>2. s # job[w].store => file'[<<s, d, "temp">>].open = {} BY <1>t, <2>3 DEF Temp
    <3> QED BY <3>1, <3>2
  <2>8. /\ file'[<<"v1", d, "final">>].open = {} /\ file'[<<"v2", d, "final">>].open = {}
        /\ file'[<<"v1", d, "final">>].state \in {"none", "ok"}
        /\ file'[<<"v1", d, "final">>].rows = committed'[d]
        /\ file'[<<"v2", d, "final">>].state \in {"none", "ok"}
    BY <1>0, <1>2, <1>f, <1>v, <2>2, <2>3 DEF Knows, Final
  <2> QED BY <1>1, <2>w, <2>4, <2>5, <2>6, <2>7, <2>8, SoloAfter
<1> QED BY <1>e, <1>3, <1>4
\* The shadow's rename: what the batch brings is in v2, and either v1 is next
\* or the rows came from there.
LEMMA KeepsMoveShadow ==
  ASSUME TypeOK, WhoInv, NEW d \in Date, DateInv(d), d \notin overlapped,
         NEW w \in Writer, Works(job[w], d), MoveTemp(w), job[w].store = "v2"
  PROVE  DateInv(d)'
<1>s. WriterStep(w) BY DEF WriterStep
<1>0. d = At(w) /\ Knows(w, d) /\ \A x \in Writer \ {w} : ~Works(job[x], d) BY Solo
<1>1. \A x \in Writer \ {w} : ~Works(job'[x], d) BY <1>0, <1>s, StepShape
<1>2. job[w].pc = "move" /\ UNCHANGED <<committed, logged, cleaned, killed>>
  BY DEF MoveTemp
<1>j. job[w] \in Jobs BY DEF TypeOK
<1>t. \A s \in Store : Temp(s, d).open = {} BY <1>0, <1>2 DEF Knows
<1>f. Final("v1", d).state \in {"none", "ok"} BY <1>0, <1>2 DEF Knows, InHand
<1>h. Temp("v2", d) = [state |-> "ok", open |-> {}, rows |-> job[w].shadow]
  BY <1>0, <1>2 DEF Knows, InHand
<1>m. job[w].shadow = Merge(Final("v2", d).rows, job[w].rows)
  BY <1>0, <1>2 DEF Knows, Carries
<1>3. /\ file'[<<"v2", d, "final">>] = Temp("v2", d)
      /\ file'[<<"v2", d, "temp">>] = NoFile
      /\ file'[<<"v1", d, "final">>] = file[<<"v1", d, "final">>]
      /\ file'[<<"v1", d, "temp">>] = file[<<"v1", d, "temp">>]
  <2>1. file' = [file EXCEPT ![<<"v2", d, "final">>] = Temp("v2", d),
                             ![<<"v2", d, "temp">>] = NoFile]
    BY <1>0 DEF MoveTemp
  <2>2. file \in [Cells -> Cell] BY DEF TypeOK, Cells
  <2>3. /\ <<"v1", d, "final">> \in Cells /\ <<"v1", d, "temp">> \in Cells
        /\ <<"v2", d, "final">> \in Cells /\ <<"v2", d, "temp">> \in Cells
    BY DEF Cells, Store
  <2> HIDE DEF Cells
  <2> QED BY <2>1, <2>2, <2>3
<1>4. /\ \A s \in Store : file'[<<s, d, "temp">>].open = {}
      /\ file'[<<"v1", d, "final">>].open = {} /\ file'[<<"v2", d, "final">>].open = {}
      /\ file'[<<"v1", d, "final">>].state \in {"none", "ok"}
      /\ file'[<<"v1", d, "final">>].rows = committed'[d]
      /\ file'[<<"v2", d, "final">>].state \in {"none", "ok"}
      /\ file'[<<"v2", d, "final">>].rows = job[w].shadow
  <2>1. NoFile.open = {} BY DEF NoFile
  <2>2. file["v1", d, "temp"].open = {} BY <1>t DEF Temp, Store
  <2>3. \A s \in Store : file'[<<s, d, "temp">>].open = {} BY <1>3, <2>1, <2>2 DEF Store
  <2>4. /\ Final("v1", d).open = {} /\ Final("v1", d).rows = committed[d]
    BY <1>0, <1>2, <1>f DEF Knows
  <2>5. /\ file'[<<"v1", d, "final">>].open = {}
        /\ file'[<<"v1", d, "final">>].state \in {"none", "ok"}
        /\ file'[<<"v1", d, "final">>].rows = committed'[d]
    BY <1>2, <1>3, <1>f, <2>4 DEF Final
  <2>6. /\ file'[<<"v2", d, "final">>].open = {}
        /\ file'[<<"v2", d, "final">>].state \in {"none", "ok"}
        /\ file'[<<"v2", d, "final">>].rows = job[w].shadow
    BY <1>3, <1>h
  <2> QED BY <2>3, <2>5, <2>6
<1>r. ASSUME NEW s \in Symbol
      PROVE  job[w].shadow[s] = IF job[w].rows[s] # NoRow THEN job[w].rows[s]
                                ELSE Final("v2", d).rows[s]
  BY <1>m, MergeHolds
<1>5. ASSUME d \notin killed', NEW s \in Symbol, job[w].rows[s] = NoRow PROVE Explained(d, s)'
  <2>1. Explained(d, s) BY <1>0, <1>2, <1>5 DEF Knows
  <2>2. file'[<<"v2", d, "final">>].rows[s] = Final("v2", d).rows[s] BY <1>4, <1>5, <1>r
  <2> QED BY <1>2, <2>1, <2>2 DEF Explained, Final
<1>6. CASE job[w].kind = "write"
  <2>1. /\ job'[w].pc = "open" /\ job'[w].kind = "write" /\ job'[w].store = "v1"
        /\ job'[w].todo = job[w].todo
        /\ job'[w].rows = job[w].rows /\ job'[w].frame = job[w].frame
    <3>1. job'[w] = [job[w] EXCEPT !.pc = "open", !.store = "v1", !.shadow = NoRows]
      BY <1>6, Becomes DEF MoveTemp
    <3> QED BY <1>j, <1>6, <3>1 DEF Jobs
  <2>2. Works(job'[w], d) BY <2>1 DEF Works, WorkPlaces
  <2>3. \A s \in Symbol : job[w].rows[s] # NoRow =>
          file'[<<"v2", d, "final">>].rows[s] = job[w].rows[s]
    BY <1>4, <1>r
  <2>4. job[w].frame = Merge(committed[d], job[w].rows)
    BY <1>0, <1>2, <1>6 DEF Knows, Carries, Writes
  <2>5. Carries(w, d)'
    BY <1>2, <2>1, <2>3, <2>4 DEF Carries, Writes, Fills, Final
  <2>6. InHand(w, d)' BY <1>4, <2>1 DEF InHand, Final
  <2>7. d \notin killed' => \A s \in Symbol :
          Explained(d, s)' \/ (HalfWritten(job'[w]) /\ job'[w].rows[s] # NoRow)
    BY <1>5, <2>1 DEF HalfWritten
  <2> QED BY <1>1, <1>4, <2>2, <2>5, <2>6, <2>7, SoloAfter
<1>7. CASE job[w].kind # "write"
  <2>1. Goes(w, NextDate(w)) BY <1>7 DEF MoveTemp
  <2>2. ~Works(job'[w], d) BY <2>1, LeavesFields DEF Works, WorkPlaces
  <2>3. job[w].rows = committed[d] BY <1>0, <1>2, <1>7 DEF Knows, Carries, Fills
  <2>4. ASSUME d \notin killed', NEW s \in Symbol PROVE Explained(d, s)'
    <3>1. CASE job[w].rows[s] = NoRow BY <1>5, <2>4, <3>1
    <3>2. CASE job[w].rows[s] # NoRow
      <4>1. file'[<<"v2", d, "final">>].rows[s] = committed'[d][s]
        BY <1>2, <1>4, <1>r, <2>3, <3>2
      <4> QED BY <4>1 DEF Explained, Final
    <3> QED BY <3>1, <3>2
  <2> QED BY <1>1, <1>4, <2>2, <2>4, SoloAfter
<1> QED BY <1>6, <1>7

\* The v1 rename commits the batch.
LEMMA KeepsMoveOne ==
  ASSUME TypeOK, WhoInv, NEW d \in Date, DateInv(d), d \notin overlapped,
         NEW w \in Writer, Works(job[w], d), MoveTemp(w), job[w].store = "v1"
  PROVE  DateInv(d)'
<1>s. WriterStep(w) BY DEF WriterStep
<1>0. d = At(w) /\ Knows(w, d) /\ \A x \in Writer \ {w} : ~Works(job[x], d) BY Solo
<1>1. \A x \in Writer \ {w} : ~Works(job'[x], d) BY <1>0, <1>s, StepShape
<1>2. job[w].pc = "move" /\ UNCHANGED <<logged, cleaned, killed>>
  BY DEF MoveTemp
<1>j. job[w] \in Jobs /\ job[w].kind = "write"
  BY <1>2 DEF TypeOK, WhoInv, KindOK
<1>t. \A s \in Store : Temp(s, d).open = {} BY <1>0, <1>2 DEF Knows
<1>h. Temp("v1", d) = [state |-> "ok", open |-> {}, rows |-> job[w].frame]
  BY <1>0, <1>2 DEF Knows, InHand
<1>m. job[w].frame = Merge(committed[d], job[w].rows)
  BY <1>0, <1>2, <1>j DEF Knows, Carries, Writes
<1>c. committed' = [committed EXCEPT ![d] = Merge(committed[d], job[w].rows)]
  BY <1>0 DEF MoveTemp
<1>d. committed'[d] = job[w].frame BY <1>c, <1>m DEF TypeOK
<1>3. /\ file'[<<"v1", d, "final">>] = Temp("v1", d)
      /\ file'[<<"v1", d, "temp">>] = NoFile
      /\ file'[<<"v2", d, "final">>] = file[<<"v2", d, "final">>]
      /\ file'[<<"v2", d, "temp">>] = file[<<"v2", d, "temp">>]
  <2>1. file' = [file EXCEPT ![<<"v1", d, "final">>] = Temp("v1", d),
                             ![<<"v1", d, "temp">>] = NoFile]
    BY <1>0 DEF MoveTemp
  <2>2. file \in [Cells -> Cell] BY DEF TypeOK, Cells
  <2>3. /\ <<"v1", d, "final">> \in Cells /\ <<"v1", d, "temp">> \in Cells
        /\ <<"v2", d, "final">> \in Cells /\ <<"v2", d, "temp">> \in Cells
    BY DEF Cells, Store
  <2> QED BY <2>1, <2>2, <2>3
<1>4. /\ \A s \in Store : file'[<<s, d, "temp">>].open = {}
      /\ file'[<<"v1", d, "final">>].open = {} /\ file'[<<"v2", d, "final">>].open = {}
      /\ file'[<<"v1", d, "final">>].state \in {"none", "ok"}
      /\ file'[<<"v1", d, "final">>].rows = committed'[d]
      /\ file'[<<"v2", d, "final">>].state \in {"none", "ok"}
  <2>1. NoFile.open = {} BY DEF NoFile
  <2>2. file["v2", d, "temp"].open = {} BY <1>t DEF Temp, Store
  <2>3. \A s \in Store : file'[<<s, d, "temp">>].open = {} BY <1>3, <2>1, <2>2 DEF Store
  <2>4. /\ Final("v2", d).open = {} /\ Final("v2", d).state \in {"none", "ok"}
    BY <1>0 DEF Knows
  <2>5. /\ file'[<<"v2", d, "final">>].open = {}
        /\ file'[<<"v2", d, "final">>].state \in {"none", "ok"}
    BY <1>3, <2>4 DEF Final
  <2>6. /\ file'[<<"v1", d, "final">>].open = {}
        /\ file'[<<"v1", d, "final">>].state \in {"none", "ok"}
        /\ file'[<<"v1", d, "final">>].rows = committed'[d]
    BY <1>d, <1>3, <1>h
  <2> QED BY <2>3, <2>5, <2>6
<1>5. ~Works(job'[w], d)
  <2>1. job'[w] = [job[w] EXCEPT !.pc = "invalidate", !.frame = NoRows]
    BY Becomes DEF MoveTemp
  <2> QED BY <1>j, <2>1 DEF Jobs, Works, WorkPlaces
<1>6. ASSUME d \notin killed', NEW s \in Symbol PROVE Explained(d, s)'
  <2>1. HalfWritten(job[w]) BY <1>2, <1>j DEF HalfWritten
  <2>2. job[w].frame[s] = IF job[w].rows[s] # NoRow THEN job[w].rows[s] ELSE committed[d][s]
    BY <1>m, MergeHolds
  <2>3. CASE job[w].rows[s] # NoRow
    <3>1. Final("v2", d).rows[s] = job[w].rows[s]
      BY <1>0, <2>1, <2>3 DEF Knows, Carries
    <3>2. file'[<<"v2", d, "final">>].rows[s] = committed'[d][s]
      BY <1>3, <1>d, <2>2, <2>3, <3>1 DEF Final
    <3> QED BY <3>2 DEF Explained, Final
  <2>4. CASE job[w].rows[s] = NoRow
    <3>1. Explained(d, s) BY <1>0, <1>2, <1>6, <2>4 DEF Knows
    <3>2. committed'[d][s] = committed[d][s] BY <1>d, <2>2, <2>4
    <3> QED BY <1>2, <1>3, <3>1, <3>2 DEF Explained, Final
  <2> QED BY <2>3, <2>4
<1> QED BY <1>1, <1>4, <1>5, <1>6, SoloAfter
\* A cleaning script truncates the partition it has read.
LEMMA KeepsCleanOpen ==
  ASSUME TypeOK, WhoInv, NEW d \in Date, DateInv(d), d \notin overlapped,
         NEW w \in Writer, Works(job[w], d), CleanOpen(w)
  PROVE  DateInv(d)'
<1>s. WriterStep(w) BY DEF WriterStep
<1>0. d = At(w) /\ Knows(w, d) /\ \A x \in Writer \ {w} : ~Works(job[x], d) BY Solo
<1>1. \A x \in Writer \ {w} : ~Works(job'[x], d) BY <1>0, <1>s, StepShape
<1>2. job[w].pc = "clean_open" /\ UNCHANGED <<committed, logged, cleaned, killed>>
  BY DEF CleanOpen, ghosts
<1>j. job[w] \in Jobs BY DEF TypeOK
<1>t. \A s \in Store : Temp(s, d).open = {} BY <1>0, <1>2 DEF Knows
<1>v. "v1" \in Store /\ "v2" \in Store BY DEF Store
<1>3. /\ job'[w].pc = "clean_close" /\ job'[w].kind = job[w].kind
      /\ job'[w].todo = job[w].todo /\ job'[w].drop = job[w].drop
      /\ job'[w].rows = job[w].rows
  <2>1. job'[w] = [job[w] EXCEPT !.pc = "clean_close"] BY Becomes DEF CleanOpen
  <2> QED BY <1>j, <2>1 DEF Jobs
<1>w. Works(job'[w], d) BY <1>3 DEF Works, WorkPlaces
<1> DEFINE c == <<"v1", d, "final">>
           new == [state |-> IF file[c].open = {} THEN "partial" ELSE "mixed",
                   rows |-> NoRows, open |-> file[c].open \cup {w}]
<1>4. file' = [file EXCEPT ![c] = new] BY <1>0 DEF CleanOpen
<1>5. file[c].open = {} BY <1>0, <1>2 DEF Knows, Final
<1>6. new.state = "partial" /\ new.open = {w} BY <1>5
<1> HIDE DEF new
<1>7. /\ file'[c] = new
      /\ file'[<<"v2", d, "final">>] = file[<<"v2", d, "final">>]
      /\ \A s \in Store : file'[<<s, d, "temp">>] = file[<<s, d, "temp">>]
  BY <1>4, OneFinal
<1>8. file'[c].state = "partial" /\ file'[c].open = {w} BY <1>6, <1>7
<1>9. Carries(w, d)'
  BY <1>0, <1>2, <1>3 DEF Knows, Carries, Writes, Fills, HalfWritten
<1>10. InHand(w, d)' BY <1>3, <1>8 DEF InHand, Final
<1>11. d \notin killed' => \A s \in Symbol : Explained(d, s)'
  BY <1>0, <1>2, <1>7 DEF Knows, Explained, Final, HalfWritten
<1>12. \A s \in Store : file'[<<s, d, "temp">>].open = {} BY <1>t, <1>7 DEF Temp
<1>13. /\ file'[<<"v2", d, "final">>].open = {}
       /\ file'[<<"v2", d, "final">>].state \in {"none", "ok"}
  BY <1>0, <1>7 DEF Knows, Final
<1> QED BY <1>1, <1>3, <1>w, <1>8, <1>9, <1>10, <1>11, <1>12, <1>13, SoloAfter

\* The kept rows are written out whole: that is the commit of the removal.
LEMMA KeepsCleanClose ==
  ASSUME TypeOK, WhoInv, NEW d \in Date, DateInv(d), d \notin overlapped,
         NEW w \in Writer, Works(job[w], d), CleanClose(w)
  PROVE  DateInv(d)'
<1>s. WriterStep(w) BY DEF WriterStep
<1>0. d = At(w) /\ Knows(w, d) /\ \A x \in Writer \ {w} : ~Works(job[x], d) BY Solo
<1>1. \A x \in Writer \ {w} : ~Works(job'[x], d) BY <1>0, <1>s, StepShape
<1>2. job[w].pc = "clean_close" /\ UNCHANGED <<logged, killed>>
  BY DEF CleanClose
<1>j. job[w] \in Jobs /\ job[w].kind = "clean" BY <1>2 DEF TypeOK, WhoInv, KindOK
<1>t. \A s \in Store : Temp(s, d).open = {} BY <1>0, <1>2 DEF Knows
<1> DEFINE c == <<"v1", d, "final">>
           new == [state |-> "ok", rows |-> job[w].rows, open |-> {}]
<1>h. file[c].state = "partial" /\ file[c].open = {w}
  BY <1>0, <1>2 DEF Knows, InHand, Final
<1>3. Closed(file[c], w, job[w].rows) = {new} BY <1>h DEF Closed
<1>4. file' = [file EXCEPT ![c] = new] BY <1>0, <1>3 DEF CleanClose
<1>5. new.state = "ok" /\ new.open = {} /\ new.rows = job[w].rows OBVIOUS
<1> HIDE DEF new
<1>6. /\ file'[c] = new
      /\ file'[<<"v2", d, "final">>] = file[<<"v2", d, "final">>]
      /\ \A s \in Store : file'[<<s, d, "temp">>] = file[<<s, d, "temp">>]
  BY <1>4, OneFinal
<1>7. file'[c].state = "ok" /\ file'[c].open = {} /\ file'[c].rows = job[w].rows
  BY <1>5, <1>6
<1>m. job[w].rows = Without(committed[d], job[w].drop)
  BY <1>0, <1>2 DEF Knows, Carries
<1>c. committed'[d] = job[w].rows /\ cleaned'[d] = cleaned[d] \cup job[w].drop
  <2>1. /\ committed' = [committed EXCEPT ![d] = Without(committed[d], job[w].drop)]
        /\ cleaned' = [cleaned EXCEPT ![d] = cleaned[d] \cup job[w].drop]
    BY <1>0 DEF CleanClose
  <2> QED BY <1>m, <2>1 DEF TypeOK
<1>8. ASSUME d \notin killed', NEW s \in Symbol PROVE Explained(d, s)'
  <2>1. Explained(d, s) BY <1>0, <1>2, <1>8 DEF Knows, HalfWritten
  <2>2. CASE s \in job[w].drop BY <1>c, <2>2 DEF Explained
  <2>3. CASE s \notin job[w].drop
    <3>1. committed'[d][s] = committed[d][s] BY <1>c, <1>m, <2>3 DEF Without
    <3> QED BY <1>2, <1>6, <1>c, <2>1, <3>1 DEF Explained, Final
  <2> QED BY <2>2, <2>3
<1>9. \A s \in Store : file'[<<s, d, "temp">>].open = {} BY <1>t, <1>6 DEF Temp
<1>10. /\ file'[<<"v2", d, "final">>].open = {}
       /\ file'[<<"v2", d, "final">>].state \in {"none", "ok"}
  BY <1>0, <1>6 DEF Knows, Final
<1>11. Works(job'[w], d) => Carries(w, d)' /\ InHand(w, d)'
  <2>1. CASE Goes(w, NextDate(w)) BY <2>1, LeavesFields DEF Works, WorkPlaces
  <2>2. CASE ~Goes(w, NextDate(w))
    <3>1. job'[w] = [job[w] EXCEPT !.pc = "shadow"] BY <2>2, Becomes DEF CleanClose
    <3>2. job'[w].pc = "shadow" /\ job'[w].kind = "clean" /\ job'[w].rows = job[w].rows
      BY <1>j, <3>1 DEF Jobs
    <3>3. Carries(w, d)' BY <1>c, <3>2 DEF Carries, Writes, Fills, HalfWritten
    <3>4. InHand(w, d)' BY <1>7, <3>2 DEF InHand, Final
    <3> QED BY <3>3, <3>4
  <2> QED BY <2>1, <2>2
<1> QED BY <1>1, <1>7, <1>c, <1>8, <1>9, <1>10, <1>11, SoloAfter

\* Rewriting in place fails: a partition already truncated stays unreadable, and
\* that is known of the date.
LEMMA KeepsCleanFails ==
  ASSUME TypeOK, WhoInv, NEW d \in Date, DateInv(d), d \notin overlapped,
         NEW w \in Writer, Works(job[w], d), CleanFails(w)
  PROVE  DateInv(d)'
<1>s. WriterStep(w) BY DEF WriterStep
<1>0. d = At(w) /\ Knows(w, d) /\ \A x \in Writer \ {w} : ~Works(job[x], d) BY Solo
<1>1. \A x \in Writer \ {w} : ~Works(job'[x], d) BY <1>0, <1>s, StepShape
<1>2. /\ job[w].pc \in {"clean_open", "clean_close"}
      /\ UNCHANGED <<committed, logged, cleaned>>
      /\ killed' = IF HalfDone(w) THEN killed \cup {d} ELSE killed
  BY <1>0 DEF CleanFails
<1>t. \A s \in Store : Temp(s, d).open = {} BY <1>0, <1>2 DEF Knows
<1>3. ~Works(job'[w], d) BY LeavesFields DEF CleanFails, Works, WorkPlaces
<1> DEFINE c == <<"v1", d, "final">>
           new == Torn(file[c], w)
<1>4. file' = [file EXCEPT ![c] = new] BY <1>0 DEF CleanFails
<1>5. /\ job[w].pc = "clean_open" => new = file[c] /\ file[c].open = {}
      /\ job[w].pc = "clean_close" => new.state = "torn" /\ new.open = {}
  BY <1>0, <1>2 DEF Knows, InHand, Final, Torn
<1> HIDE DEF new
<1>6. /\ file'[c] = new
      /\ file'[<<"v2", d, "final">>] = file[<<"v2", d, "final">>]
      /\ \A s \in Store : file'[<<s, d, "temp">>] = file[<<s, d, "temp">>]
  BY <1>4, OneFinal
<1>7. /\ file'[c].open = {}
      /\ file'[c].state \in {"none", "ok"} => file'[c].rows = committed'[d]
      /\ file'[c].state \in {"none", "ok"} \/ d \in killed'
  <2>1. CASE job[w].pc = "clean_open"
    BY <1>0, <1>2, <1>5, <1>6, <2>1 DEF Knows, InHand, Final
  <2>2. CASE job[w].pc = "clean_close"
    <3>1. d \in killed' BY <1>2, <2>2 DEF HalfDone
    <3> QED BY <1>5, <1>6, <2>2, <3>1
  <2> QED BY <1>2, <2>1, <2>2
<1>8. d \notin killed' => \A s \in Symbol : Explained(d, s)'
  BY <1>0, <1>2, <1>6 DEF Knows, Explained, Final, HalfWritten
<1>9. \A s \in Store : file'[<<s, d, "temp">>].open = {} BY <1>t, <1>6 DEF Temp
<1>10. /\ file'[<<"v2", d, "final">>].open = {}
       /\ file'[<<"v2", d, "final">>].state \in {"none", "ok"}
  BY <1>0, <1>6 DEF Knows, Final
<1> QED BY <1>1, <1>3, <1>7, <1>8, <1>9, <1>10, SoloAfter

\* A process dies: what it had open is torn, and a date it stopped on with one
\* store written is known.
LEMMA KeepsCrash ==
  ASSUME TypeOK, WhoInv, NEW d \in Date, DateInv(d),
         NEW dead \in SUBSET Writer, Crash(dead)
  PROVE  DateInv(d)'
<1>0. /\ job' = [x \in Writer |-> IF x \in dead THEN Idle ELSE job[x]]
      /\ killed' = killed \cup {At(x) : x \in {y \in dead : HalfDone(y)}}
      /\ UNCHANGED <<logged, committed, overlapped, cleaned>>
  BY DEF Crash
<1>i. ~Works(Idle, d) BY DEF Works, WorkPlaces, Idle
<1>c. ASSUME NEW c \in Cells
      PROVE  file'[c] = IF file[c].open \cap dead = {} THEN file[c]
               ELSE [state |-> IF file[c].open \subseteq dead THEN "torn" ELSE "mixed",
                     rows |-> NoRows, open |-> file[c].open \ dead]
  BY <1>c DEF Crash, TypeOK, Cells
<1>d. \A s \in Store : <<s, d, "temp">> \in Cells /\ <<s, d, "final">> \in Cells BY DEF Cells
<1>v. "v1" \in Store /\ "v2" \in Store BY DEF Store
<1> SUFFICES ASSUME d \notin overlapped PROVE DateInv(d)'
  BY <1>0 DEF DateInv
<1>o. OpenInv(d) BY DEF DateInv
<1>1. CASE \A x \in dead : ~Works(job[x], d)
  <2>1. ASSUME NEW s \in Store
        PROVE  /\ file'[<<s, d, "final">>] = file[<<s, d, "final">>]
               /\ file'[<<s, d, "temp">>] = file[<<s, d, "temp">>]
    <3>1. Temp(s, d).open \cap dead = {} BY <1>o, <1>1 DEF OpenInv
    <3>2. Final(s, d).open \cap dead = {} BY <1>o, <1>1 DEF OpenInv, Store
    <3> QED BY <1>c, <1>d, <3>1, <3>2 DEF Temp, Final
  <2>2. \A x \in Writer : Works(job[x], d) \/ Works(job'[x], d) => job'[x] = job[x]
    BY <1>0, <1>i, <1>1
  <2> QED BY <1>0, <2>1, <2>2, Elsewhere
<1>2. ASSUME NEW w \in dead, Works(job[w], d) PROVE DateInv(d)'
  <2>0. /\ d = At(w) /\ Knows(w, d) /\ \A x \in Writer \ {w} : ~Works(job[x], d)
    BY <1>2, Solo
  <2>1. \A x \in Writer : ~Works(job'[x], d) BY <1>0, <1>i, <1>2, <2>0
  <2>2. HalfDone(w) => d \in killed' BY <1>0, <1>2, <2>0
  <2>3. \A s \in Store : Temp(s, d).open \subseteq {w} /\ Final(s, d).open \subseteq {w}
    <3>1. \A s \in Store : Temp(s, d).open \subseteq Writer /\ Final(s, d).open \subseteq Writer
      BY DEF TypeOK, Cell, Temp, Final
    <3> QED BY <1>o, <2>0, <3>1 DEF OpenInv, Store
  <2>4. \A s \in Store : file'[<<s, d, "temp">>].open = {} /\ file'[<<s, d, "final">>].open = {}
    <3>1. ASSUME NEW c \in Cells, file[c].open \subseteq {w} PROVE file'[c].open = {}
      <4>1. CASE file[c].open \cap dead = {} BY <1>2, <1>c, <3>1, <4>1
      <4>2. CASE file[c].open \cap dead # {}
        <5>1. file'[c] = [state |-> IF file[c].open \subseteq dead THEN "torn" ELSE "mixed",
                          rows |-> NoRows, open |-> file[c].open \ dead]
          BY <1>c, <4>2
        <5> QED BY <1>2, <3>1, <5>1
      <4> QED BY <4>1, <4>2
    <3> QED BY <1>d, <2>3, <3>1 DEF Temp, Final
  <2>5. file'[<<"v2", d, "final">>] = file[<<"v2", d, "final">>]
    <3>1. file[<<"v2", d, "final">>].open = {} BY <2>0 DEF Knows, Final
    <3> QED BY <1>c, <1>d, <1>v, <3>1
  <2>6. CASE job[w].pc = "clean_close"
    <3>1. d \in killed' BY <2>2, <2>6 DEF HalfDone
    <3>2. file'[<<"v1", d, "final">>].state = "torn"
      <4>1. file[<<"v1", d, "final">>].open = {w} BY <2>0, <2>6 DEF Knows, InHand, Final
      <4>2. {w} \cap dead # {} /\ {w} \subseteq dead BY <1>2
      <4>3. file'[<<"v1", d, "final">>] =
              [state |-> "torn", rows |-> NoRows, open |-> file[<<"v1", d, "final">>].open \ dead]
        BY <1>c, <1>d, <1>v, <4>1, <4>2
      <4> QED BY <4>3
    <3>3. file'[<<"v2", d, "final">>].state \in {"none", "ok"} BY <2>0, <2>5 DEF Knows, Final
    <3> QED BY <1>2, <1>v, <2>1, <2>4, <3>1, <3>2, <3>3, SoloAfter
  <2>7. CASE job[w].pc # "clean_close"
    <3>1. file'[<<"v1", d, "final">>] = file[<<"v1", d, "final">>]
      <4>1. file[<<"v1", d, "final">>].open = {} BY <2>0, <2>7 DEF Knows, Final
      <4> QED BY <1>c, <1>d, <1>v, <4>1
    <3>2. /\ file'[<<"v1", d, "final">>].state \in {"none", "ok"}
          /\ file'[<<"v1", d, "final">>].rows = committed'[d]
          /\ file'[<<"v2", d, "final">>].state \in {"none", "ok"}
      BY <1>0, <2>0, <2>5, <2>7, <3>1 DEF Knows, InHand, Final
    <3>3. ASSUME d \notin killed', NEW s \in Symbol PROVE Explained(d, s)'
      <4>1. ~HalfWritten(job[w]) BY <2>2, <3>3 DEF HalfWritten, HalfDone
      <4>2. Explained(d, s) BY <1>0, <2>0, <3>3, <4>1 DEF Knows
      <4> QED BY <1>0, <2>5, <4>2 DEF Explained, Final
    <3> QED BY <1>2, <1>v, <2>1, <2>4, <3>2, <3>3, SoloAfter
  <2> QED BY <2>6, <2>7
<1> QED BY <1>1, <1>2
\* A step of the one writer at the partition.
LEMMA InsideKeeps ==
  ASSUME TypeOK, WhoInv, NEW d \in Date, DateInv(d), d \notin overlapped,
         NEW w \in Writer, WriterStep(w), Works(job[w], d)
  PROVE  DateInv(d)'
<1>0. d = At(w) /\ Knows(w, d) BY Solo
<1>j. job[w].store = "v1" \/ job[w].store = "v2" BY DEF TypeOK, Jobs, Store
<1>1. ~Prepare(w) /\ ~Invalidate(w) /\ ~FillRead(w) /\ ~CleanRead(w)
  BY DEF Works, WorkPlaces, Prepare, Invalidate, FillRead, CleanRead
<1>2. ~MoveFails(w)
  <2> SUFFICES ASSUME MoveFails(w) PROVE FALSE OBVIOUS
  <2>1. job[w].pc = "move" /\ Temp(job[w].store, d).state = "none" BY <1>0 DEF MoveFails
  <2> QED BY <1>0, <2>1 DEF Knows, InHand
<1> QED
  BY <1>j, <1>1, <1>2, KeepsReadShadow, KeepsShadowRefuses, KeepsOpenTemp, KeepsCloseTemp,
     KeepsMoveShadow, KeepsMoveOne, KeepsCleanOpen, KeepsCleanClose, KeepsCleanFails
  DEF WriterStep

LEMMA DateStep ==
  ASSUME TypeOK, WhoInv, [Next]_vars, NEW d \in Date, DateInv(d)
  PROVE  DateInv(d)'
<1>0. overlapped \subseteq overlapped' /\ killed \subseteq killed' BY Remembered
<1>1. ASSUME NEW w \in Writer, WriterStep(w) PROVE DateInv(d)'
  <2>0. CASE d \in overlapped' BY <2>0 DEF DateInv
  <2>1. CASE Works(job[w], d) /\ d \notin overlapped' BY <1>0, <1>1, <2>1, InsideKeeps
  <2>2. CASE ~Works(job[w], d) /\ Works(job'[w], d) /\ d \notin overlapped'
    BY <1>1, <2>2, EntersKeeps
  <2>3. CASE ~Works(job[w], d) /\ ~Works(job'[w], d)
    <3>1. \A x \in Writer : Works(job[x], d) \/ Works(job'[x], d) => job'[x] = job[x]
      BY <1>1, <2>3, StepShape
    <3>2. /\ \A s \in Store : /\ file'[<<s, d, "final">>] = file[<<s, d, "final">>]
                              /\ file'[<<s, d, "temp">>] = file[<<s, d, "temp">>]
          /\ committed'[d] = committed[d] /\ logged'[d] = logged[d] /\ cleaned'[d] = cleaned[d]
      BY <1>1, <2>3, Outside
    <3> QED BY <1>0, <3>1, <3>2, Elsewhere
  <2> QED BY <2>0, <2>1, <2>2, <2>3
<1>2. ASSUME NEW w \in Writer, StartWrite(w) \/ StartScript(w) PROVE DateInv(d)'
  <2>1. /\ job[w].pc = "idle" /\ \A x \in Writer \ {w} : job'[x] = job[x]
        /\ job'[w].pc \in {"prepare", "fill_read", "clean_read"}
    BY <1>2, StartShape
  <2>2. \A x \in Writer : Works(job[x], d) \/ Works(job'[x], d) => job'[x] = job[x]
    BY <2>1 DEF Works, WorkPlaces
  <2>3. UNCHANGED <<file, committed, logged, cleaned>>
    BY <1>2 DEF StartWrite, StartScript, ghosts
  <2> QED BY <1>0, <2>2, <2>3, Elsewhere
<1>3. ASSUME NEW dead \in SUBSET Writer, Crash(dead) PROVE DateInv(d)' BY <1>3, KeepsCrash
<1>4. ASSUME (\E r \in Reader : ListFiles(r) \/ StoreListing(r)) \/ Expire \/ UNCHANGED vars
      PROVE  DateInv(d)'
  <2>1. UNCHANGED <<job, file, committed, logged, cleaned>>
    BY <1>4 DEF ListFiles, StoreListing, Expire, vars, ghosts
  <2> QED BY <1>0, <2>1, Elsewhere
<1>5. Thread \in SUBSET Writer /\ \A w \in Script : {w} \in SUBSET Writer BY DEF Writer
<1> QED BY <1>1, <1>2, <1>3, <1>4, <1>5 DEF Next

LakeInv == TypeOK /\ WhoInv /\ \A d \in Date : DateInv(d)

LEMMA LakeStep == LakeInv /\ [Next]_vars => LakeInv'
<1> SUFFICES ASSUME LakeInv, [Next]_vars PROVE LakeInv' OBVIOUS
<1>0. TypeOK /\ WhoInv /\ \A d \in Date : DateInv(d) BY DEF LakeInv
<1>1. TypeOK' BY <1>0, TypeStep
<1>2. WhoInv' BY <1>0, WhoStep
<1>3. \A d \in Date : DateInv(d)' BY <1>0, DateStep
<1> QED BY <1>1, <1>2, <1>3 DEF LakeInv

LEMMA LakeInit == Init => LakeInv
<1> SUFFICES ASSUME Init PROVE LakeInv OBVIOUS
<1>1. \A w \in Writer : job[w] = Idle BY DEF Init
<1>2. \A w \in Writer, d \in Date : ~Works(job[w], d) BY <1>1 DEF Works, WorkPlaces, Idle
<1>3. WhoInv
  <2>1. \A w \in Writer : KindOK(w, job[w]) BY <1>1 DEF KindOK, Idle
  <2>2. \A w \in Writer : HoldsLock(w) BY <1>1 DEF HoldsLock, WorkPlaces, Idle
  <2>3. \A d \in Date : Noticed(d) BY <1>2 DEF Noticed
  <2> QED BY <2>1, <2>2, <2>3 DEF WhoInv
<1>4. ASSUME NEW d \in Date PROVE DateInv(d)
  <2>1. PICK old \in SUBSET Symbol, e \in Date :
         LET legacy == [s \in Symbol |-> IF s \in old THEN Legacy ELSE NoRow] IN
         /\ file = [f \in Store \X Date \X {"final", "temp"} |->
                     IF old # {} /\ f = <<"v1", e, "final">>
                     THEN [state |-> "ok", rows |-> legacy, open |-> {}]
                     ELSE NoFile]
         /\ committed = [x \in Date |-> IF x = e THEN legacy ELSE NoRows]
    BY DEF Init
  <2> DEFINE legacy == [s \in Symbol |-> IF s \in old THEN Legacy ELSE NoRow]
             filled == [state |-> "ok", rows |-> legacy, open |-> {}]
  <2>2. \A f \in Cells : file[f] = IF old # {} /\ f = <<"v1", e, "final">>
                                   THEN filled ELSE NoFile
    BY <2>1 DEF Cells
  <2>3. committed[d] = IF d = e THEN legacy ELSE NoRows BY <2>1
  <2>4. \A s \in Symbol : legacy[s] \in {Legacy, NoRow} /\ NoRows[s] = NoRow
    BY DEF NoRows
  <2>5. old = {} => legacy = NoRows BY DEF NoRows
  <2>6. filled.state = "ok" /\ filled.open = {} /\ filled.rows = legacy OBVIOUS
  <2>7. NoFile.state = "none" /\ NoFile.open = {} /\ NoFile.rows = NoRows BY DEF NoFile
  <2>8. \A s \in Store : <<s, d, "temp">> \in Cells /\ <<s, d, "final">> \in Cells
    BY DEF Cells
  <2>v. "v1" \in Store /\ "v2" \in Store BY DEF Store
  <2> HIDE DEF legacy, filled
  <2>9. file[<<"v2", d, "final">>] = NoFile BY <2>2, <2>8, <2>v
  <2>10. \A s \in Store : file[<<s, d, "temp">>] = NoFile BY <2>2, <2>8
  <2>11. file[<<"v1", d, "final">>] = IF old # {} /\ d = e THEN filled ELSE NoFile
    BY <2>2, <2>8, <2>v
  <2>12. OpenInv(d) BY <2>6, <2>7, <2>9, <2>10, <2>11 DEF OpenInv, Final, Temp
  <2>13. FinalInv(d) BY <2>3, <2>5, <2>6, <2>7, <2>9, <2>11 DEF FinalInv, Final
  <2>14. DivInv(d)
    <3>1. \A s \in Symbol : committed[d][s] \in {Legacy, NoRow} BY <2>3, <2>4
    <3>2. \A s \in Symbol : Final("v2", d).rows[s] = NoRow BY <2>4, <2>7, <2>9 DEF Final
    <3> QED BY <3>1, <3>2 DEF DivInv, Explained
  <2> QED BY <1>2, <2>12, <2>13, <2>14 DEF DateInv
<1> QED BY <1>3, <1>4, TypeInit DEF LakeInv

LEMMA LakeHolds == Spec => []LakeInv
<1> QED BY LakeInit, LakeStep, PTL DEF Spec

\* "A partial refresh must never replace the other symbols in a daily partition":
\* on a date that one process at a time works on, what v1 holds is every
\* committed batch merged in the order of the commits.
THEOREM MergesAreAtomic == Spec => []MergesAtomic
<1>1. LakeInv => MergesAtomic
  BY DEF LakeInv, DateInv, FinalInv, MergesAtomic
<1> QED BY <1>1, LakeHolds, PTL

\* Nobody is left with a partition that cannot be read, whatever fails or dies:
\* only a script that rewrites it in place does that, while it does or by dying.
THEOREM PartitionsReadable == Spec => []PartitionReadable
<1>1. LakeInv => PartitionReadable
  <2> SUFFICES ASSUME LakeInv, NEW d \in Date \ overlapped, Unreadable(Final("v1", d))
               PROVE  d \in killed \/ \E w \in Script : job[w].pc = "clean_close" /\ At(w) = d
    BY DEF PartitionReadable
  <2>1. /\ WhoInv /\ FinalInv(d) BY DEF LakeInv, DateInv
  <2>2. Final("v1", d).state \notin {"none", "ok"} BY DEF Unreadable
  <2>3. CASE \E w \in Writer : Works(job[w], d) /\ job[w].pc = "clean_close"
    <3>1. PICK w \in Writer : Works(job[w], d) /\ job[w].pc = "clean_close" BY <2>3
    <3>2. w \in Script BY <2>1, <3>1 DEF WhoInv, KindOK, Writer
    <3> QED BY <3>1, <3>2, AtIsFirst DEF Works
  <2> QED BY <2>1, <2>2, <2>3 DEF FinalInv
<1> QED BY <1>1, LakeHolds, PTL

\* Where the stores differ, the divergence log names the symbol, the write is
\* between its two commits, a process stopped there, or a script removed it.
THEOREM DivergencesExplained == Spec => []DivergenceExplained
<1>1. LakeInv => DivergenceExplained
  <2> SUFFICES ASSUME LakeInv, NEW d \in Date \ (overlapped \cup killed), NEW s \in Symbol
               PROVE  \/ Final("v1", d).rows[s] = Final("v2", d).rows[s]
                      \/ Final("v1", d).rows[s] = Legacy /\ Final("v2", d).rows[s] = NoRow
                      \/ s \in logged[d] \/ s \in cleaned[d]
                      \/ \E w \in Writer : HalfDone(w) /\ At(w) = d
    BY DEF DivergenceExplained
  <2>1. FinalInv(d) /\ DivInv(d) BY DEF LakeInv, DateInv
  <2>2. CASE Final("v1", d).state \notin {"none", "ok"}
    <3>1. PICK w \in Writer : Works(job[w], d) /\ job[w].pc = "clean_close"
      BY <2>1, <2>2 DEF FinalInv
    <3>2. HalfDone(w) /\ At(w) = d BY <3>1, AtIsFirst DEF HalfDone, Works
    <3> QED BY <3>2
  <2>3. CASE Final("v1", d).state \in {"none", "ok"}
    <3>1. Final("v1", d).rows = committed[d] BY <2>1, <2>3 DEF FinalInv
    <3>2. CASE Explained(d, s) BY <3>1, <3>2 DEF Explained
    <3>3. CASE ~Explained(d, s)
      <4>1. PICK w \in Writer : Works(job[w], d) /\ HalfWritten(job[w])
        BY <2>1, <3>3 DEF DivInv
      <4>2. HalfDone(w) /\ At(w) = d BY <4>1, AtIsFirst DEF HalfDone, HalfWritten, Works
      <4> QED BY <4>2
    <3> QED BY <3>2, <3>3
  <2> QED BY <2>2, <2>3
<1> QED BY <1>1, LakeHolds, PTL
=============================================================================
