----------------------------- MODULE MarketLake -----------------------------
(***************************************************************************)
(* The daily Parquet lake of src/app/services/market_lake.py: one file per *)
(* trade date in each of two stores, the canonical "v1" and its provenance *)
(* shadow "v2". Threads of the web process merge batches of rows into it   *)
(* under locks that only that process sees; the maintenance scripts under  *)
(* src/scripts run in processes of their own and take no part in them.     *)
(*                                                                         *)
(* A row is known by the number of the batch that wrote it. Writing a file *)
(* is three steps: create or truncate a temporary file, whose name is the  *)
(* same for everyone, write it out, and rename it over the final name.     *)
(***************************************************************************)
EXTENDS Integers, FiniteSets

CONSTANTS
  Thread,       \* threads of the web process that write
  Script,       \* maintenance commands, each a process of its own
  Reader,       \* threads of the web process that list the files
  Symbol,
  Date,         \* completed sessions, in their order
  NoOne,        \* nobody holds the lock
  MaxBatches,   \* bound: calls started
  MaxFaults,    \* bound: refused or failed file operations
  MaxCrashes    \* bound: deaths of a process

ASSUME WritersAssumption ==
  Thread \cap Script = {} /\ NoOne \notin Thread \cup Script
ASSUME DateAssumption == Date \subseteq Nat /\ IsFiniteSet(Date)
ASSUME LakeBoundsAssumption ==
  MaxBatches \in Nat /\ MaxFaults \in Nat /\ MaxCrashes \in Nat

VARIABLES
  file,         \* the files of both stores: final and temporary, per date
  job,          \* what each writer is doing
  lock,         \* _LAKE_WRITE_LOCKS of the web process
  logged,       \* symbols named in write_divergence.jsonl, per date
  listing,      \* _LAKE_FILE_LIST_CACHE of the web process
  reader,       \* calls of _all_parquet_files under way
  committed,    \* ghost: v1 had every commit merged its batch atomically
  overlapped,   \* ghost: dates two processes worked on at the same time
  killed,       \* ghost: dates a process stopped on with one store written
  cleaned,      \* ghost: symbols a script removed from v1, per date
  returned,     \* ghost: dates a write of the web process has returned for
  used          \* counters for the bounds

vars == <<file, job, lock, logged, listing, reader, committed, overlapped,
          killed, cleaned, returned, used>>
ghosts == <<committed, overlapped, killed, cleaned, returned>>

Writer == Thread \cup Script
Store == {"v1", "v2"}
NoRow == 0
Legacy == 1     \* the batch of the rows written before the shadow existed
Batch == 0 .. (MaxBatches + 1)
Rows == [Symbol -> Batch]
NoRows == [s \in Symbol |-> NoRow]

\* keep="last" on (date, symbol): the batch's rows win over the existing ones.
Merge(existing, incoming) ==
  [s \in Symbol |-> IF incoming[s] # NoRow THEN incoming[s] ELSE existing[s]]
Present(rows) == {s \in Symbol : rows[s] # NoRow}
Without(rows, symbols) ==
  [s \in Symbol |-> IF s \in symbols THEN NoRow ELSE rows[s]]

\* "partial": being written by one writer; "mixed": opened by another one
\* while being written; "torn": left behind incomplete.
FileState == {"none", "partial", "mixed", "torn", "ok"}
NoFile == [state |-> "none", rows |-> NoRows, open |-> {}]
Unreadable(f) == f.state \in {"partial", "mixed", "torn"}
Final(store, d) == file[store, d, "final"]
Temp(store, d) == file[store, d, "temp"]

Idle == [pc |-> "idle", kind |-> "write", store |-> "v1", todo |-> {},
         rows |-> NoRows, frame |-> NoRows, shadow |-> NoRows, drop |-> {}]
NoReader == [pc |-> "idle", seen |-> {}, missed |-> {}]
Dropped == [known |-> FALSE, files |-> {}, late |-> {}]
\* The dates of a call are taken in their order.
At(w) == CHOOSE d \in job[w].todo : \A e \in job[w].todo : d <= e

\* Between the first read of a date's files and the last rename.
Inside(w, d) ==
  /\ job[w].pc \in {"shadow", "open", "close", "move", "clean_open", "clean_close"}
  /\ d = At(w)
SameProcess(w, x) == w = x \/ {w, x} \subseteq Thread
Overlap(w, d) ==
  IF \E x \in Writer : ~SameProcess(w, x) /\ Inside(x, d)
  THEN overlapped \cup {d} ELSE overlapped
\* The shadow of the date is written and v1 is not yet, or v1 is being
\* rewritten in place.
HalfDone(w) ==
  \/ /\ job[w].kind = "write" /\ job[w].store = "v1"
     /\ job[w].pc \in {"open", "close", "move"}
  \/ job[w].pc = "clean_close"

Goes(w, next) == job' = [job EXCEPT ![w] = next]

\* with _lake_write_lock(path): a script sees its own locks only.
Free(w, store, d) == w \in Script \/ lock[store, d] = NoOne
Take(w, store, d) ==
  lock' = IF w \in Script THEN lock ELSE [lock EXCEPT ![<<store, d>>] = w]
Leave(w, store, d) ==
  lock' = IF w \in Script THEN lock ELSE [lock EXCEPT ![<<store, d>>] = NoOne]
\* mutant: the lock is taken and released without a with block.
LeaveNone(w) == UNCHANGED lock
LeaveAll(w) ==
  lock' = [l \in Store \X Date |-> IF lock[l] = w THEN NoOne ELSE lock[l]]

First(kind) ==
  CASE kind = "write" -> "prepare"
    [] kind = "clean" -> "clean_read"
    [] kind = "fill"  -> "fill_read"
\* What a file holds once a writer that had it open is done with it; one that
\* two had open together is the last one's, or unreadable.
Closed(f, w, rows) ==
  IF w \notin f.open THEN {f}
  ELSE IF f.open # {w} THEN {[f EXCEPT !.open = @ \ {w}]}
  ELSE {[state |-> "ok", rows |-> rows, open |-> {}]}
       \cup IF f.state = "mixed"
            THEN {[state |-> "torn", rows |-> NoRows, open |-> {}]} ELSE {}
Torn(f, w) ==
  IF w \notin f.open THEN f
  ELSE [state |-> IF f.open = {w} THEN "torn" ELSE "mixed",
        rows |-> NoRows, open |-> f.open \ {w}]
\* mutant: a failed v1 commit is raised and not recorded.
LogsNothing(w, lost) == logged
\* _record_lake_write_divergence of a failed v1 commit.
Logs(w, lost) ==
  IF job[w].store = "v1" /\ lost = 0
  THEN [logged EXCEPT ![At(w)] = @ \cup Present(job[w].rows)] ELSE logged

\* mutant: the call goes on after its last date.
NextDateAlways(w) ==
  [job[w] EXCEPT !.pc = First(job[w].kind), !.store = "v1", !.todo = @ \ {At(w)}]
\* The next date of the call, or its return.
NextDate(w) ==
  IF job[w].todo = {At(w)} THEN Idle
  ELSE [job[w] EXCEPT !.pc = First(job[w].kind), !.store = "v1",
                      !.todo = @ \ {At(w)}]
\* An exception ends a write and clean_us_non_common_lake; the provenance
\* backfill records it and goes on.
Raises(w) ==
  /\ LeaveAll(w)
  /\ Goes(w, IF job[w].kind = "fill" THEN NextDate(w) ELSE Idle)

Init ==
  /\ \E old \in SUBSET Symbol, d \in Date :
       LET legacy == [s \in Symbol |-> IF s \in old THEN Legacy ELSE NoRow] IN
       /\ file = [f \in Store \X Date \X {"final", "temp"} |->
                   IF old # {} /\ f = <<"v1", d, "final">>
                   THEN [state |-> "ok", rows |-> legacy, open |-> {}]
                   ELSE NoFile]
       /\ committed = [e \in Date |-> IF e = d THEN legacy ELSE NoRows]
  /\ job = [w \in Writer |-> Idle]
  /\ lock = [l \in Store \X Date |-> NoOne]
  /\ logged = [d \in Date |-> {}]
  /\ listing = Dropped
  /\ reader = [r \in Reader |-> NoReader]
  /\ overlapped = {}
  /\ killed = {}
  /\ cleaned = [d \in Date |-> {}]
  /\ returned = {}
  /\ used = [batches |-> Legacy, faults |-> 0, crashes |-> 0]

-----------------------------------------------------------------------------
(* write_ohlcv_rows_to_lake and write_daily_ohlcv_parquet. *)

\* A call with rows of some symbols for some completed dates.
StartWrite(w) ==
  /\ job[w].pc = "idle" /\ used.batches <= MaxBatches
  /\ \E dates \in (SUBSET Date) \ {{}}, symbols \in (SUBSET Symbol) \ {{}} :
       Goes(w, [Idle EXCEPT !.pc = "prepare", !.todo = dates,
                  !.rows = [s \in Symbol |-> IF s \in symbols
                                             THEN used.batches + 1 ELSE NoRow]])
  /\ used' = [used EXCEPT !.batches = @ + 1]
  /\ UNCHANGED <<file, lock, logged, listing, reader, ghosts>>

\* mutant: the existing partition is read without the lock.
PrepareUnlocked(w) ==
  /\ job[w].pc = "prepare" /\ ~Unreadable(Final("v1", At(w)))
  /\ Goes(w, [job[w] EXCEPT !.pc = "shadow",
                !.frame = Merge(Final("v1", At(w)).rows, job[w].rows)])
  /\ overlapped' = Overlap(w, At(w))
  /\ UNCHANGED <<file, lock, logged, listing, reader, committed, killed, cleaned,
                 returned, used>>
\* Takes the lock of the v1 partition and merges the batch into what it
\* reads; an unreadable partition fails the call before anything is written.
Prepare(w) ==
  LET d == At(w) IN
  /\ job[w].pc = "prepare" /\ Free(w, "v1", d)
  /\ IF Unreadable(Final("v1", d))
     THEN Raises(w) /\ UNCHANGED overlapped
     ELSE /\ Take(w, "v1", d)
          /\ Goes(w, [job[w] EXCEPT !.pc = "shadow",
                        !.frame = Merge(Final("v1", d).rows, job[w].rows)])
          /\ overlapped' = Overlap(w, d)
  /\ UNCHANGED <<file, logged, listing, reader, committed, killed, cleaned,
                 returned, used>>

\* write_lake_v2_partition: its lock, and its rows merged into the shadow.
ReadShadow(w) ==
  LET d == At(w) IN
  /\ job[w].pc = "shadow" /\ Free(w, "v2", d)
  /\ ~Unreadable(Final("v2", d))
  /\ Take(w, "v2", d)
  /\ Goes(w, [job[w] EXCEPT !.pc = "open", !.store = "v2",
                !.shadow = Merge(Final("v2", d).rows, job[w].rows)])
  /\ UNCHANGED <<file, logged, listing, reader, ghosts, used>>

\* The shadow is unreadable, or the rows lack a provider or a source.
ShadowRefuses(w) ==
  /\ job[w].pc = "shadow" /\ Free(w, "v2", At(w))
  /\ \/ Unreadable(Final("v2", At(w))) /\ UNCHANGED used
     \/ /\ used.faults < MaxFaults
        /\ used' = [used EXCEPT !.faults = @ + 1]
  /\ Raises(w)
  /\ UNCHANGED <<file, logged, listing, reader, ghosts>>

\* The exception of a file operation. A failed v1 commit is appended to the
\* divergence log, unless that fails as well (lost).
WriteFails(w, faults) ==
  /\ Raises(w)
  /\ \E lost \in IF job[w].store = "v1" THEN {0, 1} ELSE {0} :
       /\ used.faults + faults + lost <= MaxFaults
       /\ used' = [used EXCEPT !.faults = @ + faults + lost]
       /\ logged' = Logs(w, lost)
       /\ killed' = IF lost = 1 THEN killed \cup {At(w)} ELSE killed
  /\ UNCHANGED <<listing, reader, committed, overlapped, cleaned, returned>>

\* frame.write_parquet opens the temporary file, truncating one that is there.
OpenTemp(w) ==
  LET t == <<job[w].store, At(w), "temp">> IN
  /\ job[w].pc = "open"
  /\ \/ /\ file' = [file EXCEPT ![t] =
              [state |-> IF @.open = {} THEN "partial" ELSE "mixed",
               rows |-> NoRows, open |-> @.open \cup {w}]]
        /\ Goes(w, [job[w] EXCEPT !.pc = "close"])
        /\ UNCHANGED <<lock, logged, listing, reader, ghosts, used>>
     \/ WriteFails(w, 1) /\ UNCHANGED file

\* mutant: a failed write is swallowed and the file renamed all the same.
CloseTempSwallows(w) ==
  LET d == At(w)
      place == IF w \in Temp(job[w].store, d).open THEN "temp" ELSE "final"
      f == <<job[w].store, d, place>>
      frame == IF job[w].store = "v2" THEN job[w].shadow ELSE job[w].frame IN
  /\ job[w].pc = "close"
  /\ \E new \in Closed(file[f], w, frame) \cup {Torn(file[f], w)} :
       file' = [file EXCEPT ![f] = new]
  /\ Goes(w, [job[w] EXCEPT !.pc = "move"])
  /\ UNCHANGED <<lock, logged, listing, reader, ghosts, used>>
\* It writes the frame out, to wherever the file it opened is by now, or fails
\* and leaves an incomplete file.
CloseTemp(w) ==
  LET d == At(w)
      place == IF w \in Temp(job[w].store, d).open THEN "temp" ELSE "final"
      f == <<job[w].store, d, place>>
      frame == IF job[w].store = "v2" THEN job[w].shadow ELSE job[w].frame IN
  /\ job[w].pc = "close"
  /\ \/ /\ \E new \in Closed(file[f], w, frame) : file' = [file EXCEPT ![f] = new]
        /\ Goes(w, [job[w] EXCEPT !.pc = "move"])
        /\ UNCHANGED <<lock, logged, listing, reader, ghosts, used>>
     \/ WriteFails(w, 1) /\ file' = [file EXCEPT ![f] = Torn(@, w)]

\* temporary_path.replace(path), and the end of the lock's block. The shadow's
\* rename is followed by the v1 file in a write and by the next date in a script.
MoveTemp(w) ==
  LET d == At(w)
      store == job[w].store IN
  /\ job[w].pc = "move" /\ Temp(store, d).state # "none"
  /\ file' = [file EXCEPT ![<<store, d, "final">>] = Temp(store, d),
                          ![<<store, d, "temp">>] = NoFile]
  /\ Leave(w, store, d)
  /\ IF store = "v1"
     THEN /\ Goes(w, [job[w] EXCEPT !.pc = "invalidate", !.frame = NoRows])
          /\ committed' = [committed EXCEPT ![d] = Merge(@, job[w].rows)]
     ELSE /\ Goes(w, IF job[w].kind = "write"
                     THEN [job[w] EXCEPT !.pc = "open", !.store = "v1",
                                         !.shadow = NoRows]
                     ELSE NextDate(w))
          /\ UNCHANGED committed
  /\ UNCHANGED <<logged, listing, reader, overlapped, killed, cleaned, returned,
                 used>>

\* Another process has renamed the temporary file of the same name away.
MoveFails(w) ==
  /\ job[w].pc = "move" /\ Temp(job[w].store, At(w)).state = "none"
  /\ WriteFails(w, 0)
  /\ UNCHANGED file

\* mutant: the cached listing is left alone.
InvalidateNothing(w) ==
  /\ job[w].pc = "invalidate"
  /\ Goes(w, NextDate(w))
  /\ returned' = IF w \in Thread THEN returned \cup {At(w)} ELSE returned
  /\ UNCHANGED <<file, lock, logged, listing, reader, committed, overlapped,
                 killed, cleaned, used>>
\* _invalidate_lake_file_cache, after the lock was released. A script drops
\* the listing of its own process, which nobody reads.
Invalidate(w) ==
  LET d == At(w) IN
  /\ job[w].pc = "invalidate"
  /\ Goes(w, NextDate(w))
  /\ IF w \in Thread
     THEN /\ listing' = Dropped
          /\ reader' = [r \in Reader |->
                         IF reader[r].pc = "store"
                         THEN [reader[r] EXCEPT !.missed = @ \cup {d}]
                         ELSE reader[r]]
          /\ returned' = returned \cup {d}
     ELSE UNCHANGED <<listing, reader, returned>>
  /\ UNCHANGED <<file, lock, logged, committed, overlapped, killed, cleaned, used>>

-----------------------------------------------------------------------------
(* The maintenance scripts. *)

\* clean_us_non_common_lake drops some symbols from every v1 file there is;
\* backfill_lake_v2_provenance writes the shadow of every v1 file.
StartScript(w) ==
  /\ w \in Script
  /\ job[w].pc = "idle" /\ used.batches <= MaxBatches
  /\ LET dates == {d \in Date : Final("v1", d).state # "none"} IN
     /\ dates # {}
     /\ \/ Goes(w, [Idle EXCEPT !.pc = "fill_read", !.kind = "fill", !.todo = dates])
        \/ \E drop \in (SUBSET Symbol) \ {{}} :
             Goes(w, [Idle EXCEPT !.pc = "clean_read", !.kind = "clean",
                                  !.todo = dates, !.drop = drop])
  /\ used' = [used EXCEPT !.batches = @ + 1]
  /\ UNCHANGED <<file, lock, logged, listing, reader, ghosts>>

\* The backfill reads v1 without any lock and skips what it cannot read.
FillRead(w) ==
  LET d == At(w)
      rows == Final("v1", d).rows IN
  /\ job[w].pc = "fill_read"
  /\ IF Unreadable(Final("v1", d)) \/ Present(rows) = {}
     THEN Goes(w, NextDate(w)) /\ UNCHANGED overlapped
     ELSE /\ Goes(w, [job[w] EXCEPT !.pc = "shadow", !.rows = rows])
          /\ overlapped' = Overlap(w, d)
  /\ UNCHANGED <<file, lock, logged, listing, reader, committed, killed, cleaned,
                 returned, used>>

\* The cleaning reads v1 without any lock and leaves alone a partition that
\* has none of the symbols; an unreadable one ends it.
CleanRead(w) ==
  LET d == At(w)
      rows == Final("v1", d).rows IN
  /\ job[w].pc = "clean_read"
  /\ IF Unreadable(Final("v1", d)) THEN Raises(w) /\ UNCHANGED overlapped
     ELSE /\ UNCHANGED lock
          /\ IF Present(rows) \cap job[w].drop = {}
             THEN Goes(w, NextDate(w)) /\ UNCHANGED overlapped
             ELSE /\ Goes(w, [job[w] EXCEPT !.pc = "clean_open",
                                            !.rows = Without(rows, job[w].drop)])
                  /\ overlapped' = Overlap(w, d)
  /\ UNCHANGED <<file, logged, listing, reader, committed, killed, cleaned,
                 returned, used>>

\* filtered.write_parquet(path) truncates the partition itself.
CleanOpen(w) ==
  LET f == <<"v1", At(w), "final">> IN
  /\ job[w].pc = "clean_open"
  /\ file' = [file EXCEPT ![f] =
       [state |-> IF @.open = {} THEN "partial" ELSE "mixed",
        rows |-> NoRows, open |-> @.open \cup {w}]]
  /\ Goes(w, [job[w] EXCEPT !.pc = "clean_close"])
  /\ UNCHANGED <<lock, logged, listing, reader, ghosts, used>>

\* The kept rows are written out, if the partition has not been replaced
\* meanwhile; then they go to the shadow, unless none is left.
CleanClose(w) ==
  LET d == At(w)
      f == <<"v1", d, "final">> IN
  /\ job[w].pc = "clean_close"
  /\ \E new \in Closed(file[f], w, job[w].rows) : file' = [file EXCEPT ![f] = new]
  /\ committed' = [committed EXCEPT ![d] = Without(@, job[w].drop)]
  /\ cleaned' = [cleaned EXCEPT ![d] = @ \cup job[w].drop]
  /\ Goes(w, IF Present(job[w].rows) = {} THEN NextDate(w)
             ELSE [job[w] EXCEPT !.pc = "shadow"])
  /\ UNCHANGED <<lock, logged, listing, reader, overlapped, killed, returned, used>>

\* Rewriting the partition in place fails, and ends the script.
CleanFails(w) ==
  /\ job[w].pc \in {"clean_open", "clean_close"} /\ used.faults < MaxFaults
  /\ file' = [file EXCEPT ![<<"v1", At(w), "final">>] = Torn(@, w)]
  /\ killed' = IF HalfDone(w) THEN killed \cup {At(w)} ELSE killed
  /\ used' = [used EXCEPT !.faults = @ + 1]
  /\ Raises(w)
  /\ UNCHANGED <<logged, listing, reader, committed, overlapped, cleaned, returned>>

-----------------------------------------------------------------------------
(* _all_parquet_files: the cached listing of a market's files. *)

\* The cache has no fresh entry: the directory is listed. A file that is being
\* rewritten in place may be below LAKE_MIN_PARQUET_BYTES, and is left out.
ListFiles(r) ==
  /\ reader[r].pc = "idle" /\ ~listing.known
  /\ \E short \in SUBSET {d \in Date : Unreadable(Final("v1", d))} :
       reader' = [reader EXCEPT ![r] =
         [pc |-> "store",
          seen |-> {d \in Date \ short : Final("v1", d).state # "none"},
          missed |-> short]]
  /\ UNCHANGED <<file, job, lock, logged, listing, ghosts, used>>

\* What was listed is stored, whatever was written since.
StoreListing(r) ==
  /\ reader[r].pc = "store"
  /\ listing' = [known |-> TRUE, files |-> reader[r].seen, late |-> reader[r].missed]
  /\ reader' = [reader EXCEPT ![r] = NoReader]
  /\ UNCHANGED <<file, job, lock, logged, ghosts, used>>

\* LAKE_FILE_LIST_CACHE_TTL_SECONDS have passed.
Expire ==
  /\ listing.known
  /\ listing' = Dropped
  /\ UNCHANGED <<file, job, lock, logged, reader, ghosts, used>>

\* A process dies: its locks and its cached listing go with it, the files it
\* had open stay as they are.
Crash(dead) ==
  /\ used.crashes < MaxCrashes
  /\ \E w \in dead : job[w].pc # "idle"
  /\ used' = [used EXCEPT !.crashes = @ + 1]
  /\ job' = [w \in Writer |-> IF w \in dead THEN Idle ELSE job[w]]
  /\ lock' = [l \in Store \X Date |-> IF lock[l] \in dead THEN NoOne ELSE lock[l]]
  /\ file' = [f \in DOMAIN file |->
               IF file[f].open \cap dead = {} THEN file[f]
               ELSE [state |-> IF file[f].open \subseteq dead THEN "torn" ELSE "mixed",
                     rows |-> NoRows, open |-> file[f].open \ dead]]
  /\ killed' = killed \cup {At(w) : w \in {x \in dead : HalfDone(x)}}
  /\ IF dead = Thread
     THEN /\ listing' = Dropped
          /\ reader' = [r \in Reader |-> NoReader]
     ELSE UNCHANGED <<listing, reader>>
  /\ UNCHANGED <<logged, committed, overlapped, cleaned, returned>>

-----------------------------------------------------------------------------
WriterStep(w) ==
  \/ Prepare(w)  \/ ReadShadow(w) \/ ShadowRefuses(w)
  \/ OpenTemp(w) \/ CloseTemp(w)  \/ MoveTemp(w) \/ MoveFails(w) \/ Invalidate(w)
  \/ FillRead(w) \/ CleanRead(w)  \/ CleanOpen(w) \/ CleanClose(w) \/ CleanFails(w)

Next ==
  \/ \E w \in Writer : StartWrite(w) \/ StartScript(w) \/ WriterStep(w)
  \/ \E r \in Reader : ListFiles(r) \/ StoreListing(r)
  \/ Expire
  \/ Crash(Thread)
  \/ \E w \in Script : Crash({w})

Spec == Init /\ [][Next]_vars
\* A thread that runs goes on to the end of its call.
FairSpec == Spec /\ \A w \in Writer : WF_vars(WriterStep(w))

-----------------------------------------------------------------------------
(* Properties. *)

Cell == [state : FileState, rows : Rows, open : SUBSET Writer]
Jobs ==
  [pc : {"idle", "prepare", "shadow", "open", "close", "move", "invalidate",
         "fill_read", "clean_read", "clean_open", "clean_close"},
   kind : {"write", "clean", "fill"}, store : Store, todo : SUBSET Date,
   rows : Rows, frame : Rows, shadow : Rows, drop : SUBSET Symbol]

\* Every variable has its shape, a call under way has a date to work on, and
\* an incomplete file holds no rows anyone could read.
TypeOK ==
  /\ file \in [Store \X Date \X {"final", "temp"} -> Cell]
  /\ job \in [Writer -> Jobs]
  /\ \A w \in Writer : job[w].pc # "idle" => job[w].todo # {}
  /\ lock \in [Store \X Date -> Writer \cup {NoOne}]
  /\ logged \in [Date -> SUBSET Symbol]
  /\ listing \in [known : BOOLEAN, files : SUBSET Date, late : SUBSET Date]
  /\ reader \in [Reader -> [pc : {"idle", "store"}, seen : SUBSET Date,
                            missed : SUBSET Date]]
  /\ committed \in [Date -> Rows]
  /\ cleaned \in [Date -> SUBSET Symbol]
  /\ overlapped \subseteq Date /\ killed \subseteq Date /\ returned \subseteq Date
  /\ used \in [batches : 1 .. MaxBatches + 1, faults : 0 .. MaxFaults,
               crashes : 0 .. MaxCrashes]

\* "A partial refresh must never replace the other symbols in a daily
\* partition": what v1 holds of a date is every committed batch merged in the
\* order of the commits, as long as one process at a time works on the date.
MergesAtomic ==
  \A d \in Date \ overlapped :
    Final("v1", d).state \in {"none", "ok"} => Final("v1", d).rows = committed[d]

\* Nobody is left with a partition that cannot be read, whatever fails or dies:
\* only a script that rewrites it in place, or two processes at once, does that.
PartitionReadable ==
  \A d \in Date \ overlapped :
    Unreadable(Final("v1", d)) =>
      d \in killed \/ \E w \in Script : job[w].pc = "clean_close" /\ At(w) = d

\* The stores differ in a row only if the divergence log names its symbol, the
\* write is between its two commits, a process stopped there, or a script removed
\* the symbol from v1. A row from before the shadow may lack one.
DivergenceExplained ==
  \A d \in Date \ (overlapped \cup killed), s \in Symbol :
    LET one == Final("v1", d).rows[s]
        two == Final("v2", d).rows[s] IN
    \/ one = two \/ (one = Legacy /\ two = NoRow)
    \/ s \in logged[d] \/ s \in cleaned[d]
    \/ \E w \in Writer : HalfDone(w) /\ At(w) = d

\* A listing served from the cache lacks a date whose write has returned only
\* if it was taken before that write dropped the cache and stored after, or if
\* the file was incomplete when it was listed.
ListingFresh ==
  listing.known => returned \ listing.files \subseteq listing.late

\* A write returns: the two locks are always given back, after every failure.
WritesReturn ==
  \A w \in Writer : job[w].pc # "idle" ~> job[w].pc = "idle"
=============================================================================
