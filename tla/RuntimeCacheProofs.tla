------------------------- MODULE RuntimeCacheProofs -------------------------
(***************************************************************************)
(* Single flight, the capacity and the freshness of the cache hold for any *)
(* keys, threads, writers and capacities.                                  *)
(*                                                                         *)
(* OneLoader is not inductive: Lead must know that no loader of the key is *)
(* at work when _INFLIGHT has no flight for it.  Owned says so: the owner  *)
(* of a flight is exactly the thread between Lead and Store or Abandon.    *)
(* It survives the step by which a fragment's loader asks for items only   *)
(* because that thread has no frame for the items yet, which is Nested:    *)
(* two frames of one thread are a loader and the call it makes.  This part *)
(* is about where the threads are, and says of the values in the frames    *)
(* only that they form a set.                                              *)
(*                                                                         *)
(* Bounded needs the order of the ages (LruInv): of the entries that are   *)
(* kept the oldest has all the others before it.                           *)
(*                                                                         *)
(* ClearedIsFresh is about values on their way: an entry of the items may  *)
(* become a fragment, so it must be fresh for the fragments too (Serves);  *)
(* so must what a loader is about to store and what a flight that ends     *)
(* will return (Carried).  A clear of a fragment keeps this because the    *)
(* items were cleared for the same commit before (FloorInv).               *)
(***************************************************************************)
EXTENDS RuntimeCache, FiniteSetTheorems, WellFoundedInduction, TLAPS

Owning == {"load", "inner", "store", "raise"}

Places == {"none", "enter", "wait", "load", "inner", "store", "signal",
           "raise", "failed"}

FrameOf(V) == [pc : Places, on : Thread \cup {None}, value : V]
Frames(V)  == [Thread -> [Key -> FrameOf(V)]]

Framed == \E V : call \in Frames(V)

Flights == flight \in [Key -> Thread \cup {None}]

Owned ==
  \A t \in Thread, k \in Key : call[t][k].pc \in Owning <=> flight[k] = t

Nested ==
  \A t \in Thread : \A j, k \in Key :
    j # k /\ call[t][j].pc # "none" /\ call[t][k].pc # "none"
    => \/ call[t][j].pc = "inner" /\ Needs[j] = k
       \/ call[t][k].pc = "inner" /\ Needs[k] = j

CacheInv == Framed /\ Flights /\ Owned /\ Nested

----------------------------------------------------------------------------
(* What the updates of call do to the places of the threads.               *)

\* More values may appear in the frames.
LEMMA MoreValues ==
  ASSUME NEW V, NEW W, V \subseteq W, NEW f \in Frames(V)
  PROVE  f \in Frames(W)
BY DEF Frames, FrameOf

\* The records that frames are made of.
LEMMA FrameTypes ==
  ASSUME NEW V, NEW v \in V, NEW o \in Thread \cup {None}
  PROVE  /\ Made(v) \in FrameOf(V) /\ Made(v).pc = "store"
         /\ 0 \in V => /\ NoFrame \in FrameOf(V) /\ NoFrame.pc = "none"
                       /\ Entered \in FrameOf(V) /\ Entered.pc = "enter"
                       /\ [pc |-> "wait", on |-> o, value |-> 0] \in FrameOf(V)
BY DEF Made, NoFrame, Entered, FrameOf, Places

\* Every frame is a record, wherever it is moved to.
LEMMA FrameMoved ==
  ASSUME NEW V, call \in Frames(V), NEW t \in Thread, NEW k \in Key,
         NEW pc \in Places
  PROVE  /\ [call[t][k] EXCEPT !.pc = pc] \in FrameOf(V)
         /\ [call[t][k] EXCEPT !.pc = pc].pc = pc
BY DEF Frames, FrameOf

\* Move changes the place of one frame.
LEMMA MovePlaces ==
  ASSUME NEW t \in Thread, NEW k \in Key, NEW pc \in Places,
         Framed, Move(t, k, pc)
  PROVE  /\ Framed'
         /\ \A u \in Thread, j \in Key :
              call'[u][j].pc = IF u = t /\ j = k THEN pc ELSE call[u][j].pc
<1> DEFINE r == [call[t][k] EXCEPT !.pc = pc]
<1>1. PICK V : call \in Frames(V)
  BY DEF Framed
<1>2. r \in FrameOf(V) /\ r.pc = pc
  BY <1>1, FrameMoved
<1>3. call' = [call EXCEPT ![t][k] = r]
  BY DEF Move
<1> HIDE DEF r
<1>4. /\ call' \in Frames(V)
      /\ \A u \in Thread, j \in Key :
           call'[u][j] = IF u = t /\ j = k THEN r ELSE call[u][j]
  BY <1>1, <1>2, <1>3 DEF Frames
<1>5. QED  BY <1>2, <1>4 DEF Framed

\* A frame that returns goes away, and moves the loader that asked for it.
LEMMA ReturnedPlaces ==
  ASSUME NEW t \in Thread, NEW k \in Key, NEW v, Framed
  PROVE  /\ \E V : Returned(t, k, v) \in Frames(V)
         /\ \A u \in Thread, j \in Key :
              Returned(t, k, v)[u][j].pc =
                IF u = t /\ j = k THEN "none"
                ELSE IF u = t /\ j \in Asker(t, k) THEN "store"
                ELSE call[u][j].pc
<1>1. PICK V : call \in Frames(V)
  BY DEF Framed
<1> DEFINE W == V \cup {v, 0}
<1>2. call \in Frames(W)
  BY <1>1, MoreValues
<1>3. /\ Made(v) \in FrameOf(W) /\ Made(v).pc = "store"
      /\ NoFrame \in FrameOf(W) /\ NoFrame.pc = "none"
  BY FrameTypes
<1> HIDE DEF W
<1>4. QED  BY <1>2, <1>3 DEF Returned, Frames

\* The same for a frame that raises.
LEMMA RaisedPlaces ==
  ASSUME NEW t \in Thread, NEW k \in Key, Framed
  PROVE  /\ \E V : Raised(t, k) \in Frames(V)
         /\ \A u \in Thread, j \in Key :
              Raised(t, k)[u][j].pc =
                IF u = t /\ j = k THEN "none"
                ELSE IF u = t /\ j \in Asker(t, k) THEN "raise"
                ELSE call[u][j].pc
<1>1. PICK V : call \in Frames(V)
  BY DEF Framed
<1> DEFINE W == V \cup {0}
           Moved(j) == [call[t][j] EXCEPT !.pc = "raise"]
<1>2. call \in Frames(W)
  BY <1>1, MoreValues
<1>3. NoFrame \in FrameOf(W) /\ NoFrame.pc = "none"
  BY FrameTypes
<1> HIDE DEF W
<1>4. \A j \in Key : Moved(j) \in FrameOf(W) /\ Moved(j).pc = "raise"
  BY <1>2, FrameMoved DEF Places
<1>5. Raised(t, k) =
        [call EXCEPT ![t] = [j \in Key |->
           IF j = k THEN NoFrame
           ELSE IF j \in Asker(t, k) THEN Moved(j) ELSE call[t][j]]]
  BY DEF Raised
<1> HIDE DEF Moved
<1>6. QED  BY <1>2, <1>3, <1>4, <1>5 DEF Frames

\* Waking moves waiters back to the start and nobody else.
LEMMA WokenPlaces ==
  ASSUME NEW t \in Thread, NEW k \in Key, NEW V, NEW f \in Frames(V)
  PROVE  /\ \E W : Woken(f, t, k) \in Frames(W)
         /\ \A u \in Thread, j \in Key :
              \/ Woken(f, t, k)[u][j].pc = f[u][j].pc
              \/ Woken(f, t, k)[u][j].pc = "enter" /\ f[u][j].pc = "wait"
<1> DEFINE W == V \cup {0}
           Wakes(u) == f[u][k].pc = "wait" /\ f[u][k].on = t
<1>1. f \in Frames(W)
  BY MoreValues
<1>2. Entered \in FrameOf(W) /\ Entered.pc = "enter"
  BY FrameTypes
<1>3. Woken(f, t, k) =
        [u \in Thread |-> [f[u] EXCEPT ![k] = IF Wakes(u) THEN Entered ELSE f[u][k]]]
  BY DEF Woken
<1>4. \A u \in Thread : Wakes(u) => f[u][k].pc = "wait"
  OBVIOUS
<1> HIDE DEF W, Wakes
<1>5. QED  BY <1>1, <1>2, <1>3, <1>4 DEF Frames

\* Waiting changes the place of one frame.
LEMMA JoinPlaces ==
  ASSUME NEW t \in Thread, NEW k \in Key, Framed, Flights, Join(t, k)
  PROVE  /\ Framed'
         /\ \A u \in Thread, j \in Key :
              call'[u][j].pc = IF u = t /\ j = k THEN "wait" ELSE call[u][j].pc
<1>1. PICK V : call \in Frames(V)
  BY DEF Framed
<1> DEFINE W == V \cup {0}
           r == [pc |-> "wait", on |-> flight[k], value |-> 0]
<1>2. call \in Frames(W)
  BY <1>1, MoreValues
<1>3. r \in FrameOf(W) /\ r.pc = "wait"
  BY DEF Flights, FrameOf, Places
<1>4. call' = [call EXCEPT ![t][k] = r]
  BY DEF Join
<1> HIDE DEF W, r
<1>5. /\ call' \in Frames(W)
      /\ \A u \in Thread, j \in Key :
           call'[u][j] = IF u = t /\ j = k THEN r ELSE call[u][j]
  BY <1>2, <1>3, <1>4 DEF Frames
<1>6. QED  BY <1>3, <1>5 DEF Framed

\* The loader of items has read the database.
LEMMA ReadPlaces ==
  ASSUME NEW t \in Thread, NEW k \in Key, Framed, Load(t, k), Needs[k] = None
  PROVE  /\ Framed'
         /\ \A u \in Thread, j \in Key :
              call'[u][j].pc = IF u = t /\ j = k THEN "store" ELSE call[u][j].pc
<1>1. PICK V : call \in Frames(V)
  BY DEF Framed
<1> DEFINE W == V \cup {source}
<1>2. call \in Frames(W)
  BY <1>1, MoreValues
<1>3. Made(source) \in FrameOf(W) /\ Made(source).pc = "store"
  BY DEF Made, FrameOf, Places
<1>4. call' = [call EXCEPT ![t][k] = Made(source)]
  BY DEF Load
<1> HIDE DEF W
<1>5. /\ call' \in Frames(W)
      /\ \A u \in Thread, j \in Key :
           call'[u][j] = IF u = t /\ j = k THEN Made(source) ELSE call[u][j]
  BY <1>2, <1>3, <1>4 DEF Frames
<1>6. QED  BY <1>3, <1>5 DEF Framed

\* The loader of a fragment asks for items.
LEMMA AskPlaces ==
  ASSUME NEW t \in Thread, NEW k \in Key, Framed, Load(t, k), Needs[k] # None
  PROVE  /\ Framed'
         /\ Needs[k] \in Items /\ Needs[k] \in Key /\ Needs[k] # k
         /\ \A u \in Thread, j \in Key :
              call'[u][j].pc = IF u = t /\ j = k THEN "inner"
                               ELSE IF u = t /\ j = Needs[k] THEN "enter"
                               ELSE call[u][j].pc
<1>1. PICK V : call \in Frames(V)
  BY DEF Framed
<1>2. Needs[k] \in Items /\ Needs[k] \in Key /\ Needs[k] # k
  BY NestingAssumption DEF Key
<1> DEFINE W == V \cup {0}
           r == [call[t][k] EXCEPT !.pc = "inner"]
<1>3. call \in Frames(W)
  BY <1>1, MoreValues
<1>4. Entered \in FrameOf(W) /\ Entered.pc = "enter"
  BY DEF Entered, FrameOf, Places
<1> HIDE DEF W
<1>5. r \in FrameOf(W) /\ r.pc = "inner"
  BY <1>3, FrameMoved DEF Places
<1>6. call' = [call EXCEPT ![t][k] = r, ![t][Needs[k]] = Entered]
  BY DEF Load
<1> HIDE DEF r
<1>7. /\ call' \in Frames(W)
      /\ \A u \in Thread, j \in Key :
           call'[u][j] = IF u = t /\ j = Needs[k] THEN Entered
                         ELSE IF u = t /\ j = k THEN r ELSE call[u][j]
  BY <1>2, <1>3, <1>4, <1>5, <1>6 DEF Frames
<1>8. QED  BY <1>2, <1>4, <1>5, <1>7 DEF Framed
----------------------------------------------------------------------------
(* The invariant. *)

Placed(t, k, pc) ==
  \A u \in Thread, j \in Key :
    call'[u][j].pc = IF u = t /\ j = k THEN pc ELSE call[u][j].pc

\* One thread of a flight moves within it, or outside of flights.
LEMMA MoveKeeps ==
  ASSUME CacheInv, NEW t \in Thread, NEW k \in Key, NEW pc \in Places \ {"none"},
         Placed(t, k, pc), call[t][k].pc \notin {"none", "inner"},
         flight' = flight, pc \in Owning <=> call[t][k].pc \in Owning
  PROVE  Owned' /\ Nested' /\ Flights'
<1>1. Owned'
  BY DEF CacheInv, Owned, Placed
<1>2. Nested'
  BY DEF CacheInv, Nested, Placed
<1>3. QED  BY <1>1, <1>2 DEF CacheInv, Flights

\* The invariant says nothing of the rest of the state.
LEMMA OtherKeeps ==
  ASSUME CacheInv, call' = call, flight' = flight
  PROVE  CacheInv'
BY DEF CacheInv, Framed, Flights, Owned, Nested

LEMMA StartKeeps ==
  ASSUME CacheInv, NEW t \in Thread, NEW k \in Key, Start(t, k)
  PROVE  CacheInv'
<1>1. PICK V : call \in Frames(V)
  BY DEF CacheInv, Framed
<1> DEFINE W == V \cup {0}
<1>2. call \in Frames(W)
  BY <1>1, MoreValues
<1>3. Entered \in FrameOf(W) /\ Entered.pc = "enter"
  BY DEF Entered, FrameOf, Places
<1> HIDE DEF W
<1>4. call' \in Frames(W) /\ Placed(t, k, "enter")
  BY <1>2, <1>3 DEF Start, Frames, Placed
<1>5. flight' = flight /\ \A j \in Key : call[t][j].pc = "none"
  BY DEF Start, At
<1>6. Owned'
  BY <1>4, <1>5 DEF CacheInv, Owned, Placed, Owning
<1>7. Nested'
  BY <1>4, <1>5 DEF CacheInv, Nested, Placed
<1>8. QED  BY <1>4, <1>5, <1>6, <1>7 DEF CacheInv, Framed, Flights

LEMMA LeadKeeps ==
  ASSUME CacheInv, NEW t \in Thread, NEW k \in Key, Lead(t, k)
  PROVE  CacheInv'
<1>1. Framed' /\ Placed(t, k, "load")
  BY MovePlaces DEF CacheInv, Lead, Places, Placed
<1>2. /\ call[t][k].pc = "enter" /\ flight \in [Key -> Thread \cup {None}]
      /\ flight[k] = None /\ flight' = [flight EXCEPT ![k] = t]
  BY DEF CacheInv, Flights, Lead, At
<1>3. Flights'
  BY <1>2 DEF Flights
<1>4. Owned'
  BY <1>1, <1>2, NestingAssumption DEF CacheInv, Owned, Placed, Owning
<1>5. Nested'
  BY <1>1, <1>2 DEF CacheInv, Nested, Placed
<1>6. QED  BY <1>1, <1>3, <1>4, <1>5 DEF CacheInv

LEMMA JoinKeeps ==
  ASSUME CacheInv, NEW t \in Thread, NEW k \in Key, Join(t, k)
  PROVE  CacheInv'
<1>1. Framed' /\ Placed(t, k, "wait")
  BY JoinPlaces DEF CacheInv, Placed
<1>2. call[t][k].pc = "enter" /\ flight' = flight
  BY DEF Join, At
<1>3. QED  BY <1>1, <1>2, MoveKeeps DEF CacheInv, Owning, Places

LEMMA LoadKeeps ==
  ASSUME CacheInv, NEW t \in Thread, NEW k \in Key, Load(t, k)
  PROVE  CacheInv'
<1>1. call[t][k].pc = "load" /\ flight' = flight
  BY DEF Load, At
<1>2. CASE Needs[k] = None
  <2>1. Framed' /\ Placed(t, k, "store")
    BY <1>2, ReadPlaces DEF CacheInv, Placed
  <2>2. QED  BY <1>1, <2>1, MoveKeeps DEF CacheInv, Owning, Places
<1>3. CASE Needs[k] # None
  <2>1. /\ Framed'
        /\ Needs[k] \in Items /\ Needs[k] \in Key /\ Needs[k] # k
        /\ \A u \in Thread, j \in Key :
             call'[u][j].pc = IF u = t /\ j = k THEN "inner"
                              ELSE IF u = t /\ j = Needs[k] THEN "enter"
                              ELSE call[u][j].pc
    BY <1>3, AskPlaces DEF CacheInv
  \* Nobody asked for k, because k is not an item, and k asked for nothing yet.
  <2>2. \A j \in Key : j # k => call[t][j].pc = "none"
    BY <1>1, <1>3, NestingAssumption DEF CacheInv, Nested
  <2>3. Owned'
    BY <1>1, <2>1, <2>2 DEF CacheInv, Owned, Owning
  <2>4. Nested'
    BY <2>1, <2>2 DEF CacheInv, Nested
  <2>5. QED  BY <1>1, <2>1, <2>3, <2>4 DEF CacheInv, Flights
<1>4. QED  BY <1>2, <1>3

LEMMA LoaderRaisesKeeps ==
  ASSUME CacheInv, NEW t \in Thread, NEW k \in Key, LoaderRaises(t, k)
  PROVE  CacheInv'
<1>1. Framed' /\ Placed(t, k, "raise")
  BY MovePlaces DEF CacheInv, LoaderRaises, Places, Placed
<1>2. call[t][k].pc \in {"load", "store"} /\ flight' = flight
  BY DEF LoaderRaises, At
<1>3. QED  BY <1>1, <1>2, MoveKeeps DEF CacheInv, Owning, Places
\* A flight ends: Store or Abandon.
LEMMA EndKeeps ==
  ASSUME CacheInv, NEW t \in Thread, NEW k \in Key, NEW pc \in {"signal", "failed"},
         Framed', Placed(t, k, pc), call[t][k].pc \in {"store", "raise"},
         flight' = [flight EXCEPT ![k] = IF @ = t THEN None ELSE @]
  PROVE  CacheInv'
<1>1. Flights /\ flight[k] = t
  BY DEF CacheInv, Owned, Owning
<1>2. \A j \in Key : flight'[j] = IF j = k THEN None ELSE flight[j]
  BY <1>1 DEF Flights
<1>3. Flights'
  BY <1>1 DEF Flights
<1>4. Owned'
  BY <1>1, <1>2, NestingAssumption DEF CacheInv, Owned, Placed, Owning
<1>5. Nested'
  BY DEF CacheInv, Nested, Placed
<1>6. QED  BY <1>3, <1>4, <1>5 DEF CacheInv

LEMMA StoreKeeps ==
  ASSUME CacheInv, NEW t \in Thread, NEW k \in Key, Store(t, k)
  PROVE  CacheInv'
<1>1. Framed' /\ Placed(t, k, "signal")
  BY MovePlaces DEF CacheInv, Store, Places, Placed
<1>2. QED  BY <1>1, EndKeeps DEF Store, At

LEMMA AbandonKeeps ==
  ASSUME CacheInv, NEW t \in Thread, NEW k \in Key, Abandon(t, k)
  PROVE  CacheInv'
<1>1. Framed' /\ Placed(t, k, "failed")
  BY MovePlaces DEF CacheInv, Abandon, Places, Placed
<1>2. QED  BY <1>1, EndKeeps DEF Abandon, At

\* The frame of k goes, its asker continues, and waiters try again.
Leaves(frames, t, k, next) ==
  \A u \in Thread, j \in Key :
    frames[u][j].pc = IF u = t /\ j = k THEN "none"
                      ELSE IF u = t /\ j \in Asker(t, k) THEN next
                      ELSE call[u][j].pc

Wakes(frames, woken) ==
  \A u \in Thread, j \in Key :
    \/ woken[u][j].pc = frames[u][j].pc
    \/ woken[u][j].pc = "enter" /\ frames[u][j].pc = "wait"

LEMMA LeaveKeeps ==
  ASSUME CacheInv, NEW t \in Thread, NEW k \in Key, NEW next \in {"store", "raise"},
         NEW frames, Leaves(frames, t, k, next), Wakes(frames, call'), Framed',
         call[t][k].pc \in {"enter", "signal", "failed"}, flight' = flight
  PROVE  CacheInv'
<1>1. \A j \in Key : j \in Asker(t, k) <=> Needs[j] = k /\ call[t][j].pc = "inner"
  BY DEF Asker, At
<1>2. Owned'
  <2>1. SUFFICES ASSUME NEW u \in Thread, NEW j \in Key
                 PROVE  call'[u][j].pc \in Owning <=> call[u][j].pc \in Owning
    BY DEF CacheInv, Owned
  <2>2. call'[u][j].pc \in Owning <=> frames[u][j].pc \in Owning
    BY DEF Wakes, Owning
  <2>3. frames[u][j].pc \in Owning <=> call[u][j].pc \in Owning
    BY <1>1 DEF Leaves, Owning
  <2>4. QED  BY <2>2, <2>3
<1>3. Nested'
  <2>1. SUFFICES ASSUME NEW u \in Thread, NEW i \in Key, NEW j \in Key, i # j,
                        call'[u][i].pc # "none", call'[u][j].pc # "none"
                 PROVE  \/ call'[u][i].pc = "inner" /\ Needs[i] = j
                        \/ call'[u][j].pc = "inner" /\ Needs[j] = i
    BY DEF Nested
  <2>2. \A h \in {i, j} : /\ frames[u][h].pc # "none"
                          /\ frames[u][h].pc = "inner" => call'[u][h].pc = "inner"
    BY <2>1 DEF Wakes
  <2>3. ~(u = t /\ i = k) /\ ~(u = t /\ j = k)
    BY <2>2 DEF Leaves
  <2>4. call[u][i].pc # "none" /\ call[u][j].pc # "none"
    BY <1>1, <2>2, <2>3 DEF Leaves
  <2>5. \/ call[u][i].pc = "inner" /\ Needs[i] = j
        \/ call[u][j].pc = "inner" /\ Needs[j] = i
    BY <2>1, <2>4 DEF CacheInv, Nested
  <2>6. CASE call[u][i].pc = "inner" /\ Needs[i] = j
    <3>1. frames[u][i].pc = "inner"
      BY <1>1, <2>3, <2>6 DEF Leaves
    <3>2. QED  BY <2>2, <2>6, <3>1
  <2>7. CASE call[u][j].pc = "inner" /\ Needs[j] = i
    <3>1. frames[u][j].pc = "inner"
      BY <1>1, <2>3, <2>7 DEF Leaves
    <3>2. QED  BY <2>2, <2>7, <3>1
  <2>8. QED  BY <2>5, <2>6, <2>7
<1>4. QED  BY <1>2, <1>3 DEF CacheInv, Flights

LEMMA HitKeeps ==
  ASSUME CacheInv, NEW t \in Thread, NEW k \in Key, Hit(t, k)
  PROVE  CacheInv'
<1>1. PICK v : call' = Returned(t, k, v)
  BY DEF Hit
<1>2. Framed' /\ Leaves(call', t, k, "store")
  BY <1>1, ReturnedPlaces DEF CacheInv, Framed, Leaves
<1>3. call[t][k].pc = "enter" /\ flight' = flight
  BY DEF Hit, At
<1>4. Wakes(call', call')
  BY DEF Wakes
<1>5. QED  BY <1>2, <1>3, <1>4, LeaveKeeps

LEMMA SignalKeeps ==
  ASSUME CacheInv, NEW t \in Thread, NEW k \in Key, Signal(t, k)
  PROVE  CacheInv'
<1> DEFINE frames == Returned(t, k, call[t][k].value)
<1>1. /\ \E V : frames \in Frames(V)
      /\ Leaves(frames, t, k, "store")
  BY ReturnedPlaces DEF CacheInv, Leaves
<1>2. /\ call' = Woken(frames, t, k) /\ flight' = flight
      /\ call[t][k].pc = "signal"
  BY DEF Signal, At
<1> HIDE DEF frames
<1>3. Framed' /\ Wakes(frames, call')
  <2>1. PICK V : frames \in Frames(V)
    BY <1>1
  <2>2. /\ \E W : Woken(frames, t, k) \in Frames(W)
        /\ Wakes(frames, Woken(frames, t, k))
    BY <2>1, WokenPlaces DEF Wakes
  <2>3. QED  BY <1>2, <2>2 DEF Framed
<1>4. QED  BY <1>1, <1>2, <1>3, LeaveKeeps

LEMMA SignalFailureKeeps ==
  ASSUME CacheInv, NEW t \in Thread, NEW k \in Key, SignalFailure(t, k)
  PROVE  CacheInv'
<1> DEFINE frames == Raised(t, k)
<1>1. /\ \E V : frames \in Frames(V)
      /\ Leaves(frames, t, k, "raise")
  BY RaisedPlaces DEF CacheInv, Leaves
<1>2. /\ call' = Woken(frames, t, k) /\ flight' = flight
      /\ call[t][k].pc = "failed"
  BY DEF SignalFailure, At
<1> HIDE DEF frames
<1>3. Framed' /\ Wakes(frames, call')
  <2>1. PICK V : frames \in Frames(V)
    BY <1>1
  <2>2. /\ \E W : Woken(frames, t, k) \in Frames(W)
        /\ Wakes(frames, Woken(frames, t, k))
    BY <2>1, WokenPlaces DEF Wakes
  <2>3. QED  BY <1>2, <2>2 DEF Framed
<1>4. QED  BY <1>1, <1>2, <1>3, LeaveKeeps

----------------------------------------------------------------------------

\* CacheInv is inductive.
THEOREM CacheInvariant == Spec => []CacheInv
<1>1. Init => CacheInv
  <2>1. SUFFICES ASSUME Init PROVE CacheInv
    OBVIOUS
  <2>2. \A t \in Thread, k \in Key : call[t][k] = NoFrame /\ flight[k] = None
    BY <2>1 DEF Init
  <2>3. Framed
    <3>1. NoFrame \in FrameOf({0})
      BY DEF NoFrame, FrameOf, Places
    <3>2. call \in Frames({0})
      BY <2>1, <3>1 DEF Init, Frames
    <3>3. QED  BY <3>2 DEF Framed
  <2>4. Flights
    BY <2>1 DEF Init, Flights
  <2>5. Owned /\ Nested
    BY <2>2, NestingAssumption DEF Owned, Nested, NoFrame, Owning
  <2>6. QED  BY <2>3, <2>4, <2>5 DEF CacheInv
<1>2. CacheInv /\ [Next]_vars => CacheInv'
  <2>1. SUFFICES ASSUME CacheInv, [Next]_vars PROVE CacheInv'
    OBVIOUS
  <2>2. ASSUME NEW t \in Thread, CallStep(t) PROVE CacheInv'
    BY <2>1, <2>2, HitKeeps, LeadKeeps, JoinKeeps, LoadKeeps, LoaderRaisesKeeps,
       StoreKeeps, SignalKeeps, AbandonKeeps, SignalFailureKeeps DEF CallStep
  <2>3. ASSUME NEW t \in Thread, NEW k \in Key, Start(t, k) PROVE CacheInv'
    BY <2>1, <2>3, StartKeeps
  <2>4. ASSUME NEW w \in Writer, Commit(w) \/ Clear(w) PROVE CacheInv'
    BY <2>1, <2>4, OtherKeeps DEF Commit, Clear
  <2>5. ASSUME NEW k \in Key, Lapse(k) PROVE CacheInv'
    BY <2>1, <2>5, OtherKeeps DEF Lapse
  <2>6. CASE UNCHANGED vars
    BY <2>1, <2>6, OtherKeeps DEF vars
  <2>7. QED  BY <2>1, <2>2, <2>3, <2>4, <2>5, <2>6 DEF Next
<1>3. QED  BY <1>1, <1>2, PTL DEF Spec

\* Single flight: two threads are never inside the loader of one key at once,
\* for any keys and nesting of fragments over items, any number of threads and
\* writers, any capacity, and whatever expires, is evicted or is cleared.
THEOREM SingleFlight == Spec => []OneLoader
<1>1. CacheInv => OneLoader
  BY DEF CacheInv, Owned, OneLoader, Owning
<1>2. QED  BY <1>1, CacheInvariant, PTL
----------------------------------------------------------------------------
(* What the cache holds.                                                   *)

\* An entry per key and per age, and no more of them than fit.
Entries == SUBSET EntryRec
Orderly(C) ==
  /\ IsFiniteSet(C)
  /\ \A e, f \in C : e.key = f.key \/ e.age = f.age => e = f
LruInv == Orderly(cache) /\ Cardinality(cache) <= MaxEntries

\* Every set of numbers has a least one.
LEMMA Least ==
  ASSUME NEW S \in SUBSET Nat, S # {}
  PROVE  \E n \in S : \A m \in S : n <= m
<1> DEFINE R == OpToRel(<, Nat)
<1>1. IsWellFoundedOn(R, Nat) BY NatLessThanWellFounded, Zenon
<1>2. ASSUME NEW x \in Nat, NEW y \in Nat, x < y PROVE <<x, y>> \in R
  <2>1. <<x, y>> \in Nat \X Nat OBVIOUS
  <2>2. R = {p \in Nat \X Nat : p[1] < p[2]} BY Zenon DEF OpToRel
  <2> QED BY <1>2, <2>1, <2>2
<1> HIDE DEF R
<1>3. PICK n \in S : \A m \in S : ~(<<m, n>> \in R) BY <1>1, WFMin
<1>4. \A m \in S : ~(m < n) BY <1>2, <1>3
<1> QED BY <1>4

\* A function has no more values than arguments.
LEMMA ValuesFinite ==
  ASSUME NEW S, NEW T, NEW F \in [S -> T], IsFiniteSet(S)
  PROVE  /\ IsFiniteSet({F[x] : x \in S})
         /\ Cardinality({F[x] : x \in S}) <= Cardinality(S)
<1> DEFINE I == {F[x] : x \in S}
<1>1. F \in Surjection(S, I) BY DEF Surjection
<1> HIDE DEF I
<1>2. IsFiniteSet(I) /\ Cardinality(I) <= Cardinality(S) BY <1>1, FS_Surjection
<1> QED BY <1>2 DEF I

\* The entries that at most MaxEntries - 1 others are younger than are at most
\* MaxEntries: the oldest of them has all the others before it.
LEMMA EvictedFit ==
  ASSUME NEW all, IsFiniteSet(all), \A e \in all : e.age \in Nat,
         \A e, f \in all : e.age = f.age => e = f, NEW kept \in SUBSET all,
         \A e \in kept : Cardinality({f \in all : f.age < e.age}) < MaxEntries
  PROVE  IsFiniteSet(kept) /\ Cardinality(kept) <= MaxEntries
<1> DEFINE younger(e) == {f \in all : f.age < e.age}
           count(e) == Cardinality(younger(e))
<1>1. IsFiniteSet(kept) /\ kept \subseteq all BY FS_Subset
<1>2. \A e \in all : IsFiniteSet(younger(e)) /\ count(e) \in Nat
  BY FS_Subset, FS_CardinalityType
<1>3. MaxEntries \in Nat \ {0} BY CapacityAssumption
<1>4. CASE kept = {}
  <2>1. Cardinality(kept) = 0 BY <1>4, FS_EmptySet
  <2> QED BY <1>1, <1>3, <2>1
<1>5. CASE kept # {}
  <2> DEFINE room == {MaxEntries - count(e) : e \in kept}
  <2>1. \A e \in kept : count(e) < MaxEntries OBVIOUS
  <2>2. \A e \in kept : count(e) \in Nat /\ MaxEntries - count(e) \in Nat
    <3> SUFFICES ASSUME NEW e \in kept
                 PROVE  count(e) \in Nat /\ MaxEntries - count(e) \in Nat
      OBVIOUS
    <3>1. count(e) \in Nat /\ count(e) < MaxEntries BY <1>1, <1>2, <2>1
    <3> HIDE DEF count
    <3> QED BY <1>3, <3>1
  <2>3. room \in SUBSET Nat /\ room # {}
    <3> HIDE DEF count
    <3> QED BY <1>5, <2>2
  <2>4. PICK e \in kept : \A f \in kept : MaxEntries - count(e) <= MaxEntries - count(f)
    <3>1. PICK n \in room : \A m \in room : n <= m
      <4> HIDE DEF room
      <4> QED BY <2>3, Least
    <3> HIDE DEF count
    <3> QED BY <3>1
  <2>5. \A f \in kept : count(f) <= count(e)
    <3> HIDE DEF count
    <3> QED BY <1>3, <2>2, <2>4
  <2>6. ASSUME NEW f \in kept, f # e PROVE f \in younger(e)
    <3>1. e \in all /\ f \in all BY <1>1
    <3>2. SUFFICES ASSUME e.age < f.age PROVE FALSE
      BY <2>6, <3>1
    <3>3. younger(e) \cup {e} \subseteq younger(f) /\ e \notin younger(e)
      BY <3>1, <3>2
    <3>4. IsFiniteSet(younger(e)) /\ IsFiniteSet(younger(f)) BY <1>2, <3>1
    <3> HIDE DEF younger
    <3>5. Cardinality(younger(e) \cup {e}) = count(e) + 1
      BY <3>3, <3>4, FS_AddElement
    <3>6. Cardinality(younger(e) \cup {e}) <= count(f)
      BY <3>3, <3>4, FS_Subset
    <3> HIDE DEF count
    <3> QED BY <2>2, <2>5, <3>5, <3>6
  <2>7. kept \subseteq younger(e) \cup {e} BY <2>6
  <2>8. IsFiniteSet(younger(e)) /\ count(e) \in Nat /\ count(e) < MaxEntries
    BY <1>1, <1>2, <2>1
  <2>9. /\ IsFiniteSet(younger(e) \cup {e})
        /\ Cardinality(younger(e) \cup {e}) <= count(e) + 1
    <3> DEFINE others == younger(e)
    <3>1. IsFiniteSet(others) /\ Cardinality(others) \in Nat BY <2>8
    <3> HIDE DEF others
    <3>2. /\ IsFiniteSet(others \cup {e})
          /\ Cardinality(others \cup {e}) <= Cardinality(others) + 1
      BY <3>1, FS_AddElement
    <3> QED BY <3>2 DEF others
  <2> HIDE DEF younger
  <2>10. Cardinality(kept) <= Cardinality(younger(e) \cup {e})
    BY <2>7, <2>9, FS_Subset
  <2>11. Cardinality(kept) \in Nat /\ Cardinality(younger(e) \cup {e}) \in Nat
    BY <1>1, <2>9, FS_CardinalityType
  <2> HIDE DEF count
  <2> QED BY <1>1, <1>3, <2>8, <2>9, <2>10, <2>11
<1> QED BY <1>4, <1>5
\* What is left after removing entries is in order too.
LEMMA FewerOrderly ==
  ASSUME NEW C \in Entries, Orderly(C), NEW D \in SUBSET C
  PROVE  D \in Entries /\ Orderly(D) /\ Cardinality(D) <= Cardinality(C)
BY FS_Subset DEF Orderly, Entries

\* A new age, or a flag, is the same entry otherwise.
Twin(e, f) == e.key = f.key /\ e.value = f.value

\* No step makes an entry up: it has one of the old ones, or stores v for k.
Shows(C, k, v) ==
  \A e \in C : (e.key = k /\ e.value = v) \/ \E f \in cache : Twin(e, f)

\* Using an entry makes it the youngest.
LEMMA WithOrderly ==
  ASSUME cache \in Entries, LruInv, NEW k \in Key, NEW v \in Nat
  PROVE  /\ With(k, v) \in Entries /\ Orderly(With(k, v))
         /\ Shows(With(k, v), k, v)
         /\ Hits(k) # {} => Cardinality(With(k, v)) <= MaxEntries
<1> DEFINE new == [key |-> k, value |-> v, live |-> TRUE, age |-> 0]
           aged(e) == [e EXCEPT !.age = @ + 1]
           F == [e \in Without(k) |-> aged(e)]
           old == {F[e] : e \in Without(k)}
<1>1. With(k, v) = old \cup {new} BY DEF With
<1>2. Orderly(cache) /\ Without(k) \in SUBSET cache BY DEF LruInv, Without
<1>3. /\ Without(k) \in Entries /\ Orderly(Without(k))
      /\ Cardinality(Without(k)) <= Cardinality(cache)
  BY <1>2, FewerOrderly
<1>4. \A e \in Without(k) :
        /\ F[e] \in EntryRec /\ F[e].age = e.age + 1 /\ Twin(F[e], e)
        /\ e.age \in Nat /\ e.key # k /\ e \in cache
  BY <1>3 DEF Entries, EntryRec, Twin, Without
<1>5. F \in [Without(k) -> EntryRec] BY <1>4
<1>6. new \in EntryRec /\ new.key = k /\ new.age = 0 /\ new.value = v BY DEF EntryRec
<1> HIDE DEF new, F
<1>7. With(k, v) \in Entries BY <1>1, <1>4, <1>6 DEF Entries
<1>8. IsFiniteSet(old) /\ Cardinality(old) <= Cardinality(Without(k))
  BY <1>3, <1>5, ValuesFinite DEF Orderly
<1>9. \A e \in old : e.key # k /\ e.age # 0 BY <1>4 DEF Twin
<1>10. \A e, f \in old : e.key = f.key \/ e.age = f.age => e = f
  <2> SUFFICES ASSUME NEW e \in Without(k), NEW f \in Without(k),
                      F[e].key = F[f].key \/ F[e].age = F[f].age
               PROVE  e = f
    OBVIOUS
  <2>1. e.key = f.key \/ e.age = f.age BY <1>4 DEF Twin
  <2> QED BY <1>3, <2>1 DEF Orderly
<1>11. Shows(With(k, v), k, v) BY <1>1, <1>4, <1>6 DEF Shows
<1> HIDE DEF old
<1>12. /\ IsFiniteSet(old \cup {new})
       /\ Cardinality(old \cup {new}) <= Cardinality(old) + 1
  <2>1. Cardinality(old) \in Nat BY <1>8, FS_CardinalityType
  <2>2. /\ IsFiniteSet(old \cup {new})
        /\ Cardinality(old \cup {new}) =
             IF new \in old THEN Cardinality(old) ELSE Cardinality(old) + 1
    BY <1>8, FS_AddElement
  <2> QED BY <2>1, <2>2
<1>13. Orderly(With(k, v)) BY <1>1, <1>6, <1>9, <1>10, <1>12 DEF Orderly
<1>14. ASSUME Hits(k) # {} PROVE Cardinality(With(k, v)) <= MaxEntries
  <2>1. PICK e \in cache : e.key = k BY <1>14 DEF Hits
  <2>2. Without(k) \subseteq cache \ {e} BY <2>1 DEF Without
  <2>3. /\ IsFiniteSet(cache) /\ IsFiniteSet(cache \ {e})
        /\ Cardinality(cache \ {e}) = Cardinality(cache) - 1
    BY <1>2, <2>1, FS_RemoveElement DEF Orderly
  <2>4. Cardinality(Without(k)) <= Cardinality(cache \ {e}) BY <2>2, <2>3, FS_Subset
  <2>5. /\ Cardinality(cache) \in Nat /\ Cardinality(Without(k)) \in Nat
        /\ Cardinality(old) \in Nat /\ Cardinality(With(k, v)) \in Nat
    BY <1>1, <1>3, <1>8, <1>12, <2>3, FS_CardinalityType DEF Orderly
  <2>6. Cardinality(With(k, v)) <= Cardinality(old) + 1 BY <1>1, <1>12
  <2> QED BY <1>8, <2>3, <2>4, <2>5, <2>6, CapacityAssumption DEF LruInv
<1> QED BY <1>7, <1>11, <1>13, <1>14

\* _store evicts until the rest fits.
LEMMA StoredOrderly ==
  ASSUME cache \in Entries, LruInv, NEW k \in Key, NEW v \in Nat
  PROVE  /\ Stored(k, v) \in Entries /\ Orderly(Stored(k, v))
         /\ Cardinality(Stored(k, v)) <= MaxEntries
         /\ Shows(Stored(k, v), k, v)
<1> DEFINE all == With(k, v)
           kept == Stored(k, v)
<1>1. all \in Entries /\ Orderly(all) /\ Shows(all, k, v) BY WithOrderly
<1>2. /\ kept \in SUBSET all
      /\ \A e \in kept : Cardinality({f \in all : f.age < e.age}) < MaxEntries
  BY DEF Stored
<1> HIDE DEF all, kept
<1>3. kept \in Entries /\ Orderly(kept) BY <1>1, <1>2, FewerOrderly
<1>4. /\ IsFiniteSet(all) /\ \A e \in all : e.age \in Nat
      /\ \A e, f \in all : e.age = f.age => e = f
  BY <1>1 DEF Orderly, Entries, EntryRec
<1>5. Cardinality(kept) <= MaxEntries BY <1>2, <1>4, EvictedFit
<1>6. Shows(kept, k, v) BY <1>1, <1>2 DEF Shows
<1> QED BY <1>3, <1>5, <1>6 DEF kept

\* An entry that expires stays where it is.
LEMMA LapsedOrderly ==
  ASSUME cache \in Entries, LruInv, NEW k \in Key,
         cache' = {[e EXCEPT !.live = @ /\ e.key # k] : e \in cache}
  PROVE  /\ cache' \in Entries /\ LruInv'
         /\ \A e \in cache' : \E f \in cache : Twin(e, f)
<1> DEFINE F == [e \in cache |-> [e EXCEPT !.live = @ /\ e.key # k]]
<1>1. cache' = {F[e] : e \in cache} OBVIOUS
<1>2. \A e \in cache : F[e] \in EntryRec /\ F[e].age = e.age /\ Twin(F[e], e)
  BY DEF Entries, EntryRec, Twin
<1>3. F \in [cache -> EntryRec] BY <1>2
<1> HIDE DEF F
<1>4. IsFiniteSet(cache') /\ Cardinality(cache') <= Cardinality(cache)
  <2>1. IsFiniteSet(cache) BY DEF LruInv, Orderly
  <2>2. /\ IsFiniteSet({F[e] : e \in cache})
        /\ Cardinality({F[e] : e \in cache}) <= Cardinality(cache)
    BY <1>3, <2>1, ValuesFinite
  <2> QED BY <1>1, <2>2, Zenon
<1>5. \A e, f \in cache' : e.key = f.key \/ e.age = f.age => e = f
  <2> SUFFICES ASSUME NEW e \in cache, NEW f \in cache,
                      F[e].key = F[f].key \/ F[e].age = F[f].age
               PROVE  e = f
    BY <1>1
  <2>1. e.key = f.key \/ e.age = f.age BY <1>2 DEF Twin
  <2> QED BY <2>1 DEF LruInv, Orderly
<1>6. Cardinality(cache') <= MaxEntries
  <2>1. Cardinality(cache) \in Nat /\ Cardinality(cache') \in Nat
    BY <1>4, FS_CardinalityType DEF LruInv, Orderly
  <2> QED BY <1>4, <2>1, CapacityAssumption DEF LruInv
<1>7. cache' \in Entries BY <1>1, <1>2 DEF Entries
<1>8. \A e \in cache' : \E f \in cache : Twin(e, f) BY <1>1, <1>2
<1> QED BY <1>4, <1>5, <1>6, <1>7, <1>8 DEF LruInv, Orderly
----------------------------------------------------------------------------
(* What the frames carry.                                                  *)

LEMMA MovedFrames ==
  ASSUME call \in Frames(Nat), NEW t \in Thread, NEW k \in Key, NEW pc \in Places,
         Move(t, k, pc)
  PROVE  /\ call' \in Frames(Nat)
         /\ call'[t][k].pc = pc /\ call'[t][k].value = call[t][k].value
         /\ \A u \in Thread, j \in Key :
              (u = t /\ j = k) \/ call'[u][j] = call[u][j]
<1> DEFINE r == [call[t][k] EXCEPT !.pc = pc]
<1>1. r \in FrameOf(Nat) /\ r.pc = pc /\ r.value = call[t][k].value
  BY DEF Frames, FrameOf
<1>2. call' = [call EXCEPT ![t][k] = r] BY DEF Move
<1> HIDE DEF r
<1>3. /\ call' \in Frames(Nat)
      /\ \A u \in Thread, j \in Key :
           call'[u][j] = IF u = t /\ j = k THEN r ELSE call[u][j]
  BY <1>1, <1>2 DEF Frames
<1> QED BY <1>1, <1>3

LEMMA ReturnedFrames ==
  ASSUME call \in Frames(Nat), NEW t \in Thread, NEW k \in Key, NEW v \in Nat
  PROVE  /\ Returned(t, k, v) \in Frames(Nat)
         /\ \A u \in Thread, j \in Key :
              Returned(t, k, v)[u][j] =
                IF u = t /\ j = k THEN NoFrame
                ELSE IF u = t /\ j \in Asker(t, k) THEN Made(v)
                ELSE call[u][j]
<1>1. Made(v) \in FrameOf(Nat) /\ NoFrame \in FrameOf(Nat)
  BY DEF Made, NoFrame, FrameOf, Places
<1> QED BY <1>1 DEF Returned, Frames

LEMMA RaisedFrames ==
  ASSUME call \in Frames(Nat), NEW t \in Thread, NEW k \in Key
  PROVE  /\ Raised(t, k) \in Frames(Nat)
         /\ \A u \in Thread, j \in Key :
              \/ Raised(t, k)[u][j] = call[u][j]
              \/ Raised(t, k)[u][j].pc \in {"none", "raise"}
<1> DEFINE moved(j) == [call[t][j] EXCEPT !.pc = "raise"]
<1>1. NoFrame \in FrameOf(Nat) /\ NoFrame.pc = "none" BY DEF NoFrame, FrameOf, Places
<1>2. \A j \in Key : moved(j) \in FrameOf(Nat) /\ moved(j).pc = "raise"
  BY DEF Frames, FrameOf, Places
<1>3. Raised(t, k) =
        [call EXCEPT ![t] = [j \in Key |->
           IF j = k THEN NoFrame
           ELSE IF j \in Asker(t, k) THEN moved(j) ELSE call[t][j]]]
  BY DEF Raised
<1> HIDE DEF moved
<1> QED BY <1>1, <1>2, <1>3 DEF Frames

LEMMA WokenFrames ==
  ASSUME NEW t \in Thread, NEW k \in Key, NEW f \in Frames(Nat)
  PROVE  /\ Woken(f, t, k) \in Frames(Nat)
         /\ \A u \in Thread, j \in Key :
              Woken(f, t, k)[u][j] = f[u][j] \/ Woken(f, t, k)[u][j] = Entered
<1> DEFINE wakes(u) == f[u][k].pc = "wait" /\ f[u][k].on = t
<1>1. Entered \in FrameOf(Nat) BY DEF Entered, FrameOf, Places
<1>2. Woken(f, t, k) =
        [u \in Thread |-> [f[u] EXCEPT ![k] = IF wakes(u) THEN Entered ELSE f[u][k]]]
  BY DEF Woken
<1> HIDE DEF wakes
<1> QED BY <1>1, <1>2 DEF Frames

\* One frame becomes another.
LEMMA SetFrames ==
  ASSUME call \in Frames(Nat), NEW t \in Thread, NEW k \in Key, NEW r \in FrameOf(Nat),
         call' = [call EXCEPT ![t][k] = r]
  PROVE  /\ call' \in Frames(Nat)
         /\ \A u \in Thread, j \in Key :
              call'[u][j] = IF u = t /\ j = k THEN r ELSE call[u][j]
BY DEF Frames

\* A value is fresh for a key if it is not older than the last clear by a writer
\* that had committed, unless that clear met a load; it serves the key if it is
\* fresh for it and for every fragment that is made from it.
Good(v, k) == v >= floor[k] \/ raced[k]
Serves(v, k) == Good(v, k) /\ \A j \in Key : Needs[j] = k => Good(v, j)

\* What a loader is about to store serves its key, and what a flight that ends
\* will return to the loader of a fragment is fresh for the fragment.
Carried(frames) ==
  \A t \in Thread, k \in Key :
    /\ frames[t][k].pc = "store" => Serves(frames[t][k].value, k)
    /\ frames[t][k].pc = "signal" =>
         \A j \in Key : Needs[j] = k /\ frames[t][j].pc = "inner"
                        => Good(frames[t][k].value, j)

FreshInv ==
  /\ \A e \in cache : Serves(e.value, e.key)
  /\ Carried(call)

\* Nothing is cleared for a commit that has not been made, and a fragment is not
\* cleared for a commit before its items are.
FloorInv ==
  /\ \A k \in Key : /\ floor[k] <= source
                    /\ Needs[k] # None => floor[k] <= floor[Needs[k]]
  /\ \A w \in Writer :
       /\ writer[w].made <= source
       /\ writer[w].done >= 2 => \A k \in Items : writer[w].made <= floor[k]

\* Only items are asked for, and nothing asks for a fragment.
LEMMA NeedsItems ==
  \A j, k \in Key : Needs[j] = k => k \in Items /\ j \notin Items /\ Needs[k] = None
BY NestingAssumption DEF Key

\* What a thread delivers to its loader serves the fragment.
LEMMA DeliverCarried ==
  ASSUME call \in Frames(Nat), NEW t \in Thread, NEW k \in Key, NEW v \in Nat,
         Carried(call), \A j \in Asker(t, k) : Good(v, j)
  PROVE  Carried(Returned(t, k, v))
<1> DEFINE frames == Returned(t, k, v)
<1>1. \A u \in Thread, j \in Key :
        frames[u][j] = IF u = t /\ j = k THEN NoFrame
                       ELSE IF u = t /\ j \in Asker(t, k) THEN Made(v)
                       ELSE call[u][j]
  BY ReturnedFrames
<1>2. NoFrame.pc = "none" /\ Made(v).pc = "store" /\ Made(v).value = v
  BY DEF NoFrame, Made
<1>3. \A j \in Asker(t, k) : Serves(v, j)
  BY NeedsItems, NestingAssumption DEF Serves, Asker
<1> HIDE DEF frames
<1>4. ASSUME NEW u \in Thread, NEW j \in Key, frames[u][j].pc = "store"
      PROVE  Serves(frames[u][j].value, j)
  BY <1>1, <1>2, <1>3, <1>4 DEF Carried
<1>5. ASSUME NEW u \in Thread, NEW j \in Key, frames[u][j].pc = "signal",
             NEW i \in Key, Needs[i] = j, frames[u][i].pc = "inner"
      PROVE  Good(frames[u][j].value, i)
  <2>1. frames[u][j] = call[u][j] /\ frames[u][i] = call[u][i] BY <1>1, <1>2, <1>5
  <2> QED BY <1>5, <2>1 DEF Carried
<1> QED BY <1>4, <1>5 DEF Carried, frames

\* Frames that only lose what they carried carry nothing stale.
Loses(frames, next) ==
  \A u \in Thread, j \in Key :
    \/ next[u][j] = frames[u][j]
    \/ next[u][j].pc \notin {"store", "signal", "inner"}

LEMMA LoseCarried ==
  ASSUME NEW frames, NEW next, Carried(frames), Loses(frames, next)
  PROVE  Carried(next)
<1>1. ASSUME NEW u \in Thread, NEW j \in Key, next[u][j].pc = "store"
      PROVE  Serves(next[u][j].value, j)
  <2>1. next[u][j] = frames[u][j] BY <1>1 DEF Loses
  <2> QED BY <1>1, <2>1 DEF Carried
<1>2. ASSUME NEW u \in Thread, NEW j \in Key, next[u][j].pc = "signal",
             NEW i \in Key, Needs[i] = j, next[u][i].pc = "inner"
      PROVE  Good(next[u][j].value, i)
  <2>1. next[u][j] = frames[u][j] /\ next[u][i] = frames[u][i] BY <1>2 DEF Loses
  <2> QED BY <1>2, <2>1 DEF Carried
<1> QED BY <1>1, <1>2 DEF Carried
----------------------------------------------------------------------------
(* The steps of a call.                                                    *)

FramesTyped == call \in Frames(Nat)

LEMMA TypedFrames == TypeOK => FramesTyped
BY DEF TypeOK, FramesTyped, Frames, FrameOf, FrameRec, Places

LEMMA MoveCarries ==
  ASSUME FramesTyped, Carried(call), NEW t \in Thread, NEW k \in Key,
         NEW pc \in {"load", "raise", "failed"}, Move(t, k, pc)
  PROVE  FramesTyped' /\ Carried(call')
<1>1. /\ call' \in Frames(Nat) /\ call'[t][k].pc = pc
      /\ \A u \in Thread, j \in Key : (u = t /\ j = k) \/ call'[u][j] = call[u][j]
  BY MovedFrames DEF FramesTyped, Places
<1>2. Loses(call, call') BY <1>1 DEF Loses
<1>3. Carried(call') BY <1>2, LoseCarried
<1> QED BY <1>1, <1>3 DEF FramesTyped

LEMMA SetCarries ==
  ASSUME FramesTyped, Carried(call), NEW t \in Thread, NEW k \in Key,
         NEW r \in FrameOf(Nat), r.pc \notin {"store", "signal", "inner"},
         call' = [call EXCEPT ![t][k] = r]
  PROVE  FramesTyped' /\ Carried(call')
<1>1. /\ call' \in Frames(Nat)
      /\ \A u \in Thread, j \in Key :
           call'[u][j] = IF u = t /\ j = k THEN r ELSE call[u][j]
  BY SetFrames DEF FramesTyped
<1>2. Loses(call, call') BY <1>1 DEF Loses
<1>3. Carried(call') BY <1>2, LoseCarried
<1> QED BY <1>1, <1>3 DEF FramesTyped

LEMMA StartCarries ==
  ASSUME FramesTyped, Carried(call), NEW t \in Thread, NEW k \in Key, Start(t, k)
  PROVE  FramesTyped' /\ Carried(call')
<1>1. Entered \in FrameOf(Nat) /\ Entered.pc = "enter" BY DEF Entered, FrameOf, Places
<1>2. call' = [call EXCEPT ![t][k] = Entered] BY DEF Start
<1> QED BY <1>1, <1>2, SetCarries

LEMMA JoinCarries ==
  ASSUME FramesTyped, Carried(call), Flights,
         NEW t \in Thread, NEW k \in Key, Join(t, k)
  PROVE  FramesTyped' /\ Carried(call')
<1> DEFINE r == [pc |-> "wait", on |-> flight[k], value |-> 0]
<1>1. r \in FrameOf(Nat) /\ r.pc = "wait" BY DEF Flights, FrameOf, Places
<1>2. call' = [call EXCEPT ![t][k] = r] BY DEF Join
<1> HIDE DEF r
<1> QED BY <1>1, <1>2, SetCarries

\* What is read from the database serves everything.
LEMMA SourceServes ==
  ASSUME FloorInv, source \in Nat, floor \in [Key -> Nat], NEW k \in Key
  PROVE  Serves(source, k)
BY DEF FloorInv, Serves, Good

LEMMA LoadCarries ==
  ASSUME FramesTyped, FreshInv, FloorInv, source \in Nat, floor \in [Key -> Nat],
         NEW t \in Thread, NEW k \in Key, Load(t, k)
  PROVE  FramesTyped' /\ Carried(call')
<1>0. Carried(call) BY DEF FreshInv
<1>1. CASE Needs[k] = None
  <2>1. /\ Made(source) \in FrameOf(Nat)
        /\ Made(source).pc = "store" /\ Made(source).value = source
    BY DEF Made, FrameOf, Places
  <2>2. call' = [call EXCEPT ![t][k] = Made(source)] BY <1>1 DEF Load
  <2>3. /\ call' \in Frames(Nat)
        /\ \A u \in Thread, j \in Key :
             call'[u][j] = IF u = t /\ j = k THEN Made(source) ELSE call[u][j]
    BY <2>1, <2>2, SetFrames DEF FramesTyped
  <2>4. ASSUME NEW u \in Thread, NEW j \in Key, call'[u][j].pc = "store"
        PROVE  Serves(call'[u][j].value, j)
    BY <1>0, <2>1, <2>3, <2>4, SourceServes DEF Carried
  <2>5. ASSUME NEW u \in Thread, NEW j \in Key, call'[u][j].pc = "signal",
               NEW i \in Key, Needs[i] = j, call'[u][i].pc = "inner"
        PROVE  Good(call'[u][j].value, i)
    <3>1. call'[u][j] = call[u][j] /\ call'[u][i] = call[u][i] BY <2>1, <2>3, <2>5
    <3> QED BY <1>0, <2>5, <3>1 DEF Carried
  <2> QED BY <2>3, <2>4, <2>5 DEF Carried, FramesTyped
<1>2. CASE Needs[k] # None
  <2> DEFINE r == [call[t][k] EXCEPT !.pc = "inner"]
  <2>1. Needs[k] \in Key /\ Needs[k] # k BY <1>2, NestingAssumption DEF Key
  <2>2. r \in FrameOf(Nat) /\ r.pc = "inner"
    <3>1. call \in Frames(Nat) /\ "inner" \in Places BY DEF FramesTyped, Places
    <3> QED BY <3>1, FrameMoved
  <2>3. Entered \in FrameOf(Nat) /\ Entered.pc = "enter"
    BY DEF Entered, FrameOf, Places
  <2>4. call' = [call EXCEPT ![t][k] = r, ![t][Needs[k]] = Entered]
    BY <1>2 DEF Load
  <2> HIDE DEF r
  <2>5. /\ call' \in Frames(Nat)
        /\ \A u \in Thread, j \in Key :
             call'[u][j] = IF u = t /\ j = Needs[k] THEN Entered
                           ELSE IF u = t /\ j = k THEN r ELSE call[u][j]
    BY <2>1, <2>2, <2>3, <2>4 DEF FramesTyped, Frames
  <2>6. ASSUME NEW u \in Thread, NEW j \in Key, call'[u][j].pc = "store"
        PROVE  Serves(call'[u][j].value, j)
    BY <1>0, <2>2, <2>3, <2>5, <2>6 DEF Carried
  <2>7. ASSUME NEW u \in Thread, NEW j \in Key, call'[u][j].pc = "signal",
               NEW i \in Key, Needs[i] = j, call'[u][i].pc = "inner"
        PROVE  Good(call'[u][j].value, i)
    <3>1. call'[u][j] = call[u][j] BY <2>2, <2>3, <2>5, <2>7
    <3>2. call'[u][i] = call[u][i] BY <2>2, <2>3, <2>5, <2>7
    <3> QED BY <1>0, <2>7, <3>1, <3>2 DEF Carried
  <2> QED BY <2>5, <2>6, <2>7 DEF Carried, FramesTyped
<1> QED BY <1>1, <1>2

LEMMA StoreCarries ==
  ASSUME FramesTyped, Carried(call), NEW t \in Thread, NEW k \in Key, Store(t, k)
  PROVE  FramesTyped' /\ Carried(call')
<1>1. /\ call' \in Frames(Nat)
      /\ call'[t][k].pc = "signal" /\ call'[t][k].value = call[t][k].value
      /\ \A u \in Thread, j \in Key : (u = t /\ j = k) \/ call'[u][j] = call[u][j]
  BY MovedFrames DEF FramesTyped, Store, Places
<1>2. call[t][k].pc = "store" /\ Serves(call[t][k].value, k)
  BY DEF Store, At, Carried
<1>3. ASSUME NEW u \in Thread, NEW j \in Key, call'[u][j].pc = "store"
      PROVE  Serves(call'[u][j].value, j)
  BY <1>1, <1>3 DEF Carried
<1>4. ASSUME NEW u \in Thread, NEW j \in Key, call'[u][j].pc = "signal",
             NEW i \in Key, Needs[i] = j, call'[u][i].pc = "inner"
      PROVE  Good(call'[u][j].value, i)
  <2>1. call'[u][i] = call[u][i] BY <1>1, <1>4
  <2>2. CASE u = t /\ j = k BY <1>1, <1>2, <1>4, <2>2 DEF Serves
  <2>3. CASE ~(u = t /\ j = k) BY <1>1, <1>4, <2>1, <2>3 DEF Carried
  <2> QED BY <2>2, <2>3
<1> QED BY <1>1, <1>3, <1>4 DEF Carried, FramesTyped

\* A flight that ends wakes the others, which carry nothing.
LEMMA WokenCarries ==
  ASSUME NEW f \in Frames(Nat), Carried(f), NEW t \in Thread, NEW k \in Key,
         call' = Woken(f, t, k)
  PROVE  FramesTyped' /\ Carried(call')
<1>1. /\ call' \in Frames(Nat)
      /\ \A u \in Thread, j \in Key : call'[u][j] = f[u][j] \/ call'[u][j] = Entered
  BY WokenFrames
<1>2. Loses(f, call') BY <1>1 DEF Loses, Entered
<1>3. Carried(call') BY <1>2, LoseCarried
<1> QED BY <1>1, <1>3 DEF FramesTyped

LEMMA SignalCarries ==
  ASSUME FramesTyped, Carried(call), NEW t \in Thread, NEW k \in Key, Signal(t, k)
  PROVE  FramesTyped' /\ Carried(call')
<1> DEFINE v == call[t][k].value
<1>1. v \in Nat BY DEF FramesTyped, Frames, FrameOf
<1>2. call[t][k].pc = "signal" BY DEF Signal, At
<1>3. \A j \in Asker(t, k) : Good(v, j) BY <1>2 DEF Carried, Asker, At
<1>4. call' = Woken(Returned(t, k, v), t, k) BY DEF Signal
<1> HIDE DEF v
<1>5. Returned(t, k, v) \in Frames(Nat) /\ Carried(Returned(t, k, v))
  BY <1>1, <1>3, ReturnedFrames, DeliverCarried DEF FramesTyped
<1> QED BY <1>4, <1>5, WokenCarries

LEMMA SignalFailureCarries ==
  ASSUME FramesTyped, Carried(call), NEW t \in Thread, NEW k \in Key,
         SignalFailure(t, k)
  PROVE  FramesTyped' /\ Carried(call')
<1> DEFINE f == Raised(t, k)
<1>1. /\ f \in Frames(Nat)
      /\ \A u \in Thread, j \in Key :
           f[u][j] = call[u][j] \/ f[u][j].pc \in {"none", "raise"}
  BY RaisedFrames DEF FramesTyped
<1>2. call' = Woken(f, t, k) BY DEF SignalFailure
<1> HIDE DEF f
<1>3. Loses(call, f) BY <1>1 DEF Loses
<1>4. Carried(f) BY <1>3, LoseCarried
<1> QED BY <1>1, <1>2, <1>4, WokenCarries

LEMMA HitCarries ==
  ASSUME FramesTyped, FreshInv, cache \in Entries, NEW t \in Thread, NEW k \in Key,
         Hit(t, k)
  PROVE  FramesTyped' /\ Carried(call')
<1>1. PICK e \in Hits(k) : call' = Returned(t, k, e.value) BY DEF Hit
<1>2. e \in cache /\ e.key = k /\ e.value \in Nat
  BY DEF Hits, Entries, EntryRec
<1>3. Serves(e.value, k) BY <1>2 DEF FreshInv
<1>4. \A j \in Asker(t, k) : Good(e.value, j) BY <1>3 DEF Serves, Asker
<1>5. Carried(call) BY DEF FreshInv
<1> QED BY <1>1, <1>2, <1>4, <1>5, ReturnedFrames, DeliverCarried DEF FramesTyped
----------------------------------------------------------------------------
(* The steps of the cache.                                                 *)

EntriesServe(C) == \A e \in C : Serves(e.value, e.key)

LEMMA ShownServe ==
  ASSUME EntriesServe(cache), NEW C, NEW k, NEW v, Shows(C, k, v), Serves(v, k)
  PROVE  EntriesServe(C)
BY DEF EntriesServe, Shows, Twin

Caches(C) ==
  C \in Entries /\ Orderly(C) /\ Cardinality(C) <= MaxEntries /\ EntriesServe(C)

LEMMA FewerCaches ==
  ASSUME Caches(cache), NEW C \in SUBSET cache
  PROVE  Caches(C)
<1>1. C \in Entries /\ Orderly(C) /\ Cardinality(C) <= Cardinality(cache)
  BY FewerOrderly DEF Caches
<1>2. Cardinality(C) \in Nat /\ Cardinality(cache) \in Nat
  BY <1>1, FS_CardinalityType DEF Caches, Orderly
<1>3. Cardinality(C) <= MaxEntries
  BY <1>1, <1>2, CapacityAssumption DEF Caches
<1> QED BY <1>1, <1>3 DEF Caches, EntriesServe

LEMMA HitCaches ==
  ASSUME Caches(cache), NEW t \in Thread, NEW k \in Key, Hit(t, k)
  PROVE  Caches(cache')
<1>1. PICK e \in Hits(k) : cache' = With(k, e.value) BY DEF Hit
<1>2. e \in cache /\ e.key = k /\ e.value \in Nat
  BY DEF Hits, Caches, Entries, EntryRec
<1>3. cache \in Entries /\ LruInv BY DEF Caches, LruInv
<1>4. /\ cache' \in Entries /\ Orderly(cache') /\ Shows(cache', k, e.value)
      /\ Cardinality(cache') <= MaxEntries
  BY <1>1, <1>2, <1>3, WithOrderly
<1>5. Serves(e.value, k) BY <1>2 DEF Caches, EntriesServe
<1>6. EntriesServe(cache') BY <1>4, <1>5, ShownServe DEF Caches
<1> QED BY <1>4, <1>6 DEF Caches

LEMMA StoreCaches ==
  ASSUME Caches(cache), FramesTyped, Carried(call),
         NEW t \in Thread, NEW k \in Key, Store(t, k)
  PROVE  Caches(cache')
<1> DEFINE v == call[t][k].value
<1>1. v \in Nat BY DEF FramesTyped, Frames, FrameOf
<1>2. Serves(v, k) BY DEF Store, At, Carried
<1>3. cache' = Stored(k, v) BY DEF Store
<1> HIDE DEF v
<1>4. cache \in Entries /\ LruInv BY DEF Caches, LruInv
<1>5. /\ cache' \in Entries /\ Orderly(cache') /\ Shows(cache', k, v)
      /\ Cardinality(cache') <= MaxEntries
  BY <1>1, <1>3, <1>4, StoredOrderly
<1>6. EntriesServe(cache') BY <1>2, <1>5, ShownServe DEF Caches
<1> QED BY <1>5, <1>6 DEF Caches

LEMMA LapseCaches ==
  ASSUME Caches(cache), NEW k \in Key, Lapse(k)
  PROVE  Caches(cache')
<1>1. cache \in Entries /\ LruInv BY DEF Caches, LruInv
<1>2. cache' = {[e EXCEPT !.live = @ /\ e.key # k] : e \in cache} BY DEF Lapse
<1>3. /\ cache' \in Entries /\ LruInv'
      /\ \A e \in cache' : \E f \in cache : Twin(e, f)
  BY <1>1, <1>2, LapsedOrderly
<1>4. EntriesServe(cache') BY <1>3 DEF Caches, EntriesServe, Twin
<1> QED BY <1>3, <1>4 DEF Caches, LruInv

----------------------------------------------------------------------------
(* A clear raises floors and removes the entries that are below them.      *)

HistoryTyped ==
  /\ source \in Nat /\ writer \in [Writer -> [done : 0 .. 4, made : Nat]]
  /\ floor \in [Key -> Nat] /\ raced \in [Key -> BOOLEAN]

LEMMA ClearHistory ==
  ASSUME HistoryTyped, FloorInv, NEW w \in Writer, Clear(w)
  PROVE  HistoryTyped' /\ FloorInv'
<1> DEFINE d == writer[w].done
           m == writer[w].made
           doomed == ClearSequence[d]
<1>1. d \in 1 .. 3 BY DEF Clear, ClearSequence
<1>2. /\ d = 1 => doomed = Items
      /\ d = 2 => doomed = Analysis
      /\ d = 3 => doomed = Table
  BY DEF ClearSequence
<1>3. m \in Nat /\ m <= source /\ source' = source
  BY DEF HistoryTyped, FloorInv, Clear
<1>4. writer' = [writer EXCEPT ![w].done = d + 1] BY DEF Clear
<1>5. /\ floor' = [k \in Key |-> IF k \in doomed /\ m > floor[k] THEN m ELSE floor[k]]
      /\ raced' = [k \in Key |->
           IF k \notin doomed THEN raced[k]
           ELSE Loading(k) \/ (Needs[k] # None /\ raced[Needs[k]])]
  BY DEF Clear
<1>6. d >= 2 => \A k \in Items : m <= floor[k] BY DEF FloorInv
<1>7. /\ writer'[w].done = d + 1 /\ writer'[w].made = m
      /\ \A x \in Writer : /\ writer'[x].made = writer[x].made
                           /\ x # w => writer'[x].done = writer[x].done
      /\ writer' \in [Writer -> [done : 0 .. 4, made : Nat]]
  BY <1>1, <1>4 DEF HistoryTyped
<1> HIDE DEF d, m, doomed
<1>8. floor' \in [Key -> Nat] BY <1>3, <1>5 DEF HistoryTyped
<1>9. raced' \in [Key -> BOOLEAN]
  <2>1. Needs \in [Key -> Items \cup {None}] BY NestingAssumption
  <2> QED BY <1>5, <2>1 DEF HistoryTyped, Loading, Key
<1>10. \A k \in Key : /\ floor[k] <= floor'[k] /\ floor'[k] <= source
                      /\ k \notin doomed => floor'[k] = floor[k]
                      /\ floor'[k] = floor[k] \/ floor'[k] = m
                      /\ k \in doomed => m <= floor'[k]
  BY <1>3, <1>5 DEF HistoryTyped, FloorInv
<1>11. ASSUME NEW k \in Key, Needs[k] # None PROVE floor'[k] <= floor'[Needs[k]]
  <2>1. Needs[k] \in Items /\ Needs[k] \in Key /\ k \notin Items
    BY <1>11, NestingAssumption DEF Key
  <2>2. floor[k] <= floor[Needs[k]] BY <1>11 DEF FloorInv
  <2>3. floor[Needs[k]] <= floor'[Needs[k]] BY <1>10, <2>1
  <2>4. /\ floor[k] \in Nat /\ floor[Needs[k]] \in Nat
        /\ floor'[k] \in Nat /\ floor'[Needs[k]] \in Nat
    BY <1>8, <2>1 DEF HistoryTyped
  <2>5. CASE k \notin doomed BY <1>10, <2>2, <2>3, <2>4, <2>5
  <2>6. CASE k \in doomed
    <3>1. d >= 2 BY <1>1, <1>2, <2>1, <2>6
    <3>2. m <= floor[Needs[k]] BY <1>6, <2>1, <3>1
    <3> QED BY <1>3, <1>10, <2>2, <2>3, <2>4, <3>2
  <2> QED BY <2>5, <2>6
<1>12. ASSUME NEW x \in Writer, writer'[x].done >= 2, NEW k \in Items
       PROVE  writer'[x].made <= floor'[k]
  <2>1. k \in Key BY DEF Key
  <2>2. floor[k] \in Nat /\ floor'[k] \in Nat /\ writer[x].made \in Nat
    BY <1>8, <2>1 DEF HistoryTyped
  <2>3. CASE writer[x].done >= 2
    <3>1. writer[x].made <= floor[k] BY <2>3 DEF FloorInv
    <3> QED BY <1>7, <1>10, <2>1, <2>2, <3>1
  <2>4. CASE ~(writer[x].done >= 2)
    <3>1. x = w /\ d = 1 BY <1>1, <1>7, <1>12, <2>4 DEF d
    <3> QED BY <1>2, <1>7, <1>10, <2>1, <3>1
  <2> QED BY <2>3, <2>4
<1>13. \A x \in Writer : writer'[x].made <= source' BY <1>3, <1>7 DEF FloorInv
<1>14. HistoryTyped' BY <1>3, <1>7, <1>8, <1>9 DEF HistoryTyped
<1>15. \A k \in Key : floor'[k] <= source' BY <1>3, <1>10
<1> QED BY <1>11, <1>12, <1>13, <1>14, <1>15 DEF FloorInv
\* What was fresh stays so for the keys that a clear spares, and for a fragment
\* that it clears: its items were cleared before.
LEMMA ClearGood ==
  ASSUME HistoryTyped, FloorInv, NEW w \in Writer, Clear(w),
         NEW k \in Key, NEW v \in Nat
  PROVE  LET doomed == ClearSequence[writer[w].done]
         IN  /\ k \notin doomed /\ Good(v, k) => Good(v, k)'
             /\ k \in doomed /\ Loading(k) => Good(v, k)'
             /\ \A j \in Key : Needs[j] = k /\ Good(v, k) /\ Good(v, j) => Good(v, j)'
<1> DEFINE d == writer[w].done
           m == writer[w].made
           doomed == ClearSequence[d]
<1>1. d \in 1 .. 3 /\ m \in Nat BY DEF HistoryTyped, Clear, ClearSequence
<1>2. d = 1 => doomed = Items BY DEF ClearSequence
<1>3. /\ floor' = [i \in Key |-> IF i \in doomed /\ m > floor[i] THEN m ELSE floor[i]]
      /\ raced' = [i \in Key |->
           IF i \notin doomed THEN raced[i]
           ELSE Loading(i) \/ (Needs[i] # None /\ raced[Needs[i]])]
  BY DEF Clear
<1>4. d >= 2 => \A i \in Items : m <= floor[i] BY DEF FloorInv
<1> HIDE DEF d, m, doomed
<1>5. ASSUME NEW i \in Key, i \notin doomed
      PROVE  floor'[i] = floor[i] /\ raced'[i] = raced[i]
  BY <1>3, <1>5
<1>6. ASSUME NEW i \in Key, i \in doomed, Loading(i) PROVE raced'[i]
  BY <1>3, <1>6
<1>7. ASSUME NEW i \in Key, Good(v, i), i \notin doomed PROVE Good(v, i)'
  BY <1>5, <1>7 DEF Good
<1>8. ASSUME NEW j \in Key, Needs[j] = k, Good(v, k), Good(v, j) PROVE Good(v, j)'
  <2>1. CASE j \notin doomed BY <1>7, <1>8, <2>1
  <2>2. CASE j \in doomed
    <3>1. k \in Items /\ j \notin Items /\ k # None
      BY <1>8, NestingAssumption DEF Key
    <3>2. CASE raced[k]
      <4>1. raced'[j] BY <1>3, <1>8, <2>2, <3>1, <3>2
      <4> QED BY <4>1 DEF Good
    <3>3. CASE v >= floor[k]
      <4>1. m <= floor[k] BY <1>1, <1>2, <1>4, <2>2, <3>1
      <4>2. floor[j] <= floor[k] BY <1>8, <3>1 DEF FloorInv
      <4>3. floor[k] \in Nat /\ floor[j] \in Nat BY DEF HistoryTyped
      <4>4. floor'[j] = m \/ floor'[j] = floor[j] BY <1>3
      <4>5. v >= floor'[j] BY <1>1, <3>3, <4>1, <4>2, <4>3, <4>4
      <4> QED BY <4>5 DEF Good
    <3> QED BY <1>8, <3>2, <3>3 DEF Good
  <2> QED BY <2>1, <2>2
<1>9. k \in doomed /\ Loading(k) => Good(v, k)' BY <1>6 DEF Good
<1>10. k \notin doomed /\ Good(v, k) => Good(v, k)' BY <1>7
<1> QED BY <1>8, <1>9, <1>10 DEF doomed, d

LEMMA ClearServes ==
  ASSUME HistoryTyped, FloorInv, NEW w \in Writer, Clear(w),
         NEW k \in Key, NEW v \in Nat, Serves(v, k),
         k \in ClearSequence[writer[w].done] => Loading(k)
  PROVE  Serves(v, k)'
<1> DEFINE doomed == ClearSequence[writer[w].done]
<1>1. /\ k \notin doomed /\ Good(v, k) => Good(v, k)'
      /\ k \in doomed /\ Loading(k) => Good(v, k)'
      /\ \A j \in Key : Needs[j] = k /\ Good(v, k) /\ Good(v, j) => Good(v, j)'
  BY ClearGood
<1> HIDE DEF doomed
<1>2. Good(v, k) /\ \A j \in Key : Needs[j] = k => Good(v, j) BY DEF Serves
<1>3. Good(v, k)' BY <1>1, <1>2 DEF doomed
<1>4. \A j \in Key : Needs[j] = k => Good(v, j)' BY <1>1, <1>2
<1> QED BY <1>3, <1>4 DEF Serves

LEMMA ClearFresh ==
  ASSUME HistoryTyped, FloorInv, Caches(cache), FramesTyped, Carried(call),
         NEW w \in Writer, Clear(w)
  PROVE  cache' \in SUBSET cache /\ FreshInv'
<1> DEFINE doomed == ClearSequence[writer[w].done]
<1>1. cache' = {e \in cache : e.key \notin doomed} /\ call' = call BY DEF Clear
<1> HIDE DEF doomed
<1>2. \A t \in Thread, k \in Key : call[t][k].value \in Nat
  BY DEF FramesTyped, Frames, FrameOf
<1>3. ASSUME NEW e \in cache' PROVE Serves(e.value, e.key)'
  <2>1. e \in cache /\ e.key \notin doomed BY <1>1, <1>3
  <2>2. e.key \in Key /\ e.value \in Nat /\ Serves(e.value, e.key)
    BY <2>1 DEF Caches, Entries, EntryRec, EntriesServe
  <2> DEFINE k == e.key
             v == e.value
  <2>3. k \in Key /\ v \in Nat /\ Serves(v, k) /\ k \notin ClearSequence[writer[w].done]
    BY <2>1, <2>2 DEF doomed
  <2> HIDE DEF k, v
  <2>4. Serves(v, k)' BY <2>3, ClearServes
  <2> QED BY <2>4 DEF k, v
<1>4. ASSUME NEW t \in Thread, NEW k \in Key, call[t][k].pc = "store",
             NEW v \in Nat, v = call[t][k].value
      PROVE  Serves(v, k)'
  <2>1. Serves(v, k) /\ Loading(k) BY <1>4 DEF Carried, Loading
  <2> QED BY <2>1, ClearServes
<1>5. ASSUME NEW t \in Thread, NEW k \in Key, call[t][k].pc = "signal",
             NEW v \in Nat, v = call[t][k].value,
             NEW j \in Key, Needs[j] = k, call[t][j].pc = "inner"
      PROVE  Good(v, j)'
  <2>1. Good(v, j) /\ Loading(j) BY <1>5 DEF Carried, Loading
  <2>2. /\ j \notin doomed /\ Good(v, j) => Good(v, j)'
        /\ j \in doomed /\ Loading(j) => Good(v, j)'
    BY ClearGood DEF doomed
  <2> QED BY <2>1, <2>2
<1>6. \A t \in Thread, k \in Key, v \in Nat : v = call[t][k].value =>
        /\ call[t][k].pc = "store" => Serves(v, k)'
        /\ call[t][k].pc = "signal" =>
             \A j \in Key : Needs[j] = k /\ call[t][j].pc = "inner" => Good(v, j)'
  BY <1>4, <1>5
<1>7. Carried(call)' BY <1>1, <1>2, <1>6 DEF Carried, Serves, Good
<1> QED BY <1>1, <1>3, <1>7 DEF FreshInv
----------------------------------------------------------------------------
(* The invariant of the values.                                            *)

ServeInv == TypeOK /\ LruInv /\ FloorInv /\ FreshInv

UsedTyped == used \in [calls : 0 .. MaxCalls, lapses : 0 .. MaxLapses]

LEMMA Parts ==
  TypeOK <=> /\ cache \in Entries /\ Flights /\ FramesTyped
             /\ HistoryTyped /\ UsedTyped
BY DEF TypeOK, Entries, Flights, FramesTyped, Frames, FrameOf, FrameRec, Places,
       HistoryTyped, UsedTyped

LEMMA PartsNext ==
  ASSUME cache' \in Entries, Flights', FramesTyped', HistoryTyped', UsedTyped'
  PROVE  TypeOK'
BY DEF TypeOK, Entries, Flights, FramesTyped, Frames, FrameOf, FrameRec, Places,
       HistoryTyped, UsedTyped

LEMMA CallStepKeeps ==
  ASSUME ServeInv, NEW t \in Thread, CallStep(t)
  PROVE  /\ FramesTyped' /\ Caches(cache') /\ Carried(call')
         /\ UNCHANGED <<source, writer, floor, raced, used>>
<1>0. /\ FramesTyped /\ Flights /\ Caches(cache) /\ Carried(call) /\ FreshInv
      /\ FloorInv /\ source \in Nat /\ floor \in [Key -> Nat] /\ cache \in Entries
  BY Parts DEF ServeInv, HistoryTyped, Caches, LruInv, FreshInv, EntriesServe
<1>1. UNCHANGED <<source, writer, floor, raced, used>>
  BY DEF CallStep, Hit, Lead, Join, Load, LoaderRaises, Store, Signal, Abandon,
         SignalFailure, history
<1>2. PICK k \in Key :
        \/ Hit(t, k) \/ Lead(t, k) \/ Join(t, k) \/ Load(t, k) \/ LoaderRaises(t, k)
        \/ Store(t, k) \/ Signal(t, k) \/ Abandon(t, k) \/ SignalFailure(t, k)
  BY DEF CallStep
<1> DEFINE Goal == FramesTyped' /\ Caches(cache') /\ Carried(call')
<1>3. ASSUME cache' = cache \/ cache' = Without(k) PROVE Caches(cache')
  BY <1>0, <1>3, FewerCaches DEF Without
<1> HIDE DEF Goal
<1>4. ASSUME Hit(t, k) PROVE Goal
  BY <1>0, <1>4, HitCarries, HitCaches DEF Goal
<1>5. ASSUME Lead(t, k) PROVE Goal
  BY <1>0, <1>3, <1>5, MoveCarries DEF Goal, Lead
<1>6. ASSUME Join(t, k) PROVE Goal
  <2>1. cache' = Without(k) BY <1>6 DEF Join
  <2> QED BY <1>0, <1>3, <1>6, <2>1, JoinCarries DEF Goal
<1>7. ASSUME Load(t, k) PROVE Goal
  <2>1. cache' = cache BY <1>7 DEF Load
  <2> QED BY <1>0, <1>3, <1>7, <2>1, LoadCarries DEF Goal
<1>8. ASSUME LoaderRaises(t, k) PROVE Goal
  BY <1>0, <1>3, <1>8, MoveCarries DEF Goal, LoaderRaises
<1>9. ASSUME Store(t, k) PROVE Goal
  BY <1>0, <1>9, StoreCarries, StoreCaches DEF Goal
<1>10. ASSUME Signal(t, k) PROVE Goal
  <2>1. cache' = cache BY <1>10 DEF Signal
  <2> QED BY <1>0, <1>3, <1>10, <2>1, SignalCarries DEF Goal
<1>11. ASSUME Abandon(t, k) PROVE Goal
  BY <1>0, <1>3, <1>11, MoveCarries DEF Goal, Abandon
<1>12. ASSUME SignalFailure(t, k) PROVE Goal
  <2>1. cache' = cache BY <1>12 DEF SignalFailure
  <2> QED BY <1>0, <1>3, <1>12, <2>1, SignalFailureCarries DEF Goal
<1>13. Goal
  BY <1>2, <1>4, <1>5, <1>6, <1>7, <1>8, <1>9, <1>10, <1>11, <1>12
<1> QED BY <1>1, <1>13 DEF Goal

LEMMA ServeStep == ServeInv /\ Flights' /\ [Next]_vars => ServeInv'
<1> SUFFICES ASSUME ServeInv, Flights', [Next]_vars PROVE ServeInv'
  OBVIOUS
<1>0. /\ FramesTyped /\ Caches(cache) /\ Carried(call) /\ FloorInv /\ HistoryTyped
      /\ UsedTyped
  BY Parts DEF ServeInv, Caches, LruInv, FreshInv, EntriesServe
\* Where floors and races stay, what serves goes on serving.
<1>1. ASSUME FramesTyped', Caches(cache'), Carried(call'), HistoryTyped', FloorInv',
             UsedTyped', UNCHANGED <<floor, raced>>
      PROVE  ServeInv'
  <2>1. LruInv' /\ cache' \in Entries BY <1>1 DEF Caches, LruInv, Orderly
  <2>2. FreshInv'
    BY <1>1 DEF FreshInv, Caches, EntriesServe, Carried, Serves, Good
  <2>3. TypeOK' BY <1>1, <2>1, PartsNext
  <2> QED BY <1>1, <2>1, <2>2, <2>3 DEF ServeInv
<1>2. ASSUME UNCHANGED <<source, writer, floor, raced>>
      PROVE  HistoryTyped' /\ FloorInv'
  BY <1>0, <1>2 DEF HistoryTyped, FloorInv
<1>3. ASSUME NEW t \in Thread, CallStep(t) PROVE ServeInv'
  <2>1. /\ FramesTyped' /\ Caches(cache') /\ Carried(call')
        /\ UNCHANGED <<source, writer, floor, raced, used>>
    BY <1>3, CallStepKeeps
  <2>2. HistoryTyped' /\ FloorInv' /\ UsedTyped' BY <1>0, <1>2, <2>1 DEF UsedTyped
  <2> QED BY <1>1, <2>1, <2>2
<1>4. ASSUME NEW t \in Thread, NEW k \in Key, Start(t, k) PROVE ServeInv'
  <2>1. cache' = cache /\ UNCHANGED <<source, writer, floor, raced>>
    BY <1>4 DEF Start, history
  <2>2. FramesTyped' /\ Carried(call') BY <1>0, <1>4, StartCarries
  <2>3. UsedTyped' BY <1>0, <1>4, BoundsAssumption DEF UsedTyped, Start
  <2>4. Caches(cache') BY <1>0, <2>1
  <2> QED BY <1>1, <1>2, <2>1, <2>2, <2>3, <2>4
<1>5. ASSUME NEW w \in Writer, Commit(w) PROVE ServeInv'
  <2>1. /\ writer[w].done = 0 /\ source' = source + 1
        /\ writer' = [writer EXCEPT ![w] = [done |-> 1, made |-> source + 1]]
        /\ UNCHANGED <<cache, flight, call, floor, raced, used>>
    BY <1>5 DEF Commit
  <2>2. HistoryTyped' BY <1>0, <2>1 DEF HistoryTyped
  <2>3. FloorInv' BY <1>0, <2>1 DEF HistoryTyped, FloorInv
  <2>4. FramesTyped' /\ Caches(cache') /\ Carried(call') /\ UsedTyped'
    BY <1>0, <2>1 DEF FramesTyped, UsedTyped
  <2> QED BY <1>1, <2>1, <2>2, <2>3, <2>4
<1>6. ASSUME NEW w \in Writer, Clear(w) PROVE ServeInv'
  <2>1. HistoryTyped' /\ FloorInv' BY <1>0, <1>6, ClearHistory
  <2>2. cache' \in SUBSET cache /\ FreshInv' BY <1>0, <1>6, ClearFresh
  <2>3. UNCHANGED <<call, used>> BY <1>6 DEF Clear
  <2>4. Caches(cache') BY <1>0, <2>2, FewerCaches
  <2>5. LruInv' /\ cache' \in Entries BY <2>4 DEF Caches, LruInv, Orderly
  <2>6. FramesTyped' /\ UsedTyped' BY <1>0, <2>3 DEF FramesTyped, UsedTyped
  <2>7. TypeOK' BY <2>1, <2>5, <2>6, PartsNext
  <2> QED BY <2>1, <2>2, <2>5, <2>7 DEF ServeInv
<1>7. ASSUME NEW k \in Key, Lapse(k) PROVE ServeInv'
  <2>1. call' = call /\ UNCHANGED <<source, writer, floor, raced>>
    BY <1>7 DEF Lapse, history
  <2>2. UsedTyped' BY <1>0, <1>7, BoundsAssumption DEF UsedTyped, Lapse
  <2>3. Caches(cache') BY <1>0, <1>7, LapseCaches
  <2>4. FramesTyped' /\ Carried(call') BY <1>0, <2>1 DEF FramesTyped
  <2> QED BY <1>1, <1>2, <2>1, <2>2, <2>3, <2>4
<1>8. CASE UNCHANGED vars
  <2>1. UNCHANGED <<cache, call, used, source, writer, floor, raced>> BY <1>8 DEF vars
  <2>2. FramesTyped' /\ Caches(cache') /\ Carried(call') /\ UsedTyped'
    BY <1>0, <2>1 DEF FramesTyped, UsedTyped
  <2> QED BY <1>1, <1>2, <2>1, <2>2
<1> QED BY <1>3, <1>4, <1>5, <1>6, <1>7, <1>8 DEF Next

LEMMA ServeInit == Init => ServeInv
<1> SUFFICES ASSUME Init PROVE ServeInv
  OBVIOUS
<1>1. TypeOK
  BY BoundsAssumption DEF Init, TypeOK, EntryRec, FrameRec, NoFrame
<1>2. LruInv
  BY FS_EmptySet, CapacityAssumption DEF Init, LruInv, Orderly
<1>3. FloorInv
  BY NestingAssumption DEF Init, FloorInv, Key
<1>4. FreshInv
  BY DEF Init, FreshInv, Carried, NoFrame
<1> QED BY <1>1, <1>2, <1>3, <1>4 DEF ServeInv

LEMMA ServeAlways == Spec => []ServeInv
<1>1. CacheInv => Flights BY DEF CacheInv
<1> QED BY <1>1, CacheInvariant, ServeInit, ServeStep, PTL DEF Spec

\* Every part of the cache, the flights and the calls always has its type.
THEOREM CacheTypeCorrect == Spec => []TypeOK
<1>1. ServeInv => TypeOK BY DEF ServeInv
<1> QED BY <1>1, ServeAlways, PTL

\* "At most max_entries keys are retained", each of them once, for any capacity:
\* what is used becomes the youngest, and what is stored evicts the oldest.
THEOREM CacheBounded == Spec => []Bounded
<1>1. ServeInv => Bounded BY DEF ServeInv, LruInv, Orderly, Bounded
<1> QED BY <1>1, ServeAlways, PTL

\* No entry shows a watchlist older than a commit that has cleared it, unless a
\* load of it, or of its items, was at work during that clear: for any writers,
\* because _clear_watchlist_caches clears the items before the fragments.
THEOREM ClearsTakeEffect == Spec => []ClearedIsFresh
<1>1. ServeInv => ClearedIsFresh
  BY DEF ServeInv, FreshInv, Serves, Good, ClearedIsFresh
<1> QED BY <1>1, ServeAlways, PTL
=============================================================================
