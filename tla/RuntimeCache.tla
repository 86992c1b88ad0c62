---------------------------- MODULE RuntimeCache ----------------------------
(***************************************************************************)
(* The in-process TTL cache of runtime_cache.py under concurrent requests: *)
(* get_or_set with its single flight per key, LRU eviction, expiry, and    *)
(* clear_namespace as the watchlist and portfolio routes call it after a   *)
(* commit.  The loader of a page fragment itself calls get_or_set for the  *)
(* items it shows.                                                         *)
(*                                                                         *)
(* A value is the version of the watchlist it was made from.  A critical   *)
(* section of _LOCK is one step.  A flight object is identified by its     *)
(* owner and key: no loader asks for its own key, so an owner has at most  *)
(* one per key.                                                            *)
(***************************************************************************)
EXTENDS Naturals, FiniteSets

CONSTANTS
  Items,       \* cache keys of namespace watchlist_items
  Analysis,    \* ... of watchlist_analysis_fragment
  Table,       \* ... of watchlist_table_fragment
  Needs,       \* [Key -> Items, or None]: the key a loader asks for
  Thread,      \* request threads that read
  Writer,      \* requests that change the watchlist
  None,
  MaxEntries,  \* capacity of the cache
  MaxCalls,    \* bound: outermost calls of get_or_set
  MaxLapses    \* bound: entries that expire

Key == Items \cup Analysis \cup Table

\* Fragments are made from items, and items from the database: nesting ends.
ASSUME NestingAssumption ==
  /\ Needs \in [Key -> Items \cup {None}]
  /\ \A k \in Items : Needs[k] = None
  /\ None \notin Key /\ None \notin Thread
ASSUME CapacityAssumption == MaxEntries \in Nat \ {0}
ASSUME BoundsAssumption == MaxCalls \in Nat /\ MaxLapses \in Nat

VARIABLES
  cache,    \* _CACHE: entries, each with its age: uses of others since its own
  flight,   \* _INFLIGHT: [Key -> owner of the flight, or None]
  call,     \* [Thread -> [Key -> the frame of its get_or_set for the key]]
  source,   \* version of the committed watchlist
  writer,   \* [Writer -> done: steps done; made: the version it committed]
  floor,    \* history: newest version whose writer has cleared a key
  raced,    \* history: that clear met a load in progress
  used      \* calls started, entries lapsed

vars == <<cache, flight, call, source, writer, floor, raced, used>>

----------------------------------------------------------------------------

NoFrame == [pc |-> "none", on |-> None, value |-> 0]
Entered == [pc |-> "enter", on |-> None, value |-> 0]
Made(v) == [pc |-> "store", on |-> None, value |-> v]

Init ==
  /\ cache = {}
  /\ flight = [k \in Key |-> None]
  /\ call = [t \in Thread |-> [k \in Key |-> NoFrame]]
  /\ source = 0
  /\ writer = [w \in Writer |-> [done |-> 0, made |-> 0]]
  /\ floor = [k \in Key |-> 0]
  /\ raced = [k \in Key |-> FALSE]
  /\ used = [calls |-> 0, lapses |-> 0]

Without(k) == {e \in cache : e.key # k}
Hits(k) == {e \in cache : e.key = k /\ e.live}

\* The entries with k as the most recently used one: move_to_end.
With(k, v) ==
  {[e EXCEPT !.age = @ + 1] : e \in Without(k)}
    \cup {[key |-> k, value |-> v, live |-> TRUE, age |-> 0]}

\* Mutation of Stored: nothing is evicted.
StoredAll(k, v) == With(k, v)

\* _store: the least recently used entries go until MaxEntries are left.
Stored(k, v) ==
  LET all == With(k, v)
  IN {e \in all : Cardinality({f \in all : f.age < e.age}) < MaxEntries}

At(t, k, pc) == call[t][k].pc = pc
Move(t, k, pc) == call' = [call EXCEPT ![t][k].pc = pc]

\* The loader frame of t that asked for k.
Asker(t, k) == {j \in Key : Needs[j] = k /\ At(t, j, "inner")}

\* get_or_set returns v: to the loader that asked, if one did.
Returned(t, k, v) ==
  [call EXCEPT ![t] = [j \in Key |->
     IF j = k THEN NoFrame
     ELSE IF j \in Asker(t, k) THEN Made(v)
     ELSE @[j]]]

\* Mutation of Raised: the asker takes the failure for an empty result.
RaisedAsValue(t, k) ==
  [call EXCEPT ![t] = [j \in Key |->
     IF j = k THEN NoFrame
     ELSE IF j \in Asker(t, k) THEN Made(None)
     ELSE @[j]]]

\* The exception reaches the loader that asked, if one did.
Raised(t, k) ==
  [call EXCEPT ![t] = [j \in Key |->
     IF j = k THEN NoFrame
     ELSE IF j \in Asker(t, k) THEN [@[j] EXCEPT !.pc = "raise"]
     ELSE @[j]]]

\* flight.event.set(): those who wait for t's flight on k look it up again.
Woken(frames, t, k) ==
  [u \in Thread |-> [frames[u] EXCEPT ![k] =
     IF @.pc = "wait" /\ @.on = t THEN Entered ELSE @]]

----------------------------------------------------------------------------
(* get_or_set.                                                             *)

history == <<source, writer, floor, raced>>

Start(t, k) ==
  /\ used.calls < MaxCalls
  /\ \A j \in Key : At(t, j, "none")
  /\ call' = [call EXCEPT ![t][k] = Entered]
  /\ used' = [used EXCEPT !.calls = @ + 1]
  /\ UNCHANGED <<cache, flight, history>>

\* _lookup finds a live entry, which becomes the most recently used.
Hit(t, k) ==
  /\ At(t, k, "enter") /\ Hits(k) # {}
  /\ \E e \in Hits(k) :
       /\ cache' = With(k, e.value)
       /\ call' = Returned(t, k, e.value)
  /\ UNCHANGED <<flight, history, used>>

\* Mutation of Lead: a flight in progress is not looked for.
LeadAlways(t, k) ==
  /\ At(t, k, "enter") /\ Hits(k) = {}
  /\ cache' = Without(k)
  /\ flight' = [flight EXCEPT ![k] = t]
  /\ Move(t, k, "load")
  /\ UNCHANGED <<history, used>>

\* A miss (an expired entry is dropped) and no flight: lead one.
Lead(t, k) ==
  /\ At(t, k, "enter") /\ Hits(k) = {} /\ flight[k] = None
  /\ cache' = Without(k)
  /\ flight' = [flight EXCEPT ![k] = t]
  /\ Move(t, k, "load")
  /\ UNCHANGED <<history, used>>

\* A miss while somebody else loads: wait for the event.
Join(t, k) ==
  /\ At(t, k, "enter") /\ Hits(k) = {} /\ flight[k] \notin {None, t}
  /\ cache' = Without(k)
  /\ call' = [call EXCEPT ![t][k] = [pc |-> "wait", on |-> flight[k], value |-> 0]]
  /\ UNCHANGED <<flight, history, used>>

\* The loader of items reads the database, that of a fragment asks for items.
Load(t, k) ==
  /\ At(t, k, "load")
  /\ \/ /\ Needs[k] = None
        /\ call' = [call EXCEPT ![t][k] = Made(source)]
     \/ /\ Needs[k] # None
        /\ call' = [call EXCEPT ![t][k].pc = "inner", ![t][Needs[k]] = Entered]
  /\ UNCHANGED <<cache, flight, history, used>>

\* A database error, or a fragment that cannot be rendered.
LoaderRaises(t, k) ==
  /\ At(t, k, "load") \/ (At(t, k, "store") /\ Needs[k] # None)
  /\ Move(t, k, "raise")
  /\ UNCHANGED <<cache, flight, history, used>>

Store(t, k) ==
  /\ At(t, k, "store")
  /\ cache' = Stored(k, call[t][k].value)
  /\ flight' = [flight EXCEPT ![k] = IF @ = t THEN None ELSE @]
  /\ Move(t, k, "signal")
  /\ UNCHANGED <<history, used>>

Signal(t, k) ==
  /\ At(t, k, "signal")
  /\ call' = Woken(Returned(t, k, call[t][k].value), t, k)
  /\ UNCHANGED <<cache, flight, history, used>>

\* The leader leaves the key open for others.
Abandon(t, k) ==
  /\ At(t, k, "raise")
  /\ flight' = [flight EXCEPT ![k] = IF @ = t THEN None ELSE @]
  /\ Move(t, k, "failed")
  /\ UNCHANGED <<cache, history, used>>

\* Mutation of SignalFailure: the event of a failed flight is never set.
SignalFailureSilent(t, k) ==
  /\ At(t, k, "failed")
  /\ call' = Raised(t, k)
  /\ UNCHANGED <<cache, flight, history, used>>

SignalFailure(t, k) ==
  /\ At(t, k, "failed")
  /\ call' = Woken(Raised(t, k), t, k)
  /\ UNCHANGED <<cache, flight, history, used>>

----------------------------------------------------------------------------
(* Time, and requests that change the watchlist.                           *)

Lapse(k) ==
  /\ used.lapses < MaxLapses /\ Hits(k) # {}
  /\ cache' = {[e EXCEPT !.live = @ /\ e.key # k] : e \in cache}
  /\ used' = [used EXCEPT !.lapses = @ + 1]
  /\ UNCHANGED <<flight, call, history>>

Commit(w) ==
  /\ writer[w].done = 0
  /\ source' = source + 1
  /\ writer' = [writer EXCEPT ![w] = [done |-> 1, made |-> source + 1]]
  /\ UNCHANGED <<cache, flight, call, floor, raced, used>>

\* Mutation of ClearSequence: the fragments are cleared before the items.
ClearSequenceReversed == <<Table, Analysis, Items>>

\* _clear_watchlist_caches.
ClearSequence == <<Items, Analysis, Table>>

\* A load of k that may still store what it read before now.
Loading(k) == \E t \in Thread : call[t][k].pc \in {"inner", "store"}

\* clear_namespace removes the entries, and only those: a flight goes on.
Clear(w) ==
  /\ writer[w].done \in DOMAIN ClearSequence
  /\ LET doomed == ClearSequence[writer[w].done]
     IN /\ cache' = {e \in cache : e.key \notin doomed}
        /\ floor' = [k \in Key |->
             IF k \in doomed /\ writer[w].made > floor[k]
             THEN writer[w].made ELSE floor[k]]
        /\ raced' = [k \in Key |->
             IF k \notin doomed THEN raced[k]
             ELSE Loading(k) \/ (Needs[k] # None /\ raced[Needs[k]])]
  /\ writer' = [writer EXCEPT ![w].done = @ + 1]
  /\ UNCHANGED <<flight, call, source, used>>

----------------------------------------------------------------------------

CallStep(t) == \E k \in Key :
  \/ Hit(t, k) \/ Lead(t, k) \/ Join(t, k) \/ Load(t, k) \/ LoaderRaises(t, k)
  \/ Store(t, k) \/ Signal(t, k) \/ Abandon(t, k) \/ SignalFailure(t, k)

Next ==
  \/ \E t \in Thread : CallStep(t) \/ \E k \in Key : Start(t, k)
  \/ \E w \in Writer : Commit(w) \/ Clear(w)
  \/ \E k \in Key : Lapse(k)

Spec == Init /\ [][Next]_vars

\* Threads are scheduled, and a loader returns or raises.
FairSpec == Spec /\ \A t \in Thread : WF_vars(CallStep(t))

----------------------------------------------------------------------------
(* Properties. *)

EntryRec == [key : Key, value : Nat, live : BOOLEAN, age : Nat]
FrameRec == [pc : {"none", "enter", "wait", "load", "inner", "store", "signal",
                   "raise", "failed"},
             on : Thread \cup {None}, value : Nat]

TypeOK ==
  /\ cache \subseteq EntryRec
  /\ flight \in [Key -> Thread \cup {None}]
  /\ call \in [Thread -> [Key -> FrameRec]]
  /\ source \in Nat
  /\ writer \in [Writer -> [done : 0 .. 4, made : Nat]]
  /\ floor \in [Key -> Nat] /\ raced \in [Key -> BOOLEAN]
  /\ used \in [calls : 0 .. MaxCalls, lapses : 0 .. MaxLapses]

\* "At most max_entries keys are retained", each of them once.
Bounded ==
  /\ Cardinality(cache) <= MaxEntries
  /\ \A e, f \in cache : e.key = f.key => e = f

\* Single flight: two threads are never inside the loader of one key at once,
\* whatever expires, is evicted or cleared in the meantime.
OneLoader ==
  \A t, u \in Thread, k \in Key :
    /\ call[t][k].pc \in {"load", "inner", "store"}
    /\ call[u][k].pc \in {"load", "inner", "store"}
    => t = u

\* After a commit and its clears no entry, items or fragment, shows a watchlist
\* older than that commit, whatever other writers do, unless its loader (or that
\* of its items) was at work during the clear: a flight is not cancelled and
\* stores what it read.
ClearedIsFresh ==
  \A e \in cache : e.value >= floor[e.key] \/ raced[e.key]

\* Every call returns or raises: nobody waits for an event that is never set.
CallsEnd ==
  \A t \in Thread, k \in Key : ~At(t, k, "none") ~> At(t, k, "none")
=============================================================================
