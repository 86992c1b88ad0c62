-------------------------- MODULE PublicationOutbox --------------------------
(***************************************************************************)
(* The decision ledger and the publication outbox of decision_ledger.py,   *)
(* as the request handlers and scheduler threads use them: a publisher     *)
(* freezes a report's decision and its message intents in one transaction  *)
(* and then dispatches the messages in order, one outbox row at a time.    *)
(*                                                                         *)
(* One market and one effective trade date are modelled: the ledger tables *)
(* of different markets never refer to each other.  A delivery key is a    *)
(* digest of decision, channel and message; here it is a model value, and  *)
(* the artifact store, which returns what was written, is left out.        *)
(***************************************************************************)
EXTENDS FiniteSets, Naturals, Sequences

CONSTANTS
  Key,         \* delivery keys
  Decision,    \* decision ids
  Plan,        \* reports that may be published
  DecisionOf,  \* [Plan -> Decision]
  Steps,       \* [Plan -> Seq([key, ordinal])]: message intents in their order
  Publisher,   \* concurrent handlers and threads that publish
  None,        \* no publisher, no decision, no plan
  MaxRuns,     \* bound: publications started
  MaxFaults    \* bound: crashes and database errors of publishers

StepRec == [key : Key, ordinal : Nat]

ASSUME PlanAssumption ==
  /\ DecisionOf \in [Plan -> Decision]
  /\ Steps \in [Plan -> Seq(StepRec)]
\* A message has one place in a report: a key is repeated only when a channel
\* is named twice.
ASSUME OrdinalAssumption ==
  \A pl \in Plan : \A i, j \in DOMAIN Steps[pl] :
    Steps[pl][i].key = Steps[pl][j].key
      => Steps[pl][i].ordinal = Steps[pl][j].ordinal
ASSUME NoneAssumption == None \notin Publisher \cup Decision \cup Plan
ASSUME BoundAssumption == MaxRuns \in Nat /\ MaxFaults \in Nat

VARIABLES
  ledger,  \* the decision rows
  outbox,  \* the publication rows: status, ordinal, attempt_count
  locks,   \* [Key -> who holds the row lock of SELECT ... FOR UPDATE]
  pub,     \* the publishers: what they publish and how far they are
  tx,      \* the inserts of a publisher's open freeze transaction
  calls,   \* provider calls made for a key: history, never read by an action
  used     \* runs started, faults taken, row ids drawn from the sequence

vars == <<ledger, outbox, locks, pub, tx, calls, used>>

----------------------------------------------------------------------------

Status == {"absent", "PENDING", "SENDING", "SENT", "UNKNOWN"}

NoRow   == [status |-> "absent", ordinal |-> 0, attempts |-> 0]
\* seen: the decisions its transaction could read (history).
NoEntry == [id |-> 0, previous |-> None, seen |-> {}]
NoTx    == [fresh |-> {}, draft |-> NoEntry]
Idle    == [pc |-> "idle", plan |-> None, at |-> 0]

Init ==
  /\ ledger = [d \in Decision |-> NoEntry]
  /\ outbox = [k \in Key |-> NoRow]
  /\ locks  = [k \in Key |-> None]
  /\ pub    = [p \in Publisher |-> Idle]
  /\ tx     = [p \in Publisher |-> NoTx]
  /\ calls  = [k \in Key |-> 0]
  /\ used   = [runs |-> 0, faults |-> 0, ids |-> 0]

\* The receipt of a publisher's freeze, and the entry it is dispatching.
Receipt(p) == Steps[pub[p].plan]
Intent(p)  == Receipt(p)[pub[p].at]

\* Commit, rollback and the end of a session drop every row lock.
Released(p) == [k \in Key |-> IF locks[k] = p THEN None ELSE locks[k]]

\* The session ends: also when an exception reaches the caller.
Leave(p) ==
  /\ pub' = [pub EXCEPT ![p] = Idle]
  /\ tx' = [tx EXCEPT ![p] = NoTx]
  /\ locks' = Released(p)

\* The next intent with the locks held so far, or the end of the session.
Continue(p, held) ==
  \/ /\ pub[p].at < Len(Receipt(p))
     /\ pub' = [pub EXCEPT ![p] = [@ EXCEPT !.pc = "select", !.at = pub[p].at + 1]]
     /\ tx' = [tx EXCEPT ![p] = NoTx]
     /\ locks' = held
  \/ pub[p].at >= Len(Receipt(p)) /\ Leave(p)

----------------------------------------------------------------------------
(* freeze_final_decisions within save_ai_daily_report: reads, inserts and   *)
(* one commit.                                                             *)

Committed == {d \in Decision : ledger[d].id # 0}

\* Mutation of Latest: the query forgets to sort in descending order.
LatestOldest(D) ==
  IF D = {} THEN None
  ELSE CHOOSE d \in D : \A e \in D : ledger[d].id <= ledger[e].id

\* order_by(id.desc()).limit(1) over the decisions of this effective date.
Latest(D) ==
  IF D = {} THEN None
  ELSE CHOOSE d \in D : \A e \in D : ledger[e].id <= ledger[d].id

\* Look up the decision and every delivery key; what is absent is inserted.
\* The row id is drawn when the insert is flushed.
FreezeRead(p, pl) ==
  /\ pub[p].pc = "idle" /\ used.runs < MaxRuns
  /\ LET new  == DecisionOf[pl] \notin Committed
         keys == {Steps[pl][i].key : i \in DOMAIN Steps[pl]}
     IN /\ pub' = [pub EXCEPT ![p] = [pc |-> "commit", plan |-> pl, at |-> 0]]
        /\ tx' = [tx EXCEPT ![p] =
             [fresh |-> {k \in keys : outbox[k].status = "absent"},
              draft |-> IF new THEN [id |-> used.ids + 1,
                                     previous |-> Latest(Committed),
                                     seen |-> Committed]
                        ELSE NoEntry]]
        /\ used' = [used EXCEPT !.runs = @ + 1,
                                !.ids = IF new THEN @ + 1 ELSE @]
  /\ UNCHANGED <<ledger, outbox, locks, calls>>

\* Another transaction committed a row with the same unique decision_id or
\* delivery_key in between.
Conflict(p) ==
  \/ tx[p].draft # NoEntry /\ DecisionOf[pub[p].plan] \in Committed
  \/ \E k \in tx[p].fresh : outbox[k].status # "absent"

OrdinalIn(steps, k) ==
  steps[CHOOSE i \in DOMAIN steps : steps[i].key = k].ordinal

\* The receipt carries the new ordinals; rows that existed keep theirs.
FreezeCommit(p) ==
  /\ pub[p].pc = "commit" /\ ~Conflict(p)
  /\ outbox' = [k \in Key |->
       IF k \in tx[p].fresh
       THEN [NoRow EXCEPT !.status = "PENDING", !.ordinal = OrdinalIn(Receipt(p), k)]
       ELSE outbox[k]]
  /\ ledger' = IF tx[p].draft = NoEntry THEN ledger
               ELSE [ledger EXCEPT ![DecisionOf[pub[p].plan]] = tx[p].draft]
  /\ Continue(p, locks)
  /\ UNCHANGED <<calls, used>>

\* The insert fails: save_ai_daily_report rolls back and raises.
FreezeFails(p) ==
  /\ pub[p].pc = "commit" /\ Conflict(p)
  /\ Leave(p)
  /\ UNCHANGED <<ledger, outbox, calls, used>>

----------------------------------------------------------------------------
(* dispatch_publication_message, one intent of the receipt at a time.      *)

\* SELECT ... FOR UPDATE returned: nobody else has the row.
Selects(p) == pub[p].pc = "select" /\ locks[Intent(p).key] \in {None, p}

\* The row exists and is the one the receipt describes.
Matches(p) ==
  /\ outbox[Intent(p).key].status # "absent"
  /\ outbox[Intent(p).key].ordinal = Intent(p).ordinal

\* Mutation of Attempted: only a confirmed delivery counts.
AttemptedConfirmed == {"SENT"}

Attempted == {"SENT", "UNKNOWN", "SENDING"}

\* "publication intent does not match its durable outbox row"
RowMismatch(p) ==
  /\ Selects(p) /\ ~Matches(p)
  /\ Leave(p)
  /\ UNCHANGED <<ledger, outbox, calls, used>>

\* Mutation of Skip: return where the code continues with the next intent.
SkipReturns(p) ==
  /\ Selects(p) /\ Matches(p)
  /\ outbox[Intent(p).key].status \in Attempted
  /\ Leave(p)
  /\ UNCHANGED <<ledger, outbox, calls, used>>

\* Already attempted: go on, in the same transaction, with the row locked.
Skip(p) ==
  /\ Selects(p) /\ Matches(p)
  /\ outbox[Intent(p).key].status \in Attempted
  /\ Continue(p, [locks EXCEPT ![Intent(p).key] = p])
  /\ UNCHANGED <<ledger, outbox, calls, used>>

\* Mutation of Select: the row is read without FOR UPDATE.
SelectUnlocked(p) ==
  /\ pub[p].pc = "select" /\ Matches(p)
  /\ outbox[Intent(p).key].status \notin Attempted
  /\ pub' = [pub EXCEPT ![p].pc = "claim"]
  /\ UNCHANGED <<ledger, outbox, locks, tx, calls, used>>

Select(p) ==
  /\ Selects(p) /\ Matches(p)
  /\ outbox[Intent(p).key].status \notin Attempted
  /\ locks' = [locks EXCEPT ![Intent(p).key] = p]
  /\ pub' = [pub EXCEPT ![p].pc = "claim"]
  /\ UNCHANGED <<ledger, outbox, tx, calls, used>>

\* Mutation of Claim: the status waits for the provider's answer.
ClaimCountsOnly(p) ==
  /\ pub[p].pc = "claim"
  /\ outbox' = [outbox EXCEPT ![Intent(p).key].attempts = @ + 1]
  /\ pub' = [pub EXCEPT ![p].pc = "send"]
  /\ locks' = Released(p)
  /\ UNCHANGED <<ledger, tx, calls, used>>

Claimed(r) == [r EXCEPT !.status = "SENDING", !.attempts = @ + 1]

\* The claim is committed before the provider is called.
Claim(p) ==
  /\ pub[p].pc = "claim"
  /\ outbox' = [outbox EXCEPT ![Intent(p).key] = Claimed(@)]
  /\ pub' = [pub EXCEPT ![p].pc = "send"]
  /\ locks' = Released(p)
  /\ UNCHANGED <<ledger, tx, calls, used>>

\* notifier.send_event for one channel: no transaction is open.
Send(p) ==
  /\ pub[p].pc = "send"
  /\ calls' = [calls EXCEPT ![Intent(p).key] = @ + 1]
  /\ pub' = [pub EXCEPT ![p].pc = "record"]
  /\ UNCHANGED <<ledger, outbox, locks, tx, used>>

\* Mutation of Outcome: an attempt is counted again.
OutcomeRecounts(r, sent) ==
  [r EXCEPT !.status = IF sent THEN "SENT" ELSE "UNKNOWN",
            !.attempts = @ + 1]

\* What record_publication_result makes of a row that is not SENT yet.
Outcome(r, sent) ==
  [r EXCEPT !.status = IF sent THEN "SENT" ELSE "UNKNOWN",
            !.attempts = IF r.status = "SENDING" THEN @ ELSE @ + 1]

\* record_publication_result: its UPDATE waits for the row.  A call that
\* failed or raised proves nothing, hence UNKNOWN.
Record(p, sent) ==
  /\ pub[p].pc = "record"
  /\ LET k == Intent(p).key
     IN /\ locks[k] \in {None, p}
        /\ outbox' = IF outbox[k].status = "SENT" THEN outbox
                     ELSE [outbox EXCEPT ![k] = Outcome(@, sent)]
  /\ Continue(p, Released(p))
  /\ UNCHANGED <<ledger, calls, used>>

----------------------------------------------------------------------------
(* Failures.                                                               *)

\* A database error, or the death of the process, at any point.
Fault(p) ==
  /\ pub[p].pc # "idle" /\ used.faults < MaxFaults
  /\ used' = [used EXCEPT !.faults = @ + 1]
  /\ Leave(p)
  /\ UNCHANGED <<ledger, outbox, calls>>

WaitsFor(p, q) ==
  /\ pub[p].pc \in {"select", "record"}
  /\ p # q /\ locks[Intent(p).key] = q

\* Rows that were skipped stay locked, so publishers that go through the same
\* keys in different orders can wait for each other; PostgreSQL aborts one.
Deadlock(p) ==
  /\ \E P \in SUBSET Publisher :
       /\ p \in P
       /\ \A q \in P : /\ \E r \in P : WaitsFor(q, r)
                       /\ \E r \in P : WaitsFor(r, q)
  /\ Leave(p)
  /\ UNCHANGED <<ledger, outbox, calls, used>>

----------------------------------------------------------------------------

DispatchStep(p) ==
  \/ FreezeCommit(p) \/ FreezeFails(p)
  \/ RowMismatch(p) \/ Skip(p) \/ Select(p) \/ Claim(p) \/ Send(p)
  \/ \E sent \in BOOLEAN : Record(p, sent)
  \/ Deadlock(p)

Next == \E p \in Publisher :
  \/ \E pl \in Plan : FreezeRead(p, pl)
  \/ DispatchStep(p)
  \/ Fault(p)

Spec == Init /\ [][Next]_vars

\* A publisher that started goes on: threads are scheduled, row locks end with
\* a transaction, and a provider call ends with an answer or a timeout.
FairSpec == Spec /\ \A p \in Publisher : WF_vars(DispatchStep(p))

----------------------------------------------------------------------------
(* Properties. *)

EntryRec == [id : Nat, previous : Decision \cup {None}, seen : SUBSET Decision]
RowRec   == [status : Status, ordinal : Nat, attempts : 0 .. 1]
PubRec   == [pc : {"idle", "commit", "select", "claim", "send", "record"},
             plan : Plan \cup {None}, at : Nat]
TxRec    == [fresh : SUBSET Key, draft : EntryRec]
UsedRec  == [runs : 0 .. MaxRuns, faults : 0 .. MaxFaults, ids : Nat]

\* The types; that attempt_count never exceeds one is part of RowRec.
TypeOK ==
  /\ ledger \in [Decision -> EntryRec]
  /\ outbox \in [Key -> RowRec]
  /\ locks \in [Key -> Publisher \cup {None}]
  /\ pub \in [Publisher -> PubRec]
  /\ tx \in [Publisher -> TxRec]
  /\ calls \in [Key -> Nat]
  /\ used \in UsedRec

\* "Send each stock-selection channel once": whatever publishers interleave,
\* crash, repeat or revise, the provider is called at most once for a key.
CalledAtMostOnce == \A k \in Key : calls[k] <= 1

\* The row never lies about the provider: an unclaimed row was never sent, and
\* a row with an outcome was.  Only SENDING leaves it open.
StatusTellsCalls ==
  \A k \in Key :
    /\ outbox[k].status \in {"absent", "PENDING"} => calls[k] = 0
    /\ outbox[k].status \in {"SENT", "UNKNOWN"} => calls[k] = 1

\* A revision supersedes the newest decision before it: two decisions name the
\* same predecessor only when neither could see the other.
ForkOnlyByOverlap ==
  \A d, e \in Committed :
    d # e /\ ledger[d].previous = ledger[e].previous
      => d \notin ledger[e].seen /\ e \notin ledger[d].seen

\* test_sent_delivery_key_is_not_resent, which repeats a receipt: a delivery key
\* that was sent and is frozen again is skipped by the dispatch of the later
\* receipt, wherever the later report has the message.  Skip comes after the
\* comparison of the ordinals, so each sent key ahead must have the row's.
SentKeySkipped ==
  \A p \in Publisher : pub[p].pc = "select" =>
    \A i \in pub[p].at .. Len(Receipt(p)) :
      LET intent == Receipt(p)[i]
      IN outbox[intent.key].status = "SENT"
           => outbox[intent.key].ordinal = intent.ordinal

\* The outbox implements one delivery per key.
StageOf(status) ==
  CASE status = "absent"  -> "none"
    [] status = "PENDING" -> "intended"
    [] status = "SENDING" -> "claimed"
    [] status = "SENT"    -> "confirmed"
    [] status = "UNKNOWN" -> "doubtful"

Once == INSTANCE DeliveryOnce
          WITH stage <- [k \in Key |-> StageOf(outbox[k].status)]

DeliversOnce == Once!Spec

\* Without a fault every intent a publisher has ahead of it gets an outcome, also
\* behind rows that were attempted before: the receipt only has to agree with
\* the durable rows.
EventuallyDispatched ==
  \A k \in Key :
    (\E p \in Publisher :
       /\ pub[p].pc = "select"
       /\ \E i \in pub[p].at .. Len(Receipt(p)) : Receipt(p)[i].key = k
       /\ \A i \in pub[p].at .. Len(Receipt(p)) :
            outbox[Receipt(p)[i].key].ordinal = Receipt(p)[i].ordinal)
      ~> outbox[k].status \in {"SENT", "UNKNOWN"} \/ used.faults > 0
=============================================================================
