----------------------- MODULE PublicationOutboxProofs -----------------------
(***************************************************************************)
(* Proofs about the publication outbox, for any number of publishers, keys *)
(* and plans: a provider is called at most once per delivery key, the row  *)
(* status agrees with the calls, the outbox implements DeliveryOnce, and   *)
(* the chain of decisions forks only where two freezes overlap.            *)
(*                                                                         *)
(* The argument: the row lock held between SELECT ... FOR UPDATE and the   *)
(* commit of the claim makes a PENDING row the business of one publisher,  *)
(* and the committed SENDING keeps it so until the outcome is recorded.    *)
(***************************************************************************)
EXTENDS PublicationOutbox, TLAPS

Row == [status : Status, ordinal : Nat, attempts : Nat]

DataTyped ==
  /\ outbox \in [Key -> Row]
  /\ locks \in [Key -> Publisher \cup {None}]
  /\ pub \in [Publisher -> PubRec]
  /\ calls \in [Key -> Nat]
  /\ DOMAIN tx = Publisher

KeyAt(p) == Intent(p).key

\* A publisher at work is somewhere in the receipt of a plan.
InReceipt ==
  \A p \in Publisher :
    /\ pub[p].pc # "idle" => pub[p].plan \in Plan
    /\ pub[p].pc \in {"select", "claim", "send", "record"}
         => pub[p].at \in 1 .. Len(Receipt(p))

\* What is about to be inserted is named in the receipt.
FreshInReceipt ==
  \A p \in Publisher : pub[p].pc = "commit" =>
    \A k \in tx[p].fresh : \E i \in DOMAIN Receipt(p) : Receipt(p)[i].key = k

\* About to claim: the row is pending and locked.
ClaimReady ==
  \A p \in Publisher : pub[p].pc = "claim"
    => outbox[KeyAt(p)].status = "PENDING" /\ locks[KeyAt(p)] = p

\* About to call, and about to record: the claim stands.
SendReady ==
  \A p \in Publisher : pub[p].pc = "send"
    => outbox[KeyAt(p)].status = "SENDING" /\ calls[KeyAt(p)] = 0
RecordReady ==
  \A p \in Publisher : pub[p].pc = "record"
    => outbox[KeyAt(p)].status = "SENDING" /\ calls[KeyAt(p)] = 1

\* A claim has one owner.
OneOwner ==
  \A p, q \in Publisher :
    p # q /\ pub[p].pc \in {"send", "record"} /\ pub[q].pc \in {"send", "record"}
      => KeyAt(p) # KeyAt(q)

OutboxInv ==
  /\ DataTyped /\ InReceipt /\ FreshInReceipt
  /\ ClaimReady /\ SendReady /\ RecordReady /\ OneOwner
  /\ StatusTellsCalls /\ CalledAtMostOnce

----------------------------------------------------------------------------

\* An intent of a plan names a key.
LEMMA IntentTyped ==
  ASSUME NEW p \in Publisher, pub[p].plan \in Plan,
         pub[p].at \in 1 .. Len(Receipt(p))
  PROVE  KeyAt(p) \in Key
<1>1. Steps[pub[p].plan] \in Seq(StepRec)
  BY PlanAssumption
<1>2. Intent(p) \in StepRec
  BY <1>1 DEF Receipt, Intent
<1> QED
  BY <1>2 DEF StepRec, KeyAt

\* Initially nothing is frozen and nobody is at work.
LEMMA OutboxInit == Init => OutboxInv
<1> SUFFICES ASSUME Init PROVE OutboxInv
  OBVIOUS
<1> USE DEF Init
<1>1. DataTyped
  BY DEF DataTyped, Row, NoRow, Idle, PubRec, Status
<1>2. \A p \in Publisher : pub[p].pc = "idle"
  BY DEF Idle
<1>3. InReceipt /\ FreshInReceipt /\ ClaimReady /\ SendReady /\ RecordReady /\ OneOwner
  BY <1>2 DEF InReceipt, FreshInReceipt, ClaimReady, SendReady, RecordReady, OneOwner
<1>4. StatusTellsCalls /\ CalledAtMostOnce
  BY DEF StatusTellsCalls, CalledAtMostOnce, NoRow
<1> QED
  BY <1>1, <1>3, <1>4 DEF OutboxInv

\* What the invariant says of a publisher's key depends on its own record.
LEMMA KeyAtStable ==
  ASSUME NEW p \in Publisher, pub'[p].plan = pub[p].plan, pub'[p].at = pub[p].at
  PROVE  KeyAt(p)' = KeyAt(p) /\ Receipt(p)' = Receipt(p)
BY DEF KeyAt, Intent, Receipt

\* What p writes is no other publisher's concern.
Spares(p) ==
  /\ outbox' \in [Key -> Row] /\ calls' = calls /\ StatusTellsCalls'
  /\ \A q \in Publisher \ {p} :
       pub[q].pc \in {"claim", "send", "record"}
         => outbox'[KeyAt(q)].status = outbox[KeyAt(q)].status

LEMMA SparesUnchanged ==
  ASSUME OutboxInv, NEW p \in Publisher, UNCHANGED <<outbox, calls>>
  PROVE  Spares(p)
BY DEF Spares, OutboxInv, DataTyped, StatusTellsCalls

\* A publisher that leaves takes its locks with it and disturbs nobody.
LEMMA LeaveKeeps ==
  ASSUME OutboxInv, NEW p \in Publisher, Leave(p), Spares(p)
  PROVE  OutboxInv'
<1> USE DEF OutboxInv
<1>1. /\ pub'[p] = Idle
      /\ \A q \in Publisher : q # p => pub'[q] = pub[q]
  BY DEF Leave, DataTyped
<1>2. DataTyped'
  BY DEF Leave, DataTyped, Released, PubRec, Idle, Spares
<1>3. \A q \in Publisher : q # p => KeyAt(q)' = KeyAt(q) /\ Receipt(q)' = Receipt(q)
  BY <1>1, KeyAtStable
<1>4. InReceipt' /\ FreshInReceipt'
  <2>1. \A q \in Publisher : q # p => tx'[q] = tx[q]
    BY DEF Leave, DataTyped
  <2> QED
    BY <1>1, <1>3, <2>1 DEF InReceipt, FreshInReceipt, Idle
<1>5. ClaimReady'
  <2> SUFFICES ASSUME NEW q \in Publisher, pub'[q].pc = "claim"
               PROVE  outbox'[KeyAt(q)'].status = "PENDING" /\ locks'[KeyAt(q)'] = q
    BY DEF ClaimReady
  <2>1. q # p
    BY <1>1 DEF Idle
  <2>2. outbox[KeyAt(q)].status = "PENDING" /\ locks[KeyAt(q)] = q
    BY <1>1, <2>1 DEF ClaimReady
  <2>3. KeyAt(q) \in Key
    BY <1>1, <2>1, IntentTyped DEF InReceipt
  <2> QED
    BY <1>1, <1>3, <2>1, <2>2, <2>3 DEF Leave, Released, Spares
<1>6. SendReady' /\ RecordReady' /\ OneOwner'
  BY <1>1, <1>3 DEF SendReady, RecordReady, OneOwner, Idle, Spares
<1>7. StatusTellsCalls' /\ CalledAtMostOnce'
  BY DEF Spares, CalledAtMostOnce
<1> QED
  BY <1>2, <1>4, <1>5, <1>6, <1>7

LEMMA NextIntentTyped ==
  ASSUME NEW r \in PubRec
  PROVE  [r EXCEPT !.pc = "select", !.at = r.at + 1] \in PubRec
<1> DEFINE next == r.at + 1
<1>1. next \in Nat
  BY DEF PubRec
<1> HIDE DEF next
<1>2. [r EXCEPT !.pc = "select", !.at = next] \in PubRec
  BY <1>1 DEF PubRec
<1> QED
  BY <1>2 DEF next

\* Nor does one that goes on to the next intent, when it has claimed nothing.
LEMMA AdvanceKeeps ==
  ASSUME OutboxInv, NEW p \in Publisher,
         pub[p].pc # "idle", pub[p].at < Len(Receipt(p)),
         pub' = [pub EXCEPT ![p] = [@ EXCEPT !.pc = "select", !.at = pub[p].at + 1]],
         tx' = [tx EXCEPT ![p] = NoTx],
         locks' \in [Key -> Publisher \cup {None}],
         \A k \in Key : \A q \in Publisher \ {p} : locks[k] = q => locks'[k] = q,
         Spares(p)
  PROVE  OutboxInv'
<1> USE DEF OutboxInv
<1>1. /\ pub'[p].pc = "select" /\ pub'[p].at = pub[p].at + 1
      /\ pub'[p].plan = pub[p].plan
      /\ \A q \in Publisher : q # p => pub'[q] = pub[q]
  BY DEF DataTyped, PubRec
<1>2. DataTyped'
  <2>1. [pub[p] EXCEPT !.pc = "select", !.at = pub[p].at + 1] \in PubRec
    BY NextIntentTyped DEF DataTyped
  <2> QED
    BY <2>1 DEF DataTyped, Spares
<1>3. \A q \in Publisher : q # p => KeyAt(q)' = KeyAt(q) /\ Receipt(q)' = Receipt(q)
  BY <1>1, KeyAtStable
<1>4. Receipt(p)' = Receipt(p)
  BY <1>1 DEF Receipt
<1>5. pub[p].plan \in Plan
  BY DEF InReceipt
<1>6. Len(Receipt(p)) \in Nat
  BY <1>5, PlanAssumption DEF Receipt
<1>7. pub'[p].at \in 1 .. Len(Receipt(p))
  BY <1>1, <1>6 DEF DataTyped, PubRec
<1>8. InReceipt' /\ FreshInReceipt'
  <2>1. \A q \in Publisher : q # p => tx'[q] = tx[q]
    BY DEF DataTyped
  <2> QED
    BY <1>1, <1>3, <1>4, <1>5, <1>7, <2>1 DEF InReceipt, FreshInReceipt
<1>9. ClaimReady'
  <2> SUFFICES ASSUME NEW q \in Publisher, pub'[q].pc = "claim"
               PROVE  outbox'[KeyAt(q)'].status = "PENDING" /\ locks'[KeyAt(q)'] = q
    BY DEF ClaimReady
  <2>1. q # p
    BY <1>1
  <2>2. outbox[KeyAt(q)].status = "PENDING" /\ locks[KeyAt(q)] = q
    BY <1>1, <2>1 DEF ClaimReady
  <2>3. KeyAt(q) \in Key
    BY <1>1, <2>1, IntentTyped DEF InReceipt
  <2> QED
    BY <1>1, <1>3, <2>1, <2>2, <2>3 DEF Spares
<1>10. SendReady' /\ RecordReady' /\ OneOwner'
  BY <1>1, <1>3 DEF SendReady, RecordReady, OneOwner, Spares
<1>11. StatusTellsCalls' /\ CalledAtMostOnce'
  BY DEF Spares, CalledAtMostOnce
<1> QED
  BY <1>2, <1>8, <1>9, <1>10, <1>11

\* Releasing one's own locks keeps those of the others.
LEMMA ReleasedOthers ==
  ASSUME DataTyped, NEW p \in Publisher
  PROVE  /\ Released(p) \in [Key -> Publisher \cup {None}]
         /\ \A k \in Key : \A q \in Publisher \ {p} :
              locks[k] = q => Released(p)[k] = q
BY DEF DataTyped, Released

\* Where a publisher at work is, its key is one of the modelled keys.
LEMMA KeyAtTyped ==
  ASSUME InReceipt, NEW p \in Publisher,
         pub[p].pc \in {"select", "claim", "send", "record"}
  PROVE  KeyAt(p) \in Key /\ Intent(p).key = KeyAt(p)
BY IntentTyped DEF InReceipt, KeyAt

\* When p only changes its pc, every key stays where it is.
LEMMA KeysStay ==
  ASSUME DataTyped, NEW p \in Publisher, NEW pc,
         pub' = [pub EXCEPT ![p].pc = pc]
  PROVE  /\ \A q \in Publisher : KeyAt(q)' = KeyAt(q) /\ Receipt(q)' = Receipt(q)
         /\ \A q \in Publisher : pub'[q].plan = pub[q].plan /\ pub'[q].at = pub[q].at
         /\ \A q \in Publisher : pub'[q].pc = IF q = p THEN pc ELSE pub[q].pc
<1>1. \A q \in Publisher : pub'[q].plan = pub[q].plan /\ pub'[q].at = pub[q].at
  BY DEF DataTyped, PubRec
<1>2. \A q \in Publisher : pub'[q].pc = IF q = p THEN pc ELSE pub[q].pc
  BY DEF DataTyped, PubRec
<1> QED
  BY <1>1, <1>2, KeyAtStable

LEMMA FreezeReadKeeps ==
  ASSUME OutboxInv, NEW p \in Publisher, NEW pl \in Plan, FreezeRead(p, pl)
  PROVE  OutboxInv'
<1> USE DEF OutboxInv
<1>1. pub' = [pub EXCEPT ![p] = [pc |-> "commit", plan |-> pl, at |-> 0]]
  BY DEF FreezeRead
<1>2. UNCHANGED <<outbox, locks, calls>>
  BY DEF FreezeRead
<1>3. /\ pub'[p] = [pc |-> "commit", plan |-> pl, at |-> 0]
      /\ \A q \in Publisher : q # p => pub'[q] = pub[q]
  BY <1>1 DEF DataTyped
<1>4. \A q \in Publisher : q # p => KeyAt(q)' = KeyAt(q) /\ Receipt(q)' = Receipt(q)
  BY <1>3, KeyAtStable
<1>5. DataTyped'
  BY <1>1, <1>2 DEF DataTyped, PubRec, FreezeRead
<1>6. InReceipt' /\ FreshInReceipt'
  <2>1. \A q \in Publisher : q # p => tx'[q] = tx[q]
    BY DEF FreezeRead, DataTyped
  <2>2. \A k \in tx'[p].fresh : \E i \in DOMAIN Steps[pl] : Steps[pl][i].key = k
    BY DEF FreezeRead, DataTyped
  <2>3. Receipt(p)' = Steps[pl]
    BY <1>3 DEF Receipt
  <2> QED
    BY <1>3, <1>4, <2>1, <2>2, <2>3 DEF InReceipt, FreshInReceipt
<1>7. ClaimReady' /\ SendReady' /\ RecordReady' /\ OneOwner'
  BY <1>2, <1>3, <1>4 DEF ClaimReady, SendReady, RecordReady, OneOwner
<1>8. StatusTellsCalls' /\ CalledAtMostOnce'
  BY <1>2 DEF StatusTellsCalls, CalledAtMostOnce
<1> QED
  BY <1>5, <1>6, <1>7, <1>8

\* The inserts concern rows that nobody else works on: they were absent.
LEMMA FreezeCommitKeeps ==
  ASSUME OutboxInv, NEW p \in Publisher, FreezeCommit(p)
  PROVE  OutboxInv'
<1> USE DEF OutboxInv
<1>1. \A k \in Key : \/ outbox'[k] = outbox[k]
                     \/ outbox[k].status = "absent" /\ outbox'[k].status = "PENDING"
  BY DEF FreezeCommit, Conflict, NoRow
<1>2. outbox' \in [Key -> Row]
  <2>1. Receipt(p) \in Seq(StepRec)
    BY PlanAssumption DEF FreezeCommit, InReceipt, Receipt
  <2>2. ASSUME NEW k \in tx[p].fresh
        PROVE  OrdinalIn(Receipt(p), k) \in Nat
    <3>1. \E i \in DOMAIN Receipt(p) : Receipt(p)[i].key = k
      BY DEF FreezeCommit, FreshInReceipt
    <3>2. (CHOOSE i \in DOMAIN Receipt(p) : Receipt(p)[i].key = k) \in DOMAIN Receipt(p)
      BY <3>1
    <3>3. \A i \in DOMAIN Receipt(p) : Receipt(p)[i] \in StepRec
      BY <2>1
    <3> QED
      BY <3>2, <3>3 DEF OrdinalIn, StepRec
  <2> QED
    BY <2>2 DEF FreezeCommit, DataTyped, Row, NoRow, Status
<1>3. Spares(p)
  <2>1. StatusTellsCalls'
    BY <1>1 DEF FreezeCommit, StatusTellsCalls
  <2>2. ASSUME NEW q \in Publisher \ {p}, pub[q].pc \in {"claim", "send", "record"}
        PROVE  outbox'[KeyAt(q)].status = outbox[KeyAt(q)].status
    <3>1. outbox[KeyAt(q)].status # "absent"
      BY <2>2 DEF ClaimReady, SendReady, RecordReady
    <3> QED
      BY <1>1, <2>2, <3>1, KeyAtTyped
  <2> QED
    BY <1>2, <2>1, <2>2 DEF Spares, FreezeCommit
<1>4. CASE pub[p].at < Len(Receipt(p)) /\ ~Leave(p)
  BY <1>3, <1>4, AdvanceKeeps DEF FreezeCommit, Continue, DataTyped
<1>5. CASE Leave(p)
  BY <1>3, <1>5, LeaveKeeps
<1> QED
  BY <1>4, <1>5 DEF FreezeCommit, Continue

LEMMA SkipKeeps ==
  ASSUME OutboxInv, NEW p \in Publisher, Skip(p)
  PROVE  OutboxInv'
<1> USE DEF OutboxInv
<1>1. Spares(p)
  BY SparesUnchanged DEF Skip
<1>2. KeyAt(p) \in Key
  BY KeyAtTyped DEF Skip, Selects
<1>3. ASSUME locks' = [locks EXCEPT ![Intent(p).key] = p]
      PROVE  /\ locks' \in [Key -> Publisher \cup {None}]
             /\ \A k \in Key : \A q \in Publisher \ {p} : locks[k] = q => locks'[k] = q
  <2>1. locks[KeyAt(p)] \in {None, p}
    BY DEF Skip, Selects, KeyAt
  <2>2. None \notin Publisher
    BY NoneAssumption
  <2> QED
    BY <1>2, <1>3, <2>1, <2>2 DEF DataTyped, KeyAt
<1>4. CASE pub[p].at < Len(Receipt(p)) /\ ~Leave(p)
  BY <1>1, <1>3, <1>4, AdvanceKeeps DEF Skip, Selects, Continue
<1>5. CASE Leave(p)
  BY <1>1, <1>5, LeaveKeeps
<1> QED
  BY <1>4, <1>5 DEF Skip, Continue

\* A pending row that was free belongs to the publisher that selected it.
LEMMA SelectKeeps ==
  ASSUME OutboxInv, NEW p \in Publisher, Select(p)
  PROVE  OutboxInv'
<1> USE DEF OutboxInv
<1>1. UNCHANGED <<outbox, tx, calls>>
  BY DEF Select
<1>2. KeyAt(p) \in Key /\ locks[KeyAt(p)] \in {None, p}
  BY KeyAtTyped DEF Select, Selects
<1>3. locks' = [locks EXCEPT ![KeyAt(p)] = p]
  BY DEF Select, KeyAt
<1>4. pub' = [pub EXCEPT ![p].pc = "claim"]
  BY DEF Select
<1>5. /\ \A q \in Publisher : KeyAt(q)' = KeyAt(q) /\ Receipt(q)' = Receipt(q)
      /\ \A q \in Publisher : pub'[q].plan = pub[q].plan /\ pub'[q].at = pub[q].at
      /\ \A q \in Publisher : pub'[q].pc = IF q = p THEN "claim" ELSE pub[q].pc
  BY <1>4, KeysStay
<1>6. DataTyped'
  BY <1>1, <1>2, <1>3, <1>4 DEF DataTyped, PubRec
<1>7. pub[p].pc = "select"
  BY DEF Select, Selects
<1>8. InReceipt' /\ FreshInReceipt'
  BY <1>1, <1>5, <1>7 DEF InReceipt, FreshInReceipt
<1>9. ClaimReady'
  <2>1. outbox[KeyAt(p)].status = "PENDING"
    BY <1>2 DEF Select, Matches, Attempted, KeyAt, DataTyped, Row, Status
  <2>2. ASSUME NEW q \in Publisher \ {p}, pub[q].pc = "claim"
        PROVE  outbox[KeyAt(q)].status = "PENDING" /\ locks'[KeyAt(q)] = q
    <3>1. outbox[KeyAt(q)].status = "PENDING" /\ locks[KeyAt(q)] = q
      BY <2>2 DEF ClaimReady
    <3>2. KeyAt(q) \in Key
      BY <2>2, KeyAtTyped
    <3>3. KeyAt(q) # KeyAt(p)
      BY <1>2, <3>1, NoneAssumption
    <3> QED
      BY <1>3, <3>1, <3>2, <3>3 DEF DataTyped
  <2>3. locks'[KeyAt(p)] = p
    BY <1>2, <1>3 DEF DataTyped
  <2> QED
    BY <1>1, <1>5, <2>1, <2>2, <2>3 DEF ClaimReady
<1>10. SendReady' /\ RecordReady' /\ OneOwner'
  BY <1>1, <1>5 DEF SendReady, RecordReady, OneOwner
<1>11. StatusTellsCalls' /\ CalledAtMostOnce'
  BY <1>1 DEF StatusTellsCalls, CalledAtMostOnce
<1> QED
  BY <1>6, <1>8, <1>9, <1>10, <1>11

LEMMA ClaimedTyped ==
  ASSUME NEW r \in Row
  PROVE  Claimed(r) \in Row /\ Claimed(r).status = "SENDING"
<1> DEFINE more == r.attempts + 1
<1>1. more \in Nat
  BY DEF Row
<1> HIDE DEF more
<1>2. [r EXCEPT !.status = "SENDING", !.attempts = more] \in Row
  BY <1>1 DEF Row, Status
<1>3. [r EXCEPT !.status = "SENDING", !.attempts = more].status = "SENDING"
  BY DEF Row
<1> QED
  BY <1>2, <1>3 DEF more, Claimed

\* The claim takes the row out of everyone else's reach.
LEMMA ClaimKeeps ==
  ASSUME OutboxInv, NEW p \in Publisher, Claim(p)
  PROVE  OutboxInv'
<1> USE DEF OutboxInv
<1>1. UNCHANGED <<tx, calls>>
  BY DEF Claim
<1>2. KeyAt(p) \in Key /\ pub[p].pc = "claim"
  BY KeyAtTyped DEF Claim
<1>3. outbox' = [outbox EXCEPT ![KeyAt(p)] = Claimed(@)]
  BY DEF Claim, KeyAt
<1>4. pub' = [pub EXCEPT ![p].pc = "send"]
  BY DEF Claim
<1>5. /\ \A q \in Publisher : KeyAt(q)' = KeyAt(q) /\ Receipt(q)' = Receipt(q)
      /\ \A q \in Publisher : pub'[q].plan = pub[q].plan /\ pub'[q].at = pub[q].at
      /\ \A q \in Publisher : pub'[q].pc = IF q = p THEN "send" ELSE pub[q].pc
  BY <1>4, KeysStay
<1>6. outbox[KeyAt(p)].status = "PENDING" /\ locks[KeyAt(p)] = p
  BY <1>2 DEF ClaimReady
<1>7. /\ Claimed(outbox[KeyAt(p)]) \in Row
      /\ Claimed(outbox[KeyAt(p)]).status = "SENDING"
  BY <1>2, ClaimedTyped DEF DataTyped
<1>8. /\ outbox'[KeyAt(p)].status = "SENDING"
      /\ \A k \in Key : k # KeyAt(p) => outbox'[k] = outbox[k]
  BY <1>2, <1>3, <1>7 DEF DataTyped
<1>9. /\ locks' \in [Key -> Publisher \cup {None}]
      /\ \A k \in Key : \A q \in Publisher \ {p} : locks[k] = q => locks'[k] = q
  BY ReleasedOthers DEF Claim
<1>10. DataTyped'
  <2>1. pub' \in [Publisher -> PubRec]
    BY <1>4 DEF DataTyped, PubRec
  <2>2. outbox' \in [Key -> Row]
    BY <1>2, <1>3, <1>7 DEF DataTyped
  <2> QED
    BY <1>1, <1>9, <2>1, <2>2 DEF DataTyped
<1>11. InReceipt' /\ FreshInReceipt'
  BY <1>1, <1>2, <1>5 DEF InReceipt, FreshInReceipt
<1>12. ASSUME NEW q \in Publisher \ {p}, pub[q].pc \in {"claim", "send", "record"}
       PROVE  KeyAt(q) \in Key /\ KeyAt(q) # KeyAt(p)
  <2>1. KeyAt(q) \in Key
    BY <1>12, KeyAtTyped
  <2>2. CASE pub[q].pc = "claim"
    BY <1>6, <2>1, <2>2 DEF ClaimReady
  <2>3. CASE pub[q].pc \in {"send", "record"}
    BY <1>6, <2>1, <2>3 DEF SendReady, RecordReady
  <2> QED
    BY <1>12, <2>1, <2>2, <2>3
<1>13. ClaimReady'
  BY <1>5, <1>8, <1>9, <1>12 DEF ClaimReady
<1>14. calls[KeyAt(p)] = 0
  BY <1>2, <1>6 DEF StatusTellsCalls
<1>15. SendReady' /\ RecordReady'
  BY <1>1, <1>5, <1>8, <1>12, <1>14 DEF SendReady, RecordReady
<1>16. OneOwner'
  BY <1>5, <1>12 DEF OneOwner
<1>17. StatusTellsCalls' /\ CalledAtMostOnce'
  BY <1>1, <1>8 DEF StatusTellsCalls, CalledAtMostOnce
<1> QED
  BY <1>10, <1>11, <1>13, <1>15, <1>16, <1>17

\* The provider is called for a claim nobody has acted on yet.
LEMMA SendKeeps ==
  ASSUME OutboxInv, NEW p \in Publisher, Send(p)
  PROVE  OutboxInv'
<1> USE DEF OutboxInv
<1>1. UNCHANGED <<outbox, locks, tx>>
  BY DEF Send
<1>2. KeyAt(p) \in Key /\ pub[p].pc = "send"
  BY KeyAtTyped DEF Send
<1>3. pub' = [pub EXCEPT ![p].pc = "record"]
  BY DEF Send
<1>4. /\ \A q \in Publisher : KeyAt(q)' = KeyAt(q) /\ Receipt(q)' = Receipt(q)
      /\ \A q \in Publisher : pub'[q].plan = pub[q].plan /\ pub'[q].at = pub[q].at
      /\ \A q \in Publisher : pub'[q].pc = IF q = p THEN "record" ELSE pub[q].pc
  BY <1>3, KeysStay
<1>5. outbox[KeyAt(p)].status = "SENDING" /\ calls[KeyAt(p)] = 0
  BY <1>2 DEF SendReady
<1>6. calls' = [calls EXCEPT ![KeyAt(p)] = @ + 1]
  BY DEF Send, KeyAt
<1>7. /\ calls'[KeyAt(p)] = 1
      /\ \A k \in Key : k # KeyAt(p) => calls'[k] = calls[k]
  BY <1>2, <1>5, <1>6 DEF DataTyped
<1>8. DataTyped'
  BY <1>1, <1>2, <1>3, <1>6 DEF DataTyped, PubRec
<1>9. InReceipt' /\ FreshInReceipt'
  BY <1>1, <1>2, <1>4 DEF InReceipt, FreshInReceipt
<1>10. ClaimReady'
  BY <1>1, <1>4 DEF ClaimReady
<1>11. SendReady' /\ RecordReady' /\ OneOwner'
  <2>1. ASSUME NEW q \in Publisher \ {p}, pub[q].pc \in {"send", "record"}
        PROVE  KeyAt(q) \in Key /\ KeyAt(q) # KeyAt(p)
    BY <1>2, <2>1, KeyAtTyped DEF OneOwner
  <2> QED
    BY <1>1, <1>2, <1>4, <1>5, <1>7, <2>1 DEF SendReady, RecordReady, OneOwner
<1>12. StatusTellsCalls' /\ CalledAtMostOnce'
  BY <1>1, <1>2, <1>5, <1>7 DEF StatusTellsCalls, CalledAtMostOnce
<1> QED
  BY <1>8, <1>9, <1>10, <1>11, <1>12

\* The outcome is written on one's own claim.
LEMMA RecordKeeps ==
  ASSUME OutboxInv, NEW p \in Publisher, NEW sent \in BOOLEAN, Record(p, sent)
  PROVE  OutboxInv'
<1> USE DEF OutboxInv
<1>1. KeyAt(p) \in Key /\ pub[p].pc = "record"
  BY KeyAtTyped DEF Record
<1>2. outbox[KeyAt(p)].status = "SENDING" /\ calls[KeyAt(p)] = 1
  BY <1>1 DEF RecordReady
<1>3. outbox' = [outbox EXCEPT ![KeyAt(p)] = Outcome(@, sent)]
  BY <1>2 DEF Record, KeyAt
<1>4. /\ Outcome(outbox[KeyAt(p)], sent) \in Row
      /\ Outcome(outbox[KeyAt(p)], sent).status \in {"SENT", "UNKNOWN"}
  BY <1>1, <1>2 DEF DataTyped, Row, Outcome, Status
<1>5. /\ outbox'[KeyAt(p)].status \in {"SENT", "UNKNOWN"}
      /\ \A k \in Key : k # KeyAt(p) => outbox'[k] = outbox[k]
  BY <1>1, <1>3, <1>4 DEF DataTyped
<1>6. Spares(p)
  <2>1. outbox' \in [Key -> Row] /\ calls' = calls
    BY <1>1, <1>3, <1>4 DEF DataTyped, Record
  <2>2. StatusTellsCalls'
    BY <1>2, <1>5, <2>1 DEF StatusTellsCalls
  <2>3. ASSUME NEW q \in Publisher \ {p}, pub[q].pc \in {"claim", "send", "record"}
        PROVE  outbox'[KeyAt(q)].status = outbox[KeyAt(q)].status
    <3>1. KeyAt(q) \in Key
      BY <2>3, KeyAtTyped
    <3>2. CASE pub[q].pc = "claim"
      BY <1>2, <1>5, <3>1, <3>2 DEF ClaimReady
    <3>3. CASE pub[q].pc \in {"send", "record"}
      BY <1>1, <1>5, <3>1, <3>3 DEF OneOwner
    <3> QED
      BY <2>3, <3>2, <3>3
  <2> QED
    BY <2>1, <2>2, <2>3 DEF Spares
<1>7. CASE pub[p].at < Len(Receipt(p)) /\ ~Leave(p)
  <2>1. locks' = Released(p)
    BY <1>7 DEF Record, Continue
  <2> QED
    BY <1>1, <1>6, <1>7, <2>1, ReleasedOthers, AdvanceKeeps DEF Record, Continue
<1>8. CASE Leave(p)
  BY <1>6, <1>8, LeaveKeeps
<1> QED
  BY <1>7, <1>8 DEF Record, Continue

----------------------------------------------------------------------------

\* The invariant is kept by every step.
LEMMA OutboxStep == OutboxInv /\ [Next]_vars => OutboxInv'
<1> SUFFICES ASSUME OutboxInv, [Next]_vars PROVE OutboxInv'
  OBVIOUS
<1>1. CASE UNCHANGED vars
  BY <1>1 DEF vars, OutboxInv, DataTyped, InReceipt, FreshInReceipt, ClaimReady,
     SendReady, RecordReady, OneOwner, StatusTellsCalls, CalledAtMostOnce,
     KeyAt, Intent, Receipt
<1>2. ASSUME NEW p \in Publisher,
             FreezeFails(p) \/ RowMismatch(p) \/ Fault(p) \/ Deadlock(p)
      PROVE  OutboxInv'
  <2>1. Leave(p) /\ UNCHANGED <<outbox, calls>>
    BY <1>2 DEF FreezeFails, RowMismatch, Fault, Deadlock
  <2> QED
    BY <2>1, LeaveKeeps, SparesUnchanged
<1>3. ASSUME NEW p \in Publisher, NEW pl \in Plan, FreezeRead(p, pl)
      PROVE  OutboxInv'
  BY <1>3, FreezeReadKeeps
<1>4. ASSUME NEW p \in Publisher, FreezeCommit(p)
      PROVE  OutboxInv'
  BY <1>4, FreezeCommitKeeps
<1>5. ASSUME NEW p \in Publisher, Skip(p)
      PROVE  OutboxInv'
  BY <1>5, SkipKeeps
<1>6. ASSUME NEW p \in Publisher, Select(p)
      PROVE  OutboxInv'
  BY <1>6, SelectKeeps
<1>7. ASSUME NEW p \in Publisher, Claim(p)
      PROVE  OutboxInv'
  BY <1>7, ClaimKeeps
<1>8. ASSUME NEW p \in Publisher, Send(p)
      PROVE  OutboxInv'
  BY <1>8, SendKeeps
<1>9. ASSUME NEW p \in Publisher, NEW sent \in BOOLEAN, Record(p, sent)
      PROVE  OutboxInv'
  BY <1>9, RecordKeeps
<1> QED
  BY <1>1, <1>2, <1>3, <1>4, <1>5, <1>6, <1>7, <1>8, <1>9 DEF Next, DispatchStep

LEMMA OutboxInvariant == Spec => []OutboxInv
BY OutboxInit, OutboxStep, PTL DEF Spec

\* dispatch_publication_message calls the provider at most once for a delivery
\* key, for any publishers, plans, crashes and retries.
THEOREM ProviderCalledAtMostOnce == Spec => []CalledAtMostOnce
<1>1. OutboxInv => CalledAtMostOnce
  BY DEF OutboxInv
<1> QED
  BY <1>1, OutboxInvariant, PTL

\* A row whose status is unclaimed was never sent, and one with an outcome was:
\* the claim is committed before the call and the outcome after it.
THEOREM StatusNeverLies == Spec => []StatusTellsCalls
<1>1. OutboxInv => StatusTellsCalls
  BY DEF OutboxInv
<1> QED
  BY <1>1, OutboxInvariant, PTL

----------------------------------------------------------------------------
(* The outbox implements DeliveryOnce.                                     *)

Stages == [k \in Key |-> StageOf(outbox[k].status)]

LEMMA InitRefines == Init => Once!Init
BY DEF Init, Once!Init, StageOf, NoRow

\* A change of one row's status is a move of one stage.
LEMMA OneMove ==
  ASSUME DataTyped, NEW k \in Key, NEW from, NEW to,
         StageOf(outbox[k].status) = from, StageOf(outbox'[k].status) = to,
         \A e \in Key : e # k => outbox'[e].status = outbox[e].status
  PROVE  Once!Move(k, from, to)
<1>1. Stages' = [Stages EXCEPT ![k] = to]
  BY DEF Stages
<1> QED
  BY <1>1 DEF Once!Move, Stages

\* An action that leaves statuses and calls alone is a stutter.
LEMMA NoMove ==
  ASSUME UNCHANGED calls, \A k \in Key : outbox'[k].status = outbox[k].status
  PROVE  UNCHANGED <<Stages, calls>>
BY DEF Stages

LEMMA StepRefines ==
  ASSUME OutboxInv, [Next]_vars
  PROVE  [Once!Next]_<<Stages, calls>>
<1> USE DEF OutboxInv
<1>1. CASE UNCHANGED vars
  BY <1>1 DEF vars, Stages
<1>2. ASSUME NEW p \in Publisher,
             \/ FreezeFails(p) \/ RowMismatch(p) \/ Fault(p) \/ Deadlock(p)
             \/ Skip(p) \/ Select(p) \/ \E pl \in Plan : FreezeRead(p, pl)
      PROVE  UNCHANGED <<Stages, calls>>
  <2>1. UNCHANGED <<outbox, calls>>
    BY <1>2 DEF FreezeFails, RowMismatch, Fault, Deadlock, Skip, Select, FreezeRead
  <2> QED
    BY <2>1, NoMove
<1>3. ASSUME NEW p \in Publisher, FreezeCommit(p)
      PROVE  Once!Next
  <2> DEFINE K == Key \cap tx[p].fresh
  <2>1. \A k \in K : outbox[k].status = "absent" /\ outbox'[k].status = "PENDING"
    BY <1>3 DEF FreezeCommit, Conflict, NoRow
  <2>2. \A k \in Key \ K : outbox'[k] = outbox[k]
    BY <1>3 DEF FreezeCommit
  <2>3. Stages' = [k \in Key |-> IF k \in K THEN "intended" ELSE Stages[k]]
    <3>1. \A k \in K : StageOf(outbox'[k].status) = "intended"
      BY <2>1 DEF StageOf
    <3> HIDE DEF K
    <3> QED
      BY <2>2, <3>1 DEF Stages
  <2>4. \A k \in K : Stages[k] = "none"
    BY <2>1 DEF Stages, StageOf
  <2>5. Once!Intend(K)
    BY <1>3, <2>3, <2>4 DEF Once!Intend, Stages, FreezeCommit
  <2> QED
    BY <2>5 DEF Once!Next
<1>4. ASSUME NEW p \in Publisher, Claim(p)
      PROVE  Once!Next
  <2>1. KeyAt(p) \in Key /\ outbox[KeyAt(p)].status = "PENDING"
    BY <1>4, KeyAtTyped DEF Claim, ClaimReady
  <2>2. /\ outbox'[KeyAt(p)].status = "SENDING"
        /\ \A e \in Key : e # KeyAt(p) => outbox'[e].status = outbox[e].status
    BY <1>4, <2>1, ClaimedTyped DEF Claim, DataTyped, KeyAt
  <2>3. Once!Move(KeyAt(p), "intended", "claimed")
    BY <2>1, <2>2, OneMove DEF StageOf
  <2> QED
    BY <1>4, <2>1, <2>3 DEF Once!Next, Once!Claim, Claim
<1>5. ASSUME NEW p \in Publisher, Send(p)
      PROVE  Once!Next
  <2>1. /\ KeyAt(p) \in Key /\ calls[KeyAt(p)] = 0
        /\ Stages[KeyAt(p)] = "claimed"
    BY <1>5, KeyAtTyped DEF Send, SendReady, Stages, StageOf
  <2>2. calls' = [calls EXCEPT ![KeyAt(p)] = 1] /\ UNCHANGED Stages
    BY <1>5, <2>1 DEF Send, Stages, KeyAt
  <2> QED
    BY <2>1, <2>2 DEF Once!Next, Once!Call, Stages
<1>6. ASSUME NEW p \in Publisher, NEW sent \in BOOLEAN, Record(p, sent)
      PROVE  Once!Next
  <2>1. /\ KeyAt(p) \in Key /\ calls[KeyAt(p)] = 1
        /\ outbox[KeyAt(p)].status = "SENDING"
    BY <1>6, KeyAtTyped DEF Record, RecordReady
  <2>2. outbox' = [outbox EXCEPT ![KeyAt(p)] = Outcome(@, sent)]
    BY <1>6, <2>1 DEF Record, KeyAt
  <2>3. Outcome(outbox[KeyAt(p)], sent).status = IF sent THEN "SENT" ELSE "UNKNOWN"
    BY <2>1 DEF Outcome, DataTyped, Row
  <2>4. /\ outbox'[KeyAt(p)].status = IF sent THEN "SENT" ELSE "UNKNOWN"
        /\ \A e \in Key : e # KeyAt(p) => outbox'[e].status = outbox[e].status
    BY <2>1, <2>2, <2>3 DEF DataTyped
  <2>5. \/ Once!Move(KeyAt(p), "claimed", "confirmed")
        \/ Once!Move(KeyAt(p), "claimed", "doubtful")
    BY <2>1, <2>4, OneMove DEF StageOf
  <2> QED
    BY <1>6, <2>1, <2>5 DEF Once!Next, Once!Resolve, Record
<1> QED
  BY <1>1, <1>2, <1>3, <1>4, <1>5, <1>6 DEF Next, DispatchStep

\* The outbox, the row locks and the publishers together implement one
\* delivery per key: every commit is a step of DeliveryOnce or a stutter.
THEOREM OutboxDeliversOnce == Spec => DeliversOnce
<1>1. OutboxInv /\ [Next]_vars => [Once!Next]_<<Stages, calls>>
  BY StepRefines
<1> QED
  BY <1>1, InitRefines, OutboxInvariant, PTL DEF Spec, DeliversOnce, Once!Spec, Stages

----------------------------------------------------------------------------
(* The rows in full: attempt_count, the freeze transactions and the ledger. *)

LedgerTyped ==
  /\ ledger \in [Decision -> EntryRec]
  /\ tx \in [Publisher -> TxRec]
  /\ used \in UsedRec

\* attempt_count counts the claim, and record_publication_result adds nothing.
Counted ==
  \A k \in Key : outbox[k].attempts =
    IF outbox[k].status \in {"absent", "PENDING"} THEN 0 ELSE 1

\* An entry, committed or about to be, is newer than all it could see and
\* names the newest of them: e in a ledger l of which ids rows were drawn.
Chained(e, l, ids) ==
  /\ e.id \in 1 .. ids /\ e.seen \subseteq {d \in Decision : l[d].id # 0}
  /\ \A c \in e.seen : l[c].id < e.id
  /\ e.previous = None <=> e.seen = {}
  /\ e.previous # None =>
       e.previous \in e.seen /\ \A c \in e.seen : l[c].id <= l[e.previous].id

\* What order_by(id.desc()).limit(1) is looking for exists.
HasNewest ==
  Committed # {} =>
    \E d \in Committed : \A e \in Committed : ledger[e].id <= ledger[d].id

ChainInv ==
  /\ HasNewest
  /\ \A d \in Committed : Chained(ledger[d], ledger, used.ids)
  /\ \A p \in Publisher : tx[p].draft # NoEntry =>
       Chained(tx[p].draft, ledger, used.ids)

LedgerInv == LedgerTyped /\ Counted /\ ChainInv

LEMMA LedgerInit == Init => LedgerInv
<1> SUFFICES ASSUME Init PROVE LedgerInv
  OBVIOUS
<1>1. LedgerTyped
  BY BoundAssumption DEF Init, LedgerTyped, NoEntry, NoTx, EntryRec, TxRec, UsedRec
<1>2. Counted
  BY DEF Init, Counted, NoRow
<1>3. Committed = {}
  BY DEF Init, Committed, NoEntry
<1>4. ChainInv
  BY <1>3 DEF Init, ChainInv, HasNewest, NoTx
<1> QED BY <1>1, <1>2, <1>4 DEF LedgerInv

\* Steps that write no decision may drop drafts and draw ids.
LEMMA ChainKept ==
  ASSUME LedgerInv, UNCHANGED ledger, used'.ids \in Nat, used.ids <= used'.ids,
         \A p \in Publisher : \/ tx'[p].draft = NoEntry
                              \/ tx'[p].draft = tx[p].draft
                              \/ Chained(tx'[p].draft, ledger', used'.ids)
  PROVE  ChainInv'
<1>1. Committed' = Committed
  BY DEF Committed
<1>2. used.ids \in Nat
  BY DEF LedgerInv, LedgerTyped, UsedRec
<1>3. ASSUME NEW e, Chained(e, ledger, used.ids) PROVE Chained(e, ledger', used'.ids)
  BY <1>2, <1>3 DEF Chained
<1>4. HasNewest'
  BY <1>1 DEF LedgerInv, ChainInv, HasNewest
<1>5. \A d \in Committed' : Chained(ledger'[d], ledger', used'.ids)
  BY <1>1, <1>3 DEF LedgerInv, ChainInv
<1>6. \A p \in Publisher : tx'[p].draft # NoEntry => Chained(tx'[p].draft, ledger', used'.ids)
  BY <1>3 DEF LedgerInv, ChainInv
<1> QED BY <1>4, <1>5, <1>6 DEF ChainInv

\* The end of a freeze, of a dispatch or of a session leaves no transaction.
LEMMA TxEnds ==
  ASSUME LedgerTyped, NEW p \in Publisher, tx' = [tx EXCEPT ![p] = NoTx]
  PROVE  /\ tx' \in [Publisher -> TxRec] /\ tx'[p].draft = NoEntry
         /\ \A q \in Publisher \ {p} : tx'[q] = tx[q]
<1>1. NoTx \in TxRec /\ NoTx.draft = NoEntry
  BY DEF NoTx, NoEntry, TxRec, EntryRec
<1> QED BY <1>1 DEF LedgerTyped

LEMMA NewestChosen ==
  ASSUME HasNewest
  PROVE  /\ Latest(Committed) = None <=> Committed = {}
         /\ Committed # {} =>
              /\ Latest(Committed) \in Committed
              /\ \A c \in Committed : ledger[c].id <= ledger[Latest(Committed)].id
<1>1. CASE Committed = {}
  BY <1>1 DEF Latest
<1>2. CASE Committed # {}
  <2>1. /\ Latest(Committed) \in Committed
        /\ \A c \in Committed : ledger[c].id <= ledger[Latest(Committed)].id
    BY <1>2 DEF Latest, HasNewest
  <2> QED BY <1>2, <2>1, NoneAssumption DEF Committed
<1> QED BY <1>1, <1>2

LEMMA FreezeReadChains ==
  ASSUME OutboxInv, LedgerInv, NEW p \in Publisher, NEW pl \in Plan, FreezeRead(p, pl)
  PROVE  LedgerInv'
<1> DEFINE keys == {Steps[pl][i].key : i \in DOMAIN Steps[pl]}
           fresh == {k \in keys : outbox[k].status = "absent"}
           new == [id |-> used.ids + 1, previous |-> Latest(Committed), seen |-> Committed]
           draft == IF DecisionOf[pl] \notin Committed THEN new ELSE NoEntry
<1>1. /\ tx' = [tx EXCEPT ![p] = [fresh |-> fresh, draft |-> draft]]
      /\ used' = [used EXCEPT !.runs = @ + 1,
                              !.ids = IF DecisionOf[pl] \notin Committed THEN @ + 1 ELSE @]
      /\ used.runs < MaxRuns /\ UNCHANGED <<ledger, outbox>>
  BY DEF FreezeRead
<1>2. fresh \subseteq Key
  <2>1. Steps[pl] \in Seq(StepRec)
    BY PlanAssumption
  <2>2. \A i \in DOMAIN Steps[pl] : Steps[pl][i] \in StepRec
    BY <2>1
  <2>3. \A i \in DOMAIN Steps[pl] : Steps[pl][i].key \in Key
    BY <2>2 DEF StepRec
  <2> QED BY <2>3
<1>3. used \in UsedRec /\ HasNewest
  BY DEF LedgerInv, LedgerTyped, ChainInv
<1>4. /\ used' \in UsedRec /\ used'.ids \in Nat /\ used.ids <= used'.ids
      /\ DecisionOf[pl] \notin Committed => used'.ids = used.ids + 1
  <2> DEFINE more == used.runs + 1
             drawn == IF DecisionOf[pl] \notin Committed THEN used.ids + 1 ELSE used.ids
  <2>1. more \in 0 .. MaxRuns /\ drawn \in Nat /\ used.ids <= drawn
    BY <1>1, <1>3, BoundAssumption DEF UsedRec
  <2>2. used' = [used EXCEPT !.runs = more, !.ids = drawn]
    BY <1>1
  <2>3. DecisionOf[pl] \notin Committed => drawn = used.ids + 1
    OBVIOUS
  <2> HIDE DEF more, drawn
  <2>4. used' \in UsedRec /\ used'.ids = drawn
    BY <1>3, <2>1, <2>2 DEF UsedRec
  <2> QED BY <2>1, <2>3, <2>4
<1>5. /\ Latest(Committed) = None <=> Committed = {}
      /\ Committed # {} =>
           /\ Latest(Committed) \in Committed
           /\ \A c \in Committed : ledger[c].id <= ledger[Latest(Committed)].id
  BY <1>3, NewestChosen
<1>6. new \in EntryRec /\ Committed \subseteq Decision
  BY <1>3, <1>5 DEF EntryRec, Committed, UsedRec
<1>7. draft \in EntryRec
  BY <1>6 DEF EntryRec, NoEntry
<1>8. LedgerTyped'
  BY <1>1, <1>2, <1>4, <1>7 DEF LedgerInv, LedgerTyped, TxRec
<1>9. Counted'
  BY <1>1 DEF LedgerInv, Counted
<1>10. DecisionOf[pl] \notin Committed => Chained(new, ledger', used'.ids)
  <2>1. \A c \in Committed : ledger[c].id < used.ids + 1
    BY <1>3 DEF LedgerInv, ChainInv, Chained, UsedRec
  <2>2. used.ids + 1 \in 1 .. (used.ids + 1)
    BY <1>3 DEF UsedRec
  <2> QED BY <1>1, <1>4, <1>5, <2>1, <2>2 DEF Chained, Committed
<1>11. \A q \in Publisher : \/ tx'[q].draft = NoEntry \/ tx'[q].draft = tx[q].draft
                           \/ Chained(tx'[q].draft, ledger', used'.ids)
  BY <1>1, <1>10 DEF LedgerInv, LedgerTyped
<1>12. ChainInv'
  BY <1>1, <1>4, <1>11, ChainKept
<1> QED BY <1>8, <1>9, <1>12 DEF LedgerInv

\* What Continue and Leave do to the transactions.
LEMMA SessionTx ==
  ASSUME NEW p \in Publisher, NEW held, Continue(p, held) \/ Leave(p)
  PROVE  tx' = [tx EXCEPT ![p] = NoTx]
BY DEF Continue, Leave

\* The commit appends an entry that its transaction prepared.
LEMMA FreezeCommitChains ==
  ASSUME OutboxInv, LedgerInv, NEW p \in Publisher, FreezeCommit(p)
  PROVE  LedgerInv'
<1> DEFINE d0 == DecisionOf[pub[p].plan]
           e0 == tx[p].draft
<1>0. LedgerTyped /\ Counted /\ ChainInv
  BY DEF LedgerInv
<1>1. /\ tx' = [tx EXCEPT ![p] = NoTx] /\ UNCHANGED <<used, calls>>
      /\ ~Conflict(p) /\ pub[p].pc = "commit"
      /\ ledger' = IF e0 = NoEntry THEN ledger ELSE [ledger EXCEPT ![d0] = e0]
  BY SessionTx DEF FreezeCommit
<1>2. d0 \in Decision
  <2>1. pub[p].plan \in Plan
    BY <1>1 DEF OutboxInv, InReceipt
  <2> QED BY <2>1, PlanAssumption
<1>3. /\ tx' \in [Publisher -> TxRec] /\ tx'[p].draft = NoEntry
      /\ \A q \in Publisher \ {p} : tx'[q] = tx[q]
  BY <1>0, <1>1, TxEnds
<1>4. e0 \in EntryRec
  BY <1>0 DEF LedgerTyped, TxRec
<1>5. LedgerTyped'
  BY <1>0, <1>1, <1>2, <1>3, <1>4 DEF LedgerTyped
<1>6. Counted'
  <2>1. \A k \in Key : \/ outbox'[k] = outbox[k]
                       \/ outbox'[k].status = "PENDING" /\ outbox'[k].attempts = 0
    BY DEF FreezeCommit, NoRow
  <2> QED BY <1>0, <2>1 DEF Counted
<1>7. CASE e0 = NoEntry
  <2>1. ChainInv'
    BY <1>0, <1>1, <1>3, <1>7, ChainKept DEF LedgerTyped, UsedRec
  <2> QED BY <1>5, <1>6, <2>1 DEF LedgerInv
<1>8. CASE e0 # NoEntry
  <2>1. /\ d0 \notin Committed /\ Chained(e0, ledger, used.ids)
        /\ ledger' = [ledger EXCEPT ![d0] = e0]
    BY <1>0, <1>1, <1>8 DEF Conflict, ChainInv
  <2>2. /\ ledger'[d0] = e0 /\ \A d \in Decision \ {d0} : ledger'[d] = ledger[d]
    BY <1>0, <1>2, <2>1 DEF LedgerTyped
  <2>3. used.ids \in Nat /\ e0.id \in Nat /\ e0.id # 0
    BY <1>0, <1>4, <2>1 DEF Chained, LedgerTyped, UsedRec, EntryRec
  <2>4. Committed' = Committed \cup {d0}
    BY <1>2, <2>2, <2>3 DEF Committed
  <2>5. ASSUME NEW e, Chained(e, ledger, used.ids) PROVE Chained(e, ledger', used.ids)
    <3>1. e.seen \subseteq Decision \ {d0}
      BY <2>1, <2>5 DEF Chained, Committed
    <3>2. \A c \in e.seen : ledger'[c] = ledger[c]
      BY <2>2, <3>1
    <3> QED BY <2>5, <3>1, <3>2 DEF Chained
  <2>6. \A d \in Committed' : Chained(ledger'[d], ledger', used'.ids)
    <3>1. Chained(e0, ledger', used.ids)
      BY <2>1, <2>5
    <3>2. \A d \in Committed : Chained(ledger[d], ledger', used.ids) /\ ledger'[d] = ledger[d]
      BY <1>0, <2>1, <2>2, <2>5 DEF ChainInv, Committed
    <3> QED BY <1>1, <2>2, <2>4, <3>1, <3>2
  <2>7. \A q \in Publisher : tx'[q].draft # NoEntry
                             => Chained(tx'[q].draft, ledger', used'.ids)
    BY <1>0, <1>1, <1>3, <2>5 DEF ChainInv
  <2>8. HasNewest'
    <3>0. \A d \in Committed : ledger'[d] = ledger[d] /\ ledger[d].id \in Nat
      BY <1>0, <2>1, <2>2 DEF Committed, LedgerTyped, EntryRec
    <3>1. CASE \A d \in Committed : ledger[d].id <= e0.id
      BY <2>2, <2>3, <2>4, <3>0, <3>1 DEF HasNewest
    <3>2. CASE \E d \in Committed : ~(ledger[d].id <= e0.id)
      <4>1. PICK n \in Committed : \A e \in Committed : ledger[e].id <= ledger[n].id
        BY <1>0, <3>2 DEF ChainInv, HasNewest
      <4>2. e0.id <= ledger[n].id
        BY <2>3, <3>0, <3>2, <4>1
      <4> QED BY <2>2, <2>4, <3>0, <4>1, <4>2 DEF HasNewest
    <3> QED BY <3>1, <3>2
  <2> QED BY <1>5, <1>6, <2>6, <2>7, <2>8 DEF LedgerInv, ChainInv
<1> QED BY <1>7, <1>8

\* Dispatch writes outbox rows only, and counts each claim once.
LEMMA DispatchChains ==
  ASSUME OutboxInv, LedgerInv, NEW p \in Publisher,
         \/ FreezeFails(p) \/ RowMismatch(p) \/ Fault(p) \/ Deadlock(p)
         \/ Skip(p) \/ Select(p) \/ Claim(p) \/ Send(p)
         \/ \E sent \in BOOLEAN : Record(p, sent)
  PROVE  LedgerInv'
<1>0. LedgerTyped /\ Counted /\ ChainInv /\ outbox \in [Key -> Row] /\ used \in UsedRec
  BY DEF LedgerInv, LedgerTyped, OutboxInv, DataTyped
<1>1. UNCHANGED ledger
  BY DEF FreezeFails, RowMismatch, Fault, Deadlock, Skip, Select, Claim, Send, Record
<1>2. tx' = tx \/ tx' = [tx EXCEPT ![p] = NoTx]
  <2>1. CASE Select(p) \/ Claim(p) \/ Send(p)
    BY <2>1 DEF Select, Claim, Send
  <2>2. CASE \/ FreezeFails(p) \/ RowMismatch(p) \/ Fault(p) \/ Deadlock(p)
             \/ Skip(p) \/ \E sent \in BOOLEAN : Record(p, sent)
    BY <2>2, SessionTx DEF FreezeFails, RowMismatch, Fault, Deadlock, Skip, Record
  <2> QED BY <2>1, <2>2
<1>3. tx' \in [Publisher -> TxRec]
      /\ \A q \in Publisher : tx'[q].draft = NoEntry \/ tx'[q].draft = tx[q].draft
  BY <1>0, <1>2, TxEnds DEF LedgerTyped
<1>4. used' \in UsedRec /\ used'.ids = used.ids /\ used.ids \in Nat
  <2>1. CASE Fault(p)
    BY <1>0, <2>1, BoundAssumption DEF Fault, UsedRec
  <2>2. CASE UNCHANGED used
    BY <1>0, <2>2 DEF UsedRec
  <2> QED BY <2>1, <2>2 DEF FreezeFails, RowMismatch, Deadlock, Skip, Select, Claim,
         Send, Record
<1>5. LedgerTyped'
  BY <1>0, <1>1, <1>3, <1>4 DEF LedgerTyped
<1>6. ChainInv'
  BY <1>1, <1>3, <1>4, ChainKept
<1>7. Counted'
  <2>1. CASE UNCHANGED outbox
    BY <1>0, <2>1 DEF Counted
  <2>2. CASE Claim(p)
    <3>1. KeyAt(p) \in Key /\ outbox[KeyAt(p)].status = "PENDING"
      BY <2>2, KeyAtTyped DEF Claim, OutboxInv, ClaimReady
    <3>2. outbox[KeyAt(p)].attempts = 0
      BY <1>0, <3>1 DEF Counted
    <3>3. outbox' = [outbox EXCEPT ![KeyAt(p)] = Claimed(@)]
      BY <2>2 DEF Claim, KeyAt
    <3>4. /\ outbox'[KeyAt(p)].status = "SENDING" /\ outbox'[KeyAt(p)].attempts = 1
          /\ \A k \in Key \ {KeyAt(p)} : outbox'[k] = outbox[k]
      BY <1>0, <3>1, <3>2, <3>3 DEF Claimed, Row
    <3> QED BY <1>0, <3>4 DEF Counted
  <2>3. ASSUME NEW sent \in BOOLEAN, Record(p, sent) PROVE Counted'
    <3>1. KeyAt(p) \in Key /\ outbox[KeyAt(p)].status = "SENDING"
      BY <2>3, KeyAtTyped DEF Record, OutboxInv, RecordReady
    <3>2. outbox[KeyAt(p)].attempts = 1
      BY <1>0, <3>1 DEF Counted
    <3>3. outbox' = [outbox EXCEPT ![KeyAt(p)] = Outcome(@, sent)]
      BY <2>3, <3>1 DEF Record, KeyAt
    <3>4. /\ outbox'[KeyAt(p)].status \in {"SENT", "UNKNOWN"}
          /\ outbox'[KeyAt(p)].attempts = 1
          /\ \A k \in Key \ {KeyAt(p)} : outbox'[k] = outbox[k]
      BY <1>0, <3>1, <3>2, <3>3 DEF Outcome, Row
    <3> QED BY <1>0, <3>4 DEF Counted
  <2> QED BY <2>1, <2>2, <2>3 DEF FreezeFails, RowMismatch, Fault, Deadlock, Skip,
         Select, Send
<1> QED BY <1>5, <1>6, <1>7 DEF LedgerInv

LEMMA LedgerStep == OutboxInv /\ LedgerInv /\ [Next]_vars => LedgerInv'
<1> SUFFICES ASSUME OutboxInv, LedgerInv, [Next]_vars PROVE LedgerInv'
  OBVIOUS
<1>1. CASE UNCHANGED vars
  BY <1>1 DEF vars, LedgerInv, LedgerTyped, Counted, ChainInv, HasNewest, Committed
<1>2. ASSUME NEW p \in Publisher, NEW pl \in Plan, FreezeRead(p, pl) PROVE LedgerInv'
  BY <1>2, FreezeReadChains
<1>3. ASSUME NEW p \in Publisher, FreezeCommit(p) PROVE LedgerInv'
  BY <1>3, FreezeCommitChains
<1>4. ASSUME NEW p \in Publisher, DispatchStep(p) \/ Fault(p) PROVE LedgerInv'
  BY <1>3, <1>4, DispatchChains DEF DispatchStep
<1> QED BY <1>1, <1>2, <1>3, <1>4 DEF Next

LEMMA LedgerAlways == Spec => [](OutboxInv /\ LedgerInv)
BY OutboxInvariant, LedgerInit, LedgerStep, PTL DEF Spec

\* Every variable keeps its type; that a row counts at most one attempt, also
\* when an answer comes late, is part of the type.
THEOREM PublicationTypeCorrect == Spec => []TypeOK
<1>1. OutboxInv /\ LedgerInv => TypeOK
  <2> SUFFICES ASSUME OutboxInv, LedgerInv PROVE TypeOK
    OBVIOUS
  <2>1. DataTyped /\ LedgerTyped /\ Counted
    BY DEF OutboxInv, LedgerInv
  <2>2. outbox \in [Key -> RowRec]
    BY <2>1 DEF DataTyped, Counted, Row, RowRec
  <2> QED BY <2>1, <2>2 DEF DataTyped, LedgerTyped, TypeOK
<1> QED BY <1>1, LedgerAlways, PTL

\* Two decisions name the same predecessor only when neither transaction could
\* see the other: the chain of revisions forks by overlapping freezes alone.
THEOREM ForksOverlap == Spec => []ForkOnlyByOverlap
<1>1. LedgerInv => ForkOnlyByOverlap
  <2> SUFFICES ASSUME LedgerInv, NEW d \in Committed, NEW e \in Committed,
                      ledger[d].previous = ledger[e].previous
               PROVE  d \notin ledger[e].seen
    BY DEF ForkOnlyByOverlap
  <2> DEFINE x == ledger[e].previous
  <2>1. Chained(ledger[d], ledger, used.ids) /\ Chained(ledger[e], ledger, used.ids)
    BY DEF LedgerInv, ChainInv
  <2>2. SUFFICES ASSUME d \in ledger[e].seen PROVE FALSE
    OBVIOUS
  <2>3. x \in ledger[e].seen /\ ledger[d].id <= ledger[x].id
    BY <2>1, <2>2 DEF Chained
  <2>4. x \in ledger[d].seen /\ ledger[x].id < ledger[d].id
    BY <2>1, <2>2 DEF Chained
  <2>5. ledger[x].id \in Nat /\ ledger[d].id \in Nat
    BY <2>3, <2>1 DEF Chained, LedgerInv, LedgerTyped, EntryRec, Committed
  <2> QED BY <2>3, <2>4, <2>5
<1> QED BY <1>1, LedgerAlways, PTL
=============================================================================
