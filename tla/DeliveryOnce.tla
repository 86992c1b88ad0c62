---------------------------- MODULE DeliveryOnce ----------------------------
(***************************************************************************)
(* What the publication outbox promises for each delivery key: an intent   *)
(* is made durable, the provider is called for it at most once and only    *)
(* after the intent was claimed, and an outcome is written down only after *)
(* the call.  A key may stay claimed for ever (a crash), which is a matter *)
(* for an operator and never for a second call.                            *)
(***************************************************************************)
EXTENDS Naturals

CONSTANT Key

VARIABLES stage, calls

Stage == {"none", "intended", "claimed", "confirmed", "doubtful"}

Init == /\ stage = [k \in Key |-> "none"]
        /\ calls = [k \in Key |-> 0]

Move(k, from, to) == /\ stage[k] = from
                     /\ stage' = [stage EXCEPT ![k] = to]

Intend(K) == /\ \A k \in K : stage[k] = "none"
             /\ stage' = [k \in Key |-> IF k \in K THEN "intended" ELSE stage[k]]
             /\ UNCHANGED calls

Claim(k) == Move(k, "intended", "claimed") /\ UNCHANGED calls

Call(k) == /\ stage[k] = "claimed" /\ calls[k] = 0
           /\ calls' = [calls EXCEPT ![k] = 1]
           /\ UNCHANGED stage

Resolve(k) == /\ calls[k] = 1
              /\ Move(k, "claimed", "confirmed") \/ Move(k, "claimed", "doubtful")
              /\ UNCHANGED calls

Next == \/ \E K \in SUBSET Key : Intend(K)
        \/ \E k \in Key : Claim(k) \/ Call(k) \/ Resolve(k)

Spec == Init /\ [][Next]_<<stage, calls>>
=============================================================================
