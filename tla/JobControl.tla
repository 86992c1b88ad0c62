----------------------------- MODULE JobControl -----------------------------
(***************************************************************************)
(* The control entry that job_control.py keeps for one background job, and *)
(* the functions over it.  Every function of that file runs wholly under   *)
(* _STATE_LOCK, so one call is one step.                                   *)
(*                                                                         *)
(* A monotonic clock reading is abstracted to whether the deadline is      *)
(* absent, still ahead, or passed; the reason text and the heartbeat       *)
(* counter, which no decision reads, are left out.                         *)
(***************************************************************************)

Deadline == {"none", "ahead", "passed"}

Entry == [present : BOOLEAN, cancel : BOOLEAN, timedOut : BOOLEAN,
          deadline : Deadline]

\* _STATE has no entry for the id: what clear() leaves.
NoEntry == [present |-> FALSE, cancel |-> FALSE, timedOut |-> FALSE,
            deadline |-> "none"]

\* Mutation of Register: a plain reset.
RegisterForgets(e, timed) ==
  [NoEntry EXCEPT !.present = TRUE,
                  !.deadline = IF timed THEN "ahead" ELSE "none"]

\* register(): a fresh entry that preserves a cancellation already requested.
Register(e, timed) ==
  [present |-> TRUE, cancel |-> e.cancel, timedOut |-> e.timedOut,
   deadline |-> IF timed THEN "ahead" ELSE "none"]

\* request_cancel(): an untracked id gets an entry of its own.
RequestCancel(e, timedOut) ==
  [e EXCEPT !.present = TRUE, !.cancel = TRUE,
            !.timedOut = @ \/ timedOut]

\* has_timed_out(): the flag, or the deadline itself.
HasTimedOut(e) == e.present /\ (e.timedOut \/ e.deadline = "passed")

\* Mutation of CheckRaises: only the deadline is looked at.
CheckRaisesOnTimeoutOnly(e) == HasTimedOut(e)

\* check_cancelled() raises JobCancelled.
CheckRaises(e) == e.present /\ (e.cancel \/ HasTimedOut(e))

=============================================================================
