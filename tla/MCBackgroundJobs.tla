-------------------------- MODULE MCBackgroundJobs --------------------------
(* Small instances of BackgroundJobs. *)
EXTENDS BackgroundJobs, TLC

CONSTANTS j1, j2, j3, r1, r2

\* "staged" is screener_precompute, whose claim also names its stages; "core"
\* is screener_precompute_core; "train" stands for the types whose runner has
\* neither a timeout nor checkpoints.
MCType == {"staged", "core", "train"}
MCConflicts ==
  [t \in MCType |-> CASE t = "staged" -> {"staged", "core"}
                      [] t = "core"   -> {"staged", "core"}
                      [] t = "train"  -> {"train"}]

\* The two that exclude each other.
MCTwoType == {"staged", "core"}
MCTwoConflicts == [t \in MCTwoType |-> MCTwoType]

\* Alone, a type excludes itself only.
MCOneType == {"core", "train"}
MCOneConflicts == [t \in MCOneType |-> {t}]

MCRequestSymmetry == Permutations({r1, r2})
MCSymmetry == Permutations({j1, j2}) \cup MCRequestSymmetry
=============================================================================
