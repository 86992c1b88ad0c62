-------------------------- MODULE MCRuntimeCache --------------------------
(* A small instance of RuntimeCache: the fragments are made from one list. *)
EXTENDS RuntimeCache

CONSTANTS items, analysis

MCNeeds == [k \in Key |-> IF k \in Items THEN None ELSE items]
=============================================================================
