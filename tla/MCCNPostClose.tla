--------------------------- MODULE MCCNPostClose ---------------------------
(* Instances of CNPostClose: its constants are bounds only. *)
EXTENDS CNPostClose
=============================================================================
