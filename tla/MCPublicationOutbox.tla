------------------------ MODULE MCPublicationOutbox ------------------------
(* Small instances of PublicationOutbox. *)
EXTENDS PublicationOutbox

CONSTANTS hF, hW, cF, cW, d1, d2, d3

Message(key, ordinal) == [key |-> key, ordinal |-> ordinal]

\* A daily report is a message about the holdings and one about the candidates,
\* each to Feishu and WeChat, in the order in which a request names them.  The
\* readiness notice is the second message alone, to Feishu.  Revisions are
\* saved unsent.
MCPlan == {"notice", "both", "swapped", "revision", "third"}
MCDecisionOf ==
  [pl \in MCPlan |-> CASE pl = "revision" -> d2
                       [] pl = "third"    -> d3
                       [] OTHER           -> d1]
MCSteps ==
  [notice   |-> <<Message(cF, 1)>>,
   both     |-> <<Message(hF, 1), Message(hW, 1), Message(cF, 2), Message(cW, 2)>>,
   swapped  |-> <<Message(hW, 1), Message(hF, 1), Message(cW, 2), Message(cF, 2)>>,
   revision |-> <<>>,
   third    |-> <<>>]
=============================================================================
