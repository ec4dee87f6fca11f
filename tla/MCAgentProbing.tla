--------------------------- MODULE MCAgentProbing ---------------------------
(***************************************************************************)
(* An instance of AgentProbing: an answer may take as long as a round, so  *)
(* two rounds of pings can be on their way at once.                        *)
(***************************************************************************)
EXTENDS AgentProbing, TLC

\* Hosts are alike.
Alike == Permutations(Host)
=============================================================================
