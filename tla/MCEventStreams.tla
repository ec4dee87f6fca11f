--------------------------- MODULE MCEventStreams ---------------------------
(***************************************************************************)
(* An instance of EventStreams: streams of one client that comes and goes, *)
(* and general ones.                                                       *)
(***************************************************************************)
EXTENDS EventStreams, TLC

CONSTANTS e1, e2, g1, g2, c1

ByKind == [e \in Stream |-> IF e \in {e1, e2} THEN c1 ELSE General]

\* Streams of the same kind are alike.
Alike == Permutations({e1, e2}) \cup Permutations({g1, g2})
=============================================================================
