------------------------ MODULE MCTrafficAccounting ------------------------
(***************************************************************************)
(* Small instances of TrafficAccounting: two packets make a report; one    *)
(* session lives for three reports, the other for one.                     *)
(***************************************************************************)
EXTENDS TrafficAccounting

CONSTANTS s1, s2

LongAndShort == [s \in Session |-> IF s = s1 THEN 6 ELSE 2]
============================================================================
