----------------------------- MODULE MCRedisDAO -----------------------------
(***************************************************************************)
(* Small instances of RedisDAO: up to three requests, and the kinds each of *)
(* them may be.                                                            *)
(***************************************************************************)
EXTENDS RedisDAO, TLC

CONSTANTS r1, r2, r3, o1, o2, c1, t1

\* o1 belongs to the one CSP, o2 is an id that was never handed out.
MCOldOwner == [u \in OldClient |-> IF u = o2 THEN None ELSE c1]

\* Requests with the same workload are interchangeable.
AllRequests == Permutations(Request)

\* Anything beside anything.
AnyKind == [r \in Request |-> AllKinds]

\* Notifications of traffic beside what else touches the accounts, and the
\* requests of the other database.
Accounting == [r \in Request |->
                 {"addCSPConso", "provRequest", "deleteCSP", "getCredentials"}]

\* Turn requests beside a delete and the dashboard's poll.
TurnBesideDelete == [r \in Request |-> {"getAppropriateTurn", "deleteCSP", "getAllCspInfo"}]

\* Credentials beside the one request that only writes quotas.
CredentialsBesideQuotas == [r \in Request |-> {"getCredentials", "changeQuotas"}]
=============================================================================
