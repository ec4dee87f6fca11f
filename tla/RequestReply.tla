---------------------------- MODULE RequestReply ----------------------------
(***************************************************************************)
(* What a caller of the LHCB library is promised: a call settles at most   *)
(* once, with an answer to that call; it may also fail at once, or wait    *)
(* for ever.  Calls that overlap may be mixed up, but only with others     *)
(* that are mixed up too: a caller who awaits each answer before the next  *)
(* call never gets another call's answer.                                  *)
(***************************************************************************)
CONSTANT Id   \* the calls

VARIABLES
    outcome,  \* how far each call is, and whose answer it got
    mixed     \* calls made while another one was on its way

vars == <<outcome, mixed>>

\* by: the call whose answer was handed out; a call itself while there is none
Outcome == [state : {"idle", "waiting", "failed", "settled"}, by : Id]

Init ==
    /\ outcome = [q \in Id |-> [state |-> "idle", by |-> q]]
    /\ mixed = {}

\* A call is made.  Nobody but this call and ones that are made is newly mixed up.
Call(q) ==
    /\ outcome[q].state = "idle"
    /\ \E s \in {"waiting", "failed"} : outcome' = [outcome EXCEPT ![q].state = s]
    /\ mixed \subseteq mixed'
    /\ mixed' \subseteq mixed \cup {q} \cup {x \in Id : outcome[x].state # "idle"}

\* A call settles with its own answer, or, mixed up, with a mixed up one's.
Settle(q, by) ==
    /\ outcome[q].state = "waiting"
    /\ by = q \/ {q, by} \subseteq mixed
    /\ outcome' = [outcome EXCEPT ![q] = [state |-> "settled", by |-> by]]
    /\ UNCHANGED mixed

Next == \E q \in Id : Call(q) \/ (\E by \in Id : Settle(q, by))

Spec == Init /\ [][Next]_vars
=============================================================================
