---------------------------- MODULE AgentProbing ----------------------------
(***************************************************************************)
(* The QoS agent (agent/src/agent/agent.js): an access agent that probes   *)
(* the TURN agents on a list of hosts and keeps their last round-trip      *)
(* times.  A TURN agent takes a new id each time it is started.            *)
(*                                                                         *)
(* Rounds of pings overlap when answers take longer than probingTimeout,   *)
(* and answers of one host may arrive in any order; a ping carries its     *)
(* timestamp there and back.  Time is discrete; a ping's age stands for    *)
(* now - reqTimestamp.                                                     *)
(***************************************************************************)
EXTENDS Naturals, Sequences, SequencesExt

CONSTANTS Host,           \* turnAgentList
          None,           \* no answer yet
          ProbingTimeout, \* ticks between two rounds
          MaxRtt,         \* ticks a running agent takes to answer, at most
          MaxProbes,      \* maxProbes: 10
          RegisterTimeout,\* ticks until the registration is renewed
          MaxStops,       \* bound: TURN agents stopped
          MaxLosses       \* bound: pings of running agents that are lost

ASSUME TimeAssumption == ProbingTimeout \in Nat \ {0} /\ MaxRtt \in Nat /\ RegisterTimeout \in Nat
ASSUME BoundAssumption == MaxProbes \in Nat \ {0} /\ MaxStops \in Nat /\ MaxLosses \in Nat

VARIABLES
    turnProbes,            \* what the access agent knows of each TURN agent
    isRegisteredAtBroker,
    timers,                \* ticks until the next round and until the registration
    posted,                \* a registration at the broker is on its way
    pings,                 \* pings on their way, answered or not
    run,                   \* how often the TURN agent of each host was started
    on,                    \* hosts whose TURN agent is running
    stops, losses,         \* so far
    \* History, read by no action, both capped:
    upFor,                 \* ticks a host's agent has been running without a loss
    deadFor                \* ticks since the agent of an id was stopped

agent == <<turnProbes, isRegisteredAtBroker, timers, posted>>
world == <<run, on, stops, losses>>
history == <<upFor, deadFor>>
vars == <<agent, pings, world, history>>

\* The longest a running agent may go without being seen.
Lately == ProbingTimeout + MaxRtt
Cap(n) == IF n > Lately THEN Lately + 1 ELSE n

Id == Host \X Nat          \* a host's n-th agent
Self(h) == <<h, run[h]>>   \* _ownId

Init ==
    /\ turnProbes = <<>>
    /\ isRegisteredAtBroker = TRUE
    /\ timers = [probing |-> ProbingTimeout, register |-> RegisterTimeout]
    /\ posted = FALSE
    /\ pings = {}
    /\ run = [h \in Host |-> 1] /\ on = Host /\ stops = 0 /\ losses = 0
    /\ upFor = [h \in Host |-> 0] /\ deadFor = <<>>
-----------------------------------------------------------------------------
(***************************************************************************)
(* The access agent.                                                       *)
(***************************************************************************)
\* The timer of _runWatchDogs, set once, and _registerAtBroker.
Reregister ==
    /\ timers.register = 0 /\ isRegisteredAtBroker
    /\ isRegisteredAtBroker' = FALSE
    /\ posted' = TRUE
    /\ UNCHANGED <<turnProbes, timers, pings, world, history>>

\* The broker's response or an error: both callbacks throw, having no this.
Registered ==
    /\ posted
    /\ posted' = FALSE
    /\ UNCHANGED <<turnProbes, isRegisteredAtBroker, timers, pings, world, history>>

\* _runProbing and _callRemoteAgent
Probe(hosts) ==
    /\ timers.probing = 0
    /\ timers' = [timers EXCEPT !.probing = ProbingTimeout]
    /\ pings' = pings \cup {[host |-> h, age |-> 0, by |-> None] : h \in hosts}
    /\ UNCHANGED <<turnProbes, isRegisteredAtBroker, posted, world, history>>
RunProbingFirst == Probe({CHOOSE h \in Host : TRUE})
RunProbing == Probe(Host)

\* The samples after another one: above the maximum, the oldest goes first.
PushSample(samples, calc) ==
    Append(IF Len(samples) > MaxProbes THEN Tail(samples) ELSE samples, calc)

\* _storeProbe; seen: ticks since lastSeen.  The mean of one sample is a list.
EntryDividingBy(n, host, samples) ==
    [agentAddress |-> host, lastProbes |-> samples, isList |-> Len(samples) = 1,
     meanProbes |-> FoldSeq(+, 0, samples) \div n, seen |-> 0]
EntryOfMaximum(host, samples) == EntryDividingBy(MaxProbes, host, samples)
Entry(host, samples) == EntryDividingBy(Len(samples), host, samples)

StoreProbe(id, host, calc) ==
    turnProbes' = [i \in DOMAIN turnProbes \cup {id} |->
        IF i # id THEN turnProbes[i]
        ELSE Entry(host, IF id \in DOMAIN turnProbes THEN PushSample(turnProbes[id].lastProbes, calc)
                         ELSE <<calc>>)]

\* A response to p: it tells who answered, and p's timestamp.
Answered(p) ==
    /\ p \in pings /\ p.by # None
    /\ pings' = pings \ {p}
    /\ StoreProbe(p.by, p.host, p.age)
    /\ UNCHANGED <<isRegisteredAtBroker, timers, posted, world, history>>

\* The TURN agent is not there, or was stopped before it could answer.
FailedWith(p, probes) ==
    /\ p \in pings /\ p.by = None /\ p.host \notin on
    /\ pings' = pings \ {p}
    /\ turnProbes' = probes
    /\ UNCHANGED <<isRegisteredAtBroker, timers, posted, world, history>>
FailedButSeen(p) ==
    FailedWith(p, [i \in DOMAIN turnProbes |->
                      IF i[1] = p.host THEN [turnProbes[i] EXCEPT !.seen = 0] ELSE turnProbes[i]])
Failed(p) == FailedWith(p, turnProbes)
-----------------------------------------------------------------------------
(***************************************************************************)
(* TURN agents, network and time.                                          *)
(***************************************************************************)
\* startREST: /performance/ping/:requestingAgent/:reqTimestamp
Pong(p) ==
    /\ p \in pings /\ p.by = None /\ p.host \in on
    /\ pings' = (pings \ {p}) \cup {[p EXCEPT !.by = Self(p.host)]}
    /\ UNCHANGED <<agent, world, history>>

\* A ping or its response is lost.
Lose(p) ==
    /\ p \in pings /\ losses < MaxLosses
    /\ pings' = pings \ {p}
    /\ losses' = losses + 1
    /\ upFor' = [upFor EXCEPT ![p.host] = 0]
    /\ UNCHANGED <<agent, run, on, stops, deadFor>>

Stop(h) ==
    /\ h \in on /\ stops < MaxStops
    /\ on' = on \ {h} /\ stops' = stops + 1
    /\ deadFor' = [i \in DOMAIN deadFor \cup {Self(h)} |-> IF i = Self(h) THEN 0 ELSE deadFor[i]]
    /\ UNCHANGED <<agent, pings, run, losses, upFor>>

\* initialize, with a new id
Start(h) ==
    /\ h \notin on
    /\ on' = on \cup {h} /\ run' = [run EXCEPT ![h] = @ + 1]
    /\ upFor' = [upFor EXCEPT ![h] = 0]
    /\ UNCHANGED <<agent, pings, stops, losses, deadFor>>

Older(p) == [p EXCEPT !.age = @ + 1]

\* Timers that are due fire first, and pings are settled within MaxRtt.
Tick ==
    /\ timers.probing > 0 /\ (timers.register > 0 \/ ~isRegisteredAtBroker)
    /\ \A p \in pings : p.age < MaxRtt
    /\ pings' = {Older(p) : p \in pings}
    /\ timers' = [probing |-> timers.probing - 1,
                  register |-> IF timers.register > 0 THEN timers.register - 1 ELSE 0]
    /\ turnProbes' = [i \in DOMAIN turnProbes |-> [turnProbes[i] EXCEPT !.seen = Cap(@ + 1)]]
    /\ upFor' = [h \in Host |-> IF h \in on THEN Cap(upFor[h] + 1) ELSE 0]
    /\ deadFor' = [i \in DOMAIN deadFor |-> Cap(deadFor[i] + 1)]
    /\ UNCHANGED <<isRegisteredAtBroker, posted, world>>

Next ==
    \/ Reregister \/ Registered \/ RunProbing \/ Tick
    \/ \E p \in pings : Answered(p) \/ Failed(p) \/ Pong(p) \/ Lose(p)
    \/ \E h \in Host : Stop(h) \/ Start(h)

Spec == Init /\ [][Next]_vars
-----------------------------------------------------------------------------
\* Each variable keeps its type; there is a sample of every agent that is known, and
\* the mean stays within the times an answer takes, however many samples are kept.
TypeOK ==
    /\ DOMAIN turnProbes \subseteq Id /\ DOMAIN deadFor \subseteq Id
    /\ \A i \in DOMAIN turnProbes :
          /\ turnProbes[i].agentAddress = i[1]
          /\ turnProbes[i].lastProbes \in Seq(0..MaxRtt) /\ turnProbes[i].lastProbes # <<>>
          /\ turnProbes[i].meanProbes \in 0..MaxRtt
    /\ isRegisteredAtBroker \in BOOLEAN /\ posted \in BOOLEAN
    /\ timers.probing \in 0..ProbingTimeout /\ timers.register \in 0..RegisterTimeout
    /\ \A p \in pings : p.host \in Host /\ p.age \in 0..MaxRtt
    /\ run \in [Host -> Nat] /\ on \subseteq Host
    /\ upFor \in [Host -> 0..Cap(Lately + 1)]

\* A TURN agent that runs, with no ping lost, is known by its own id and has
\* been seen within a round and an answer, through the loss of the registration,
\* overlapping rounds and restarts before.
SeenLately ==
    \A h \in on : upFor[h] > Lately =>
        Self(h) \in DOMAIN turnProbes /\ turnProbes[Self(h)].seen <= Lately

\* lastSeen never flatters: what is left of a TURN agent that has stopped was seen
\* last when it was running or within an answer of that.
LastSeenHonest ==
    \A i \in DOMAIN deadFor \cap DOMAIN turnProbes :
        turnProbes[i].seen + MaxRtt >= deadFor[i]
-----------------------------------------------------------------------------
\* _storeProbe, by its comment, checks "if the maximum number of probe samples are
\* reached" and then removes the oldest: no more than maxProbes are kept.
WindowBounded ==
    \A i \in DOMAIN turnProbes : Len(turnProbes[i].lastProbes) <= MaxProbes
=============================================================================
