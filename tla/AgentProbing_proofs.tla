------------------------ MODULE AgentProbing_proofs ------------------------
(***************************************************************************)
(* What the access agent knows of the TURN agents is recent for those that *)
(* run and honest about those that have stopped, for every list of hosts,  *)
(* every period and every time an answer may take.                         *)
(***************************************************************************)
EXTENDS AgentProbing, Sums

Pings == [host : Host, age : 0..MaxRtt, by : Id \cup {None}]
Timers == [probing : 0..ProbingTimeout, register : 0..RegisterTimeout]

\* What an entry of turnProbes holds.
Kept(e, host) ==
    /\ {"seen", "agentAddress", "lastProbes", "meanProbes"} \subseteq DOMAIN e
    /\ e.agentAddress = host
    /\ e.lastProbes \in Seq(0..MaxRtt) /\ Len(e.lastProbes) \in 1..(MaxProbes + 1)
    /\ e.meanProbes \in 0..MaxRtt
    /\ e.seen \in Nat

Types ==
    /\ DOMAIN turnProbes \subseteq Id /\ DOMAIN deadFor \subseteq Id
    /\ \A i \in DOMAIN turnProbes : Kept(turnProbes[i], i[1])
    /\ \A i \in DOMAIN deadFor : deadFor[i] \in Nat
    /\ isRegisteredAtBroker \in BOOLEAN /\ posted \in BOOLEAN
    /\ timers \in Timers
    /\ pings \subseteq Pings /\ \A p \in pings : p.by # None => p.by[1] = p.host
    /\ run \in [Host -> Nat] /\ on \subseteq Host
    /\ upFor \in [Host -> 0..(Lately + 1)]

\* Ticks since the last round.
Since == ProbingTimeout - timers.probing

\* What was sent to h a ticks ago is on its way or has been answered by its agent,
\* or a later one has.
Settling(h, a) ==
    \/ \E p \in pings : p.host = h /\ p.age = a /\ p.by \in {None, Self(h)}
    \/ Self(h) \in DOMAIN turnProbes /\ turnProbes[Self(h)].seen <= a

\* The last round, and one in every ProbingTimeout ticks before, as far back as the
\* agent has been running without a loss.
LastRound == \A h \in on : Since < upFor[h] => Settling(h, Since)
EveryRound ==
    \A h \in on : \A w \in Nat : w + ProbingTimeout < upFor[h] =>
        \E a \in (w + 1)..(w + ProbingTimeout) : Settling(h, a)

\* The ids of agents that were stopped are not used again.
Buried == \A i \in DOMAIN deadFor : i[2] <= run[i[1]] /\ (i[1] \in on => i[2] < run[i[1]])

\* An answer of an agent that was stopped is older than that.
Posthumous == \A p \in pings : p.by # None /\ p.by \in DOMAIN deadFor => deadFor[p.by] <= p.age

IInv == Types /\ LastRound /\ EveryRound /\ Buried /\ Posthumous /\ LastSeenHonest
-----------------------------------------------------------------------------
\* The constants are numbers.
LEMMA Numbers ==
    /\ ProbingTimeout \in Nat /\ ProbingTimeout > 0 /\ MaxRtt \in Nat /\ RegisterTimeout \in Nat
    /\ MaxProbes \in Nat /\ MaxProbes > 0 /\ Lately \in Nat /\ Lately = ProbingTimeout + MaxRtt
BY TimeAssumption, BoundAssumption DEF Lately

\* The cap counts up to Lately + 1 and never ahead.
LEMMA CapFacts ==
    ASSUME NEW n \in Nat
    PROVE  /\ Cap(n) \in Nat /\ Cap(n) <= n /\ Cap(n) <= Lately + 1
           /\ n <= Lately => Cap(n) = n
           /\ n > Lately => Cap(n) = Lately + 1
BY Numbers DEF Cap

\* Samples that are pushed stay within one above maxProbes.
LEMMA PushFacts ==
    ASSUME NEW s \in Seq(0..MaxRtt), Len(s) \in 1..(MaxProbes + 1), NEW calc \in 0..MaxRtt
    PROVE  PushSample(s, calc) \in Seq(0..MaxRtt) /\ Len(PushSample(s, calc)) \in 1..(MaxProbes + 1)
<1>1. CASE Len(s) > MaxProbes
  <2>1. s # <<>>
    BY EmptySeq, Numbers
  <2>2. Tail(s) \in Seq(0..MaxRtt) /\ Len(Tail(s)) = Len(s) - 1
    BY <2>1, HeadTailProperties
  <2>3. Append(Tail(s), calc) \in Seq(0..MaxRtt) /\ Len(Append(Tail(s), calc)) = Len(Tail(s)) + 1
    BY <2>2, AppendProperties
  <2> QED  BY <1>1, <2>2, <2>3, Numbers DEF PushSample
<1>2. CASE ~(Len(s) > MaxProbes)
  <2>1. Append(s, calc) \in Seq(0..MaxRtt) /\ Len(Append(s, calc)) = Len(s) + 1
    BY AppendProperties
  <2> QED  BY <1>2, <2>1, Numbers DEF PushSample
<1> QED  BY <1>1, <1>2

\* The mean of round-trip times is within their bound.
LEMMA MeanFacts ==
    ASSUME NEW s \in Seq(0..MaxRtt), Len(s) \in 1..(MaxProbes + 1)
    PROVE  FoldSeq(+, 0, s) \div Len(s) \in 0..MaxRtt
<1>1. PICK a, n : a = SumOf(s) /\ n = Len(s)
  OBVIOUS
<1>2. a \in Nat /\ n \in Nat /\ n > 0 /\ a <= n * MaxRtt
  BY <1>1, SumBound, Numbers
<1>3. a \div n \in Nat /\ a \div n <= MaxRtt
  BY <1>2, Numbers
<1>4. a \div n \in 0..MaxRtt
  BY <1>3, Numbers
<1> QED  BY <1>1, <1>4 DEF SumOf

\* A new entry was seen just now.
LEMMA EntryFacts ==
    ASSUME NEW h \in Host, NEW s \in Seq(0..MaxRtt), Len(s) \in 1..(MaxProbes + 1)
    PROVE  Kept(Entry(h, s), h) /\ Entry(h, s).seen = 0
<1>1. PICK m : m = FoldSeq(+, 0, s) \div Len(s)
  OBVIOUS
<1>2. m \in 0..MaxRtt
  BY <1>1, MeanFacts
<1>3. Entry(h, s) = [agentAddress |-> h, lastProbes |-> s, isList |-> Len(s) = 1, meanProbes |-> m, seen |-> 0]
  BY <1>1 DEF Entry, EntryDividingBy
<1> QED  BY <1>2, <1>3 DEF Kept

\* A ping is of its type, and known by its fields.
LEMMA PingFacts ==
    ASSUME Types, NEW p \in pings
    PROVE  p \in Pings /\ p.host \in Host /\ p.age \in Nat /\ p.age <= MaxRtt /\ p.by \in Id \cup {None}
BY Numbers DEF Types, Pings

\* Rounds stay settled when no time passes, no round begins, and what was
\* settled for a host that runs on stays so.
LEMMA RoundsKept ==
    ASSUME IInv, timers'.probing = timers.probing,
           \A h \in on' : \/ upFor'[h] = 0
                          \/ /\ h \in on /\ upFor'[h] = upFor[h]
                             /\ \A a \in Nat : Settling(h, a) => Settling(h, a)'
    PROVE  LastRound' /\ EveryRound'
<1>1. Since' = Since /\ Since \in Nat
  BY Numbers DEF Since, IInv, Types, Timers
<1>2. LastRound'
  BY <1>1 DEF LastRound, IInv
<1>3. ASSUME NEW h \in on', NEW w \in Nat, w + ProbingTimeout < upFor'[h]
      PROVE  \E a \in (w + 1)..(w + ProbingTimeout) : Settling(h, a)'
  <2>1. h \in on /\ upFor'[h] = upFor[h] /\ \A a \in Nat : Settling(h, a) => Settling(h, a)'
    BY <1>3, Numbers
  <2>2. PICK a \in (w + 1)..(w + ProbingTimeout) : Settling(h, a)
    BY <1>3, <2>1 DEF IInv, EveryRound
  <2>3. a \in Nat
    BY <2>2, Numbers
  <2> QED  BY <2>1, <2>2, <2>3
<1> QED  BY <1>2, <1>3 DEF EveryRound
-----------------------------------------------------------------------------
\* At first nothing has been sent.
LEMMA InitKeeps == ASSUME Init PROVE IInv
<1>1. DOMAIN turnProbes = {} /\ DOMAIN deadFor = {}
  BY DEF Init
<1>2. Types
  <2>1. timers \in Timers
    BY Numbers DEF Init, Timers
  <2>2. run \in [Host -> Nat] /\ upFor \in [Host -> 0..(Lately + 1)]
    BY Numbers DEF Init
  <2> QED  BY <1>1, <2>1, <2>2 DEF Init, Types
<1>3. \A h \in on : upFor[h] = 0
  BY DEF Init
<1>4. LastRound /\ EveryRound
  BY <1>3, Numbers DEF LastRound, EveryRound, Since, Init
<1>5. Buried /\ Posthumous /\ LastSeenHonest
  BY <1>1 DEF Init, Buried, Posthumous, LastSeenHonest
<1> QED  BY <1>2, <1>4, <1>5 DEF IInv

\* Reregister and Registered leave all this alone.
LEMMA RegistrationKeeps == ASSUME IInv, Reregister \/ Registered PROVE IInv'
<1>1. /\ UNCHANGED <<turnProbes, timers, pings, run, on, upFor, deadFor>>
      /\ isRegisteredAtBroker' \in BOOLEAN /\ posted' \in BOOLEAN
  BY DEF IInv, Types, Reregister, Registered, world, history
<1> QED
  BY <1>1 DEF IInv, Types, LastRound, EveryRound, Buried, Posthumous, LastSeenHonest, Since, Settling, Self

\* A round: each host is sent a ping.
LEMMA RunProbingKeeps == ASSUME IInv, RunProbing PROVE IInv'
<1>1. /\ timers.probing = 0 /\ timers' = [timers EXCEPT !.probing = ProbingTimeout]
      /\ pings' = pings \cup {[host |-> h, age |-> 0, by |-> None] : h \in Host}
      /\ UNCHANGED <<turnProbes, isRegisteredAtBroker, posted, run, on, upFor, deadFor>>
  BY DEF RunProbing, Probe, world, history
<1>2. Types /\ LastRound /\ EveryRound /\ Buried /\ Posthumous /\ LastSeenHonest
  BY DEF IInv
<1>3. timers' \in Timers /\ timers'.probing = ProbingTimeout
  BY <1>1, <1>2, Numbers DEF Types, Timers
<1>4. \A p \in pings' : p \in pings \/ (p \in Pings /\ p.by = None)
  BY <1>1, Numbers DEF Pings
<1>5. Types'
  <2>1. pings' \subseteq Pings /\ \A p \in pings' : p.by # None => p.by[1] = p.host
    BY <1>2, <1>4 DEF Types
  <2> QED  BY <1>1, <1>2, <1>3, <2>1 DEF Types
<1>6. LastRound'
  <2>1. Since' = 0
    BY <1>3, Numbers DEF Since
  <2>2. ASSUME NEW h \in on' PROVE \E p \in pings' : p.host = h /\ p.age = 0 /\ p.by = None
    <3>1. h \in Host
      BY <1>1, <1>2 DEF Types
    <3>2. [host |-> h, age |-> 0, by |-> None] \in pings'
      BY <1>1, <3>1
    <3> QED  BY <3>2
  <2> QED  BY <2>1, <2>2 DEF LastRound, Settling
<1>7. EveryRound'
  <2>1. \A h, a : Settling(h, a) => Settling(h, a)'
    BY <1>1 DEF Settling, Self
  <2> QED  BY <1>1, <1>2, <2>1 DEF EveryRound
<1>8. Buried' /\ LastSeenHonest'
  BY <1>1, <1>2 DEF Buried, LastSeenHonest
<1>9. Posthumous'
  BY <1>1, <1>2, <1>4 DEF Posthumous
<1> QED  BY <1>5, <1>6, <1>7, <1>8, <1>9 DEF IInv

\* An answer: its agent was seen just now.
LEMMA AnsweredKeeps == ASSUME IInv, NEW p \in pings, Answered(p) PROVE IInv'
<1>1. /\ p.by # None /\ pings' = pings \ {p} /\ StoreProbe(p.by, p.host, p.age)
      /\ UNCHANGED <<isRegisteredAtBroker, timers, posted, run, on, upFor, deadFor>>
  BY DEF Answered, world, history
<1>2. Types /\ LastRound /\ EveryRound /\ Buried /\ Posthumous /\ LastSeenHonest
  BY DEF IInv
<1>3. p.host \in Host /\ p.age \in Nat /\ p.age <= MaxRtt /\ p.by \in Id /\ p.by[1] = p.host
  BY <1>1, <1>2, PingFacts DEF Types
<1>4. /\ DOMAIN turnProbes' = DOMAIN turnProbes \cup {p.by}
      /\ \A i \in DOMAIN turnProbes : i # p.by => turnProbes'[i] = turnProbes[i]
      /\ Kept(turnProbes'[p.by], p.host) /\ turnProbes'[p.by].seen = 0
  <2>1. PICK s : s = IF p.by \in DOMAIN turnProbes THEN PushSample(turnProbes[p.by].lastProbes, p.age) ELSE <<p.age>>
    OBVIOUS
  <2>2. p.age \in 0..MaxRtt
    BY <1>3, Numbers
  <2>3. s \in Seq(0..MaxRtt) /\ Len(s) \in 1..(MaxProbes + 1)
    <3>1. CASE p.by \in DOMAIN turnProbes
      <4>1. Kept(turnProbes[p.by], p.by[1])
        BY <1>2, <3>1 DEF Types
      <4> QED  BY <2>1, <2>2, <3>1, <4>1, PushFacts DEF Kept
    <3>2. CASE p.by \notin DOMAIN turnProbes
      BY <2>1, <2>2, <3>2, Numbers
    <3> QED  BY <3>1, <3>2
  <2>4. Kept(Entry(p.host, s), p.host) /\ Entry(p.host, s).seen = 0
    BY <1>3, <2>3, EntryFacts
  <2>5. turnProbes' = [i \in DOMAIN turnProbes \cup {p.by} |-> IF i # p.by THEN turnProbes[i] ELSE Entry(p.host, s)]
    BY <1>1, <2>1 DEF StoreProbe
  <2> QED  BY <2>4, <2>5
<1>5. Types'
  <2>1. \A i \in DOMAIN turnProbes' : Kept(turnProbes'[i], i[1])
    BY <1>2, <1>3, <1>4 DEF Types
  <2> QED  BY <1>1, <1>2, <1>3, <1>4, <2>1 DEF Types
<1>6. LastRound' /\ EveryRound'
  <2>1. ASSUME NEW h \in on, NEW a \in Nat, Settling(h, a) PROVE Settling(h, a)'
    <3>1. Self(h)' = Self(h)
      BY <1>1 DEF Self
    <3>2. CASE Self(h) = p.by
      BY <1>4, <2>1, <3>1, <3>2 DEF Settling
    <3>3. CASE Self(h) # p.by
      BY <1>1, <1>4, <2>1, <3>1, <3>3 DEF Settling
    <3> QED  BY <3>2, <3>3
  <2> QED  BY <1>1, <2>1, RoundsKept
<1>7. Buried' /\ Posthumous'
  BY <1>1, <1>2 DEF Buried, Posthumous
<1>8. LastSeenHonest'
  <2>1. ASSUME NEW i \in DOMAIN deadFor, i \in DOMAIN turnProbes' PROVE turnProbes'[i].seen + MaxRtt >= deadFor[i]
    <3>1. CASE i = p.by
      BY <1>1, <1>2, <1>3, <1>4, <2>1, <3>1, Numbers DEF Posthumous, Types
    <3>2. CASE i # p.by
      BY <1>2, <1>4, <2>1, <3>2 DEF LastSeenHonest
    <3> QED  BY <3>1, <3>2
  <2> QED  BY <1>1, <2>1 DEF LastSeenHonest
<1> QED  BY <1>5, <1>6, <1>7, <1>8 DEF IInv

\* A ping that fails: its host's agent is not running.
LEMMA FailedKeeps == ASSUME IInv, NEW p \in pings, Failed(p) PROVE IInv'
<1>1. /\ p.host \notin on /\ pings' = pings \ {p}
      /\ UNCHANGED <<turnProbes, isRegisteredAtBroker, timers, posted, run, on, upFor, deadFor>>
  BY DEF Failed, FailedWith, world, history
<1>2. Types /\ Buried /\ Posthumous /\ LastSeenHonest
  BY DEF IInv
<1>3. Types'
  BY <1>1, <1>2 DEF Types
<1>4. LastRound' /\ EveryRound'
  <2>1. ASSUME NEW h \in on, NEW a \in Nat, Settling(h, a) PROVE Settling(h, a)'
    BY <1>1, <2>1 DEF Settling, Self
  <2> QED  BY <1>1, <2>1, RoundsKept
<1>5. Buried' /\ Posthumous' /\ LastSeenHonest'
  BY <1>1, <1>2 DEF Buried, Posthumous, LastSeenHonest
<1> QED  BY <1>3, <1>4, <1>5 DEF IInv

\* A ping or its answer is lost: the history begins anew.
LEMMA LoseKeeps == ASSUME IInv, NEW p \in pings, Lose(p) PROVE IInv'
<1>1. /\ pings' = pings \ {p} /\ upFor' = [upFor EXCEPT ![p.host] = 0]
      /\ UNCHANGED <<turnProbes, isRegisteredAtBroker, timers, posted, run, on, deadFor>>
  BY DEF Lose, agent
<1>2. Types /\ Buried /\ Posthumous /\ LastSeenHonest
  BY DEF IInv
<1>3. upFor' \in [Host -> 0..(Lately + 1)] /\ \A h \in Host : upFor'[h] = 0 \/ (h # p.host /\ upFor'[h] = upFor[h])
  <2>1. 0 \in 0..(Lately + 1)
    BY Numbers
  <2> QED  BY <1>1, <1>2, <2>1, Zenon DEF Types
<1>4. Types'
  BY <1>1, <1>2, <1>3 DEF Types
<1>5. LastRound' /\ EveryRound'
  <2>1. ASSUME NEW h \in on, h # p.host, NEW a \in Nat, Settling(h, a) PROVE Settling(h, a)'
    BY <1>1, <2>1 DEF Settling, Self
  <2>2. on \subseteq Host
    BY <1>2 DEF Types
  <2> QED  BY <1>1, <1>3, <2>1, <2>2, RoundsKept
<1>6. Buried' /\ Posthumous' /\ LastSeenHonest'
  BY <1>1, <1>2 DEF Buried, Posthumous, LastSeenHonest
<1> QED  BY <1>4, <1>5, <1>6 DEF IInv

\* A TURN agent answers: it is not among those that were stopped.
LEMMA PongKeeps == ASSUME IInv, NEW p \in pings, Pong(p) PROVE IInv'
<1>1. /\ p.by = None /\ p.host \in on
      /\ pings' = (pings \ {p}) \cup {[p EXCEPT !.by = Self(p.host)]}
      /\ UNCHANGED <<turnProbes, isRegisteredAtBroker, timers, posted, run, on, upFor, deadFor>>
  BY DEF Pong, agent, world, history
<1>2. Types /\ Buried /\ Posthumous /\ LastSeenHonest
  BY DEF IInv
<1>3. PICK q : q = [p EXCEPT !.by = Self(p.host)]
  OBVIOUS
<1>4. Self(p.host) \in Id /\ Self(p.host)[1] = p.host /\ Self(p.host)[2] = run[p.host] /\ run[p.host] \in Nat
  BY <1>1, <1>2 DEF Self, Id, Types
<1>5. q \in Pings /\ q.host = p.host /\ q.age = p.age /\ q.by = Self(p.host)
  BY <1>2, <1>3, <1>4, PingFacts DEF Pings
<1>6. pings' = (pings \ {p}) \cup {q}
  BY <1>1, <1>3
<1>7. Types'
  BY <1>1, <1>2, <1>4, <1>5, <1>6 DEF Types
<1>8. LastRound' /\ EveryRound'
  <2>1. ASSUME NEW h \in on, NEW a \in Nat, Settling(h, a) PROVE Settling(h, a)'
    <3>1. Self(h)' = Self(h)
      BY <1>1 DEF Self
    <3>2. CASE Self(h) \in DOMAIN turnProbes /\ turnProbes[Self(h)].seen <= a
      BY <1>1, <3>1, <3>2 DEF Settling
    <3>3. CASE \E x \in pings : x.host = h /\ x.age = a /\ x.by \in {None, Self(h)}
      <4>1. PICK x \in pings : x.host = h /\ x.age = a /\ x.by \in {None, Self(h)}
        BY <3>3
      <4>2. CASE x = p
        <5>1. q \in pings' /\ q.host = h /\ q.age = a /\ q.by = Self(h)
          BY <1>5, <1>6, <4>1, <4>2
        <5> QED  BY <3>1, <5>1 DEF Settling
      <4>3. CASE x # p
        <5>1. x \in pings'
          BY <1>6, <4>3
        <5> QED  BY <3>1, <4>1, <5>1 DEF Settling
      <4> QED  BY <4>2, <4>3
    <3> QED  BY <2>1, <3>2, <3>3 DEF Settling
  <2> QED  BY <1>1, <2>1, RoundsKept
<1>9. Buried' /\ LastSeenHonest'
  BY <1>1, <1>2 DEF Buried, LastSeenHonest
<1>10. Posthumous'
  <2>1. Self(p.host) \notin DOMAIN deadFor
    BY <1>1, <1>2, <1>4 DEF Buried
  <2> QED  BY <1>1, <1>2, <1>5, <1>6, <2>1 DEF Posthumous
<1> QED  BY <1>7, <1>8, <1>9, <1>10 DEF IInv

\* A TURN agent is stopped.
LEMMA StopKeeps == ASSUME IInv, NEW h \in Host, Stop(h) PROVE IInv'
<1>1. /\ h \in on /\ on' = on \ {h}
      /\ deadFor' = [i \in DOMAIN deadFor \cup {Self(h)} |-> IF i = Self(h) THEN 0 ELSE deadFor[i]]
      /\ UNCHANGED <<turnProbes, isRegisteredAtBroker, timers, posted, pings, run, upFor>>
  BY DEF Stop, agent
<1>2. Types /\ Buried /\ Posthumous /\ LastSeenHonest
  BY DEF IInv
<1>3. Self(h) \in Id /\ Self(h)[1] = h /\ Self(h)[2] = run[h] /\ run[h] \in Nat
  BY <1>2 DEF Self, Id, Types
<1>4. /\ DOMAIN deadFor' = DOMAIN deadFor \cup {Self(h)} /\ deadFor'[Self(h)] = 0
      /\ \A i \in DOMAIN deadFor : i # Self(h) => deadFor'[i] = deadFor[i]
  BY <1>1
<1>5. Types'
  <2>1. \A i \in DOMAIN deadFor' : deadFor'[i] \in Nat
    BY <1>2, <1>4 DEF Types
  <2> QED  BY <1>1, <1>2, <1>3, <1>4, <2>1 DEF Types
<1>6. LastRound' /\ EveryRound'
  <2>1. ASSUME NEW g \in on, NEW a \in Nat, Settling(g, a) PROVE Settling(g, a)'
    BY <1>1, <2>1 DEF Settling, Self
  <2> QED  BY <1>1, <2>1, RoundsKept
<1>7. Buried'
  <2>1. ASSUME NEW i \in DOMAIN deadFor' PROVE i[2] <= run'[i[1]] /\ (i[1] \in on' => i[2] < run'[i[1]])
    <3>1. CASE i = Self(h)
      BY <1>1, <1>3, <3>1
    <3>2. CASE i # Self(h)
      BY <1>1, <1>2, <1>4, <3>2 DEF Buried
    <3> QED  BY <3>1, <3>2
  <2> QED  BY <2>1 DEF Buried
<1>8. Posthumous'
  <2>1. ASSUME NEW p \in pings, p.by # None, p.by \in DOMAIN deadFor' PROVE deadFor'[p.by] <= p.age
    <3>1. p.age \in Nat
      BY <1>2, PingFacts
    <3> QED  BY <1>2, <1>4, <2>1, <3>1 DEF Posthumous
  <2> QED  BY <1>1, <2>1 DEF Posthumous
<1>9. LastSeenHonest'
  <2>1. ASSUME NEW i \in DOMAIN deadFor', i \in DOMAIN turnProbes PROVE turnProbes[i].seen + MaxRtt >= deadFor'[i]
    <3>1. turnProbes[i].seen \in Nat
      BY <1>2, <2>1 DEF Types, Kept
    <3> QED  BY <1>2, <1>4, <2>1, <3>1, Numbers DEF LastSeenHonest
  <2> QED  BY <1>1, <2>1 DEF LastSeenHonest
<1> QED  BY <1>5, <1>6, <1>7, <1>8, <1>9 DEF IInv

\* A TURN agent is started, under an id that is new.
LEMMA StartKeeps == ASSUME IInv, NEW h \in Host, Start(h) PROVE IInv'
<1>1. /\ on' = on \cup {h} /\ run' = [run EXCEPT ![h] = @ + 1] /\ upFor' = [upFor EXCEPT ![h] = 0]
      /\ UNCHANGED <<turnProbes, isRegisteredAtBroker, timers, posted, pings, deadFor>>
  BY DEF Start, agent
<1>2. Types /\ Buried /\ Posthumous /\ LastSeenHonest
  BY DEF IInv
<1>3. /\ run' \in [Host -> Nat] /\ run'[h] = run[h] + 1 /\ \A g \in Host : g # h => run'[g] = run[g]
      /\ \A g \in Host : run[g] \in Nat
  BY <1>1, <1>2 DEF Types
<1>4. upFor' \in [Host -> 0..(Lately + 1)] /\ upFor'[h] = 0 /\ \A g \in Host : g # h => upFor'[g] = upFor[g]
  BY <1>1, <1>2, Numbers DEF Types
<1>5. Types'
  BY <1>1, <1>2, <1>3, <1>4 DEF Types
<1>6. LastRound' /\ EveryRound'
  <2>1. ASSUME NEW g \in on, g # h, NEW a \in Nat, Settling(g, a) PROVE Settling(g, a)'
    <3>1. Self(g)' = Self(g)
      BY <1>2, <1>3, <2>1 DEF Self, Types
    <3> QED  BY <1>1, <2>1, <3>1 DEF Settling
  <2>2. on \subseteq Host
    BY <1>2 DEF Types
  <2> QED  BY <1>1, <1>4, <2>1, <2>2, RoundsKept
<1>7. Buried'
  <2>1. ASSUME NEW i \in DOMAIN deadFor PROVE i[2] <= run'[i[1]] /\ (i[1] \in on' => i[2] < run'[i[1]])
    <3>1. i[1] \in Host /\ i[2] \in Nat
      BY <1>2, <2>1 DEF Types, Id
    <3>2. i[2] <= run[i[1]] /\ (i[1] \in on => i[2] < run[i[1]])
      BY <1>2, <2>1 DEF Buried
    <3>3. CASE i[1] = h
      BY <1>3, <3>1, <3>2, <3>3
    <3>4. CASE i[1] # h
      BY <1>1, <1>3, <3>1, <3>2, <3>4
    <3> QED  BY <3>3, <3>4
  <2> QED  BY <1>1, <2>1 DEF Buried
<1>8. Posthumous' /\ LastSeenHonest'
  BY <1>1, <1>2 DEF Posthumous, LastSeenHonest
<1> QED  BY <1>5, <1>6, <1>7, <1>8 DEF IInv

\* Time passes: pings, sightings and histories grow older together.
LEMMA TickKeeps == ASSUME IInv, Tick PROVE IInv'
<1>1. /\ timers.probing > 0 /\ \A p \in pings : p.age < MaxRtt
      /\ pings' = {Older(p) : p \in pings}
      /\ timers' = [probing |-> timers.probing - 1, register |-> IF timers.register > 0 THEN timers.register - 1 ELSE 0]
      /\ turnProbes' = [i \in DOMAIN turnProbes |-> [turnProbes[i] EXCEPT !.seen = Cap(@ + 1)]]
      /\ upFor' = [h \in Host |-> IF h \in on THEN Cap(upFor[h] + 1) ELSE 0]
      /\ deadFor' = [i \in DOMAIN deadFor |-> Cap(deadFor[i] + 1)]
      /\ UNCHANGED <<isRegisteredAtBroker, posted, run, on>>
  BY DEF Tick, world
<1>2. Types /\ LastRound /\ EveryRound /\ Buried /\ Posthumous /\ LastSeenHonest
  BY DEF IInv
<1>3. timers' \in Timers /\ Since' = Since + 1 /\ Since \in Nat /\ Since < ProbingTimeout
  <2>1. timers.probing \in 0..ProbingTimeout /\ timers.register \in 0..RegisterTimeout
    BY <1>2 DEF Types, Timers
  <2> QED  BY <1>1, <2>1, Numbers DEF Timers, Since
<1>4. ASSUME NEW p \in pings
      PROVE  /\ Older(p) \in pings' /\ Older(p) \in Pings /\ Older(p).host = p.host /\ Older(p).age = p.age + 1
             /\ Older(p).by = p.by /\ p.age \in Nat
  <2>1. p \in Pings /\ p.age \in Nat /\ p.age < MaxRtt
    BY <1>1, <1>2, PingFacts
  <2>2. p.age + 1 \in 0..MaxRtt
    BY <2>1, Numbers
  <2> QED  BY <1>1, <2>1, <2>2 DEF Older, Pings
<1>5. ASSUME NEW i \in DOMAIN turnProbes
      PROVE  /\ Kept(turnProbes'[i], i[1]) /\ turnProbes[i].seen \in Nat
             /\ turnProbes'[i].seen = Cap(turnProbes[i].seen + 1) /\ turnProbes'[i].seen \in Nat
  <2>1. Kept(turnProbes[i], i[1])
    BY <1>2 DEF Types
  <2>2. turnProbes'[i] = [turnProbes[i] EXCEPT !.seen = Cap(turnProbes[i].seen + 1)]
    BY <1>1
  <2>3. Cap(turnProbes[i].seen + 1) \in Nat
    BY <2>1, CapFacts DEF Kept
  <2>4. PICK c : c = Cap(turnProbes[i].seen + 1)
    OBVIOUS
  <2>5. PICK e : e = turnProbes[i]
    OBVIOUS
  <2>6. turnProbes'[i] = [e EXCEPT !.seen = c] /\ Kept(e, i[1]) /\ c \in Nat
    BY <2>1, <2>2, <2>3, <2>4, <2>5
  <2>7. turnProbes'[i].seen = c /\ Kept(turnProbes'[i], i[1])
    BY <2>6 DEF Kept
  <2> QED  BY <2>1, <2>4, <2>5, <2>6, <2>7 DEF Kept
<1>6. DOMAIN turnProbes' = DOMAIN turnProbes /\ DOMAIN deadFor' = DOMAIN deadFor
  BY <1>1
<1>7. ASSUME NEW i \in DOMAIN deadFor
      PROVE  deadFor[i] \in Nat /\ deadFor'[i] = Cap(deadFor[i] + 1) /\ deadFor'[i] \in Nat
  <2>1. deadFor[i] \in Nat /\ deadFor'[i] = Cap(deadFor[i] + 1)
    BY <1>1, <1>2 DEF Types
  <2> QED  BY <2>1, CapFacts
<1>8. ASSUME NEW h \in Host
      PROVE  /\ upFor[h] \in Nat /\ upFor'[h] \in 0..(Lately + 1) /\ (h \in on => upFor'[h] <= upFor[h] + 1)
  <2>1. upFor[h] \in Nat
    BY <1>2, Numbers DEF Types
  <2>2. Cap(upFor[h] + 1) \in 0..(Lately + 1) /\ Cap(upFor[h] + 1) <= upFor[h] + 1
    BY <2>1, CapFacts, Numbers
  <2>3. upFor'[h] = IF h \in on THEN Cap(upFor[h] + 1) ELSE 0
    BY <1>1
  <2> QED  BY <2>1, <2>2, <2>3, Numbers
<1>9. Types'
  <2>1. \A i \in DOMAIN turnProbes' : Kept(turnProbes'[i], i[1])
    BY <1>5, <1>6
  <2>2. \A i \in DOMAIN deadFor' : deadFor'[i] \in Nat
    BY <1>6, <1>7
  <2>3. pings' \subseteq Pings /\ \A p \in pings' : p.by # None => p.by[1] = p.host
    BY <1>1, <1>2, <1>4 DEF Types
  <2>4. upFor' \in [Host -> 0..(Lately + 1)]
    BY <1>1, <1>8
  <2> QED  BY <1>1, <1>2, <1>3, <1>6, <2>1, <2>2, <2>3, <2>4 DEF Types
<1>10. ASSUME NEW h \in on, NEW a \in Nat, Settling(h, a) PROVE Settling(h, a + 1)'
  <2>1. Self(h)' = Self(h)
    BY <1>1 DEF Self
  <2>2. CASE Self(h) \in DOMAIN turnProbes /\ turnProbes[Self(h)].seen <= a
    <3>1. turnProbes'[Self(h)].seen <= a + 1
      <4>1. PICK s : s = turnProbes[Self(h)].seen
        OBVIOUS
      <4>2. s \in Nat /\ s <= a /\ turnProbes'[Self(h)].seen = Cap(s + 1)
        BY <1>5, <2>2, <4>1
      <4>3. Cap(s + 1) <= s + 1 /\ Cap(s + 1) \in Nat
        BY <4>2, CapFacts
      <4> QED  BY <4>2, <4>3
    <3> QED  BY <1>6, <2>1, <2>2, <3>1 DEF Settling
  <2>3. CASE \E p \in pings : p.host = h /\ p.age = a /\ p.by \in {None, Self(h)}
    BY <1>4, <2>1, <2>3 DEF Settling
  <2> QED  BY <1>10, <2>2, <2>3 DEF Settling
<1>11. LastRound'
  <2>1. PICK e \in Nat : e = Since /\ Since' = e + 1
    BY <1>3
  <2>2. ASSUME NEW h \in on, e + 1 < upFor'[h] PROVE Settling(h, e + 1)'
    <3>1. e < upFor[h]
      BY <1>2, <1>8, <2>1, <2>2, Numbers DEF Types
    <3>2. Settling(h, e)
      BY <1>2, <2>1, <3>1 DEF LastRound
    <3> QED  BY <1>10, <3>2
  <2> QED  BY <1>1, <2>1, <2>2 DEF LastRound, Settling
<1>12. EveryRound'
  <2>1. ASSUME NEW h \in on, NEW w \in Nat, w + ProbingTimeout < upFor'[h]
        PROVE  \E a \in (w + 1)..(w + ProbingTimeout) : Settling(h, a)'
    <3>1. h \in Host /\ upFor[h] \in Nat /\ upFor'[h] \in Nat /\ upFor'[h] <= upFor[h] + 1
      BY <1>2, <1>8, Numbers DEF Types
    <3>2. CASE w = 0
      <4>1. PICK e \in Nat : e = Since
        BY <1>3
      <4>2. e < upFor[h] /\ e + 1 \in (w + 1)..(w + ProbingTimeout)
        BY <1>3, <2>1, <3>1, <3>2, <4>1, Numbers
      <4>3. Settling(h, e)
        BY <1>2, <4>1, <4>2 DEF LastRound
      <4>4. Settling(h, e + 1)'
        BY <1>10, <4>3
      <4> QED  BY <4>2, <4>4
    <3>3. CASE w # 0
      <4>1. w - 1 \in Nat /\ (w - 1) + ProbingTimeout < upFor[h]
        BY <2>1, <3>1, <3>3, Numbers
      <4>2. PICK a \in ((w - 1) + 1)..((w - 1) + ProbingTimeout) : Settling(h, a)
        BY <1>2, <4>1 DEF EveryRound
      <4>3. a \in Nat /\ a + 1 \in (w + 1)..(w + ProbingTimeout)
        BY <3>3, <4>2, Numbers
      <4>4. Settling(h, a + 1)'
        BY <1>10, <4>2, <4>3
      <4> QED  BY <4>3, <4>4
    <3> QED  BY <3>2, <3>3
  <2> QED  BY <1>1, <2>1 DEF EveryRound
<1>13. Buried'
  BY <1>1, <1>2, <1>6 DEF Buried
<1>14. Posthumous'
  <2>1. ASSUME NEW p \in pings, p.by # None, p.by \in DOMAIN deadFor PROVE deadFor'[p.by] <= p.age + 1
    <3>1. deadFor[p.by] \in Nat /\ deadFor[p.by] <= p.age /\ p.age \in Nat /\ deadFor'[p.by] = Cap(deadFor[p.by] + 1)
      BY <1>2, <1>4, <1>7, <2>1 DEF Posthumous
    <3>2. Cap(deadFor[p.by] + 1) <= deadFor[p.by] + 1 /\ Cap(deadFor[p.by] + 1) \in Nat
      BY <3>1, CapFacts
    <3> QED  BY <3>1, <3>2
  <2>2. \A q \in pings' : \E p \in pings : q = Older(p)
    BY <1>1
  <2> QED  BY <1>4, <1>6, <2>1, <2>2 DEF Posthumous
<1>15. LastSeenHonest'
  <2>1. ASSUME NEW i \in DOMAIN deadFor, i \in DOMAIN turnProbes
        PROVE  turnProbes'[i].seen + MaxRtt >= deadFor'[i]
    <3>1. PICK s, d : s = turnProbes[i].seen /\ d = deadFor[i]
      OBVIOUS
    <3>2. s \in Nat /\ d \in Nat /\ s + MaxRtt >= d
      BY <1>2, <1>5, <1>7, <2>1, <3>1 DEF LastSeenHonest
    <3>3. /\ Cap(s + 1) \in Nat /\ Cap(d + 1) \in Nat /\ Cap(d + 1) <= d + 1 /\ Cap(d + 1) <= Lately + 1
          /\ s + 1 <= Lately => Cap(s + 1) = s + 1
          /\ s + 1 > Lately => Cap(s + 1) = Lately + 1
      BY <3>2, CapFacts
    <3>4. Cap(s + 1) + MaxRtt >= Cap(d + 1)
      BY <3>2, <3>3, Numbers
    <3> QED  BY <1>5, <1>7, <2>1, <3>1, <3>4
  <2> QED  BY <1>6, <2>1 DEF LastSeenHonest
<1> QED  BY <1>9, <1>11, <1>12, <1>13, <1>14, <1>15 DEF IInv

\* Every step keeps the invariant.
LEMMA NextKeeps == ASSUME IInv, [Next]_vars PROVE IInv'
<1>1. CASE UNCHANGED vars
  BY <1>1 DEF vars, agent, world, history, IInv, Types, LastRound, EveryRound, Buried, Posthumous, LastSeenHonest,
              Since, Settling, Self
<1>2. CASE Reregister \/ Registered \/ RunProbing \/ Tick
  BY <1>2, RegistrationKeeps, RunProbingKeeps, TickKeeps
<1>3. ASSUME NEW p \in pings, Answered(p) \/ Failed(p) \/ Pong(p) \/ Lose(p) PROVE IInv'
  BY <1>3, AnsweredKeeps, FailedKeeps, PongKeeps, LoseKeeps
<1>4. ASSUME NEW h \in Host, Stop(h) \/ Start(h) PROVE IInv'
  BY <1>4, StopKeeps, StartKeeps
<1> QED  BY <1>1, <1>2, <1>3, <1>4 DEF Next
-----------------------------------------------------------------------------
\* The invariant holds in every state the agents and the network reach.
THEOREM Invariance == Spec => []IInv
<1>1. Init => IInv
  BY InitKeeps
<1>2. IInv /\ [Next]_vars => IInv'
  BY NextKeeps
<1> QED  BY <1>1, <1>2, PTL DEF Spec

\* Each variable keeps its type: every agent that is known has a sample, and the
\* mean _storeProbe takes of the samples is within their bound.
THEOREM TypeCorrectness == Spec => []TypeOK
<1>1. Types => TypeOK
  <2>1. \A n \in 0..(Lately + 1) : n \in 0..Cap(Lately + 1)
    BY Numbers, CapFacts
  <2>2. ASSUME Types PROVE upFor \in [Host -> 0..Cap(Lately + 1)]
    BY <2>1, <2>2 DEF Types
  <2>3. ASSUME Types PROVE \A p \in pings : p.host \in Host /\ p.age \in 0..MaxRtt
    BY <2>3 DEF Types, Pings
  <2>4. ASSUME Types PROVE timers.probing \in 0..ProbingTimeout /\ timers.register \in 0..RegisterTimeout
    BY <2>4 DEF Types, Timers
  <2>5. ASSUME Types, NEW i \in DOMAIN turnProbes PROVE turnProbes[i].lastProbes # <<>>
    <3>1. Len(turnProbes[i].lastProbes) \in 1..(MaxProbes + 1)
      BY <2>5 DEF Types, Kept
    <3> QED  BY <3>1
  <2> QED  BY <2>2, <2>3, <2>4, <2>5 DEF Types, TypeOK, Kept
<1> QED  BY <1>1, Invariance, PTL DEF IInv

\* A TURN agent that has been running for a round and an answer is known by its
\* current id and was seen within a round and an answer, though _storeProbe takes
\* the answers of overlapping rounds in any order and the agent's earlier ids too.
THEOREM RunningAgentsSeen == Spec => []SeenLately
<1>1. IInv => SeenLately
  <2>1. ASSUME Types, EveryRound, NEW h \in on, upFor[h] > Lately
        PROVE  Self(h) \in DOMAIN turnProbes /\ turnProbes[Self(h)].seen <= Lately
    <3>1. MaxRtt \in Nat /\ MaxRtt + ProbingTimeout < upFor[h]
      BY <2>1, Numbers DEF Types
    <3>2. PICK a \in (MaxRtt + 1)..(MaxRtt + ProbingTimeout) : Settling(h, a)
      BY <2>1, <3>1 DEF EveryRound
    <3>3. \A p \in pings : p.age # a
      BY <2>1, <3>2, PingFacts, Numbers
    <3>4. Self(h) \in DOMAIN turnProbes /\ turnProbes[Self(h)].seen <= a
      BY <3>2, <3>3 DEF Settling
    <3>5. turnProbes[Self(h)].seen \in Nat
      BY <2>1, <3>4 DEF Types, Kept
    <3> QED  BY <3>2, <3>4, <3>5, Numbers
  <2> QED  BY <2>1 DEF IInv, SeenLately
<1> QED  BY <1>1, Invariance, PTL

\* lastSeen of a TURN agent that has stopped is not later than an answer after
\* that, through restarts of the same host and answers still on their way.
THEOREM StoppedAgentsHonest == Spec => []LastSeenHonest
<1>1. IInv => LastSeenHonest
  BY DEF IInv
<1> QED  BY <1>1, Invariance, PTL
=============================================================================
