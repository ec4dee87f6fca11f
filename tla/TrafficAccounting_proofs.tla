---------------------- MODULE TrafficAccounting_proofs ----------------------
(***************************************************************************)
(* The books of the traffic balance: what a session is billed, what is on  *)
(* its way to be billed, what nobody was subscribed to and what is not     *)
(* reported yet add up to what was relayed, for every number of sessions,  *)
(* packets and faults, every size of packets and every Chunk.              *)
(***************************************************************************)
EXTENDS TrafficAccounting, Sums

\* What an event is worth to the bill of s.
Charge(s, e) == IF e.kind = "message" /\ e.s = s THEN e.bytes ELSE 0
Charges(s, q) == [i \in 1..Len(q) |-> Charge(s, q[i])]
Paid(s, q) == SumOf(Charges(s, q))

\* As long as nothing breaks, a session that was billed or is about to be is
\* subscribed to.
BilledSubscribed ==
    faults = 0 => \A s \in Session :
        billed[s] > 0 \/ (\E i \in 1..Len(events) : events[i].kind = "message" /\ events[i].s = s)
        => s \in subscribed

IInv == TypeOK /\ NeverOverbilled /\ OnlyEarlyReportsMissed /\ BilledSubscribed
-----------------------------------------------------------------------------
(***************************************************************************)
(* The sums.                                                               *)
(***************************************************************************)
\* What is reported is the sum of the reports on their way.
LEMMA ReportedIs ==
    ASSUME NEW s
    PROVE  Reported(s) = SumOf(out[s]) /\ Reported(s)' = SumOf(out'[s])
BY DEF Reported, SumOf, FoldSeq, FoldFunction, FoldFunctionOnSet, MapThenFoldSet

\* The charges of a sequence of events are a sequence of numbers.
LEMMA ChargesType ==
    ASSUME NEW s, NEW q \in Seq(Event)
    PROVE  /\ Len(q) \in Nat /\ q \in [1..Len(q) -> Event] /\ DOMAIN q = 1..Len(q)
           /\ Charges(s, q) \in Seq(Nat) /\ Len(Charges(s, q)) = Len(q)
           /\ DOMAIN Charges(s, q) = 1..Len(q)
<1>1. Len(q) \in Nat /\ q \in [1..Len(q) -> Event] /\ DOMAIN q = 1..Len(q)
  BY LenProperties
<1>2. \A i \in 1..Len(q) : Charge(s, q[i]) \in Nat
  BY <1>1 DEF Charge, Event
<1> QED  BY <1>1, <1>2 DEF Charges

\* What was delivered is the sum of the charges.
LEMMA DeliveredIs ==
    ASSUME NEW s, NEW q \in Seq(Event)
    PROVE  FoldSeq(LAMBDA e, sum : (IF e.kind = "message" /\ e.s = s THEN e.bytes ELSE 0) + sum, 0, q)
           = Paid(s, q)
<1>1. PICK v : v = Charges(s, q)
  OBVIOUS
<1>2. v \in Seq(Nat) /\ Len(v) = Len(q) /\ DOMAIN q = 1..Len(q) /\ Len(q) \in Nat /\ v \in [1..Len(q) -> Nat]
  BY <1>1, ChargesType, LenProperties
<1>3. PICK G : AddsUp(v, Len(q), G) /\ SumOf(v) = G[1..Len(q)]
  BY <1>2, SumAdds
<1>4. G = Steps(v, DOMAIN q, G) /\ \A H : H = Steps(v, DOMAIN q, H) => H = G
  BY <1>2, <1>3, SumUnique
<1> DEFINE Folding(H) ==
      [t \in SUBSET DOMAIN q |->
          IF t = {} THEN 0
          ELSE (IF q[CHOOSE x \in t : TRUE].kind = "message" /\ q[CHOOSE x \in t : TRUE].s = s
                THEN q[CHOOSE x \in t : TRUE].bytes ELSE 0) + H[t \ {CHOOSE x \in t : TRUE}]]
<1>5. ASSUME NEW H PROVE Folding(H) = Steps(v, DOMAIN q, H)
  <2>1. ASSUME NEW t \in SUBSET DOMAIN q, t # {}
        PROVE  v[Pick(t)] = IF q[Pick(t)].kind = "message" /\ q[Pick(t)].s = s THEN q[Pick(t)].bytes ELSE 0
    <3>1. Pick(t) \in 1..Len(q)
      BY <1>2, <2>1 DEF Pick
    <3> QED  BY <1>1, <3>1 DEF Charges, Charge
  <2> QED  BY <2>1 DEF Steps, Pick
<1>6. G = Folding(G) /\ \A H : H = Folding(H) => H = G
  <2> HIDE DEF Folding
  <2> QED  BY <1>4, <1>5
<1>7. FoldSeq(LAMBDA e, sum : (IF e.kind = "message" /\ e.s = s THEN e.bytes ELSE 0) + sum, 0, q)
      = G[DOMAIN q]
  BY <1>6 DEF FoldSeq, FoldFunction, FoldFunctionOnSet, MapThenFoldSet
<1> QED  BY <1>1, <1>2, <1>3, <1>7 DEF Paid

\* A charge that is appended is added; the head's is the first; no event, no
\* charge.
LEMMA PaidAppend ==
    ASSUME NEW s, NEW q \in Seq(Event), NEW e \in Event
    PROVE  Paid(s, Append(q, e)) = Paid(s, q) + Charge(s, e)
<1>1. PICK n, p : n = Len(q) /\ p = Append(q, e)
  OBVIOUS
<1>2. n \in Nat /\ p \in Seq(Event) /\ Len(p) = n + 1 /\ p[n + 1] = e /\ \A i \in 1..n : p[i] = q[i]
  BY <1>1, AppendProperties, LenProperties
<1>3. PICK v : v = Charges(s, q)
  OBVIOUS
<1>4. v \in Seq(Nat) /\ Len(v) = n /\ Charge(s, e) \in Nat
  <2>1. Charge(s, e) \in Nat
    BY DEF Charge, Event
  <2> QED  BY <1>1, <1>3, <2>1, ChargesType
<1>5. PICK w : w = Append(v, Charge(s, e))
  OBVIOUS
<1>6. w \in Seq(Nat) /\ Len(w) = n + 1 /\ w[n + 1] = Charge(s, e) /\ \A i \in 1..n : w[i] = v[i]
  BY <1>4, <1>5, AppendProperties
<1>7. Charges(s, p) = w
  <2>1. Charges(s, p) \in Seq(Nat) /\ Len(Charges(s, p)) = n + 1
    BY <1>2, ChargesType
  <2>2. \A i \in 1..(n + 1) : Charges(s, p)[i] = w[i]
    <3>1. \A i \in 1..n : v[i] = Charge(s, q[i])
      BY <1>1, <1>3 DEF Charges
    <3>2. \A i \in 1..(n + 1) : Charges(s, p)[i] = Charge(s, p[i])
      BY <1>2 DEF Charges
    <3>3. \A i \in 1..(n + 1) : i \in 1..n \/ i = n + 1
      BY <1>2
    <3> QED  BY <1>2, <1>6, <3>1, <3>2, <3>3
  <2> QED  BY <1>6, <2>1, <2>2, SeqEqual
<1>8. SumOf(w) = SumOf(v) + Charge(s, e)
  BY <1>4, <1>5, SumAppend
<1> QED  BY <1>1, <1>3, <1>7, <1>8 DEF Paid

\* The head's charge is part of what is to be paid.
LEMMA PaidTail ==
    ASSUME NEW s, NEW q \in Seq(Event), q # <<>>
    PROVE  Paid(s, q) = Charge(s, Head(q)) + Paid(s, Tail(q))
<1>1. PICK n, t : n = Len(q) - 1 /\ t = Tail(q)
  OBVIOUS
<1>2. n \in Nat /\ Len(q) = n + 1 /\ t \in Seq(Event) /\ Len(t) = n /\ q[1] = Head(q) /\ \A i \in 1..n : t[i] = q[i + 1]
  BY <1>1, HeadTailProperties, LenProperties, EmptySeq
<1>3. PICK v : v = Charges(s, q)
  OBVIOUS
<1>4. v \in Seq(Nat) /\ Len(v) = n + 1 /\ v # <<>> /\ \A i \in 1..(n + 1) : v[i] = Charge(s, q[i])
  <2>1. v \in Seq(Nat) /\ Len(v) = n + 1
    BY <1>2, <1>3, ChargesType
  <2>2. \A i \in 1..(n + 1) : v[i] = Charge(s, q[i])
    BY <1>2, <1>3 DEF Charges
  <2> QED  BY <1>2, <2>1, <2>2, EmptySeq
<1>5. PICK u : u = Tail(v)
  OBVIOUS
<1>6. u \in Seq(Nat) /\ Len(u) = n /\ Head(v) = v[1] /\ \A i \in 1..n : u[i] = v[i + 1]
  BY <1>2, <1>4, <1>5, HeadTailProperties
<1>7. Charges(s, t) = u
  <2>1. Charges(s, t) \in Seq(Nat) /\ Len(Charges(s, t)) = n
    BY <1>2, ChargesType
  <2>2. \A i \in 1..n : Charges(s, t)[i] = u[i]
    <3>1. \A i \in 1..n : Charges(s, t)[i] = Charge(s, t[i])
      BY <1>2 DEF Charges
    <3>2. \A i \in 1..n : i + 1 \in 1..(n + 1)
      BY <1>2
    <3> QED  BY <1>2, <1>4, <1>6, <3>1, <3>2
  <2> QED  BY <1>6, <2>1, <2>2, SeqEqual
<1>8. 1 \in 1..(n + 1)
  BY <1>2
<1>9. SumOf(v) = Head(v) + SumOf(u) /\ Head(v) = Charge(s, Head(q))
  BY <1>2, <1>4, <1>5, <1>6, <1>8, SumTail
<1> QED  BY <1>1, <1>3, <1>7, <1>9 DEF Paid

\* No event, no charge; and no debt.
LEMMA PaidBasics ==
    ASSUME NEW s
    PROVE  Paid(s, <<>>) = 0 /\ \A q \in Seq(Event) : Paid(s, q) \in Nat
<1>1. \A q \in Seq(Event) : Paid(s, q) \in Nat
  BY ChargesType, SumAdds DEF Paid
<1>2. <<>> \in Seq(Event) /\ Len(<<>>) = 0
  BY EmptySeq
<1>3. Charges(s, <<>>) \in Seq(Nat) /\ Len(Charges(s, <<>>)) = 0
  BY <1>2, ChargesType
<1>4. Charges(s, <<>>) = <<>>
  BY <1>3, EmptySeq
<1> QED  BY <1>1, <1>4, SumEmpty DEF Paid
-----------------------------------------------------------------------------
(***************************************************************************)
(* What the actions do to sequences.                                       *)
(***************************************************************************)
\* turn_report_session_usage moves bytes from the counter to the report and loses
\* none; a counter that reaches the Chunk starts anew.
LEMMA Reporting ==
    ASSUME TypeOK, NEW s \in Session,
           NEW c \in [realm : BOOLEAN, open : BOOLEAN, rp : Nat, sp : Nat, sb : Nat, tsb : Nat],
           c.rp + c.sp <= Chunk, Report(s, c)
    PROVE  /\ ss' \in [Session -> Stats] /\ \A t \in Session : ss'[t].rp + ss'[t].sp < Chunk
           /\ out' \in [Session -> Seq(Nat)]
           /\ SumOf(out'[s]) + ss'[s].sb = SumOf(out[s]) + c.sb
           /\ \A t \in Session \ {s} : ss'[t] = ss[t] /\ out'[t] = out[t]
<1>1. Chunk \in Nat /\ Chunk > 0 /\ Chunk % Chunk = 0
  BY ChunkAssumption
<1>2. ss \in [Session -> Stats] /\ out \in [Session -> Seq(Nat)] /\ out[s] \in Seq(Nat)
      /\ \A t \in Session : ss[t].rp + ss[t].sp < Chunk
  BY DEF TypeOK
<1>3. SumOf(out[s]) \in Nat /\ c.sb \in Nat
  BY <1>2, SumAdds
<1>4. CASE (c.rp + c.sp) % Chunk = 0
  <2>1. PICK d : d = [c EXCEPT !.rp = 0, !.sp = 0, !.sb = 0, !.tsb = @ + c.sb]
    OBVIOUS
  <2>2. d \in Stats /\ d.rp = 0 /\ d.sp = 0 /\ d.sb = 0
    <3>1. d = [realm |-> c.realm, open |-> c.open, rp |-> 0, sp |-> 0, sb |-> 0, tsb |-> c.tsb + c.sb]
      BY <2>1
    <3>2. c.realm \in BOOLEAN /\ c.open \in BOOLEAN /\ c.tsb + c.sb \in Nat /\ 0 \in 0..(Chunk - 1)
      BY <1>1
    <3> QED  BY <3>1, <3>2 DEF Stats
  <2>3. ss' = [ss EXCEPT ![s] = d] /\ out' = [out EXCEPT ![s] = Append(@, c.sb)]
    BY <1>4, <2>1 DEF Report
  <2>4. ss'[s] = d /\ \A t \in Session \ {s} : ss'[t] = ss[t]
    BY <1>2, <2>3
  <2>5. ss' \in [Session -> Stats] /\ out' \in [Session -> Seq(Nat)] /\ out'[s] = Append(out[s], c.sb)
        /\ \A t \in Session \ {s} : out'[t] = out[t]
    BY <1>2, <1>3, <2>2, <2>3
  <2>6. SumOf(out'[s]) = SumOf(out[s]) + c.sb
    BY <1>2, <1>3, <2>5, SumAppend
  <2>7. \A t \in Session : ss'[t].rp + ss'[t].sp < Chunk
    <3>1. ss'[s].rp + ss'[s].sp < Chunk
      BY <1>1, <2>2, <2>4
    <3> QED  BY <1>2, <2>4, <3>1
  <2>8. SumOf(out'[s]) + ss'[s].sb = SumOf(out[s]) + c.sb
    BY <1>3, <2>2, <2>4, <2>6
  <2> QED  BY <2>4, <2>5, <2>7, <2>8
<1>5. CASE (c.rp + c.sp) % Chunk # 0
  <2>1. ss' = [ss EXCEPT ![s] = c] /\ out' = out
    BY <1>5 DEF Report
  <2>2. c.rp + c.sp # Chunk
    BY <1>1, <1>5
  <2>3. c.rp + c.sp < Chunk
    BY <1>1, <2>2
  <2>4. c \in Stats
    BY <1>1, <2>3 DEF Stats
  <2>5. ss' \in [Session -> Stats] /\ ss'[s] = c /\ \A t \in Session \ {s} : ss'[t] = ss[t]
    BY <1>2, <2>1, <2>4
  <2> QED  BY <1>2, <2>1, <2>3, <2>5
<1> QED  BY <1>4, <1>5

\* PUBLISH takes the report off its way and delivers a copy to each kind of
\* subscription there is; the one to the channel is the one that is billed.
LEMMA Publishing ==
    ASSUME TypeOK, NEW s \in Session, Publish(s)
    PROVE  /\ out[s] # <<>> /\ Head(out[s]) \in Nat
           /\ out' \in [Session -> Seq(Nat)] /\ out'[s] = Tail(out[s])
           /\ \A t \in Session \ {s} : out'[t] = out[t]
           /\ events' \in Seq(Event)
           /\ \A t \in Session : Paid(t, events') =
                 Paid(t, events) + (IF t = s /\ s \in subscribed THEN Head(out[s]) ELSE 0)
           /\ \A i \in 1..Len(events') :
                 \/ i \in 1..Len(events) /\ events'[i] = events[i]
                 \/ (events'[i].kind = "message" => events'[i].s = s /\ s \in subscribed)
<1>1. out \in [Session -> Seq(Nat)] /\ events \in Seq(Event)
  BY DEF TypeOK
<1>2. out[s] # <<>> /\ out' = [out EXCEPT ![s] = Tail(@)]
  BY DEF Publish
<1>3. PICK b : b = Head(out[s])
  OBVIOUS
<1>4. b \in Nat /\ Tail(out[s]) \in Seq(Nat)
  BY <1>1, <1>2, <1>3, HeadTailProperties
<1>5. out' \in [Session -> Seq(Nat)] /\ out'[s] = Tail(out[s]) /\ \A t \in Session \ {s} : out'[t] = out[t]
  BY <1>1, <1>2, <1>4
<1>6. PICK m, p : m = [kind |-> "message", s |-> s, bytes |-> b] /\ p = [kind |-> "pmessage", s |-> s, bytes |-> b]
  OBVIOUS
<1>7. m \in Event /\ p \in Event /\ m.kind = "message" /\ m.s = s /\ p.kind = "pmessage"
  BY <1>4, <1>6 DEF Event
<1>8. ASSUME NEW t \in Session PROVE Charge(t, m) = (IF t = s THEN b ELSE 0) /\ Charge(t, p) = 0
  BY <1>6 DEF Charge
<1>9. PICK q : q = events \o (IF s \in subscribed THEN <<m>> ELSE <<>>)
  OBVIOUS
<1>10. events' = q \o (IF All \in subscribed /\ ss[s].realm THEN <<p>> ELSE <<>>)
  BY <1>3, <1>6, <1>9 DEF Publish
<1>11. /\ q \in Seq(Event)
       /\ \A t \in Session : Paid(t, q) = Paid(t, events) + (IF t = s /\ s \in subscribed THEN b ELSE 0)
       /\ \A i \in 1..Len(q) : (i \in 1..Len(events) /\ q[i] = events[i]) \/ (q[i] = m /\ s \in subscribed)
  <2>1. CASE s \in subscribed
    <3>1. q = Append(events, m)
      BY <1>1, <1>7, <1>9, <2>1
    <3>2. q \in Seq(Event) /\ \A i \in 1..Len(q) : (i \in 1..Len(events) /\ q[i] = events[i]) \/ q[i] = m
      BY <1>1, <1>7, <3>1, AppendProperties, LenProperties
    <3>3. ASSUME NEW t \in Session PROVE Paid(t, q) = Paid(t, events) + (IF t = s /\ s \in subscribed THEN b ELSE 0)
      BY <1>1, <1>7, <1>8, <2>1, <3>1, PaidAppend
    <3> QED  BY <2>1, <3>2, <3>3
  <2>2. CASE s \notin subscribed
    <3>1. q = events
      BY <1>1, <1>9, <2>2, ConcatEmptySeq
    <3>2. ASSUME NEW t \in Session PROVE Paid(t, q) = Paid(t, events) + (IF t = s /\ s \in subscribed THEN b ELSE 0)
      <4>1. Paid(t, q) = Paid(t, events) /\ Paid(t, events) \in Nat
        BY <1>1, <3>1, PaidBasics
      <4> QED  BY <2>2, <4>1
    <3>3. \A i \in 1..Len(q) : i \in 1..Len(events) /\ q[i] = events[i]
      BY <3>1
    <3> QED  BY <1>1, <2>2, <3>1, <3>2, <3>3
  <2> QED  BY <2>1, <2>2
<1>12. /\ events' \in Seq(Event)
       /\ \A t \in Session : Paid(t, events') = Paid(t, q)
       /\ \A i \in 1..Len(events') : (i \in 1..Len(q) /\ events'[i] = q[i]) \/ events'[i] = p
  <2>1. CASE All \in subscribed /\ ss[s].realm
    <3>1. events' = Append(q, p)
      BY <1>7, <1>10, <1>11, <2>1
    <3>2. events' \in Seq(Event) /\ \A i \in 1..Len(events') : (i \in 1..Len(q) /\ events'[i] = q[i]) \/ events'[i] = p
      BY <1>7, <1>11, <3>1, AppendProperties, LenProperties
    <3>3. ASSUME NEW t \in Session PROVE Paid(t, events') = Paid(t, q)
      <4>1. Paid(t, events') = Paid(t, q) + 0 /\ Paid(t, q) \in Nat
        <5>1. Paid(t, Append(q, p)) = Paid(t, q) + Charge(t, p)
          BY <1>7, <1>11, PaidAppend
        <5>2. Charge(t, p) = 0
          BY <1>8
        <5>3. Paid(t, q) \in Nat
          BY <1>11, PaidBasics
        <5> QED  BY <3>1, <5>1, <5>2, <5>3
      <4> QED  BY <4>1
    <3> QED  BY <3>2, <3>3
  <2>2. CASE ~(All \in subscribed /\ ss[s].realm)
    BY <1>10, <1>11, <2>2, ConcatEmptySeq
  <2> QED  BY <2>1, <2>2
<1>13. \A i \in 1..Len(events') :
          \/ i \in 1..Len(events) /\ events'[i] = events[i]
          \/ (events'[i].kind = "message" => events'[i].s = s /\ s \in subscribed)
  BY <1>7, <1>11, <1>12
<1> QED  BY <1>2, <1>3, <1>4, <1>5, <1>11, <1>12, <1>13

\* An event is handled when it is the first; a 'pmessage' is not billed.
LEMMA Handling ==
    ASSUME TypeOK, events # <<>>, events' = Tail(events)
    PROVE  /\ Head(events) \in Event /\ events' \in Seq(Event)
           /\ \A t \in Session : Paid(t, events) = Charge(t, Head(events)) + Paid(t, events')
           /\ \A i \in 1..Len(events') : i + 1 \in 1..Len(events) /\ events'[i] = events[i + 1]
           /\ 1 \in 1..Len(events) /\ Head(events) = events[1]
<1>1. events \in Seq(Event)
  BY DEF TypeOK
<1>2. PICK q, p : q = events /\ p = events'
  OBVIOUS
<1>3. q \in Seq(Event) /\ q # <<>> /\ p = Tail(q)
  BY <1>1, <1>2
<1>4. /\ Head(q) \in Event /\ p \in Seq(Event)
      /\ \A i \in 1..Len(p) : i + 1 \in 1..Len(q) /\ p[i] = q[i + 1]
      /\ 1 \in 1..Len(q) /\ Head(q) = q[1]
  BY <1>3, HeadTailProperties, LenProperties, EmptySeq
<1>5. \A t \in Session : Paid(t, q) = Charge(t, Head(q)) + Paid(t, p)
  BY <1>3, PaidTail
<1> QED  BY <1>2, <1>4, <1>5
-----------------------------------------------------------------------------
(***************************************************************************)
(* Types.                                                                  *)
(***************************************************************************)
\* A packet is counted: SendToClient and ReceiveFromClient differ in the counter
\* and the bytes.
LEMMA Counting ==
    ASSUME TypeOK, NEW s \in Session,
           ReceiveFromClient(s) \/ \E b \in Size : SendToClient(s, b)
    PROVE  \E b \in Nat, c \in [realm : BOOLEAN, open : BOOLEAN, rp : Nat, sp : Nat, sb : Nat, tsb : Nat] :
              /\ c.rp + c.sp <= Chunk /\ c.sb = ss[s].sb + b /\ Report(s, c)
              /\ relayed' = [relayed EXCEPT ![s] = [packets |-> relayed[s].packets + 1,
                                                    bytes |-> relayed[s].bytes + b]]
              /\ relayed[s].packets < MaxPackets[s]
              /\ UNCHANGED <<asks, subscribed, events, subscribers, billed, faults, missed, heard>>
<1>1. Chunk \in Nat /\ Chunk > 0 /\ Size \subseteq Nat
  BY ChunkAssumption
<1>2. ss[s] \in Stats /\ ss[s].rp + ss[s].sp < Chunk /\ relayed \in [Session -> [packets : Nat, bytes : Nat]]
  BY DEF TypeOK
<1>3. PICK e : e = ss[s]
  OBVIOUS
<1>4. /\ e = [realm |-> e.realm, open |-> e.open, rp |-> e.rp, sp |-> e.sp, sb |-> e.sb, tsb |-> e.tsb]
      /\ e.realm \in BOOLEAN /\ e.open \in BOOLEAN /\ e.rp \in Nat /\ e.sp \in Nat /\ e.sb \in Nat /\ e.tsb \in Nat
      /\ e.rp + e.sp < Chunk
  BY <1>1, <1>2, <1>3 DEF Stats
<1>5. relayed[s].packets \in Nat /\ relayed[s].bytes \in Nat /\
      relayed[s] = [packets |-> relayed[s].packets, bytes |-> relayed[s].bytes]
  BY <1>2
<1>6. CASE ReceiveFromClient(s)
  <2>1. PICK c : c = [realm |-> e.realm, open |-> e.open, rp |-> e.rp + 1, sp |-> e.sp, sb |-> e.sb, tsb |-> e.tsb]
    OBVIOUS
  <2>2. c = [ss[s] EXCEPT !.rp = @ + 1]
    BY <1>3, <1>4, <2>1
  <2>3. c \in [realm : BOOLEAN, open : BOOLEAN, rp : Nat, sp : Nat, sb : Nat, tsb : Nat]
    BY <1>4, <2>1
  <2>4. c.rp + c.sp <= Chunk /\ c.sb = ss[s].sb + 0
    BY <1>1, <1>3, <1>4, <2>1
  <2>5. Report(s, c) /\ relayed[s].packets < MaxPackets[s]
        /\ UNCHANGED <<asks, subscribed, events, subscribers, billed, faults, missed, heard>>
    BY <1>6, <2>2 DEF ReceiveFromClient, redis, broker, history
  <2>6. relayed' = [relayed EXCEPT ![s] = [packets |-> relayed[s].packets + 1, bytes |-> relayed[s].bytes + 0]]
    <3>1. relayed' = [relayed EXCEPT ![s] = [relayed[s] EXCEPT !.packets = @ + 1]]
      BY <1>6 DEF ReceiveFromClient
    <3>2. PICK p \in Nat, n \in Nat : relayed[s] = [packets |-> p, bytes |-> n]
      BY <1>5
    <3>3. [relayed[s] EXCEPT !.packets = @ + 1] = [packets |-> p + 1, bytes |-> n + 0]
      BY <3>2
    <3>4. [packets |-> relayed[s].packets + 1, bytes |-> relayed[s].bytes + 0] = [packets |-> p + 1, bytes |-> n + 0]
      BY <3>2
    <3> QED  BY <3>1, <3>3, <3>4
  <2> QED  BY <2>3, <2>4, <2>5, <2>6
<1>7. ASSUME NEW b \in Size, SendToClient(s, b)
      PROVE  \E n \in Nat, c \in [realm : BOOLEAN, open : BOOLEAN, rp : Nat, sp : Nat, sb : Nat, tsb : Nat] :
              /\ c.rp + c.sp <= Chunk /\ c.sb = ss[s].sb + n /\ Report(s, c)
              /\ relayed' = [relayed EXCEPT ![s] = [packets |-> relayed[s].packets + 1,
                                                    bytes |-> relayed[s].bytes + n]]
              /\ relayed[s].packets < MaxPackets[s]
              /\ UNCHANGED <<asks, subscribed, events, subscribers, billed, faults, missed, heard>>
  <2>0. b \in Nat
    BY <1>1
  <2>1. PICK c : c = [realm |-> e.realm, open |-> e.open, rp |-> e.rp, sp |-> e.sp + 1, sb |-> e.sb + b, tsb |-> e.tsb]
    OBVIOUS
  <2>2. c = [ss[s] EXCEPT !.sp = @ + 1, !.sb = @ + b]
    <3>1. e \in [realm : BOOLEAN, open : BOOLEAN, rp : Nat, sp : Nat, sb : Nat, tsb : Nat]
      BY <1>4
    <3>2. PICK x, y, d : x = e.sp + 1 /\ y = e.sb + b /\ d = [e EXCEPT !.sp = x, !.sb = y]
      OBVIOUS
    <3>3. d = [realm |-> e.realm, open |-> e.open, rp |-> e.rp, sp |-> x, sb |-> y, tsb |-> e.tsb]
      BY <3>1, <3>2
    <3> QED  BY <1>3, <2>1, <3>2, <3>3
  <2>3. c \in [realm : BOOLEAN, open : BOOLEAN, rp : Nat, sp : Nat, sb : Nat, tsb : Nat]
    BY <1>4, <2>0, <2>1
  <2>4. c.rp + c.sp <= Chunk /\ c.sb = ss[s].sb + b
    BY <1>1, <1>3, <1>4, <2>0, <2>1
  <2>5. Report(s, c) /\ relayed[s].packets < MaxPackets[s]
        /\ UNCHANGED <<asks, subscribed, events, subscribers, billed, faults, missed, heard>>
    BY <1>7, <2>2 DEF SendToClient, redis, broker, history
  <2>6. relayed' = [relayed EXCEPT ![s] = [packets |-> relayed[s].packets + 1, bytes |-> relayed[s].bytes + b]]
    BY <1>2, <1>5, <1>7 DEF SendToClient
  <2> QED  BY <2>0, <2>3, <2>4, <2>5, <2>6
<1> QED  BY <1>6, <1>7

\* Every step keeps the types.
LEMMA TypeStep ==
    ASSUME TypeOK, [Next]_vars
    PROVE  TypeOK'
<1>1. ASSUME NEW s \in Session, ReceiveFromClient(s) \/ \E b \in Size : SendToClient(s, b)
      PROVE  TypeOK'
  <2>1. PICK b \in Nat, c \in [realm : BOOLEAN, open : BOOLEAN, rp : Nat, sp : Nat, sb : Nat, tsb : Nat] :
              /\ c.rp + c.sp <= Chunk /\ c.sb = ss[s].sb + b /\ Report(s, c)
              /\ relayed' = [relayed EXCEPT ![s] = [packets |-> relayed[s].packets + 1,
                                                    bytes |-> relayed[s].bytes + b]]
              /\ relayed[s].packets < MaxPackets[s]
              /\ UNCHANGED <<asks, subscribed, events, subscribers, billed, faults, missed, heard>>
    BY <1>1, Counting
  <2>2. ss' \in [Session -> Stats] /\ (\A t \in Session : ss'[t].rp + ss'[t].sp < Chunk)
        /\ out' \in [Session -> Seq(Nat)]
    BY <2>1, Reporting
  <2>3. relayed \in [Session -> [packets : Nat, bytes : Nat]] /\ MaxPackets[s] \in Nat
        /\ relayed[s].packets \in Nat /\ relayed[s].bytes \in Nat
        /\ \A t \in Session : relayed[t].packets <= MaxPackets[t]
    BY BoundAssumption DEF TypeOK
  <2>4. relayed' \in [Session -> [packets : Nat, bytes : Nat]]
        /\ \A t \in Session : relayed'[t].packets <= MaxPackets[t]
    <3>1. PICK r : r = [packets |-> relayed[s].packets + 1, bytes |-> relayed[s].bytes + b]
      OBVIOUS
    <3>2. r \in [packets : Nat, bytes : Nat] /\ r.packets <= MaxPackets[s]
      BY <2>1, <2>3, <3>1
    <3>3. relayed' = [relayed EXCEPT ![s] = r]
      BY <2>1, <3>1
    <3> QED  BY <2>3, <3>2, <3>3
  <2> QED  BY <2>1, <2>2, <2>4 DEF TypeOK
<1>2. ASSUME NEW s \in Session, Shutdown(s) PROVE TypeOK'
  <2>1. ss[s] \in Stats /\ ss \in [Session -> Stats]
    BY DEF TypeOK
  <2>2. PICK d : d = [ss[s] EXCEPT !.open = FALSE]
    OBVIOUS
  <2>3. d \in Stats /\ d.rp = ss[s].rp /\ d.sp = ss[s].sp /\ ss' = [ss EXCEPT ![s] = d]
    BY <1>2, <2>1, <2>2 DEF Stats, Shutdown
  <2>4. ss' \in [Session -> Stats] /\ \A t \in Session : ss'[t].rp + ss'[t].sp < Chunk
    <3>1. \A t \in Session : ss[t].rp + ss[t].sp < Chunk
      BY DEF TypeOK
    <3> QED  BY <2>1, <2>3, <3>1
  <2> QED  BY <1>2, <2>4 DEF TypeOK, Shutdown, redis, broker, history
<1>3. ASSUME NEW s \in Session, Publish(s) PROVE TypeOK'
  <2>1. out' \in [Session -> Seq(Nat)] /\ events' \in Seq(Event) /\ Head(out[s]) \in Nat
    BY <1>3, Publishing
  <2>2. missed' \in [Session -> Nat]
    <3>1. missed \in [Session -> Nat]
      BY DEF TypeOK
    <3>2. PICK n : n = missed[s] + Head(out[s])
      OBVIOUS
    <3>3. n \in Nat
      BY <2>1, <3>1, <3>2
    <3>4. missed' = missed \/ missed' = [missed EXCEPT ![s] = n]
      BY <1>3, <3>2 DEF Publish
    <3> QED  BY <3>1, <3>3, <3>4
  <2>3. heard' \in [Session -> Nat]
    <3>1. heard \in [Session -> Nat]
      BY DEF TypeOK
    <3>2. PICK n : n = heard[s] + Head(out[s])
      OBVIOUS
    <3>3. n \in Nat
      BY <2>1, <3>1, <3>2
    <3>4. heard' = heard \/ heard' = [heard EXCEPT ![s] = n]
      BY <1>3, <3>2 DEF Publish
    <3> QED  BY <3>1, <3>3, <3>4
  <2> QED  BY <1>3, <2>1, <2>2, <2>3 DEF TypeOK, Publish, broker, history
<1>4. ASSUME NEW s \in Session, StatsBreak(s) PROVE TypeOK'
  <2>1. out' \in [Session -> Seq(Nat)] /\ faults' \in 0..MaxFaults
    <3>1. <<>> \in Seq(Nat)
      BY EmptySeq
    <3> QED  BY <1>4, <3>1, BoundAssumption DEF TypeOK, StatsBreak
  <2> QED  BY <1>4, <2>1 DEF TypeOK, StatsBreak, redis, broker, history
<1>5. CASE Subscribe
  <2>1. Head(asks) \in Session \cup {All} /\ asks' \in Seq(Session \cup {All})
    BY <1>5, HeadTailProperties DEF TypeOK, Subscribe
  <2> QED  BY <1>5, <2>1 DEF TypeOK, Subscribe, turn, broker, history
<1>6. CASE Pmessage
  <2>1. Head(events) \in Event /\ events' \in Seq(Event)
    BY <1>6, Handling DEF Pmessage
  <2>2. Head(events).s \in Session
    BY <2>1 DEF Event
  <2>3. asks' \in Seq(Session \cup {All}) /\ subscribers' \in Seq(Session)
    <3>1. asks \in Seq(Session \cup {All}) /\ subscribers \in Seq(Session)
      BY DEF TypeOK
    <3>2. CASE UNCHANGED <<asks, subscribers>>
      BY <3>1, <3>2
    <3>3. CASE asks' = Append(asks, Head(events).s) /\ subscribers' = Append(subscribers, Head(events).s)
      BY <2>2, <3>1, <3>3, AppendProperties
    <3> QED  BY <1>6, <3>2, <3>3 DEF Pmessage
  <2> QED  BY <1>6, <2>1, <2>3 DEF TypeOK, Pmessage, turn, history
<1>7. CASE Message
  <2>1. Head(events) \in Event /\ events' \in Seq(Event)
    BY <1>7, Handling DEF Message
  <2>2. billed' \in [Session -> Nat]
    <3>1. PICK e : e = Head(events)
      OBVIOUS
    <3>2. e.s \in Session /\ e.bytes \in Nat
      BY <2>1, <3>1 DEF Event
    <3>3. billed' = [billed EXCEPT ![e.s] = billed[e.s] + e.bytes] /\ billed \in [Session -> Nat]
      BY <1>7, <3>1 DEF Message, TypeOK
    <3>4. billed[e.s] + e.bytes \in Nat
      BY <3>2, <3>3
    <3> QED  BY <3>3, <3>4
  <2> QED  BY <1>7, <2>1, <2>2 DEF TypeOK, Message, turn, history
<1>8. CASE SubscriberBreak \/ BrokerRestart
  <2>1. /\ faults' = faults + 1 /\ faults < MaxFaults /\ subscribed' = {} /\ events' = <<>>
        /\ UNCHANGED <<ss, out, relayed, billed, missed, heard>>
    BY <1>8 DEF SubscriberBreak, BrokerRestart, turn, broker, history
  <2>2. faults' \in 0..MaxFaults /\ events' \in Seq(Event)
    BY <2>1, BoundAssumption, EmptySeq DEF TypeOK
  <2>3. <<All>> \in Seq(Session \cup {All}) /\ <<>> \in Seq(Session)
    BY EmptySeq
  <2>4. subscribers \in Seq(Session) /\ subscribers \in Seq(Session \cup {All})
    BY SeqMonotonic DEF TypeOK
  <2>5. <<All>> \o subscribers \in Seq(Session \cup {All})
    BY <2>3, <2>4, ConcatProperties
  <2>6. asks' \in Seq(Session \cup {All}) /\ subscribers' \in Seq(Session)
    BY <1>8, <2>3, <2>4, <2>5 DEF SubscriberBreak, BrokerRestart, broker, history
  <2> QED  BY <2>1, <2>2, <2>6 DEF TypeOK
<1>9. CASE UNCHANGED vars
  BY <1>9 DEF TypeOK, vars
<1> QED  BY <1>1, <1>2, <1>3, <1>4, <1>5, <1>6, <1>7, <1>8, <1>9 DEF Next
-----------------------------------------------------------------------------
(***************************************************************************)
(* The balance.                                                            *)
(***************************************************************************)
\* What is billed, what is on its way to be billed and what is counted.
Books(s) == billed[s] + Paid(s, events) + SumOf(out[s]) + ss[s].sb

\* The amounts are numbers.
LEMMA Amounts ==
    ASSUME TypeOK, NEW s \in Session
    PROVE  /\ billed[s] \in Nat /\ missed[s] \in Nat /\ ss[s].sb \in Nat /\ relayed[s].bytes \in Nat
           /\ Paid(s, events) \in Nat /\ SumOf(out[s]) \in Nat /\ faults \in Nat
           /\ Delivered(s) \in Nat /\ Reported(s) \in Nat
           /\ Books(s) \in Nat /\ Books(s) = billed[s] + Delivered(s) + Reported(s) + ss[s].sb
<1>1. billed[s] \in Nat /\ missed[s] \in Nat /\ ss[s].sb \in Nat /\ relayed[s].bytes \in Nat /\ faults \in Nat
  BY BoundAssumption DEF TypeOK, Stats
<1>2. events \in Seq(Event) /\ out[s] \in Seq(Nat)
  BY DEF TypeOK
<1>3. Paid(s, events) \in Nat /\ SumOf(out[s]) \in Nat
  BY <1>2, PaidBasics, SumAdds
<1>4. Delivered(s) = Paid(s, events)
  BY <1>2, DeliveredIs DEF Delivered
<1>5. Reported(s) = SumOf(out[s])
  BY ReportedIs
<1> QED  BY <1>1, <1>3, <1>4, <1>5 DEF Books

\* So they are in the next state.
LEMMA AmountsNext ==
    ASSUME TypeOK', NEW s \in Session
    PROVE  /\ billed'[s] \in Nat /\ missed'[s] \in Nat /\ ss'[s].sb \in Nat /\ relayed'[s].bytes \in Nat
           /\ Paid(s, events') \in Nat /\ SumOf(out'[s]) \in Nat /\ faults' \in Nat
           /\ Delivered(s)' \in Nat /\ Reported(s)' \in Nat
           /\ Books(s)' \in Nat /\ Books(s)' = billed'[s] + Delivered(s)' + Reported(s)' + ss'[s].sb
           /\ Books(s)' = billed'[s] + Paid(s, events') + SumOf(out'[s]) + ss'[s].sb
<1>1. billed'[s] \in Nat /\ missed'[s] \in Nat /\ ss'[s].sb \in Nat /\ relayed'[s].bytes \in Nat /\ faults' \in Nat
  BY BoundAssumption DEF TypeOK, Stats
<1>2. events' \in Seq(Event) /\ out'[s] \in Seq(Nat)
  BY DEF TypeOK
<1>3. Paid(s, events') \in Nat /\ SumOf(out'[s]) \in Nat
  BY <1>2, PaidBasics, SumAdds
<1>4. Delivered(s)' = Paid(s, events')
  BY <1>2, DeliveredIs DEF Delivered, FoldSeq, FoldFunction, FoldFunctionOnSet, MapThenFoldSet
<1>5. Reported(s)' = SumOf(out'[s])
  BY ReportedIs
<1>6. Books(s)' = billed'[s] + Paid(s, events') + SumOf(out'[s]) + ss'[s].sb
  BY DEF Books, Paid, Charges, Charge
<1> QED  BY <1>1, <1>3, <1>4, <1>5, <1>6

\* A step enters nothing in the books that was not relayed; unless something
\* breaks, what leaves them unbilled was missed.
Balanced(s) ==
    /\ Books(s)' + relayed[s].bytes <= Books(s) + relayed'[s].bytes
    /\ faults' = 0 => /\ faults = 0
                      /\ Books(s)' + missed'[s] + relayed[s].bytes = Books(s) + missed[s] + relayed'[s].bytes

\* Every step is balanced.
LEMMA BalanceStep ==
    ASSUME TypeOK, TypeOK', [Next]_vars, NEW t \in Session
    PROVE  Balanced(t)
<1>1. /\ billed[t] \in Nat /\ missed[t] \in Nat /\ ss[t].sb \in Nat /\ relayed[t].bytes \in Nat
      /\ Paid(t, events) \in Nat /\ SumOf(out[t]) \in Nat /\ faults \in Nat /\ Books(t) \in Nat
      /\ Books(t) = billed[t] + Paid(t, events) + SumOf(out[t]) + ss[t].sb
  BY Amounts DEF Books
<1>2. /\ billed'[t] \in Nat /\ missed'[t] \in Nat /\ ss'[t].sb \in Nat /\ relayed'[t].bytes \in Nat
      /\ Paid(t, events') \in Nat /\ SumOf(out'[t]) \in Nat /\ faults' \in Nat /\ Books(t)' \in Nat
      /\ Books(t)' = billed'[t] + Paid(t, events') + SumOf(out'[t]) + ss'[t].sb
  BY AmountsNext
<1>3. PICK b, d, r, u, x, m, f, b1, d1, r1, u1, x1, m1, f1 :
         /\ b = billed[t] /\ d = Paid(t, events) /\ r = SumOf(out[t]) /\ u = ss[t].sb
         /\ x = relayed[t].bytes /\ m = missed[t] /\ f = faults
         /\ b1 = billed'[t] /\ d1 = Paid(t, events') /\ r1 = SumOf(out'[t]) /\ u1 = ss'[t].sb
         /\ x1 = relayed'[t].bytes /\ m1 = missed'[t] /\ f1 = faults'
  OBVIOUS
<1>4. /\ b \in Nat /\ d \in Nat /\ r \in Nat /\ u \in Nat /\ x \in Nat /\ m \in Nat /\ f \in Nat
       /\ b1 \in Nat /\ d1 \in Nat /\ r1 \in Nat /\ u1 \in Nat /\ x1 \in Nat /\ m1 \in Nat /\ f1 \in Nat
  BY <1>1, <1>2, <1>3
<1>5. ASSUME (b1 + d1 + r1 + u1) + x <= (b + d + r + u) + x1,
              f1 = 0 => f = 0 /\ (b1 + d1 + r1 + u1) + m1 + x = (b + d + r + u) + m + x1
       PROVE  Balanced(t)
  <2>1. Books(t) = b + d + r + u /\ Books(t)' = b1 + d1 + r1 + u1
    BY <1>1, <1>2, <1>3
  <2> QED  BY <1>3, <1>5, <2>1 DEF Balanced
<1>6. ASSUME NEW s \in Session, ReceiveFromClient(s) \/ \E k \in Size : SendToClient(s, k)
      PROVE  Balanced(t)
  <2>1. PICK n \in Nat, c \in [realm : BOOLEAN, open : BOOLEAN, rp : Nat, sp : Nat, sb : Nat, tsb : Nat] :
              /\ c.rp + c.sp <= Chunk /\ c.sb = ss[s].sb + n /\ Report(s, c)
              /\ relayed' = [relayed EXCEPT ![s] = [packets |-> relayed[s].packets + 1,
                                                    bytes |-> relayed[s].bytes + n]]
              /\ relayed[s].packets < MaxPackets[s]
              /\ UNCHANGED <<asks, subscribed, events, subscribers, billed, faults, missed, heard>>
    BY <1>6, Counting
  <2>2. /\ SumOf(out'[s]) + ss'[s].sb = SumOf(out[s]) + c.sb
        /\ \A w \in Session \ {s} : ss'[w] = ss[w] /\ out'[w] = out[w]
    BY <2>1, Reporting
  <2>3. relayed \in [Session -> [packets : Nat, bytes : Nat]]
    BY DEF TypeOK
  <2>4. CASE t = s
    <3>1. relayed'[t].bytes = relayed[t].bytes + n
      BY <2>1, <2>3, <2>4
    <3>2. SumOf(out'[t]) + ss'[t].sb = SumOf(out[t]) + ss[t].sb + n
      BY <1>1, <1>2, <2>1, <2>2, <2>4
    <3>3. b1 = b /\ d1 = d /\ m1 = m /\ f1 = f
      BY <1>3, <2>1
    <3>4. x1 = x + n /\ r1 + u1 = r + u + n /\ n \in Nat
      BY <1>3, <2>1, <3>1, <3>2
    <3> QED  BY <1>4, <1>5, <3>3, <3>4
  <2>5. CASE t # s
    <3>1. relayed'[t] = relayed[t] /\ ss'[t] = ss[t] /\ out'[t] = out[t]
      BY <2>1, <2>2, <2>3, <2>5
    <3>2. b1 = b /\ d1 = d /\ r1 = r /\ u1 = u /\ x1 = x /\ m1 = m /\ f1 = f
      BY <1>3, <2>1, <3>1
    <3> QED  BY <1>4, <1>5, <3>2
  <2> QED  BY <2>4, <2>5
<1>7. ASSUME NEW s \in Session, Shutdown(s) PROVE Balanced(t)
  <2>1. ss'[t].sb = ss[t].sb
    BY <1>7 DEF Shutdown, TypeOK, Stats
  <2>2. b1 = b /\ d1 = d /\ r1 = r /\ u1 = u /\ x1 = x /\ m1 = m /\ f1 = f
    BY <1>3, <1>7, <2>1 DEF Shutdown, redis, broker, history
  <2> QED  BY <1>4, <1>5, <2>2
<1>8. ASSUME NEW s \in Session, Publish(s) PROVE Balanced(t)
  <2>1. PICK n : n = Head(out[s])
    OBVIOUS
  <2>2. /\ out[s] # <<>> /\ n \in Nat
        /\ out'[s] = Tail(out[s]) /\ \A w \in Session \ {s} : out'[w] = out[w]
        /\ \A w \in Session : Paid(w, events') = Paid(w, events) + (IF w = s /\ s \in subscribed THEN n ELSE 0)
    BY <1>8, <2>1, Publishing
  <2>3. /\ billed' = billed /\ ss' = ss /\ relayed' = relayed /\ faults' = faults
        /\ missed' = IF s \in subscribed THEN missed ELSE [missed EXCEPT ![s] = @ + n]
    BY <1>8, <2>1 DEF Publish, broker, history
  <2>4. CASE t = s
    <3>1. SumOf(out[t]) = n + SumOf(out'[t])
      BY <2>1, <2>2, <2>4, SumTail DEF TypeOK
    <3>4. r = n + r1 /\ b1 = b /\ u1 = u /\ x1 = x /\ f1 = f /\ n \in Nat
      BY <1>3, <2>2, <2>3, <3>1
    <3>2. CASE s \in subscribed
      <4>1. Paid(t, events') = Paid(t, events) + n /\ missed'[t] = missed[t]
        BY <2>2, <2>3, <2>4, <3>2
      <4>2. d1 = d + n /\ m1 = m
        BY <1>3, <4>1
      <4> QED  BY <1>4, <1>5, <3>4, <4>2
    <3>3. CASE s \notin subscribed
      <4>1. Paid(t, events') = Paid(t, events) /\ missed'[t] = missed[t] + n
        BY <1>1, <2>2, <2>3, <2>4, <3>3 DEF TypeOK
      <4>2. d1 = d /\ m1 = m + n
        BY <1>3, <4>1
      <4> QED  BY <1>4, <1>5, <3>4, <4>2
    <3> QED  BY <3>2, <3>3
  <2>5. CASE t # s
    <3>1. Paid(t, events') = Paid(t, events) /\ missed'[t] = missed[t] /\ out'[t] = out[t]
      BY <1>1, <2>2, <2>3, <2>5 DEF TypeOK
    <3>2. b1 = b /\ d1 = d /\ r1 = r /\ u1 = u /\ x1 = x /\ m1 = m /\ f1 = f
      BY <1>3, <2>3, <3>1
    <3> QED  BY <1>4, <1>5, <3>2
  <2> QED  BY <2>4, <2>5
<1>9. ASSUME NEW s \in Session, StatsBreak(s) PROVE Balanced(t)
  <2>1. /\ faults' = faults + 1 /\ out' = [out EXCEPT ![s] = <<>>]
        /\ UNCHANGED <<ss, relayed, events, billed, missed, heard>>
    BY <1>9 DEF StatsBreak, redis, broker, history
  <2>2. SumOf(out'[t]) <= SumOf(out[t])
    <3>1. out'[t] = out[t] \/ out'[t] = <<>>
      BY <2>1 DEF TypeOK
    <3> QED  BY <1>1, <1>2, <3>1, SumEmpty
  <2>3. b1 = b /\ d1 = d /\ r1 <= r /\ u1 = u /\ x1 = x /\ f1 = f + 1
    BY <1>3, <2>1, <2>2
  <2> QED  BY <1>4, <1>5, <2>3
<1>10. CASE Subscribe
  <2>1. b1 = b /\ d1 = d /\ r1 = r /\ u1 = u /\ x1 = x /\ m1 = m /\ f1 = f
    BY <1>3, <1>10 DEF Subscribe, turn, broker, history
  <2> QED  BY <1>4, <1>5, <2>1
<1>11. CASE Pmessage
  <2>1. events # <<>> /\ events' = Tail(events) /\ Head(events).kind = "pmessage"
    BY <1>11 DEF Pmessage
  <2>2. Paid(t, events) = Charge(t, Head(events)) + Paid(t, events') /\ Charge(t, Head(events)) = 0
    BY <2>1, Handling DEF Charge
  <2>3. Paid(t, events') = Paid(t, events)
    BY <1>2, <2>2
  <2>4. b1 = b /\ d1 = d /\ r1 = r /\ u1 = u /\ x1 = x /\ m1 = m /\ f1 = f
    BY <1>3, <1>11, <2>3 DEF Pmessage, turn, history
  <2> QED  BY <1>4, <1>5, <2>4
<1>12. CASE Message
  <2>1. PICK e : e = Head(events)
    OBVIOUS
  <2>2. events # <<>> /\ events' = Tail(events) /\ e.kind = "message"
        /\ billed' = [billed EXCEPT ![e.s] = @ + e.bytes]
        /\ UNCHANGED <<ss, out, relayed, missed, heard, faults>>
    BY <1>12, <2>1 DEF Message, turn, history
  <2>3. e \in Event /\ Paid(t, events) = Charge(t, e) + Paid(t, events')
    BY <2>1, <2>2, Handling
  <2>4. Charge(t, e) \in Nat /\ billed'[t] = billed[t] + Charge(t, e)
    <3>1. e.s \in Session /\ e.bytes \in Nat /\ billed \in [Session -> Nat]
      BY <2>3 DEF Event, TypeOK
    <3> QED  BY <1>1, <2>2, <3>1 DEF Charge
  <2>5. PICK n : n = Charge(t, e)
    OBVIOUS
  <2>6. n \in Nat /\ b1 = b + n /\ d = n + d1 /\ r1 = r /\ u1 = u /\ x1 = x /\ m1 = m /\ f1 = f
    BY <1>3, <2>2, <2>3, <2>4, <2>5
  <2> QED  BY <1>4, <1>5, <2>6
<1>13. CASE SubscriberBreak \/ BrokerRestart
  <2>1. faults' = faults + 1 /\ events' = <<>> /\ UNCHANGED <<ss, out, relayed, billed, missed, heard>>
    BY <1>13 DEF SubscriberBreak, BrokerRestart, turn, broker, history
  <2>2. Paid(t, events') = 0
    BY <2>1, PaidBasics
  <2>3. b1 = b /\ d1 = 0 /\ r1 = r /\ u1 = u /\ x1 = x /\ f1 = f + 1
    BY <1>3, <2>1, <2>2
  <2> QED  BY <1>4, <1>5, <2>3
<1>14. CASE UNCHANGED vars
  <2>1. b1 = b /\ d1 = d /\ r1 = r /\ u1 = u /\ x1 = x /\ m1 = m /\ f1 = f
    BY <1>3, <1>14 DEF vars
  <2> QED  BY <1>4, <1>5, <2>1
<1> QED  BY <1>6, <1>7, <1>8, <1>9, <1>10, <1>11, <1>12, <1>13, <1>14 DEF Next
-----------------------------------------------------------------------------
(***************************************************************************)
(* The subscription.                                                       *)
(***************************************************************************)
\* Only a subscribed channel delivers, and only a break ends a subscription.
LEMMA SubscribedStep ==
    ASSUME TypeOK, BilledSubscribed, TypeOK', [Next]_vars
    PROVE  BilledSubscribed'
<1> DEFINE Arriving(q, s) == \E i \in 1..Len(q) : q[i].kind = "message" /\ q[i].s = s
<1>1. faults \in Nat
  BY BoundAssumption DEF TypeOK
<1>2. SUFFICES ASSUME NEW s \in Session, faults' = 0, billed'[s] > 0 \/ Arriving(events', s)
               PROVE  s \in subscribed'
  BY DEF BilledSubscribed
<1>3. ASSUME faults' = faults, subscribed \subseteq subscribed',
             billed[s] > 0 \/ Arriving(events, s)
      PROVE  s \in subscribed'
  BY <1>2, <1>3 DEF BilledSubscribed
<1>4. ASSUME NEW u \in Session,
             ReceiveFromClient(u) \/ Shutdown(u) \/ \E b \in Size : SendToClient(u, b)
      PROVE  s \in subscribed'
  <2>1. UNCHANGED <<subscribed, events, billed, faults>>
    BY <1>4 DEF ReceiveFromClient, Shutdown, SendToClient, redis, broker, history
  <2> QED  BY <1>2, <1>3, <2>1
<1>5. ASSUME NEW u \in Session, Publish(u) PROVE s \in subscribed'
  <2>1. UNCHANGED <<subscribed, billed, faults>>
    BY <1>5 DEF Publish, broker, history
  <2>2. \A i \in 1..Len(events') :
          \/ i \in 1..Len(events) /\ events'[i] = events[i]
          \/ (events'[i].kind = "message" => events'[i].s = u /\ u \in subscribed)
    BY <1>5, Publishing
  <2>3. CASE billed'[s] > 0
    BY <1>3, <2>1, <2>3
  <2>4. CASE Arriving(events', s)
    <3>1. PICK i \in 1..Len(events') : events'[i].kind = "message" /\ events'[i].s = s
      BY <2>4
    <3>2. Arriving(events, s) \/ s \in subscribed
      BY <2>2, <3>1
    <3> QED  BY <1>3, <2>1, <3>2
  <2> QED  BY <1>2, <2>3, <2>4
<1>6. ASSUME NEW u \in Session, StatsBreak(u) PROVE s \in subscribed'
  BY <1>1, <1>2, <1>6 DEF StatsBreak
<1>7. CASE Subscribe
  <2>1. UNCHANGED <<events, billed, faults>> /\ subscribed \subseteq subscribed'
    BY <1>7 DEF Subscribe, broker, history
  <2> QED  BY <1>2, <1>3, <2>1
<1>8. CASE Pmessage \/ Message
  <2>1. /\ events # <<>> /\ events' = Tail(events) /\ UNCHANGED <<subscribed, faults>>
        /\ \/ billed' = billed
           \/ /\ Head(events).kind = "message"
              /\ billed' = [billed EXCEPT ![Head(events).s] = @ + Head(events).bytes]
    BY <1>8 DEF Pmessage, Message, turn, history
  <2>2. /\ \A i \in 1..Len(events') : i + 1 \in 1..Len(events) /\ events'[i] = events[i + 1]
        /\ 1 \in 1..Len(events) /\ Head(events) = events[1]
    BY <2>1, Handling
  <2>3. CASE Arriving(events', s)
    <3>1. Arriving(events, s)
      BY <2>2, <2>3
    <3> QED  BY <1>3, <2>1, <3>1
  <2>4. CASE billed'[s] > 0
    <3>1. billed[s] > 0 \/ (Head(events).kind = "message" /\ Head(events).s = s)
      BY <2>1, <2>4 DEF TypeOK
    <3>2. billed[s] > 0 \/ Arriving(events, s)
      BY <2>2, <3>1
    <3> QED  BY <1>3, <2>1, <3>2
  <2> QED  BY <1>2, <2>3, <2>4
<1>9. CASE SubscriberBreak \/ BrokerRestart
  BY <1>1, <1>2, <1>9 DEF SubscriberBreak, BrokerRestart
<1>10. CASE UNCHANGED vars
  <2>1. UNCHANGED <<subscribed, events, billed, faults>>
    BY <1>10 DEF vars
  <2> QED  BY <1>2, <1>3, <2>1
<1> QED  BY <1>4, <1>5, <1>6, <1>7, <1>8, <1>9, <1>10 DEF Next
-----------------------------------------------------------------------------
(***************************************************************************)
(* The theorems.                                                           *)
(***************************************************************************)
\* At first the books are empty.
LEMMA Start ==
    ASSUME Init
    PROVE  IInv
<1>1. TypeOK
  <2>1. /\ <<>> \in Seq(Nat) /\ <<>> \in Seq(Event) /\ <<>> \in Seq(Session)
        /\ <<All>> \in Seq(Session \cup {All})
    BY EmptySeq
  <2>2. Chunk \in Nat /\ Chunk > 0 /\ MaxFaults \in Nat /\ MaxPackets \in [Session -> Nat]
    BY ChunkAssumption, BoundAssumption
  <2>3. ASSUME NEW s \in Session PROVE ss[s] \in Stats /\ ss[s].rp + ss[s].sp < Chunk
    <3>1. ss[s] \in [realm : BOOLEAN, open : {TRUE}, rp : {0}, sp : {0}, sb : {0}, tsb : {0}]
      BY DEF Init
    <3>2. PICK e : e = ss[s]
      OBVIOUS
    <3>3. /\ e = [realm |-> e.realm, open |-> e.open, rp |-> e.rp, sp |-> e.sp, sb |-> e.sb, tsb |-> e.tsb]
          /\ e.realm \in BOOLEAN /\ e.open \in BOOLEAN /\ e.rp = 0 /\ e.sp = 0 /\ e.sb = 0 /\ e.tsb = 0
      BY <3>1, <3>2
    <3>4. 0 \in 0..(Chunk - 1) /\ 0 + 0 < Chunk /\ 0 \in Nat
      BY <2>2
    <3>5. e \in Stats
      BY <3>3, <3>4 DEF Stats
    <3> QED  BY <3>2, <3>3, <3>4, <3>5
  <2>4. ss \in [Session -> Stats] /\ \A s \in Session : ss[s].rp + ss[s].sp < Chunk
    BY <2>3 DEF Init
  <2>5. relayed \in [Session -> [packets : Nat, bytes : Nat]]
        /\ \A s \in Session : relayed[s].packets <= MaxPackets[s]
    BY <2>2 DEF Init
  <2> QED  BY <2>1, <2>2, <2>4, <2>5 DEF TypeOK, Init
<1>2. ASSUME NEW s \in Session
      PROVE  /\ billed[s] = 0 /\ Delivered(s) = 0 /\ Reported(s) = 0 /\ missed[s] = 0 /\ ss[s].sb = 0
             /\ relayed[s].bytes = 0
  <2>1. out[s] = <<>> /\ events = <<>>
    BY DEF Init
  <2>2. Delivered(s) = Paid(s, <<>>) /\ Reported(s) = SumOf(<<>>)
    BY <1>1, <2>1, ReportedIs, DeliveredIs DEF Delivered, TypeOK
  <2>3. Delivered(s) = 0 /\ Reported(s) = 0
    BY <2>2, PaidBasics, SumEmpty
  <2> QED  BY <2>3 DEF Init
<1>3. NeverOverbilled /\ OnlyEarlyReportsMissed
  BY <1>2 DEF NeverOverbilled, OnlyEarlyReportsMissed
<1>4. BilledSubscribed
  <2>1. events = <<>> /\ Len(events) = 0 /\ 1..0 = {}
    BY EmptySeq DEF Init
  <2> QED  BY <1>2, <2>1 DEF BilledSubscribed
<1> QED  BY <1>1, <1>3, <1>4 DEF IInv

\* Every step keeps the invariant.
LEMMA Step ==
    ASSUME IInv, [Next]_vars
    PROVE  IInv'
<1>1. TypeOK /\ NeverOverbilled /\ OnlyEarlyReportsMissed /\ BilledSubscribed
  BY DEF IInv
<1>2. TypeOK'
  BY <1>1, TypeStep
<1>3. BilledSubscribed'
  BY <1>1, <1>2, SubscribedStep
<1>4. ASSUME NEW s \in Session
      PROVE  /\ Books(s) \in Nat /\ Books(s)' \in Nat /\ relayed[s].bytes \in Nat /\ relayed'[s].bytes \in Nat
             /\ missed[s] \in Nat /\ missed'[s] \in Nat
             /\ Books(s) = billed[s] + Delivered(s) + Reported(s) + ss[s].sb
             /\ Books(s)' = billed'[s] + Delivered(s)' + Reported(s)' + ss'[s].sb
             /\ Balanced(s)
  BY <1>1, <1>2, Amounts, AmountsNext, BalanceStep
<1>5. ASSUME NEW s \in Session
      PROVE  /\ billed[s] \in Nat /\ Delivered(s) \in Nat /\ Reported(s) \in Nat /\ ss[s].sb \in Nat
             /\ billed'[s] \in Nat /\ Delivered(s)' \in Nat /\ Reported(s)' \in Nat /\ ss'[s].sb \in Nat
  BY <1>1, <1>2, Amounts, AmountsNext
<1>6. NeverOverbilled'
  <2>1. ASSUME NEW s \in Session PROVE Books(s)' <= relayed'[s].bytes
    <3>1. Books(s) <= relayed[s].bytes
      BY <1>1, <1>4 DEF NeverOverbilled
    <3> QED  BY <1>4, <3>1 DEF Balanced
  <2> QED  BY <1>4, <2>1 DEF NeverOverbilled
<1>7. OnlyEarlyReportsMissed'
  <2>1. ASSUME NEW s \in Session, faults' = 0
        PROVE  billed'[s] + Delivered(s)' + Reported(s)' + missed'[s] + ss'[s].sb = relayed'[s].bytes
    <3>1. faults = 0
      BY <1>4, <2>1 DEF Balanced
    <3>2. Books(s) + missed[s] = relayed[s].bytes
      <4>1. billed[s] + Delivered(s) + Reported(s) + missed[s] + ss[s].sb = relayed[s].bytes
        BY <1>1, <3>1 DEF OnlyEarlyReportsMissed
      <4> QED  BY <1>4, <1>5, <4>1
    <3>3. Books(s)' + missed'[s] = relayed'[s].bytes
      <4>1. Books(s)' + missed'[s] + relayed[s].bytes = Books(s) + missed[s] + relayed'[s].bytes
        BY <1>4, <2>1 DEF Balanced
      <4>2. PICK a, b, c, d, e, g : a = Books(s)' /\ b = missed'[s] /\ c = relayed[s].bytes
                                    /\ d = Books(s) /\ e = missed[s] /\ g = relayed'[s].bytes
        OBVIOUS
      <4>3. /\ a \in Nat /\ b \in Nat /\ c \in Nat /\ d \in Nat /\ e \in Nat /\ g \in Nat
            /\ a + b + c = d + e + g /\ d + e = c
        BY <1>4, <3>2, <4>1, <4>2
      <4>4. a + b = g
        BY <4>3
      <4> QED  BY <4>2, <4>4
    <3> QED  BY <1>4, <1>5, <3>3
  <2> QED  BY <2>1 DEF OnlyEarlyReportsMissed
<1> QED  BY <1>2, <1>3, <1>6, <1>7 DEF IInv

\* The invariant holds throughout.
THEOREM Invariance == Spec => []IInv
<1>1. Init => IInv
  BY Start
<1>2. IInv /\ [Next]_vars => IInv'
  BY Step
<1> QED  BY <1>1, <1>2, PTL DEF Spec

\* The state of the TURN server, of Redis and of the broker keeps its type, and the
\* counters of turn_report_session_usage stay below a Chunk.
THEOREM TypeCorrectness == Spec => []TypeOK
<1>1. IInv => TypeOK
  BY DEF IInv
<1> QED  BY <1>1, Invariance, PTL

\* Whatever breaks and is restarted, no session is billed more than its TURN
\* server has sent: a report is billed at most once, however often the broker
\* subscribes again.
THEOREM NoOverbilling == Spec => []NeverOverbilled
<1>1. IInv => NeverOverbilled
  BY DEF IInv
<1> QED  BY <1>1, Invariance, PTL

\* As long as nothing breaks, the bytes that are not billed are exactly those that
\* were published before the subscription and those not reported yet.
THEOREM UnbilledAccounted == Spec => []OnlyEarlyReportsMissed
<1>1. IInv => OnlyEarlyReportsMissed
  BY DEF IInv
<1> QED  BY <1>1, Invariance, PTL

\* As long as nothing breaks, a session that was billed once misses no report.
THEOREM NothingMissedAfterTheFirst == Spec => SubscribedForGood
<1>1. ASSUME IInv, [Next]_vars, NEW s \in Session, faults' = 0, billed[s] > 0
      PROVE  missed'[s] = missed[s]
  <2>1. TypeOK /\ BilledSubscribed /\ faults \in Nat
    BY <1>1, BoundAssumption DEF IInv, TypeOK
  <2>2. ASSUME NEW u \in Session, Publish(u) PROVE missed'[s] = missed[s]
    <3>1. faults = 0
      BY <1>1, <2>2 DEF Publish
    <3>2. s \in subscribed
      BY <1>1, <2>1, <3>1 DEF BilledSubscribed
    <3>3. missed' = IF u \in subscribed THEN missed ELSE [missed EXCEPT ![u] = @ + Head(out[u])]
      BY <2>2 DEF Publish
    <3> QED  BY <2>1, <3>2, <3>3 DEF TypeOK
  <2>3. CASE \A u \in Session : ~Publish(u)
    BY <1>1, <2>3 DEF Next, vars, ReceiveFromClient, SendToClient, Shutdown, StatsBreak, Subscribe,
                      Pmessage, Message, SubscriberBreak, BrokerRestart, history
  <2> QED  BY <2>2, <2>3
<1>2. IInv /\ [Next]_vars
      => [\A s \in Session : faults' = 0 /\ billed[s] > 0 => missed'[s] = missed[s]]_vars
  BY <1>1
<1> QED  BY <1>2, Invariance, PTL DEF Spec, SubscribedForGood
=============================================================================
