------------------------ MODULE TurnRegistration_proofs ------------------------
(***************************************************************************)
(* What TurnRegistration promises: SELECT comes first on every connection,  *)
(* a server without faults stays listed, and one fault costs it a bounded   *)
(* absence.                                                                 *)
(***************************************************************************)
EXTENDS TurnRegistration, SequenceTheorems, TLAPS

Holds(q, x) == \E i \in 1..Len(q) : q[i] = x
Leads(q) == q # <<>> /\ q[1] = "SELECT"

\* The SELECT of a connection is ahead of everything it is sent.
Selects ==
    /\ wire # <<>> /\ ~sel => wire[1] = "SELECT"
    /\ conn.tcp = "connecting" => Leads(conn.buf)
    /\ conn.tcp = "open" /\ wire = <<>> /\ ~sel => Leads(conn.buf)

\* Commands are on their way on an open connection; a connection that is open or
\* being made is valid.
Wired ==
    /\ Alive /\ wire # <<>> => conn.tcp = "open"
    /\ conn.tcp \in {"connecting", "open"} => conn.valid
    /\ conn.tcp = "none" => ~conn.valid

\* The first EXPIRE is sent when the main thread has done its part, so that a
\* server that is listed runs.
Listed ==
    /\ proc \in {"off", "setup", "half"} => ~Holds(conn.buf, "EXPIRE") /\ ~Holds(wire, "EXPIRE")
    /\ listed => proc = "running"
    /\ ~Alive => conn = NoConn
    /\ proc = "off" => wire = <<>>

\* A SET is due or under way.
Due == timer = 0 \/ Holds(conn.buf, "SET") \/ Holds(wire, "SET")

\* Without faults the key outlives the next refresh and all the delay it may take.
Healthy ==
    faults = 0 =>
        /\ conn.tcp \in {"none", "connecting", "open"} /\ proc # "dead"
        /\ listed => /\ conn.tcp = "open"
                     /\ forever \/ key > timer + MaxDelay \/ (Due /\ key + lag > MaxDelay)

\* A connection whose end is unnoticed costs a refresh that is lost and one that
\* fails, or the latter alone.
Behind == IF ~conn.valid THEN 0
          ELSE IF conn.tcp = "closed" THEN 2 * (Period + MaxDelay)
          ELSE IF conn.tcp = "reset" THEN Period + MaxDelay ELSE 0

\* The next thing to happen to the registration is due.
Moving ==
    \/ timer = 0
    \/ conn.valid /\ conn.tcp \in {"closed", "reset"} /\ conn.buf # <<>>
    \/ conn.valid /\ conn.tcp \in {"connecting", "open"} /\ Holds(conn.buf, "SET")
    \/ Holds(wire, "SET")

\* The ticks a server has been missing, and those until it is back, are within
\* the bound.
Bounded ==
    /\ Present => gap = 0
    /\ faults <= 1 /\ listed =>
         /\ ~redisUp => gap = 0
         /\ \/ gap + timer + MaxDelay + Behind <= Absence
            \/ Moving /\ gap + MaxDelay + Behind <= Absence + lag

IInv == TypeOK /\ Selects /\ Wired /\ Listed /\ Healthy /\ Bounded
-----------------------------------------------------------------------------
\* A queue that is appended to.
LEMMA AppendFacts ==
    ASSUME NEW q \in Seq(Cmds), NEW x \in Cmds
    PROVE  /\ Append(q, x) \in Seq(Cmds) /\ Append(q, x) # <<>>
           /\ \A y : Holds(Append(q, x), y) <=> Holds(q, y) \/ x = y
           /\ Leads(q) => Leads(Append(q, x))
<1>1. /\ Append(q, x) \in Seq(Cmds) /\ Append(q, x) # <<>> /\ Len(q) \in Nat /\ Len(Append(q, x)) = Len(q) + 1
      /\ \A i \in 1..Len(q) : Append(q, x)[i] = q[i]
      /\ Append(q, x)[Len(q) + 1] = x
  BY AppendProperties, LenProperties
<1>2. ASSUME NEW y PROVE Holds(Append(q, x), y) <=> Holds(q, y) \/ x = y
  <2>1. \A i \in 1..Len(Append(q, x)) : i \in 1..Len(q) \/ i = Len(q) + 1
    BY <1>1
  <2>2. Len(q) + 1 \in 1..Len(Append(q, x)) /\ \A i \in 1..Len(q) : i \in 1..Len(Append(q, x))
    BY <1>1
  <2> QED  BY <1>1, <2>1, <2>2 DEF Holds
<1>3. Leads(q) => Leads(Append(q, x))
  <2>1. q # <<>> => 1 \in 1..Len(q)
    BY <1>1, EmptySeq
  <2> QED  BY <1>1, <2>1 DEF Leads
<1> QED  BY <1>1, <1>2, <1>3

\* A queue written behind another.
LEMMA ConcatFacts ==
    ASSUME NEW p \in Seq(Cmds), NEW q \in Seq(Cmds)
    PROVE  /\ p \o q \in Seq(Cmds)
           /\ \A y : Holds(p \o q, y) <=> Holds(p, y) \/ Holds(q, y)
           /\ p = <<>> => p \o q = q
           /\ p # <<>> => p \o q # <<>> /\ (p \o q)[1] = p[1]
           /\ q # <<>> => p \o q # <<>>
<1>1. /\ p \o q \in Seq(Cmds) /\ Len(p) \in Nat /\ Len(q) \in Nat /\ Len(p \o q) = Len(p) + Len(q)
      /\ \A i \in 1..(Len(p) + Len(q)) : (p \o q)[i] = IF i <= Len(p) THEN p[i] ELSE q[i - Len(p)]
  BY ConcatProperties, LenProperties
<1>2. ASSUME NEW y PROVE Holds(p \o q, y) <=> Holds(p, y) \/ Holds(q, y)
  <2>1. ASSUME NEW i \in 1..Len(p \o q), (p \o q)[i] = y PROVE Holds(p, y) \/ Holds(q, y)
    <3>1. CASE i <= Len(p)
      BY <1>1, <2>1, <3>1 DEF Holds
    <3>2. CASE i > Len(p)
      <4>1. i - Len(p) \in 1..Len(q) /\ q[i - Len(p)] = y
        BY <1>1, <2>1, <3>2
      <4> QED  BY <4>1 DEF Holds
    <3> QED  BY <1>1, <3>1, <3>2
  <2>2. ASSUME NEW i \in 1..Len(p), p[i] = y PROVE Holds(p \o q, y)
    <3>1. i \in 1..Len(p \o q) /\ (p \o q)[i] = y
      BY <1>1, <2>2
    <3> QED  BY <3>1 DEF Holds
  <2>3. ASSUME NEW i \in 1..Len(q), q[i] = y PROVE Holds(p \o q, y)
    <3>1. Len(p) + i \in 1..Len(p \o q) /\ ~(Len(p) + i <= Len(p)) /\ (Len(p) + i) - Len(p) = i
      BY <1>1
    <3>2. (p \o q)[Len(p) + i] = y
      BY <1>1, <2>3, <3>1
    <3> QED  BY <3>1, <3>2 DEF Holds
  <2> QED  BY <2>1, <2>2, <2>3 DEF Holds
<1>3. p = <<>> => p \o q = q
  BY ConcatEmptySeq
<1>4. p # <<>> => p \o q # <<>> /\ (p \o q)[1] = p[1]
  <2>1. p # <<>> => Len(p) > 0
    BY <1>1, EmptySeq
  <2>2. Len(p) > 0 => Len(p \o q) > 0 /\ (p \o q)[1] = p[1]
    BY <1>1
  <2> QED  BY <2>1, <2>2, EmptySeq
<1>5. q # <<>> => p \o q # <<>>
  <2>1. q # <<>> => Len(q) > 0
    BY <1>1, EmptySeq
  <2>2. Len(q) > 0 => Len(p \o q) > 0
    BY <1>1
  <2> QED  BY <2>1, <2>2, EmptySeq
<1> QED  BY <1>1, <1>2, <1>3, <1>4, <1>5

\* A queue whose head is taken.
LEMMA TailFacts ==
    ASSUME NEW q \in Seq(Cmds), q # <<>>
    PROVE  /\ Head(q) = q[1] /\ Head(q) \in Cmds /\ Tail(q) \in Seq(Cmds) /\ Holds(q, Head(q))
           /\ \A y : Holds(Tail(q), y) => Holds(q, y)
           /\ \A y : Holds(q, y) => y = Head(q) \/ Holds(Tail(q), y)
<1>1. /\ Len(q) \in Nat /\ Len(q) > 0 /\ Head(q) = q[1] /\ Head(q) \in Cmds
      /\ Tail(q) \in Seq(Cmds) /\ Len(Tail(q)) = Len(q) - 1 /\ \A i \in 1..Len(Tail(q)) : Tail(q)[i] = q[i + 1]
  BY HeadTailProperties, LenProperties, EmptySeq
<1>2. Holds(q, Head(q))
  BY <1>1 DEF Holds
<1>3. ASSUME NEW i \in 1..Len(Tail(q)) PROVE Holds(q, Tail(q)[i])
  <2>1. i + 1 \in 1..Len(q) /\ Tail(q)[i] = q[i + 1]
    BY <1>1
  <2> QED  BY <2>1 DEF Holds
<1>4. ASSUME NEW i \in 1..Len(q), i # 1 PROVE Holds(Tail(q), q[i])
  <2>1. i - 1 \in 1..Len(Tail(q)) /\ (i - 1) + 1 = i
    BY <1>1, <1>4
  <2>2. Tail(q)[i - 1] = q[i]
    BY <1>1, <2>1
  <2> QED  BY <2>1, <2>2 DEF Holds
<1> QED  BY <1>1, <1>2, <1>3, <1>4 DEF Holds

\* What a crash lets through.
LEMMA PrefixFacts ==
    ASSUME NEW q \in Seq(Cmds), NEW n \in 0..Len(q)
    PROVE  /\ SubSeq(q, 1, n) \in Seq(Cmds)
           /\ SubSeq(q, 1, n) # <<>> => q # <<>> /\ SubSeq(q, 1, n)[1] = q[1]
<1>1. Len(q) \in Nat
  BY LenProperties
<1>2. CASE n = 0
  <2>1. SubSeq(q, 1, n) = <<>>
    BY <1>2, SubSeqEmpty
  <2> QED  BY <2>1, EmptySeq
<1>3. CASE n # 0
  <2>1. n \in Nat /\ n >= 1 /\ n <= Len(q) /\ 1 \in 1..(Len(q) + 1) /\ n \in 0..Len(q)
    BY <1>1, <1>3
  <2>2. \A i \in 1..n : i \in 1..Len(q)
    BY <1>1, <2>1
  <2>3. q \in [1..Len(q) -> Cmds]
    BY LenProperties
  <2>4. SubSeq(q, 1, n) \in Seq(Cmds) /\ Len(SubSeq(q, 1, n)) = n /\ SubSeq(q, 1, n)[1] = q[1]
    BY <2>1, <2>2, <2>3, SubSeqProperties
  <2>5. q # <<>>
    BY <1>1, <2>1, EmptySeq
  <2> QED  BY <2>4, <2>5
<1> QED  BY <1>2, <1>3

\* Nothing is in an empty queue; the one command of a new one is SELECT.
LEMMA FewFacts ==
    /\ <<>> \in Seq(Cmds) /\ \A y : ~Holds(<<>>, y)
    /\ <<"SELECT">> \in Seq(Cmds) /\ Leads(<<"SELECT">>) /\ \A y : Holds(<<"SELECT">>, y) => y = "SELECT"
    /\ \A q \in Seq(Cmds) : \A y : Holds(q, y) => q # <<>>
<1>1. <<>> \in Seq(Cmds) /\ Len(<<>>) = 0
  BY EmptySeq
<1>2. \A y : ~Holds(<<>>, y)
  BY <1>1 DEF Holds
<1>3. <<"SELECT">> \in Seq(Cmds) /\ Leads(<<"SELECT">>) /\ \A y : Holds(<<"SELECT">>, y) => y = "SELECT"
  BY DEF Cmds, Leads, Holds
<1> QED  BY <1>1, <1>2, <1>3
-----------------------------------------------------------------------------
(***************************************************************************)
(* The connection.                                                         *)
(***************************************************************************)
\* d is the connection c after command x was buffered, on a new one if c was
\* invalid.
Sent(c, d, x) ==
    /\ d \in Conn /\ d.valid /\ d.buf # <<>> /\ Holds(d.buf, x)
    /\ c.valid => /\ d.tcp = c.tcp /\ d.rev = c.rev
                  /\ Leads(c.buf) => Leads(d.buf)
                  /\ \A y : Holds(d.buf, y) <=> Holds(c.buf, y) \/ x = y
    /\ ~c.valid => /\ d.tcp = "connecting" /\ Leads(d.buf)
                   /\ \A y : Holds(d.buf, y) => y = "SELECT" \/ y = x

\* That is what send_message_to_redis makes of it.
LEMMA SendFacts ==
    ASSUME NEW c \in Conn, NEW x \in Cmds
    PROVE  Sent(c, SendMessage(c, x), x)
<1>1. CASE c.valid
  <2>1. SendMessage(c, x) = [c EXCEPT !.buf = Append(c.buf, x)]
    BY <1>1 DEF SendMessage
  <2>2. c.buf \in Seq(Cmds)
    BY DEF Conn
  <2>3. /\ Append(c.buf, x) \in Seq(Cmds) /\ Append(c.buf, x) # <<>>
        /\ \A y : Holds(Append(c.buf, x), y) <=> Holds(c.buf, y) \/ x = y
        /\ Leads(c.buf) => Leads(Append(c.buf, x))
    BY <2>2, AppendFacts
  <2>4. PICK b : b = Append(c.buf, x)
    OBVIOUS
  <2>5. b \in Seq(Cmds) /\ SendMessage(c, x) = [c EXCEPT !.buf = b]
    BY <2>1, <2>3, <2>4
  <2>6. /\ SendMessage(c, x) \in Conn /\ SendMessage(c, x).valid = c.valid /\ SendMessage(c, x).tcp = c.tcp
        /\ SendMessage(c, x).rev = c.rev /\ SendMessage(c, x).buf = b
    BY <2>5 DEF Conn
  <2> HIDE DEF Conn
  <2> QED  BY <1>1, <2>3, <2>4, <2>6 DEF Sent
<1>2. CASE ~c.valid
  <2>1. PICK b : b = Append(<<"SELECT">>, x)
    OBVIOUS
  <2>2. b \in Seq(Cmds) /\ b # <<>> /\ Leads(b) /\ \A y : Holds(b, y) <=> Holds(<<"SELECT">>, y) \/ x = y
    BY <2>1, AppendFacts, FewFacts
  <2>3. SendMessage(c, x) = [valid |-> TRUE, tcp |-> "connecting", rev |-> "oneshot", buf |-> b]
    <3>1. SendMessage(c, x) = [Reconnect(c) EXCEPT !.buf = Append(Reconnect(c).buf, x)]
      BY <1>2 DEF SendMessage
    <3>2. Append(Reconnect(c).buf, x) = b
      BY <2>1 DEF Reconnect
    <3>3. SendMessage(c, x) = [Reconnect(c) EXCEPT !.buf = b]
      BY <3>1, <3>2
    <3> QED  BY <3>3 DEF Reconnect
  <2>4. /\ SendMessage(c, x) \in Conn /\ SendMessage(c, x).valid = TRUE /\ SendMessage(c, x).tcp = "connecting"
        /\ SendMessage(c, x).buf = b
    BY <2>2, <2>3 DEF Conn
  <2>5. \A y : Holds(b, y) => y = "SELECT" \/ y = x
    BY <2>2, FewFacts
  <2> QED  BY <1>2, <2>2, <2>4, <2>5 DEF Sent
<1> QED  BY <1>1, <1>2

\* The connections the code makes.
LEMMA NewConns ==
    /\ NoConn \in Conn /\ NoConn.valid = FALSE /\ NoConn.tcp = "none" /\ NoConn.buf = <<>>
    /\ Attach \in Conn /\ Attach.valid = TRUE /\ Attach.tcp = "connecting" /\ Attach.buf = <<"SELECT">>
    /\ \A c : /\ Reconnect(c) \in Conn /\ Reconnect(c).valid = TRUE /\ Reconnect(c).tcp = "connecting"
              /\ Reconnect(c).buf = <<"SELECT">>
BY FewFacts DEF NoConn, Attach, Reconnect, Conn

\* Work that waits on starts no new delay.
LEMMA SettleFacts ==
    ASSUME TypeOK, Settle
    PROVE  /\ lag' \in 0..MaxDelay
           /\ /\ proc' = "running"
              /\ timer' = 0 \/ (conn'.valid /\ conn'.buf # <<>>) \/ wire' # <<>>
              => lag' = lag
<1>1. lag \in 0..MaxDelay /\ 0 \in 0..MaxDelay
  BY PeriodAssumption DEF TypeOK
<1> QED  BY <1>1 DEF Settle, Pending, Alive

\* The constants are numbers.
LEMMA Numbers ==
    /\ Period \in Nat /\ Period > 0 /\ MaxDelay \in Nat /\ MaxFaults \in Nat /\ TTL \in Nat
    /\ TTL > Period + MaxDelay /\ Absence \in Nat /\ MaxGap \in Nat
    /\ Absence = 3 * (Period + MaxDelay) /\ MaxGap = Absence + 1
BY PeriodAssumption, TTLAssumption, DelayAssumption DEF Absence, MaxGap
-----------------------------------------------------------------------------
\* At first there is no server.
LEMMA InitKeeps == ASSUME Init PROVE IInv
<1>1. TypeOK
  <2>1. 0 \in 0..Period /\ 0 \in 0..TTL /\ 0 \in 0..MaxDelay /\ 0 \in 0..MaxFaults /\ 0 \in 0..MaxGap
    BY Numbers
  <2>2. hasSwap \in BOOLEAN /\ redisUp \in BOOLEAN /\ conn \in Conn /\ wire \in Seq(Cmds)
    BY NewConns, FewFacts, SwapAssumption DEF Init
  <2> QED  BY <2>1, <2>2 DEF Init, TypeOK
<1>2. Selects /\ Wired /\ Listed /\ Healthy /\ Bounded
  BY NewConns, FewFacts DEF Init, Selects, Wired, Listed, Healthy, Bounded, Alive, Present
<1> QED  BY <1>1, <1>2 DEF IInv

\* The clocks are numbers within their bounds.
LEMMA ClockFacts ==
    ASSUME TypeOK
    PROVE  /\ timer \in Nat /\ timer <= Period /\ key \in Nat /\ key <= TTL /\ lag \in Nat /\ lag <= MaxDelay
           /\ gap \in Nat /\ gap <= MaxGap /\ faults \in Nat /\ faults <= MaxFaults
           /\ Behind \in Nat /\ Behind <= 2 * (Period + MaxDelay)
           /\ gap = 0 => gap + timer + MaxDelay + Behind <= Absence
<1>1. /\ timer \in Nat /\ timer <= Period /\ key \in Nat /\ key <= TTL /\ lag \in Nat /\ lag <= MaxDelay
      /\ gap \in Nat /\ gap <= MaxGap /\ faults \in Nat /\ faults <= MaxFaults
  BY Numbers DEF TypeOK
<1>2. Behind \in Nat /\ Behind <= 2 * (Period + MaxDelay)
  BY Numbers DEF Behind
<1> QED  BY <1>1, <1>2, Numbers

\* setup_broker_server
LEMMA SetupKeeps == ASSUME IInv, Setup PROVE IInv'
<1>1. TypeOK /\ Listed /\ Healthy /\ Bounded
  BY DEF IInv
<1>2. proc = "off" /\ proc' = "setup" /\ ~listed /\ ~listed' /\ gap' = 0 /\ wire' = <<>> /\ conn' = Attach
  BY <1>1 DEF Setup, Listed
<1>3. TypeOK'
  <2>1. Rearm \in 0..Period /\ 0 \in 0..MaxGap
    BY Numbers DEF Rearm
  <2>2. lag' \in 0..MaxDelay
    BY <1>1, SettleFacts DEF Setup
  <2> QED  BY <1>1, <1>2, <2>1, <2>2, NewConns, FewFacts DEF TypeOK, Setup, store
<1>4. Selects' /\ Wired'
  BY <1>2, NewConns, FewFacts DEF Selects, Wired
<1>5. Listed'
  BY <1>2, NewConns, FewFacts DEF Listed, Alive
<1>6. Healthy' /\ Bounded'
  BY <1>2, NewConns DEF Healthy, Bounded
<1> QED  BY <1>3, <1>4, <1>5, <1>6 DEF IInv

\* getSwapMemUsage
LEMMA DivideByZeroKeeps == ASSUME IInv, DivideByZero PROVE IInv'
<1>1. TypeOK /\ Selects /\ Listed /\ Healthy /\ Bounded
  BY DEF IInv
<1>2. /\ proc = "setup" /\ proc' = "trapped" /\ ~listed /\ ~listed' /\ gap' = gap /\ wire' = wire /\ sel' = sel
      /\ conn' = NoConn /\ key' = key /\ forever' = forever
  BY <1>1 DEF DivideByZero, Listed, clocks, link, store
<1>3. TypeOK'
  <2>1. lag' \in 0..MaxDelay
    BY <1>1, SettleFacts DEF DivideByZero
  <2> QED  BY <1>1, <1>2, <2>1, NewConns DEF TypeOK, DivideByZero, clocks, link
<1>4. Selects' /\ Wired'
  BY <1>1, <1>2, NewConns DEF Selects, Wired, Alive
<1>5. Listed'
  BY <1>2 DEF Listed, Alive
<1>6. Healthy' /\ Bounded'
  BY <1>1, <1>2, NewConns DEF Healthy, Bounded, Present
<1> QED  BY <1>3, <1>4, <1>5, <1>6 DEF IInv

\* A restart only names the state a crash has left.
LEMMA RestartKeeps == ASSUME IInv, Restart PROVE IInv'
<1>1. TypeOK /\ Selects /\ Wired /\ Listed /\ Healthy /\ Bounded
  BY DEF IInv
<1>2. /\ proc = "dead" /\ proc' = "off" /\ ~listed /\ ~listed' /\ gap' = gap /\ wire' = wire /\ sel' = sel
      /\ conn' = conn /\ key' = key /\ forever' = forever /\ wire = <<>> /\ conn = NoConn /\ faults' = faults
  BY <1>1 DEF Restart, Listed, clocks, link, store, Alive
<1>3. TypeOK'
  <2>1. lag' \in 0..MaxDelay
    BY <1>1, SettleFacts DEF Restart
  <2> QED  BY <1>1, <1>2, <2>1 DEF TypeOK, Restart, clocks, link
<1>4. Selects' /\ Wired'
  BY <1>1, <1>2, NewConns DEF Selects, Wired, Alive
<1>5. Listed'
  BY <1>2, NewConns, FewFacts DEF Listed, Alive
<1>6. Healthy' /\ Bounded'
  BY <1>1, <1>2, NewConns DEF Healthy, Bounded, Present
<1> QED  BY <1>3, <1>4, <1>5, <1>6 DEF IInv

\* A crash
LEMMA CrashKeeps == ASSUME IInv, NEW n \in 0..Len(wire), Crash(n) PROVE IInv'
<1>1. TypeOK /\ Selects /\ Wired /\ Listed /\ Healthy /\ Bounded
  BY DEF IInv
<1>2. /\ proc' = "dead" /\ ~listed' /\ gap' = 0 /\ wire' = SubSeq(wire, 1, n) /\ sel' = sel
      /\ conn' = NoConn /\ faults' = faults + 1 /\ faults < MaxFaults
  BY <1>1 DEF Crash
<1>3. wire \in Seq(Cmds) /\ wire' \in Seq(Cmds) /\ (wire' # <<>> => wire # <<>> /\ wire'[1] = wire[1])
  BY <1>1, <1>2, PrefixFacts DEF TypeOK
<1>4. TypeOK'
  <2>1. lag' \in 0..MaxDelay
    BY <1>1, SettleFacts DEF Crash
  <2>2. faults' \in 0..MaxFaults /\ 0 \in 0..MaxGap
    BY <1>1, <1>2, Numbers, ClockFacts
  <2>3. halved' \in BOOLEAN
    BY <1>1 DEF Crash, TypeOK
  <2> QED  BY <1>1, <1>2, <1>3, <2>1, <2>2, <2>3, NewConns DEF TypeOK, Crash, store
<1>5. Selects' /\ Wired'
  BY <1>1, <1>2, <1>3, NewConns DEF Selects, Wired, Alive
<1>6. Listed'
  BY <1>2 DEF Listed, Alive
<1>7. Healthy' /\ Bounded'
  BY <1>1, <1>2, NewConns, ClockFacts DEF Healthy, Bounded, Present
<1> QED  BY <1>4, <1>5, <1>6, <1>7 DEF IInv

\* The main thread's SET
LEMMA MainSetKeeps == ASSUME IInv, MainSet PROVE IInv'
<1>1. TypeOK /\ Selects /\ Wired /\ Listed /\ Healthy /\ Bounded
  BY DEF IInv
<1>2. /\ proc = "setup" /\ proc' = "half" /\ ~listed /\ ~listed' /\ gap' = gap /\ wire' = wire /\ sel' = sel
      /\ key' = key /\ forever' = forever /\ faults' = faults
  BY <1>1 DEF MainSet, Listed, clocks, link, store
<1>3. Sent(conn, conn', "SET") /\ conn' \in Conn
  <2>1. conn \in Conn /\ "SET" \in Cmds
    BY <1>1 DEF TypeOK, Cmds
  <2> QED  BY <2>1, SendFacts DEF MainSet, Sent
<1>4. TypeOK'
  <2>1. lag' \in 0..MaxDelay
    BY <1>1, SettleFacts DEF MainSet
  <2> QED  BY <1>1, <1>2, <1>3, <2>1 DEF TypeOK, MainSet, clocks, link
<1>5. Selects' /\ Wired'
  BY <1>1, <1>2, <1>3 DEF Selects, Wired, Alive, Sent
<1>6. Listed'
  BY <1>1, <1>2, <1>3 DEF Listed, Alive, Sent
<1>7. Healthy' /\ Bounded'
  BY <1>1, <1>2, <1>3 DEF Healthy, Bounded, Present, Sent
<1> QED  BY <1>4, <1>5, <1>6, <1>7 DEF IInv

\* The main thread's EXPIRE
LEMMA MainExpireKeeps == ASSUME IInv, MainExpire PROVE IInv'
<1>1. TypeOK /\ Selects /\ Wired /\ Listed /\ Healthy /\ Bounded
  BY DEF IInv
<1>2. /\ proc = "half" /\ proc' = "running" /\ ~listed /\ ~listed' /\ gap' = gap /\ wire' = wire /\ sel' = sel
      /\ key' = key /\ forever' = forever /\ faults' = faults
  BY <1>1 DEF MainExpire, Listed, clocks, link, store
<1>3. Sent(conn, conn', "EXPIRE") /\ conn' \in Conn
  <2>1. conn \in Conn /\ "EXPIRE" \in Cmds
    BY <1>1 DEF TypeOK, Cmds
  <2> QED  BY <2>1, SendFacts DEF MainExpire, Sent
<1>4. TypeOK'
  <2>1. lag' \in 0..MaxDelay
    BY <1>1, SettleFacts DEF MainExpire
  <2> QED  BY <1>1, <1>2, <1>3, <2>1 DEF TypeOK, MainExpire, clocks, link
<1>5. Selects' /\ Wired'
  BY <1>1, <1>2, <1>3 DEF Selects, Wired, Alive, Sent
<1>6. Listed'
  BY <1>2 DEF Listed, Alive
<1>7. Healthy' /\ Bounded'
  BY <1>1, <1>2, <1>3 DEF Healthy, Bounded, Present, Sent
<1> QED  BY <1>4, <1>5, <1>6, <1>7 DEF IInv

\* turn_register_timeout_handler: the refresh that was due is on its way.
LEMMA RefreshKeeps == ASSUME IInv, Refresh PROVE IInv'
<1>1. TypeOK /\ Selects /\ Wired /\ Listed /\ Healthy /\ Bounded
  BY DEF IInv
<1>2. /\ proc = "running" /\ proc' = "running" /\ timer = 0 /\ timer' = Period /\ gap' = gap /\ wire' = wire
      /\ sel' = sel /\ key' = key /\ forever' = forever /\ faults' = faults /\ listed' = listed /\ redisUp' = redisUp
  BY DEF Refresh, link, store, Rearm
<1>3. /\ conn' \in Conn /\ conn'.valid /\ conn'.buf # <<>> /\ Holds(conn'.buf, "SET")
      /\ conn.valid => conn'.tcp = conn.tcp /\ (Leads(conn.buf) => Leads(conn'.buf))
      /\ ~conn.valid => conn'.tcp = "connecting" /\ Leads(conn'.buf)
  <2>1. conn \in Conn /\ "SET" \in Cmds /\ "EXPIRE" \in Cmds
    BY <1>1 DEF TypeOK, Cmds
  <2>2. PICK d : d = SendMessage(conn, "SET")
    OBVIOUS
  <2>3. Sent(conn, d, "SET") /\ d \in Conn
    BY <2>1, <2>2, SendFacts DEF Sent
  <2>4. Sent(d, conn', "EXPIRE")
    BY <2>1, <2>2, <2>3, SendFacts DEF Refresh, Register
  <2> QED  BY <2>3, <2>4 DEF Sent
<1>4. lag' \in 0..MaxDelay /\ lag' = lag
  BY <1>1, <1>2, <1>3, SettleFacts DEF Refresh
<1>5. TypeOK'
  <2>1. Period \in 0..Period
    BY Numbers
  <2> QED  BY <1>1, <1>2, <1>3, <1>4, <2>1 DEF TypeOK, Refresh, link
<1>6. Selects' /\ Wired'
  BY <1>1, <1>2, <1>3 DEF Selects, Wired, Alive
<1>7. Listed'
  BY <1>1, <1>2 DEF Listed, Alive
<1>8. Healthy'
  <2>1. faults = 0 => conn'.tcp \in {"none", "connecting", "open"} /\ (listed => conn'.tcp = "open")
    BY <1>1, <1>2, <1>3 DEF Healthy, Wired
  <2>2. faults = 0 /\ listed => forever \/ key + lag > MaxDelay
    BY <1>1, <1>2, Numbers, ClockFacts DEF Healthy
  <2> QED  BY <1>2, <1>3, <1>4, <2>1, <2>2 DEF Healthy, Due
<1>9. Bounded'
  <2>1. Present' => gap' = 0
    BY <1>1, <1>2 DEF Bounded, Present
  <2>2. Moving' /\ Behind' = Behind
    BY <1>1, <1>3 DEF Moving, Behind, Wired, TypeOK, Conn
  <2>3. faults <= 1 /\ listed => gap + MaxDelay + Behind <= Absence + lag
    BY <1>1, <1>2, Numbers, ClockFacts DEF Bounded
  <2> QED  BY <1>1, <1>2, <1>4, <2>1, <2>2, <2>3 DEF Bounded
<1> QED  BY <1>5, <1>6, <1>7, <1>8, <1>9 DEF IInv

\* The outcome of connect()
LEMMA ConnectedKeeps == ASSUME IInv, Connected PROVE IInv'
<1>1. TypeOK /\ Selects /\ Wired /\ Listed /\ Healthy /\ Bounded
  BY DEF IInv
<1>2. /\ proc' = proc /\ timer' = timer /\ gap' = gap /\ wire' = <<>> /\ wire = <<>> /\ key' = key
      /\ forever' = forever /\ faults' = faults /\ listed' = listed /\ redisUp' = redisUp
      /\ Alive /\ Alive' /\ conn.tcp = "connecting" /\ conn.valid /\ Leads(conn.buf)
  BY <1>1 DEF Connected, clocks, store, Wired, Selects, Alive
<1>3. /\ conn' \in Conn
      /\ redisUp => conn'.tcp = "open" /\ conn'.valid /\ conn'.buf = conn.buf
      /\ ~redisUp => conn' = NoConn
  <2>1. CASE redisUp
    BY <1>1, <1>2, <2>1 DEF Connected, TypeOK, Conn
  <2>2. CASE ~redisUp
    BY <2>2, NewConns DEF Connected
  <2> QED  BY <2>1, <2>2
<1>4. lag' \in 0..MaxDelay
  BY <1>1, SettleFacts DEF Connected
<1>5. TypeOK'
  BY <1>1, <1>2, <1>3, <1>4, FewFacts DEF TypeOK, Connected, clocks, store
<1>6. Selects' /\ Wired'
  BY <1>2, <1>3, NewConns DEF Selects, Wired
<1>7. Listed'
  BY <1>1, <1>2, <1>3, NewConns, FewFacts DEF Listed, Alive
<1>8. Healthy'
  BY <1>1, <1>2, <1>3, NewConns DEF Healthy
<1>9. Bounded'
  <2>1. Present' => gap' = 0
    BY <1>1, <1>2 DEF Bounded, Present
  <2>2. Behind' = 0 /\ Behind = 0
    BY <1>2, <1>3, NewConns DEF Behind
  <2>3. CASE ~redisUp
    BY <1>1, <1>2, <2>1, <2>2, <2>3, Numbers, ClockFacts DEF Bounded
  <2>4. CASE redisUp
    <3>1. Moving => Moving'
      BY <1>2, <1>3, <2>4, FewFacts DEF Moving
    <3>2. listed /\ Moving => lag' = lag
      <4>1. listed => proc' = "running"
        BY <1>1, <1>2 DEF Listed
      <4>2. Moving => timer' = 0 \/ (conn'.valid /\ conn'.buf # <<>>)
        BY <1>2, <1>3, <2>4, FewFacts DEF Moving, Leads
      <4> QED  BY <1>1, <4>1, <4>2, SettleFacts DEF Connected
    <3> QED  BY <1>1, <1>2, <2>1, <2>2, <2>4, <3>1, <3>2 DEF Bounded
  <2> QED  BY <2>3, <2>4
<1> QED  BY <1>5, <1>6, <1>7, <1>8, <1>9 DEF IInv

\* A listed server without faults is in the list, and was never away.
LEMMA HealthyFacts ==
    ASSUME IInv, faults = 0, listed
    PROVE  Present /\ gap = 0
<1>1. TypeOK /\ Healthy /\ Bounded
  BY DEF IInv
<1>2. forever \/ key > 0
  BY <1>1, ClockFacts, Numbers DEF Healthy
<1> QED  BY <1>1, <1>2 DEF Bounded, Present

\* A tick and the time a connection is behind, of Period p and MaxDelay d.
LEMMA InTime ==
    ASSUME NEW t \in Nat, NEW b \in Nat, NEW p \in Nat, NEW d \in Nat, t <= p, b <= 2 * (p + d)
    PROVE  t + d + b <= 3 * (p + d)
OBVIOUS

\* In the next state a server that is not missing has time enough.
LEMMA LaterClockFacts ==
    ASSUME TypeOK'
    PROVE  gap' = 0 => gap' + timer' + MaxDelay + Behind' <= Absence
<1>1. timer' \in Nat /\ timer' <= Period
  BY Numbers DEF TypeOK
<1>2. Behind' \in Nat /\ Behind' <= 2 * (Period + MaxDelay)
  BY Numbers DEF Behind
<1>3. timer' + MaxDelay + Behind' <= Absence
  BY <1>1, <1>2, Numbers, InTime
<1>4. gap' = 0 => gap' + timer' + MaxDelay + Behind' = timer' + MaxDelay + Behind'
  BY <1>1, <1>2, Numbers
<1> QED  BY <1>3, <1>4

\* A SET that is due, or work the registration waits for, is ready work.
LEMMA PendingFacts ==
    ASSUME TypeOK, Wired, proc = "running"
    PROVE  Moving \/ (Due /\ conn.tcp = "open") => Pending
<1>1. conn.buf \in Seq(Cmds) /\ wire \in Seq(Cmds)
  BY DEF TypeOK, Conn
<1>2. /\ Holds(conn.buf, "SET") => conn.buf # <<>>
      /\ Holds(wire, "SET") => wire # <<>>
  BY <1>1, FewFacts
<1> QED  BY <1>2 DEF Moving, Due, Pending, Alive, Wired

\* The connection breaks.
LEMMA BreakKeeps == ASSUME IInv, Break PROVE IInv'
<1>1. TypeOK /\ Selects /\ Wired /\ Listed /\ Healthy /\ Bounded
  BY DEF IInv
<1>2. /\ proc' = proc /\ timer' = timer /\ gap' = gap /\ wire' = <<>> /\ key' = key /\ forever' = forever
      /\ faults' = faults + 1 /\ faults < MaxFaults /\ listed' = listed /\ redisUp' = redisUp /\ Alive /\ Alive'
  BY DEF Break, clocks, store, Alive
<1>3. conn' \in Conn /\ conn'.tcp = "closed" /\ conn'.buf = conn.buf
  BY <1>1 DEF Break, TypeOK, Conn
<1>4. TypeOK'
  <2>1. lag' \in 0..MaxDelay
    BY <1>1, SettleFacts DEF Break
  <2>2. faults' \in 0..MaxFaults
    BY <1>1, <1>2, Numbers, ClockFacts
  <2>3. halved' \in BOOLEAN
    BY <1>1 DEF Break, TypeOK
  <2> QED  BY <1>1, <1>2, <1>3, <2>1, <2>2, <2>3, FewFacts DEF TypeOK, Break
<1>5. Selects' /\ Wired'
  BY <1>2, <1>3 DEF Selects, Wired
<1>6. Listed'
  BY <1>1, <1>2, <1>3, FewFacts DEF Listed, Alive
<1>7. Healthy'
  BY <1>1, <1>2, ClockFacts DEF Healthy
<1>8. Bounded'
  <2>1. Present' => gap' = 0
    BY <1>1, <1>2 DEF Bounded, Present
  <2>2. faults' <= 1 /\ listed' => gap' = 0
    BY <1>1, <1>2, ClockFacts, HealthyFacts
  <2>3. gap' = 0 => gap' + timer' + MaxDelay + Behind' <= Absence
    <3>1. TypeOK'
      BY <1>4
    <3> QED  BY <3>1, LaterClockFacts
  <2> QED  BY <2>1, <2>2, <2>3 DEF Bounded
<1> QED  BY <1>4, <1>5, <1>6, <1>7, <1>8 DEF IInv

\* Redis goes away.
LEMMA RedisStopsKeeps == ASSUME IInv, RedisStops PROVE IInv'
<1>1. TypeOK /\ Selects /\ Wired /\ Listed /\ Healthy /\ Bounded
  BY DEF IInv
<1>2. /\ proc' = proc /\ timer' = timer /\ gap' = gap /\ wire' = <<>> /\ key' = key /\ forever' = forever
      /\ faults' = faults + 1 /\ faults < MaxFaults /\ listed' = listed /\ redisUp' = FALSE
  BY DEF RedisStops, clocks, store
<1>3. /\ conn' \in Conn /\ conn'.buf = conn.buf /\ conn'.valid = conn.valid /\ conn'.tcp # "open"
      /\ conn.tcp # "open" => conn' = conn
      /\ conn.tcp = "open" => conn'.tcp = "closed"
  BY <1>1 DEF RedisStops, TypeOK, Conn
<1>4. TypeOK'
  <2>1. lag' \in 0..MaxDelay
    BY <1>1, SettleFacts DEF RedisStops
  <2>2. faults' \in 0..MaxFaults
    BY <1>1, <1>2, Numbers, ClockFacts
  <2>3. halved' \in BOOLEAN
    BY <1>1 DEF RedisStops, TypeOK
  <2> QED  BY <1>1, <1>2, <1>3, <2>1, <2>2, <2>3, FewFacts DEF TypeOK, RedisStops
<1>5. Selects' /\ Wired'
  BY <1>1, <1>2, <1>3 DEF Selects, Wired
<1>6. Listed'
  BY <1>1, <1>2, <1>3, NewConns, FewFacts DEF Listed, Alive
<1>7. Healthy'
  BY <1>1, <1>2, ClockFacts DEF Healthy
<1>8. Bounded'
  <2>1. Present' => gap' = 0
    BY <1>1, <1>2 DEF Bounded, Present
  <2>2. faults' <= 1 /\ listed' => gap' = 0
    BY <1>1, <1>2, ClockFacts, HealthyFacts
  <2>3. gap' = 0 => gap' + timer' + MaxDelay + Behind' <= Absence
    <3>1. TypeOK'
      BY <1>4
    <3> QED  BY <3>1, LaterClockFacts
  <2> QED  BY <2>1, <2>2, <2>3 DEF Bounded
<1> QED  BY <1>4, <1>5, <1>6, <1>7, <1>8 DEF IInv

\* Redis comes back.
LEMMA RedisStartsKeeps == ASSUME IInv, RedisStarts PROVE IInv'
<1>1. TypeOK /\ Selects /\ Wired /\ Listed /\ Healthy /\ Bounded
  BY DEF IInv
<1>2. /\ proc' = proc /\ timer' = timer /\ gap' = gap /\ wire' = wire /\ sel' = sel /\ key' = key /\ conn' = conn
      /\ forever' = forever /\ faults' = faults /\ listed' = listed /\ ~redisUp
  BY DEF RedisStarts, clocks, link, store
<1>3. lag' \in 0..MaxDelay
  BY <1>1, SettleFacts DEF RedisStarts
<1>4. TypeOK'
  BY <1>1, <1>2, <1>3 DEF TypeOK, RedisStarts, link
<1>5. Selects' /\ Wired' /\ Listed'
  BY <1>1, <1>2 DEF Selects, Wired, Listed, Alive
<1>6. Healthy'
  <2>1. (Due <=> Due') /\ (listed => proc = "running")
    BY <1>1, <1>2 DEF Due, Listed
  <2>2. proc = "running" /\ Due /\ conn.tcp = "open" => lag' = lag
    <3>1. Pending' <=> Pending
      BY <1>2 DEF Pending, Alive, ReadReady, RedisStarts, link
    <3> QED  BY <1>1, <3>1, PendingFacts DEF RedisStarts, Settle
  <2> QED  BY <1>1, <1>2, <2>1, <2>2 DEF Healthy
<1>7. Bounded'
  <2>1. Present' => gap' = 0
    BY <1>1, <1>2 DEF Bounded, Present
  <2>2. faults' <= 1 /\ listed' => gap' = 0
    BY <1>1, <1>2 DEF Bounded
  <2>3. gap' = 0 => gap' + timer' + MaxDelay + Behind' <= Absence
    <3>1. TypeOK'
      BY <1>4
    <3> QED  BY <3>1, LaterClockFacts
  <2> QED  BY <2>1, <2>2, <2>3 DEF Bounded
<1> QED  BY <1>4, <1>5, <1>6, <1>7 DEF IInv

\* Time passes: the key and the timer run down together, and what is due waits
\* no longer than MaxDelay.
LEMMA TickKeeps == ASSUME IInv, Tick PROVE IInv'
<1>1. TypeOK /\ Selects /\ Wired /\ Listed /\ Healthy /\ Bounded
  BY DEF IInv
<1>2. /\ proc' = proc /\ wire' = wire /\ sel' = sel /\ conn' = conn /\ redisUp' = redisUp
      /\ forever' = forever /\ faults' = faults /\ listed' = listed
      /\ timer' = (IF Alive /\ timer > 0 THEN timer - 1 ELSE timer)
      /\ key' = (IF key > 0 THEN key - 1 ELSE 0)
      /\ Pending => lag < MaxDelay /\ lag' = lag + 1
      /\ ~Pending => lag' = 0
  BY DEF Tick, link
<1>3. /\ timer' \in Nat /\ timer' <= timer /\ key' \in Nat /\ key' <= key /\ lag' \in Nat /\ lag' <= MaxDelay
      /\ gap' \in Nat /\ gap' <= MaxGap /\ gap' <= gap + 1
  <2>1. timer' \in Nat /\ timer' <= timer
    BY <1>1, <1>2, ClockFacts
  <2>2. key' \in Nat /\ key' <= key
    BY <1>1, <1>2, ClockFacts
  <2>3. lag' \in Nat /\ lag' <= MaxDelay
    BY <1>1, <1>2, ClockFacts, Numbers
  <2>4. gap' \in Nat /\ gap' <= MaxGap /\ gap' <= gap + 1
    BY <1>1, ClockFacts, Numbers DEF Tick
  <2> QED  BY <2>1, <2>2, <2>3, <2>4
<1>4. TypeOK'
  <2>1. timer' \in 0..Period /\ key' \in 0..TTL /\ lag' \in 0..MaxDelay /\ gap' \in 0..MaxGap
    BY <1>1, <1>3, ClockFacts, Numbers
  <2> QED  BY <1>1, <1>2, <2>1 DEF TypeOK, Tick, link
<1>5. Selects' /\ Wired' /\ Listed'
  BY <1>1, <1>2 DEF Selects, Wired, Listed, Alive
<1>6. timer = 0 => timer' = 0
  BY <1>2
<1>7. Healthy'
  <2>1. SUFFICES ASSUME faults = 0, listed, ~forever
                 PROVE  key' > timer' + MaxDelay \/ (Due' /\ key' + lag' > MaxDelay)
    BY <1>1, <1>2 DEF Healthy
  <2>2. proc = "running" /\ Alive /\ conn.tcp = "open"
    BY <1>1, <2>1 DEF Listed, Alive, Healthy
  <2>3. CASE key > timer + MaxDelay /\ timer > 0
    BY <1>1, <1>2, <2>2, <2>3, ClockFacts, Numbers
  <2>4. CASE Due /\ key + lag > MaxDelay
    <3>1. Pending
      BY <1>1, <2>2, <2>4, PendingFacts
    <3>2. key' + lag' > MaxDelay
      BY <1>1, <1>2, <2>4, <3>1, ClockFacts, Numbers
    <3>3. Due'
      BY <1>2, <1>6, <2>4 DEF Due
    <3> QED  BY <3>2, <3>3
  <2>5. CASE key > timer + MaxDelay /\ timer = 0
    <3>1. Due /\ key + lag > MaxDelay
      BY <1>1, <2>5, ClockFacts, Numbers DEF Due
    <3> QED  BY <2>4, <3>1
  <2> QED  BY <1>1, <2>1, <2>3, <2>4, <2>5, ClockFacts DEF Healthy
<1>8. Bounded'
  <2>1. (Present' => gap' = 0) /\ (~redisUp => gap' = 0)
    BY DEF Tick
  <2>2. Behind' = Behind
    BY <1>2 DEF Behind
  <2>3. ASSUME faults <= 1, listed
        PROVE  \/ gap' + timer' + MaxDelay + Behind' <= Absence
               \/ Moving' /\ gap' + MaxDelay + Behind' <= Absence + lag'
    <3>1. proc = "running" /\ Alive
      BY <1>1, <2>3 DEF Listed, Alive
    <3>2. CASE timer > 0 /\ gap + timer + MaxDelay + Behind <= Absence
      BY <1>1, <1>2, <1>3, <2>2, <3>1, <3>2, ClockFacts, Numbers
    <3>3. CASE Moving /\ gap + MaxDelay + Behind <= Absence + lag
      <4>1. Pending
        BY <1>1, <3>1, <3>3, PendingFacts
      <4>2. gap' + MaxDelay + Behind' <= Absence + lag'
        BY <1>1, <1>2, <1>3, <2>2, <3>3, <4>1, ClockFacts, Numbers
      <4>3. Moving'
        BY <1>2, <1>6, <3>3 DEF Moving
      <4> QED  BY <4>2, <4>3
    <3>4. CASE timer = 0 /\ gap + timer + MaxDelay + Behind <= Absence
      <4>1. Moving /\ gap + MaxDelay + Behind <= Absence + lag
        BY <1>1, <3>4, ClockFacts, Numbers DEF Moving
      <4> QED  BY <3>3, <4>1
    <3> QED  BY <1>1, <2>3, <3>2, <3>3, <3>4, ClockFacts DEF Bounded
  <2> QED  BY <1>2, <2>1, <2>3 DEF Bounded
<1> QED  BY <1>4, <1>5, <1>7, <1>8 DEF IInv

\* A connection that is found broken one step further takes a period and a
\* delay off what is still to come.
LEMMA CloserFacts ==
    ASSUME IInv, faults <= 1, listed, NEW b \in Nat, b + Period + MaxDelay <= Behind
    PROVE  gap + timer + MaxDelay + b <= Absence
<1>1. TypeOK /\ Bounded
  BY DEF IInv
<1>2. gap + MaxDelay + Behind <= Absence + lag
  BY <1>1, ClockFacts, Numbers DEF Bounded
<1> QED  BY <1>1, <1>2, ClockFacts, Numbers

\* redisLibeventWriteEvent
LEMMA WriteEventKeeps == ASSUME IInv, WriteEvent PROVE IInv'
<1>1. TypeOK /\ Selects /\ Wired /\ Listed /\ Healthy /\ Bounded
  BY DEF IInv
<1>2. /\ proc' = proc /\ timer' = timer /\ gap' = gap /\ sel' = sel /\ key' = key /\ forever' = forever
      /\ faults' = faults /\ listed' = listed /\ redisUp' = redisUp
      /\ Alive /\ Alive' /\ conn.valid /\ conn.buf # <<>> /\ conn.tcp \in {"open", "closed", "reset"}
  BY DEF WriteEvent, clocks, store, Alive
<1>3. lag' \in 0..MaxDelay
  BY <1>1, SettleFacts DEF WriteEvent
<1>4. conn.buf \in Seq(Cmds) /\ wire \in Seq(Cmds)
  BY <1>1 DEF TypeOK, Conn
<1>5. Present' => gap' = 0
  BY <1>1, <1>2 DEF Bounded, Present
<1>6. CASE conn.tcp = "open"
  <2>1. /\ wire' = wire \o conn.buf /\ conn' \in Conn /\ conn'.tcp = "open" /\ conn'.buf = <<>> /\ conn'.valid
    BY <1>1, <1>2, <1>6, FewFacts DEF WriteEvent, TypeOK, Conn
  <2>2. /\ wire' \in Seq(Cmds) /\ wire' # <<>>
        /\ \A y : Holds(wire', y) <=> Holds(wire, y) \/ Holds(conn.buf, y)
        /\ wire = <<>> => wire' = conn.buf
        /\ wire # <<>> => wire'[1] = wire[1]
    BY <1>2, <1>4, <2>1, ConcatFacts
  <2>3. TypeOK'
    BY <1>1, <1>2, <1>3, <2>1, <2>2 DEF TypeOK, WriteEvent, clocks, store
  <2>4. Selects' /\ Wired'
    BY <1>1, <1>2, <1>6, <2>1, <2>2 DEF Selects, Wired, Leads
  <2>5. Listed'
    BY <1>1, <1>2, <2>1, <2>2, FewFacts DEF Listed, Alive
  <2>6. proc = "running" => lag' = lag
    BY <1>1, <1>2, <2>2, SettleFacts DEF WriteEvent
  <2>7. Healthy'
    <3>1. Due => Due'
      BY <1>2, <2>2 DEF Due
    <3> QED  BY <1>1, <1>2, <2>1, <2>6, <3>1 DEF Healthy, Listed
  <2>8. Bounded'
    <3>1. (Moving => Moving') /\ Behind' = Behind
      BY <1>2, <1>6, <2>1, <2>2 DEF Moving, Behind
    <3> QED  BY <1>1, <1>2, <1>5, <2>6, <3>1 DEF Bounded, Listed
  <2> QED  BY <2>3, <2>4, <2>5, <2>7, <2>8 DEF IInv
<1>7. CASE conn.tcp # "open"
  <2>1. /\ conn' \in Conn /\ conn'.buf = <<>> /\ wire' = wire
        /\ conn.tcp = "closed" => conn'.tcp = "reset"
        /\ conn.tcp = "reset" => conn' = NoConn
    <3>1. CASE conn.tcp = "closed"
      BY <1>1, <1>2, <3>1, FewFacts DEF WriteEvent, TypeOK, Conn
    <3>2. CASE conn.tcp = "reset"
      BY <3>2, NewConns DEF WriteEvent
    <3> QED  BY <1>2, <1>7, <3>1, <3>2
  <2>2. wire = <<>>
    BY <1>1, <1>2, <1>7 DEF Wired
  <2>3. TypeOK'
    BY <1>1, <1>2, <1>3, <2>1 DEF TypeOK, WriteEvent, clocks, store
  <2>4. Selects' /\ Wired'
    BY <1>2, <1>7, <2>1, <2>2, NewConns DEF Selects, Wired
  <2>5. Listed'
    BY <1>1, <1>2, <2>1, <2>2, FewFacts DEF Listed
  <2>6. Healthy'
    BY <1>1, <1>2, <1>7 DEF Healthy
  <2>7. Bounded'
    <3>1. Behind' \in Nat /\ Behind' + Period + MaxDelay <= Behind
      BY <1>2, <1>7, <2>1, NewConns, Numbers DEF Behind
    <3>2. faults <= 1 /\ listed => gap + timer + MaxDelay + Behind' <= Absence
      BY <3>1, CloserFacts
    <3> QED  BY <1>1, <1>2, <1>5, <3>2 DEF Bounded
  <2> QED  BY <2>3, <2>4, <2>5, <2>6, <2>7 DEF IInv
<1> QED  BY <1>6, <1>7

\* redisLibeventReadEvent
LEMMA ReadEventKeeps == ASSUME IInv, ReadEvent PROVE IInv'
<1>1. TypeOK /\ Selects /\ Wired /\ Listed /\ Healthy /\ Bounded
  BY DEF IInv
<1>2. /\ proc' = proc /\ timer' = timer /\ gap' = gap /\ wire' = wire /\ sel' = sel /\ key' = key /\ forever' = forever
      /\ faults' = faults /\ listed' = listed /\ redisUp' = redisUp
      /\ Alive /\ Alive' /\ conn.tcp \in {"open", "closed", "reset"}
      /\ unread \/ conn.tcp \in {"closed", "reset"}
  BY DEF ReadEvent, ReadReady, clocks, store, Alive
<1>3. lag' \in 0..MaxDelay
  BY <1>1, SettleFacts DEF ReadEvent
<1>4. Fired(conn.rev) \in {"none", "persist", "oneshot", "spent"} /\ conn.buf \in Seq(Cmds) /\ wire \in Seq(Cmds)
  BY <1>1 DEF TypeOK, Conn, Fired
<1>5. Present' => gap' = 0
  BY <1>1, <1>2 DEF Bounded, Present
<1>6. CASE conn.valid /\ unread /\ conn.tcp # "reset" /\ unread' = FALSE /\ conn' = [conn EXCEPT !.rev = Fired(@)]
  <2>1. conn' \in Conn /\ conn'.valid = conn.valid /\ conn'.tcp = conn.tcp /\ conn'.buf = conn.buf
    BY <1>1, <1>4, <1>6 DEF TypeOK, Conn
  <2>2. TypeOK'
    BY <1>1, <1>2, <1>3, <1>6, <2>1 DEF TypeOK, ReadEvent, clocks, store
  <2>3. Selects' /\ Wired' /\ Listed'
    BY <1>1, <1>2, <2>1 DEF Selects, Wired, Listed
  <2>4. proc = "running" /\ (timer = 0 \/ conn.buf # <<>> \/ wire # <<>>) => lag' = lag
    BY <1>1, <1>2, <1>6, <2>1, SettleFacts DEF ReadEvent
  <2>5. (Holds(conn.buf, "SET") => conn.buf # <<>>) /\ (Holds(wire, "SET") => wire # <<>>)
    BY <1>4, FewFacts
  <2>6. Healthy'
    <3>1. (Due => Due') /\ (proc = "running" /\ Due => lag' = lag)
      BY <1>2, <2>1, <2>4, <2>5 DEF Due
    <3> QED  BY <1>1, <1>2, <2>1, <3>1 DEF Healthy, Listed
  <2>7. Bounded'
    <3>1. (Moving => Moving') /\ Behind' = Behind /\ (proc = "running" /\ Moving => lag' = lag)
      BY <1>2, <2>1, <2>4, <2>5 DEF Moving, Behind
    <3> QED  BY <1>1, <1>2, <1>5, <3>1 DEF Bounded, Listed
  <2> QED  BY <2>2, <2>3, <2>6, <2>7 DEF IInv
<1>7. CASE /\ conn.valid /\ (~unread \/ conn.tcp = "reset") /\ unread' = unread
           /\ conn' = [conn EXCEPT !.valid = FALSE, !.rev = Fired(@)]
  <2>1. conn' \in Conn /\ conn'.valid = FALSE /\ conn'.tcp = conn.tcp /\ conn'.buf = conn.buf
    BY <1>1, <1>4, <1>7 DEF TypeOK, Conn
  <2>2. conn.tcp \in {"closed", "reset"}
    BY <1>2, <1>7
  <2>3. TypeOK'
    BY <1>1, <1>2, <1>3, <1>7, <2>1 DEF TypeOK, ReadEvent, clocks, store
  <2>4. Selects' /\ Wired' /\ Listed'
    BY <1>1, <1>2, <2>1, <2>2 DEF Selects, Wired, Listed
  <2>5. Healthy'
    BY <1>1, <1>2, <2>2 DEF Healthy
  <2>6. Bounded'
    <3>1. Behind' = 0 /\ 0 + Period + MaxDelay <= Behind
      BY <1>7, <2>1, <2>2, Numbers DEF Behind
    <3>2. faults <= 1 /\ listed => gap + timer + MaxDelay + 0 <= Absence
      BY <3>1, CloserFacts
    <3> QED  BY <1>1, <1>2, <1>5, <3>1, <3>2 DEF Bounded
  <2> QED  BY <2>3, <2>4, <2>5, <2>6 DEF IInv
<1>8. CASE ~conn.valid /\ conn' = Reconnect(conn) /\ unread' = unread
  <2>1. conn' \in Conn /\ conn'.valid = TRUE /\ conn'.tcp = "connecting" /\ conn'.buf = <<"SELECT">>
    BY <1>8, NewConns
  <2>2. conn.tcp \in {"closed", "reset"} /\ wire = <<>>
    BY <1>1, <1>2, <1>8 DEF Wired
  <2>3. TypeOK'
    BY <1>1, <1>2, <1>3, <1>8, <2>1 DEF TypeOK, ReadEvent, clocks, store
  <2>4. Selects' /\ Wired'
    BY <1>2, <2>1, <2>2, FewFacts DEF Selects, Wired
  <2>5. Listed'
    <3>1. ~Holds(conn'.buf, "EXPIRE")
      BY <2>1, FewFacts
    <3> QED  BY <1>1, <1>2, <3>1 DEF Listed
  <2>6. Healthy'
    BY <1>1, <1>2, <2>2 DEF Healthy
  <2>7. Bounded'
    <3>1. Behind' = Behind /\ (Moving => timer = 0) /\ (timer = 0 => Moving')
      BY <1>2, <1>8, <2>1, <2>2, FewFacts DEF Moving, Behind
    <3>2. proc = "running" /\ timer = 0 => lag' = lag
      BY <1>1, <1>2, SettleFacts DEF ReadEvent
    <3> QED  BY <1>1, <1>2, <1>5, <3>1, <3>2 DEF Bounded, Listed
  <2> QED  BY <2>3, <2>4, <2>5, <2>6, <2>7 DEF IInv
<1> QED  BY <1>6, <1>7, <1>8 DEF ReadEvent

\* Redis executes a command: a SET or an EXPIRE finds the SELECT done.
LEMMA RedisExecKeeps == ASSUME IInv, RedisExec PROVE IInv'
<1>1. TypeOK /\ Selects /\ Wired /\ Listed /\ Healthy /\ Bounded
  BY DEF IInv
<1>2. /\ proc' = proc /\ timer' = timer /\ conn' = conn /\ faults' = faults /\ redisUp' = redisUp
      /\ wire # <<>> /\ wire' = Tail(wire) /\ (Alive <=> Alive')
  BY DEF RedisExec, Alive
<1>3. /\ wire' \in Seq(Cmds) /\ Head(wire) \in Cmds /\ Head(wire) = wire[1] /\ Holds(wire, Head(wire))
      /\ \A y : Holds(wire', y) => Holds(wire, y)
      /\ \A y : Holds(wire, y) => y = Head(wire) \/ Holds(wire', y)
  BY <1>1, <1>2, TailFacts DEF TypeOK
<1>4. Alive => conn.tcp = "open" /\ conn.valid
  BY <1>1, <1>2 DEF Wired
<1>5. sel' = TRUE /\ (Head(wire) # "SELECT" => sel = TRUE)
  BY <1>1, <1>2, <1>3 DEF RedisExec, Selects, TypeOK
<1>6. lag' \in 0..MaxDelay
  BY <1>1, SettleFacts DEF RedisExec
<1>7. proc = "running" /\ (timer = 0 \/ conn.buf # <<>> \/ wire' # <<>>) => lag' = lag
  BY <1>1, <1>2, <1>4, SettleFacts DEF RedisExec, Alive
<1>8. unread' \in BOOLEAN
  BY DEF RedisExec, Alive
<1>9. Selects' /\ Wired'
  BY <1>1, <1>2, <1>4, <1>5 DEF Selects, Wired
<1>10. conn.buf \in Seq(Cmds) /\ (Holds(conn.buf, "SET") => conn.buf # <<>>) /\ (Holds(wire', "SET") => wire' # <<>>)
  BY <1>1, <1>3, FewFacts DEF TypeOK, Conn
<1>11. CASE Head(wire) = "SELECT"
  <2>1. key' = key /\ forever' = forever /\ listed' = listed /\ halved' = halved /\ gap' = gap
    BY <1>11 DEF RedisExec, store
  <2>2. TypeOK'
    BY <1>1, <1>2, <1>3, <1>5, <1>6, <1>8, <2>1 DEF TypeOK, RedisExec
  <2>3. Listed'
    BY <1>1, <1>2, <1>3, <2>1 DEF Listed
  <2>4. Holds(wire, "SET") <=> Holds(wire', "SET")
    BY <1>3, <1>11
  <2>5. Healthy'
    <3>1. (Due => Due') /\ (proc = "running" /\ Due => lag' = lag)
      BY <1>2, <1>7, <1>10, <2>4 DEF Due
    <3> QED  BY <1>1, <1>2, <2>1, <3>1 DEF Healthy, Listed
  <2>6. Bounded'
    <3>1. (Moving => Moving') /\ Behind' = Behind /\ (proc = "running" /\ Moving => lag' = lag)
      BY <1>2, <1>7, <1>10, <2>4 DEF Moving, Behind
    <3>2. Present' => gap' = 0
      BY <1>1, <2>1 DEF Bounded, Present
    <3> QED  BY <1>1, <1>2, <2>1, <3>1, <3>2 DEF Bounded, Listed
  <2> QED  BY <1>9, <2>2, <2>3, <2>5, <2>6 DEF IInv
<1>12. CASE Head(wire) = "SET"
  <2>1. key' = 0 /\ forever' = TRUE /\ listed' = listed /\ halved' = halved /\ gap' = 0
    BY <1>5, <1>12 DEF RedisExec
  <2>2. TypeOK'
    <3>1. 0 \in 0..TTL /\ 0 \in 0..MaxGap
      BY Numbers
    <3> QED  BY <1>1, <1>2, <1>3, <1>5, <1>6, <1>8, <2>1, <3>1 DEF TypeOK, RedisExec
  <2>3. Listed'
    BY <1>1, <1>2, <1>3, <2>1 DEF Listed
  <2>4. Healthy'
    BY <1>1, <1>2, <2>1 DEF Healthy
  <2>5. Bounded'
    <3>1. Behind' \in Nat /\ Behind' <= 2 * (Period + MaxDelay)
      BY Numbers DEF Behind
    <3> QED  BY <1>1, <1>2, <2>1, <3>1, Numbers, ClockFacts DEF Bounded
  <2> QED  BY <1>9, <2>2, <2>3, <2>4, <2>5 DEF IInv
<1>13. CASE Head(wire) = "EXPIRE"
  <2>1. /\ key' = (IF Present THEN TTL ELSE key) /\ forever' = FALSE /\ halved' = FALSE /\ gap' = gap
        /\ listed' = (listed \/ (Present /\ Alive))
    BY <1>5, <1>13 DEF RedisExec, Expiry
  <2>2. TypeOK'
    <3>1. key' \in 0..TTL
      BY <1>1, <2>1, Numbers DEF TypeOK
    <3>2. listed' \in BOOLEAN
      BY <1>1, <2>1 DEF TypeOK, Present, Alive
    <3> QED  BY <1>1, <1>2, <1>3, <1>5, <1>6, <1>8, <2>1, <3>1, <3>2 DEF TypeOK, RedisExec
  <2>3. proc \notin {"off", "setup", "half"} /\ (Alive => proc = "running")
    BY <1>1, <1>3, <1>13 DEF Listed, Alive
  <2>4. Listed'
    BY <1>1, <1>2, <2>1, <2>3 DEF Listed
  <2>5. faults = 0 /\ listed' => Present /\ Alive
    BY <1>1, <2>1, HealthyFacts DEF Listed, Alive
  <2>6. Healthy'
    <3>1. faults = 0 /\ listed' => key' > timer' + MaxDelay
      BY <1>1, <1>2, <2>1, <2>5, ClockFacts, Numbers
    <3> QED  BY <1>1, <1>2, <1>4, <2>5, <3>1 DEF Healthy
  <2>7. Bounded'
    <3>1. Present' => gap' = 0
      BY <1>1, <2>1 DEF Bounded, Present
    <3>2. Holds(wire, "SET") <=> Holds(wire', "SET")
      BY <1>3, <1>13
    <3>3. (Moving => Moving') /\ Behind' = Behind /\ (proc = "running" /\ Moving => lag' = lag)
      BY <1>2, <1>7, <1>10, <3>2 DEF Moving, Behind
    <3>4. CASE listed
      BY <1>1, <1>2, <2>1, <3>1, <3>3, <3>4 DEF Bounded, Listed
    <3>5. CASE ~listed
      <4>1. listed' => gap = 0
        BY <1>1, <2>1, <3>5 DEF Bounded
      <4> QED  BY <1>1, <1>2, <2>1, <3>1, <3>3, <4>1, ClockFacts DEF Bounded
    <3> QED  BY <3>4, <3>5
  <2> QED  BY <1>9, <2>2, <2>4, <2>6, <2>7 DEF IInv
<1> QED  BY <1>3, <1>11, <1>12, <1>13 DEF Cmds

\* Every step keeps the invariant.
LEMMA NextKeeps == ASSUME IInv, [Next]_vars PROVE IInv'
<1>1. CASE UNCHANGED vars
  BY <1>1 DEF vars, IInv, TypeOK, Selects, Wired, Listed, Healthy, Bounded, Alive, Due, Present, Moving, Behind
<1>2. ASSUME NEW n \in 0..Len(wire), Crash(n) PROVE IInv'
  BY <1>2, CrashKeeps
<1>3. CASE Next
  BY <1>2, <1>3, SetupKeeps, DivideByZeroKeeps, MainSetKeeps, MainExpireKeeps, RefreshKeeps, ConnectedKeeps,
     WriteEventKeeps, ReadEventKeeps, RedisExecKeeps, TickKeeps, BreakKeeps, RedisStopsKeeps, RedisStartsKeeps,
     RestartKeeps DEF Next
<1> QED  BY <1>1, <1>3
-----------------------------------------------------------------------------
\* The invariant holds in every state the server, its connection and Redis
\* reach.
THEOREM Invariance == Spec => []IInv
<1>1. Init => IInv
  BY InitKeeps
<1>2. IInv /\ [Next]_vars => IInv'
  BY NextKeeps
<1> QED  BY <1>1, <1>2, PTL DEF Spec

\* The variables keep their types: no ready work waits longer than MaxDelay, and
\* a key never has more than TURN_REGISTERED_TTL_VALUE to live.
THEOREM TypeCorrectness == Spec => []TypeOK
<1>1. IInv => TypeOK
  BY DEF IInv
<1> QED  BY <1>1, Invariance, PTL

\* register_to_db's commands are never executed before the SELECT of their
\* connection, however often send_message_to_redis had to reconnect.
THEOREM NeverTheWrongDatabase == Spec => []SelectFirst
<1>1. IInv => SelectFirst
  <2>1. ASSUME TypeOK, Selects PROVE SelectFirst
    <3>1. wire # <<>> => Head(wire) = wire[1]
      BY <2>1, TailFacts DEF TypeOK
    <3> QED  BY <2>1, <3>1 DEF Selects, SelectFirst
  <2> QED  BY <2>1 DEF IInv
<1> QED  BY <1>1, Invariance, PTL

\* Whatever the period, the expiry and the delays are, an expiry that exceeds
\* the period by more than the delay keeps a server without faults in the list.
THEOREM HealthyServersListed == Spec => []ListedWhileHealthy
<1>1. IInv => ListedWhileHealthy
  BY HealthyFacts DEF ListedWhileHealthy
<1> QED  BY <1>1, Invariance, PTL

\* One fault takes a running server off the list for three periods and their
\* delays at most: a refresh that the peer never sees, one whose write fails,
\* one on the connection that send_message_to_redis makes anew.
THEOREM AbsenceBounded == Spec => []OneFaultBoundedAbsence
<1>1. IInv => OneFaultBoundedAbsence
  <2>1. ASSUME TypeOK, Bounded, faults <= 1, listed PROVE gap <= Absence
    BY <2>1, ClockFacts, Numbers DEF Bounded
  <2> QED  BY <2>1 DEF IInv, OneFaultBoundedAbsence
<1> QED  BY <1>1, Invariance, PTL
=============================================================================
