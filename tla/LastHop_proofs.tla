---------------------------- MODULE LastHop_proofs ----------------------------
(***************************************************************************)
(* The library lhcb.js implements the abstract calls of RequestReply, for  *)
(* any set of calls, and drops no answer.                                  *)
(***************************************************************************)
EXTENDS LastHop, SequenceTheorems, TLAPS

\* The elements of a queue that is appended to.
LEMMA ToSetAppend ==
    ASSUME NEW S, NEW seq \in Seq(S), NEW x \in S
    PROVE  Append(seq, x) \in Seq(S) /\ ToSet(Append(seq, x)) = ToSet(seq) \cup {x}
<1>1. Len(seq) \in Nat /\ DOMAIN seq = 1..Len(seq) /\ seq \in [1..Len(seq) -> S]
  BY LenProperties
<1>2. /\ Append(seq, x) \in Seq(S) /\ Len(Append(seq, x)) = Len(seq) + 1
      /\ \A i \in 1..Len(seq) : Append(seq, x)[i] = seq[i]
      /\ Append(seq, x)[Len(seq) + 1] = x
      /\ DOMAIN Append(seq, x) = 1..(Len(seq) + 1)
  BY AppendProperties, LenProperties
<1> QED  BY <1>1, <1>2 DEF ToSet

\* The elements of a queue that is consumed at the head.
LEMMA ToSetQueue ==
    ASSUME NEW S, NEW seq \in Seq(S)
    PROVE  seq # <<>> => /\ Head(seq) \in ToSet(seq) /\ Head(seq) \in S
                         /\ Tail(seq) \in Seq(S)
                         /\ ToSet(Tail(seq)) \subseteq ToSet(seq)
                         /\ ToSet(seq) = ToSet(Tail(seq)) \cup {Head(seq)}
<1>1. Len(seq) \in Nat /\ DOMAIN seq = 1..Len(seq) /\ seq \in [1..Len(seq) -> S]
  BY LenProperties
<1>4. ASSUME seq # <<>>
      PROVE  /\ Head(seq) = seq[1] /\ 1 \in 1..Len(seq) /\ Tail(seq) \in Seq(S)
             /\ Len(Tail(seq)) = Len(seq) - 1
             /\ \A i \in 1..(Len(seq) - 1) : Tail(seq)[i] = seq[i + 1]
             /\ DOMAIN Tail(seq) = 1..(Len(seq) - 1)
  <2>1. Tail(seq) \in Seq(S) /\ Len(Tail(seq)) = Len(seq) - 1
        /\ \A i \in 1..Len(Tail(seq)) : Tail(seq)[i] = seq[i + 1]
    BY <1>4, HeadTailProperties
  <2>2. Len(seq) > 0 /\ Head(seq) = seq[1]
    BY <1>1, <1>4, EmptySeq, HeadTailProperties
  <2> QED  BY <2>1, <2>2, <1>1, LenProperties
<1>5. ASSUME seq # <<>>
      PROVE  ToSet(seq) = ToSet(Tail(seq)) \cup {Head(seq)}
  <2>1. ASSUME NEW i \in 1..Len(seq)
        PROVE  seq[i] \in ToSet(Tail(seq)) \cup {Head(seq)}
    <3>1. CASE i = 1  BY <3>1, <1>4, <1>5
    <3>2. CASE i # 1
      <4>1. i - 1 \in 1..(Len(seq) - 1) /\ (i - 1) + 1 = i
        BY <3>2, <1>1
      <4>2. Tail(seq)[i - 1] = seq[i] /\ i - 1 \in DOMAIN Tail(seq)
        BY <4>1, <1>4, <1>5
      <4> QED  BY <4>2 DEF ToSet
    <3> QED  BY <3>1, <3>2
  <2>2. ASSUME NEW i \in 1..(Len(seq) - 1)
        PROVE  Tail(seq)[i] \in ToSet(seq)
    <3>1. i + 1 \in DOMAIN seq /\ Tail(seq)[i] = seq[i + 1]
      BY <1>1, <1>4, <1>5
    <3> QED  BY <3>1 DEF ToSet
  <2>3. Head(seq) \in ToSet(seq)
    BY <1>1, <1>4, <1>5 DEF ToSet
  <2>4. ToSet(Tail(seq)) \subseteq ToSet(seq)
    BY <2>2, <1>4, <1>5 DEF ToSet
  <2>5. ToSet(seq) \subseteq ToSet(Tail(seq)) \cup {Head(seq)}
    BY <2>1, <1>1 DEF ToSet
  <2> QED  BY <2>3, <2>4, <2>5
<1>6. ASSUME seq # <<>> PROVE Head(seq) \in S
  BY <1>1, <1>4, <1>6
<1> QED  BY <1>4, <1>5, <1>6
-----------------------------------------------------------------------------
\* Calls on their way on a socket, of the socket itself.
On(sock) ==
    {m.id : m \in ToSet(sock.up) \cup sock.working} \cup {r.id : r \in ToSet(sock.down)}

\* The type of each variable, sockets as records.
Types ==
    /\ ws \in [Socket -> Sockets]
    /\ outcome \in [Id -> [state : {"idle", "waiting", "failed", "settled"}, by : Id,
                           type : {"none", "response", "error"}]]
    /\ closes \in 0..MaxCloses /\ mixed \subseteq Id /\ lost \subseteq Id

\* Nothing is on its way on a socket that is not open.
Quiet == \A s \in Socket : ws[s].readyState # "open" => On(ws[s]) = {}

\* What is on its way on a socket answers the call whose handler is installed,
\* or both are mixed up.
Own == \A s \in Socket : \A q \in On(ws[s]) :
           q = ws[s].onmessage \/ {q, ws[s].onmessage} \subseteq mixed

\* What is on its way has been asked for; what is not settled has its own by.
Started ==
    /\ \A s \in Socket : \A q \in On(ws[s]) : outcome[q].state # "idle"
    /\ \A q \in Id : outcome[q].state # "settled" => outcome[q].type = "none" /\ outcome[q].by = q

\* At most one message is on its way, wherever it is.
AtMostOne(sock) ==
    \/ sock.up = <<>> /\ sock.working = {} /\ sock.down = <<>>
    \/ sock.up # <<>> /\ Tail(sock.up) = <<>> /\ sock.working = {} /\ sock.down = <<>>
    \/ sock.up = <<>> /\ (\E m \in Msg : sock.working = {m}) /\ sock.down = <<>>
    \/ sock.up = <<>> /\ sock.working = {} /\ sock.down # <<>> /\ Tail(sock.down) = <<>>

\* The constructor's getBrokerInfo is answered once at most: it is the first
\* message of the local socket, no other one is answered while its handler is
\* installed, and no later call installs it again.
InfoOnce ==
    /\ ws["local"].readyState = "connecting" => outcome[Info].state = "idle"
    /\ ws["local"].readyState # "none" /\ ws["broker"].onmessage # Info
    /\ ws["broker"].readyState # "none" <=> outcome[Info].type = "response"
    /\ ws["local"].onmessage = Info =>
          /\ AtMostOne(ws["local"])
          /\ On(ws["local"]) # {} => outcome[Info].state = "waiting"
    /\ ws["local"].onmessage # Info => ws["local"].readyState # "connecting"

IInv == Types /\ Quiet /\ Own /\ Started /\ InfoOnce
-----------------------------------------------------------------------------
\* What is on its way, seen from the sockets (Outstanding of Overlap and Close).
LEMMA OutstandingOn == \A s : Outstanding(s) = On(ws[s])
BY DEF Outstanding, On

\* What is on its way are calls.
LEMMA OnCalls == ASSUME NEW k \in Sockets PROVE On(k) \subseteq Id
<1>1. k.up \in Seq(Msg) /\ k.working \subseteq Msg /\ k.down \in Seq(Reply)
  BY DEF Sockets
<1>2. ToSet(k.up) \subseteq Msg
  <2>1. k.up \in [1..Len(k.up) -> Msg]
    BY <1>1, LenProperties
  <2> QED  BY <2>1 DEF ToSet
<1>3. ToSet(k.down) \subseteq Reply
  <2>1. k.down \in [1..Len(k.down) -> Reply]
    BY <1>1, LenProperties
  <2> QED  BY <2>1 DEF ToSet
<1>4. \A m \in Msg : m.id \in Id
  BY DEF Msg
<1>5. \A r \in Reply : r.id \in Id
  BY DEF Reply
<1> QED  BY <1>1, <1>2, <1>3, <1>4, <1>5 DEF On

\* A fresh socket is one, with nothing on its way.
LEMMA FreshSocket ==
    ASSUME NEW st \in {"none", "connecting", "open", "closed"}, NEW h \in Id \cup {None}
    PROVE  /\ Fresh(st, h) \in Sockets /\ On(Fresh(st, h)) = {} /\ AtMostOne(Fresh(st, h))
           /\ Fresh(st, h).readyState = st /\ Fresh(st, h).onmessage = h
<1>1. <<>> \in Seq(Msg) /\ <<>> \in Seq(Reply) /\ DOMAIN <<>> = {}
  BY EmptySeq
<1>2. Fresh(st, h) \in Sockets
  BY <1>1 DEF Fresh, Sockets
<1>3. ToSet(<<>>) = {}
  BY <1>1 DEF ToSet
<1> QED  BY <1>2, <1>3 DEF Fresh, On, AtMostOne

\* ws.send adds one call to what is on its way.
LEMMA SendSocket ==
    ASSUME NEW k \in Sockets, NEW m \in Msg, NEW new,
           new.up = Append(k.up, m), new.working = k.working, new.down = k.down
    PROVE  /\ new.up \in Seq(Msg) /\ On(new) = On(k) \cup {m.id}
           /\ On(k) = {} => AtMostOne(new)
<1>1. k.up \in Seq(Msg) /\ k.working \subseteq Msg /\ k.down \in Seq(Reply)
  BY DEF Sockets
<1>2. Append(k.up, m) \in Seq(Msg) /\ ToSet(Append(k.up, m)) = ToSet(k.up) \cup {m}
  BY <1>1, ToSetAppend
<1>3. new.up \in Seq(Msg)
  BY <1>2
<1>4. On(new) = On(k) \cup {m.id}
  BY <1>1, <1>2 DEF On
<1>5. ASSUME On(k) = {}
      PROVE  AtMostOne(new)
  <2>1. ToSet(k.up) = {} /\ k.working = {} /\ ToSet(k.down) = {}
    BY <1>5 DEF On
  <2>2. k.up = <<>> /\ k.down = <<>>
    <3>1. k.up # <<>> => Head(k.up) \in ToSet(k.up)
      BY <1>1, ToSetQueue
    <3>2. k.down # <<>> => Head(k.down) \in ToSet(k.down)
      BY <1>1, ToSetQueue
    <3> QED  BY <2>1, <3>1, <3>2
  <2>3. Append(k.up, m) # <<>> /\ Tail(Append(k.up, m)) = <<>>
    BY <2>2
  <2> QED  BY <2>1, <2>2, <2>3, <1>1 DEF AtMostOne
<1> QED  BY <1>3, <1>4, <1>5

\* A socket's state and handler are kept and nothing new is on its way.
Kept(k, new) ==
    /\ new \in Sockets /\ new.readyState = k.readyState /\ new.onmessage = k.onmessage
    /\ On(new) \subseteq On(k) /\ (AtMostOne(k) => AtMostOne(new))

\* Taking the first reply.
LEMMA TakeSocket ==
    ASSUME NEW k \in Sockets, k.down # <<>>
    PROVE  /\ Kept(k, [k EXCEPT !.down = Tail(@)])
           /\ Head(k.down) \in Reply /\ Head(k.down).id \in On(k)
           /\ AtMostOne(k) => On([k EXCEPT !.down = Tail(@)]) = {}
<1> DEFINE new == [k EXCEPT !.down = Tail(@)]
<1>1. /\ k.up \in Seq(Msg) /\ k.working \subseteq Msg /\ k.down \in Seq(Reply)
      /\ new.up = k.up /\ new.working = k.working /\ new.down = Tail(k.down)
      /\ new.readyState = k.readyState /\ new.onmessage = k.onmessage
  BY DEF Sockets
<1>2. /\ Head(k.down) \in ToSet(k.down) /\ Head(k.down) \in Reply
      /\ Tail(k.down) \in Seq(Reply) /\ ToSet(Tail(k.down)) \subseteq ToSet(k.down)
  BY <1>1, ToSetQueue
<1>3. new \in Sockets
  BY <1>1, <1>2 DEF Sockets
<1>4. On(new) \subseteq On(k) /\ Head(k.down).id \in On(k)
  <2> HIDE DEF new
  <2> QED  BY <1>1, <1>2 DEF On
<1>5. ASSUME AtMostOne(k)
      PROVE  AtMostOne(new) /\ On(new) = {}
  <2>1. new.up = <<>> /\ new.working = {} /\ new.down = <<>>
    BY <1>1, <1>5 DEF AtMostOne
  <2>2. ToSet(<<>>) = {}
    BY DEF ToSet
  <2> HIDE DEF new
  <2> QED  BY <2>1, <2>2 DEF AtMostOne, On
<1> HIDE DEF new
<1>6. Kept(k, new)
  BY <1>1, <1>3, <1>4, <1>5 DEF Kept
<1> QED  BY <1>2, <1>4, <1>5, <1>6 DEF new

\* The Java side takes the first message and answers it, keeps it, or neither.
LEMMA HandleSocket ==
    ASSUME NEW k \in Sockets, k.up # <<>>, NEW type \in {"response", "error"},
           NEW r, r = [id |-> Head(k.up).id, type |-> type]
    PROVE  /\ Head(k.up).id \in On(k)
           /\ Kept(k, [k EXCEPT !.up = Tail(@)])
           /\ Kept(k, [k EXCEPT !.down = Append(@, r), !.up = Tail(@)])
           /\ Kept(k, [k EXCEPT !.working = @ \cup {Head(k.up)}, !.up = Tail(@)])
<1>1. k.up \in Seq(Msg) /\ k.working \subseteq Msg /\ k.down \in Seq(Reply)
  BY DEF Sockets
<1>2. /\ Head(k.up) \in ToSet(k.up) /\ Head(k.up) \in Msg
      /\ Tail(k.up) \in Seq(Msg) /\ ToSet(Tail(k.up)) \subseteq ToSet(k.up)
  BY <1>1, ToSetQueue
<1>3. r \in Reply /\ r.id = Head(k.up).id
  BY <1>2 DEF Msg, Reply
<1>4. Append(k.down, r) \in Seq(Reply) /\ ToSet(Append(k.down, r)) = ToSet(k.down) \cup {r}
  BY <1>1, <1>3, ToSetAppend
<1>5. AtMostOne(k) => Tail(k.up) = <<>> /\ k.working = {} /\ k.down = <<>>
  BY DEF AtMostOne
<1>6. Head(k.up).id \in On(k)
  BY <1>2 DEF On
<1>7. Kept(k, [k EXCEPT !.up = Tail(@)])
  <2> DEFINE new == [k EXCEPT !.up = Tail(@)]
  <2>1. /\ new.up = Tail(k.up) /\ new.working = k.working /\ new.down = k.down
        /\ new.readyState = k.readyState /\ new.onmessage = k.onmessage /\ new \in Sockets
    BY <1>1, <1>2 DEF Sockets
  <2> HIDE DEF new
  <2>2. On(new) \subseteq On(k)
    BY <2>1, <1>2 DEF On
  <2>3. AtMostOne(k) => AtMostOne(new)
    BY <2>1, <1>5 DEF AtMostOne
  <2>4. Kept(k, new)
    BY <2>1, <2>2, <2>3 DEF Kept
  <2> QED  BY <2>4 DEF new
<1>8. Kept(k, [k EXCEPT !.down = Append(@, r), !.up = Tail(@)])
  <2> DEFINE new == [k EXCEPT !.down = Append(@, r), !.up = Tail(@)]
  <2>1. /\ new.up = Tail(k.up) /\ new.working = k.working /\ new.down = Append(k.down, r)
        /\ new.readyState = k.readyState /\ new.onmessage = k.onmessage /\ new \in Sockets
    BY <1>1, <1>2, <1>4 DEF Sockets
  <2> HIDE DEF new
  <2>2. On(new) \subseteq On(k)
    BY <2>1, <1>2, <1>3, <1>4 DEF On
  <2>3. AtMostOne(k) => AtMostOne(new)
    BY <2>1, <1>5 DEF AtMostOne
  <2>4. Kept(k, new)
    BY <2>1, <2>2, <2>3 DEF Kept
  <2> QED  BY <2>4 DEF new
<1>9. Kept(k, [k EXCEPT !.working = @ \cup {Head(k.up)}, !.up = Tail(@)])
  <2> DEFINE new == [k EXCEPT !.working = @ \cup {Head(k.up)}, !.up = Tail(@)]
  <2>1. /\ new.up = Tail(k.up) /\ new.working = k.working \cup {Head(k.up)} /\ new.down = k.down
        /\ new.readyState = k.readyState /\ new.onmessage = k.onmessage /\ new \in Sockets
    BY <1>1, <1>2 DEF Sockets
  <2> HIDE DEF new
  <2>2. On(new) \subseteq On(k)
    BY <2>1, <1>2 DEF On
  <2>3. AtMostOne(k) => AtMostOne(new)
    BY <2>1, <1>2, <1>5 DEF AtMostOne
  <2>4. Kept(k, new)
    BY <2>1, <2>2, <2>3 DEF Kept
  <2> QED  BY <2>4 DEF new
<1> QED  BY <1>6, <1>7, <1>8, <1>9

\* A message the Java side was working on is answered, or forgotten.
LEMMA CompleteSocket ==
    ASSUME NEW k \in Sockets, NEW m \in k.working, NEW type \in {"response", "error"},
           NEW r, r = [id |-> m.id, type |-> type]
    PROVE  /\ m.id \in On(k)
           /\ Kept(k, [k EXCEPT !.working = @ \ {m}])
           /\ Kept(k, [k EXCEPT !.down = Append(@, r), !.working = @ \ {m}])
<1>1. k.up \in Seq(Msg) /\ k.working \subseteq Msg /\ k.down \in Seq(Reply) /\ m \in Msg
  BY DEF Sockets
<1>2. r \in Reply /\ r.id = m.id
  BY <1>1 DEF Msg, Reply
<1>3. Append(k.down, r) \in Seq(Reply) /\ ToSet(Append(k.down, r)) = ToSet(k.down) \cup {r}
  BY <1>1, <1>2, ToSetAppend
<1>4. m.id \in On(k)
  BY DEF On
<1>5. AtMostOne(k) => k.up = <<>> /\ k.working \ {m} = {} /\ k.down = <<>>
  BY DEF AtMostOne
<1>6. Kept(k, [k EXCEPT !.working = @ \ {m}])
  <2> DEFINE new == [k EXCEPT !.working = @ \ {m}]
  <2>1. /\ new.up = k.up /\ new.working = k.working \ {m} /\ new.down = k.down
        /\ new.readyState = k.readyState /\ new.onmessage = k.onmessage /\ new \in Sockets
    BY <1>1 DEF Sockets
  <2> HIDE DEF new
  <2>2. On(new) \subseteq On(k)
    BY <2>1 DEF On
  <2>3. AtMostOne(k) => AtMostOne(new)
    BY <2>1, <1>5 DEF AtMostOne
  <2>4. Kept(k, new)
    BY <2>1, <2>2, <2>3 DEF Kept
  <2> QED  BY <2>4 DEF new
<1>7. Kept(k, [k EXCEPT !.down = Append(@, r), !.working = @ \ {m}])
  <2> DEFINE new == [k EXCEPT !.down = Append(@, r), !.working = @ \ {m}]
  <2>1. /\ new.up = k.up /\ new.working = k.working \ {m} /\ new.down = Append(k.down, r)
        /\ new.readyState = k.readyState /\ new.onmessage = k.onmessage /\ new \in Sockets
    BY <1>1, <1>3 DEF Sockets
  <2> HIDE DEF new
  <2>2. On(new) \subseteq On(k)
    BY <2>1, <1>2, <1>3 DEF On
  <2>3. AtMostOne(k) => AtMostOne(new)
    BY <2>1, <1>5 DEF AtMostOne
  <2>4. Kept(k, new)
    BY <2>1, <2>2, <2>3 DEF Kept
  <2> QED  BY <2>4 DEF new
<1> QED  BY <1>4, <1>6, <1>7
-----------------------------------------------------------------------------
\* A step that only moves or removes what is on its way on one socket keeps the
\* invariant.
LEMMA KeptStep ==
    ASSUME IInv, NEW s \in Socket, NEW new, Kept(ws[s], new),
           ws' = [ws EXCEPT ![s] = new], lost' \subseteq Id,
           UNCHANGED <<outcome, closes, mixed>>
    PROVE  IInv'
<1> USE DEF IInv
<1>1. ws \in [Socket -> Sockets] /\ new \in Sockets
  BY DEF Types, Kept
<1>2. /\ ws' \in [Socket -> Sockets] /\ ws'[s] = new
      /\ \A t \in Socket : t # s => ws'[t] = ws[t]
  BY <1>1
<1>3. \A t \in Socket :
        /\ ws'[t].readyState = ws[t].readyState /\ ws'[t].onmessage = ws[t].onmessage
        /\ On(ws'[t]) \subseteq On(ws[t]) /\ (AtMostOne(ws[t]) => AtMostOne(ws'[t]))
  BY <1>2 DEF Kept
<1>4. Types'
  BY <1>2 DEF Types
<1>5. Quiet'
  BY <1>3 DEF Quiet
<1>6. Own'
  BY <1>3 DEF Own
<1>7. Started'
  BY <1>3 DEF Started
<1>8. InfoOnce'
  BY <1>3 DEF InfoOnce, Socket
<1> QED  BY <1>4, <1>5, <1>6, <1>7, <1>8

\* Handle, whichever answer it gives.
LEMMA HandleKeeps ==
    ASSUME IInv, NEW s \in Socket, NEW kinds, NEW none \in BOOLEAN,
           NEW type \in {"response", "error"},
           NEW sock \in {ws[s], Answer(s, Head(ws[s].up), type), Later(s)},
           Handle(s, kinds, sock, none)
    PROVE  IInv'
<1>1. ws[s] \in Sockets /\ ws[s].up # <<>> /\ lost \subseteq Id
  BY DEF IInv, Types, Handle
<1>2. /\ Head(ws[s].up).id \in On(ws[s])
      /\ Kept(ws[s], [ws[s] EXCEPT !.up = Tail(@)])
      /\ Kept(ws[s], [ws[s] EXCEPT !.down = Append(@, [id |-> Head(ws[s].up).id, type |-> type]),
                                   !.up = Tail(@)])
      /\ Kept(ws[s], [ws[s] EXCEPT !.working = @ \cup {Head(ws[s].up)}, !.up = Tail(@)])
  BY <1>1, HandleSocket
<1>3. Kept(ws[s], [sock EXCEPT !.up = Tail(@)])
  <2>1. CASE sock = ws[s]  BY <2>1, <1>2
  <2>2. CASE sock = Answer(s, Head(ws[s].up), type)
    <3>1. [sock EXCEPT !.up = Tail(@)]
            = [ws[s] EXCEPT !.down = Append(@, [id |-> Head(ws[s].up).id, type |-> type]), !.up = Tail(@)]
      BY <2>2, <1>1 DEF Answer, Sockets
    <3> QED  BY <3>1, <1>2
  <2>3. CASE sock = Later(s)
    <3>1. [sock EXCEPT !.up = Tail(@)] = [ws[s] EXCEPT !.working = @ \cup {Head(ws[s].up)}, !.up = Tail(@)]
      BY <2>3, <1>1 DEF Later, Sockets
    <3> QED  BY <3>1, <1>2
  <2> QED  BY <2>1, <2>2, <2>3
<1>4. Head(ws[s].up).id \in Id
  <2>1. ws[s].up \in Seq(Msg)
    BY <1>1 DEF Sockets
  <2>2. Head(ws[s].up) \in Msg
    BY <1>1, <2>1, ToSetQueue
  <2> QED  BY <2>2 DEF Msg
<1>5. /\ ws' = [ws EXCEPT ![s] = [sock EXCEPT !.up = Tail(@)]]
      /\ lost' \subseteq Id /\ UNCHANGED <<outcome, closes, mixed>>
  BY <1>1, <1>4 DEF Handle
<1> QED  BY <1>3, <1>5, KeptStep

\* Complete answers or forgets one message.
LEMMA CompleteKeeps ==
    ASSUME IInv, NEW s \in Socket, NEW m \in ws[s].working, Complete(s, m)
    PROVE  IInv'
<1>1. ws[s] \in Sockets /\ m \in Msg /\ lost \subseteq Id
  BY DEF IInv, Types, Sockets
<1>2. CASE ws' = [ws EXCEPT ![s].working = @ \ {m}] /\ lost' = lost \cup {m.id}
  <2>1. Kept(ws[s], [ws[s] EXCEPT !.working = @ \ {m}])
    BY <1>1, CompleteSocket
  <2>2. ws' = [ws EXCEPT ![s] = [ws[s] EXCEPT !.working = @ \ {m}]] /\ lost' \subseteq Id
    BY <1>1, <1>2 DEF Msg
  <2> QED  BY <2>1, <2>2, KeptStep DEF Complete
<1>3. ASSUME NEW type \in {"response", "error"},
             ws' = [ws EXCEPT ![s] = [Answer(s, m, type) EXCEPT !.working = @ \ {m}]], UNCHANGED lost
      PROVE  IInv'
  <2>1. Kept(ws[s], [ws[s] EXCEPT !.down = Append(@, [id |-> m.id, type |-> type]), !.working = @ \ {m}])
    BY <1>1, CompleteSocket
  <2>2. [Answer(s, m, type) EXCEPT !.working = @ \ {m}]
          = [ws[s] EXCEPT !.down = Append(@, [id |-> m.id, type |-> type]), !.working = @ \ {m}]
    BY <1>1 DEF Answer, Sockets
  <2> QED  BY <2>1, <2>2, <1>1, <1>3, KeptStep DEF Complete
<1> QED  BY <1>2, <1>3 DEF Complete

\* LocalHandle and BrokerHandle.
LEMMA JavaKeeps == ASSUME IInv, LocalHandle \/ BrokerHandle PROVE IInv'
<1>1. "local" \in Socket /\ "broker" \in Socket
  BY DEF Socket
<1>2. CASE LocalHandle
  <2>1. ASSUME NEW type \in {"response", "error"},
             Handle("local", {"read"}, Answer("local", Head(ws["local"].up), type), FALSE)
        PROVE  IInv'
    BY <2>1, <1>1, HandleKeeps
  <2>2. CASE Handle("local", {"changeIface"}, Answer("local", Head(ws["local"].up), "response"), FALSE)
    BY <2>2, <1>1, HandleKeeps
  <2>3. CASE Handle("local", {"getBrokerInfo"}, Later("local"), FALSE)
    BY <2>3, <1>1, HandleKeeps
  <2>4. CASE Handle("local", {"getBrokerInfo"}, Answer("local", Head(ws["local"].up), "error"), FALSE)
    BY <2>4, <1>1, HandleKeeps
  <2>5. CASE Handle("local", {"read", "other"}, ws["local"], TRUE)
    BY <2>5, <1>1, HandleKeeps
  <2> QED  BY <1>2, <2>1, <2>2, <2>3, <2>4, <2>5 DEF LocalHandle
<1>3. CASE BrokerHandle
  <2>1. CASE Handle("broker", {"read", "changeIface", "getBrokerInfo"}, Answer("broker", Head(ws["broker"].up), "response"), FALSE)
    BY <2>1, <1>1, HandleKeeps
  <2>2. CASE Handle("broker", {"read", "changeIface"}, Answer("broker", Head(ws["broker"].up), "error"), FALSE)
    BY <2>2, <1>1, HandleKeeps
  <2>3. CASE Handle("broker", {"read", "changeIface"}, Later("broker"), FALSE)
    BY <2>3, <1>1, HandleKeeps
  <2>4. CASE Handle("broker", {"other"}, ws["broker"], TRUE)
    BY <2>4, <1>1, HandleKeeps
  <2> QED  BY <1>3, <2>1, <2>2, <2>3, <2>4 DEF BrokerHandle
<1> QED  BY <1>2, <1>3

\* onopen: the first message of the local socket is the constructor's.
LEMMA OpenKeeps == ASSUME IInv, NEW s \in Socket, Open(s) PROVE IInv'
<1> USE DEF IInv
<1>1. /\ ws[s] \in Sockets /\ On(ws[s]) = {} /\ ws[s].readyState = "connecting"
      /\ ws \in [Socket -> Sockets] /\ UNCHANGED <<closes, mixed, lost>>
  BY DEF Types, Quiet, Open
<1>2. CASE s = "local"
  <2> DEFINE m == [id |-> Info, kind |-> "getBrokerInfo"]
             new == [ws[s] EXCEPT !.readyState = "open", !.onmessage = Info, !.up = Append(@, m)]
  <2>1. m \in Msg /\ m.id = Info /\ ws[s].onmessage = Info /\ outcome[Info].state = "idle" /\ Info \in Id
    BY <1>1, <1>2 DEF Msg, Id, Kinds, InfoOnce
  <2>2. ws' = [ws EXCEPT ![s] = new] /\ outcome' = [outcome EXCEPT ![Info].state = "waiting"]
    BY <1>1, <1>2, <2>1 DEF Open, Begin, Sockets
  <2>3. /\ new \in Sockets /\ new.readyState = "open" /\ new.onmessage = Info
        /\ On(new) = {Info} /\ AtMostOne(new)
    <3> HIDE DEF m
    <3>1. /\ new \in Sockets /\ new.readyState = "open" /\ new.onmessage = Info
          /\ On(new) = On(ws[s]) \cup {m.id} /\ (On(ws[s]) = {} => AtMostOne(new))
      <4>1. /\ new.up = Append(ws[s].up, m) /\ new.working = ws[s].working
            /\ new.down = ws[s].down /\ new.readyState = "open" /\ new.onmessage = Info
        BY <1>1 DEF Sockets
      <4>2. /\ new.up \in Seq(Msg) /\ On(new) = On(ws[s]) \cup {m.id}
            /\ On(ws[s]) = {} => AtMostOne(new)
        <5> HIDE DEF new
        <5> QED  BY <1>1, <2>1, <4>1, SendSocket
      <4>3. new \in Sockets
        BY <1>1, <2>1, <4>1, <4>2 DEF Sockets
      <4> QED  BY <4>1, <4>2, <4>3
    <3> HIDE DEF new
    <3> QED  BY <1>1, <2>1, <3>1
  <2> HIDE DEF new, m
  <2>4. /\ ws' \in [Socket -> Sockets] /\ ws'[s] = new
        /\ \A t \in Socket : t # s => ws'[t] = ws[t]
    BY <1>1, <2>2, <2>3
  <2>5. /\ outcome'[Info] = [outcome[Info] EXCEPT !.state = "waiting"]
        /\ \A q \in Id : q # Info => outcome'[q] = outcome[q]
    BY <2>1, <2>2 DEF Types
  <2>6. Types'
    BY <1>1, <2>2, <2>4 DEF Types
  <2>7. Quiet'
    BY <2>3, <2>4 DEF Quiet
  <2>8. Own'
    BY <1>1, <2>3, <2>4 DEF Own
  <2>9. Started'
    <3>1. \A t \in Socket : On(ws'[t]) \subseteq On(ws[t]) \cup {Info}
      BY <2>3, <2>4
    <3>2. outcome'[Info].state = "waiting" /\ outcome'[Info].by = outcome[Info].by
          /\ outcome'[Info].type = outcome[Info].type
      BY <2>1, <2>5 DEF Types
    <3>3. \A t \in Socket : On(ws[t]) \subseteq Id
      BY <1>1, OnCalls
    <3>4. \A t \in Socket : \A q \in On(ws'[t]) : outcome'[q].state # "idle"
      BY <2>5, <3>1, <3>2, <3>3 DEF Started
    <3>5. outcome[Info].type = "none" /\ outcome[Info].by = Info
      BY <2>1 DEF Started
    <3>6. \A q \in Id : outcome'[q].state # "settled" =>
                           outcome'[q].type = "none" /\ outcome'[q].by = q
      BY <2>5, <3>2, <3>5 DEF Started
    <3> QED  BY <3>4, <3>6 DEF Started
  <2>10. InfoOnce'
    <3>1. outcome'[Info].state = "waiting" /\ outcome'[Info].type = outcome[Info].type
      BY <2>1, <2>5 DEF Types
    <3>2. ws'["local"] = new /\ ws'["broker"] = ws["broker"]
      BY <1>2, <2>4 DEF Socket
    <3> QED  BY <2>3, <3>1, <3>2 DEF InfoOnce
  <2> QED  BY <2>6, <2>7, <2>8, <2>9, <2>10
<1>3. CASE s # "local"
  <2> DEFINE new == [ws[s] EXCEPT !.readyState = "open"]
  <2>1. s = "broker" /\ ws' = [ws EXCEPT ![s] = new] /\ UNCHANGED outcome
    BY <1>1, <1>3 DEF Open, Socket
  <2>2. /\ new \in Sockets /\ new.readyState = "open" /\ new.onmessage = ws[s].onmessage
        /\ On(new) = {}
    BY <1>1 DEF Sockets, On
  <2> HIDE DEF new
  <2>3. /\ ws' \in [Socket -> Sockets] /\ ws'["broker"] = new /\ ws'["local"] = ws["local"]
    BY <1>1, <2>1, <2>2 DEF Socket
  <2>4. Types' /\ Quiet' /\ Own' /\ Started'
    BY <1>1, <2>1, <2>2, <2>3 DEF Types, Quiet, Own, Started, Socket
  <2>5. InfoOnce'
    BY <1>1, <2>1, <2>2, <2>3 DEF InfoOnce
  <2> QED  BY <2>4, <2>5
<1> QED  BY <1>2, <1>3

\* Close leaves nothing on its way.
LEMMA CloseKeeps == ASSUME IInv, NEW s \in Socket, Close(s) PROVE IInv'
<1> USE DEF IInv
<1> DEFINE new == Fresh("closed", ws[s].onmessage)
<1>1. /\ ws \in [Socket -> Sockets] /\ ws[s].onmessage \in Id \cup {None}
      /\ ws[s].readyState \in {"connecting", "open"}
      /\ ws' = [ws EXCEPT ![s] = new] /\ UNCHANGED <<outcome, mixed>>
  BY DEF Types, Sockets, Close
<1>2. /\ new \in Sockets /\ On(new) = {} /\ AtMostOne(new)
      /\ new.readyState = "closed" /\ new.onmessage = ws[s].onmessage
  BY <1>1, FreshSocket
<1> HIDE DEF new
<1>3. /\ ws' \in [Socket -> Sockets] /\ ws'[s] = new
      /\ \A t \in Socket : t # s => ws'[t] = ws[t]
  BY <1>1, <1>2
<1>4. On(ws[s]) \subseteq Id
  BY <1>1, OnCalls
<1>5. Types'
  <2>1. closes' \in 0..MaxCloses
    BY BoundAssumption DEF Types, Close
  <2>2. lost' \subseteq Id
    BY <1>4, OutstandingOn DEF Types, Close
  <2> QED  BY <1>1, <1>3, <2>1, <2>2 DEF Types
<1>6. Quiet' /\ Own' /\ Started'
  BY <1>1, <1>2, <1>3 DEF Quiet, Own, Started
<1>7. InfoOnce'
  BY <1>1, <1>2, <1>3 DEF InfoOnce, Socket
<1> QED  BY <1>5, <1>6, <1>7

\* A call begins: only its own state changes.
LEMMA BeginOutcome ==
    ASSUME IInv, NEW q \in Id, NEW state \in {"waiting", "failed"}, Begin(q, state),
           outcome[q].state = "idle"
    PROVE  /\ outcome' \in [Id -> [state : {"idle", "waiting", "failed", "settled"}, by : Id,
                                   type : {"none", "response", "error"}]]
           /\ outcome'[q].state = state /\ outcome'[q].by = q /\ outcome'[q].type = "none"
           /\ \A x \in Id : x # q => outcome'[x] = outcome[x]
<1>1. outcome[q].type = "none" /\ outcome[q].by = q
  BY DEF IInv, Started
<1> QED  BY <1>1 DEF IInv, Types, Begin

\* read and execute of an open, a connecting or a closed socket: the call that
\* takes over onmessage is its only one, or is mixed up with all the others.
LEMMA SendKeeps ==
    ASSUME IInv, NEW s \in Socket, NEW r \in Request, NEW kind \in Kinds,
           outcome[r].state = "idle", ws[s].readyState # "none",
           s = "local" => ws[s].readyState = "open",
           Send(s, r, kind), UNCHANGED closes
    PROVE  IInv'
<1> USE DEF IInv
<1> DEFINE m == [id |-> r, kind |-> kind]
<1>1. /\ ws \in [Socket -> Sockets] /\ ws[s] \in Sockets /\ r \in Id /\ r # Info /\ Info \in Id
      /\ m \in Msg /\ m.id = r /\ On(ws[s]) \subseteq Id
  <2>1. ws \in [Socket -> Sockets] /\ ws[s] \in Sockets
    BY DEF Types
  <2>2. r \in Id /\ r # Info /\ Info \in Id /\ m \in Msg /\ m.id = r
    BY IdAssumption DEF Id, Msg
  <2> QED  BY <2>1, <2>2, OnCalls
<1>2. PICK state \in {"waiting", "failed"} : Begin(r, state)
  BY DEF Send, SendWith
<1>3. /\ outcome' \in [Id -> [state : {"idle", "waiting", "failed", "settled"}, by : Id,
                              type : {"none", "response", "error"}]]
      /\ outcome'[r].state # "idle" /\ outcome'[r].by = r /\ outcome'[r].type = "none"
      /\ \A x \in Id : x # r => outcome'[x] = outcome[x]
  BY <1>1, <1>2, BeginOutcome
<1> HIDE DEF m
<1>4. PICK new \in Sockets :
        /\ ws' = [ws EXCEPT ![s] = new]
        /\ new.readyState = ws[s].readyState /\ new.onmessage = r
        /\ \/ ws[s].readyState # "open" /\ On(new) = {} /\ UNCHANGED mixed
           \/ /\ ws[s].readyState = "open" /\ On(new) = On(ws[s]) \cup {r}
              /\ mixed' = IF On(ws[s]) = {} THEN mixed ELSE mixed \cup {r} \cup On(ws[s])
  <2>1. CASE ws[s].readyState = "open"
    <3> DEFINE new == [ws[s] EXCEPT !.onmessage = r, !.up = Append(@, m)]
    <3>1. /\ new.up = Append(ws[s].up, m) /\ new.working = ws[s].working
          /\ new.down = ws[s].down /\ new.readyState = ws[s].readyState /\ new.onmessage = r
      BY <1>1 DEF Sockets
    <3>2. new.up \in Seq(Msg) /\ On(new) = On(ws[s]) \cup {r}
      <4> HIDE DEF new
      <4> QED  BY <1>1, <3>1, SendSocket
    <3>3. new \in Sockets
      BY <1>1, <3>1, <3>2 DEF Sockets
    <3>4. ws' = [ws EXCEPT ![s] = new] /\ Overlap(s, r)
      BY <1>1, <2>1 DEF Send, SendWith, m, Sockets
    <3>5. mixed' = IF On(ws[s]) = {} THEN mixed ELSE mixed \cup {r} \cup On(ws[s])
      BY <3>4, OutstandingOn DEF Overlap
    <3> QED  BY <2>1, <3>1, <3>2, <3>3, <3>4, <3>5
  <2>2. CASE ws[s].readyState # "open"
    <3> DEFINE new == [ws[s] EXCEPT !.onmessage = r]
    <3>1. new \in Sockets /\ new.readyState = ws[s].readyState /\ new.onmessage = r
      BY <1>1 DEF Sockets
    <3>2. On(new) = On(ws[s])
      BY <1>1 DEF On, Sockets
    <3>3. On(ws[s]) = {}
      BY <2>2 DEF Quiet
    <3>4. ws' = [ws EXCEPT ![s] = new] /\ UNCHANGED mixed
      BY <1>1, <2>2 DEF Send, SendWith, Sockets
    <3> QED  BY <2>2, <3>1, <3>2, <3>3, <3>4
  <2> QED  BY <2>1, <2>2
<1>5. /\ ws' \in [Socket -> Sockets] /\ ws'[s] = new
      /\ \A t \in Socket : t # s => ws'[t] = ws[t]
  BY <1>1, <1>4
<1>6. mixed \subseteq mixed' /\ mixed' \subseteq Id
  BY <1>1, <1>4 DEF Types
<1>7. Types'
  <2>1. lost' \subseteq Id
    BY <1>1 DEF Types, Send, SendWith
  <2> QED  BY <1>3, <1>5, <1>6, <2>1 DEF Types
<1>8. Quiet'
  BY <1>4, <1>5 DEF Quiet
<1>9. Own'
  BY <1>4, <1>5, <1>6 DEF Own
<1>10. Started'
  <2>1. \A t \in Socket : On(ws'[t]) \subseteq On(ws[t]) \cup {r}
    BY <1>4, <1>5
  <2>2. \A t \in Socket : On(ws[t]) \subseteq Id
    BY <1>1, OnCalls
  <2> QED  BY <1>3, <2>1, <2>2 DEF Started
<1>11. InfoOnce'
  BY <1>1, <1>3, <1>4, <1>5 DEF InfoOnce, Socket
<1> QED  BY <1>7, <1>8, <1>9, <1>10, <1>11

\* ClientCall and BrokerCall.
LEMMA CallKeeps ==
    ASSUME IInv, NEW r \in Request, NEW kind \in Kinds, ClientCall(r, kind) \/ BrokerCall(r, kind)
    PROVE  IInv'
<1>1. "local" \in Socket /\ "broker" \in Socket /\ outcome[r].state = "idle" /\ UNCHANGED closes
  BY DEF Socket, ClientCall, BrokerCall
<1>2. CASE ws["local"].readyState = "open" /\ Send("local", r, kind)
  BY <1>1, <1>2, SendKeeps
<1>3. CASE ws["broker"].readyState # "none" /\ Send("broker", r, kind)
  BY <1>1, <1>3, SendKeeps
<1>4. CASE Begin(r, "failed") /\ UNCHANGED <<ws, mixed, lost>>
  <2>1. r \in Id /\ r # Info /\ Info \in Id
    BY IdAssumption DEF Id
  <2>2. /\ outcome' \in [Id -> [state : {"idle", "waiting", "failed", "settled"}, by : Id,
                                type : {"none", "response", "error"}]]
        /\ outcome'[r].state = "failed" /\ outcome'[r].by = r /\ outcome'[r].type = "none"
        /\ \A x \in Id : x # r => outcome'[x] = outcome[x]
    BY <1>1, <1>4, <2>1, BeginOutcome
  <2>3. \A t \in Socket : On(ws[t]) \subseteq Id
    BY OnCalls DEF IInv, Types
  <2>4. Types' /\ Quiet' /\ Own'
    BY <1>1, <1>4, <2>2 DEF IInv, Types, Quiet, Own
  <2>5. Started'
    BY <1>4, <2>2, <2>3 DEF IInv, Started
  <2>6. InfoOnce'
    BY <1>4, <2>1, <2>2 DEF IInv, InfoOnce
  <2> QED  BY <2>4, <2>5, <2>6 DEF IInv
<1> QED  BY <1>2, <1>3, <1>4 DEF ClientCall, BrokerCall

\* onmessage resolves the promise of the installed handler, at most once, with an
\* answer to that call, or to one it is mixed up with.
LEMMA ResolveOutcome ==
    ASSUME IInv, NEW s \in Socket, Onmessage(s)
    PROVE  LET h == ws[s].onmessage
               reply == Head(ws[s].down)
           IN  \/ UNCHANGED outcome /\ (h # None => outcome[h].state # "waiting")
               \/ /\ h \in Id /\ outcome[h].state = "waiting" /\ reply.id \in Id
                  /\ reply.id = h \/ {h, reply.id} \subseteq mixed
                  /\ outcome' = [outcome EXCEPT
                                    ![h] = [state |-> "settled", by |-> reply.id, type |-> reply.type]]
<1>1. ws[s] \in Sockets /\ ws[s].down # <<>> /\ ws[s].onmessage \in Id \cup {None}
  BY DEF IInv, Types, Sockets, Onmessage, Take
<1>2. Head(ws[s].down) \in Reply /\ Head(ws[s].down).id \in On(ws[s])
  BY <1>1, TakeSocket
<1>3. Head(ws[s].down).id \in Id
  BY <1>2 DEF Reply
<1>4. \/ Head(ws[s].down).id = ws[s].onmessage
      \/ {Head(ws[s].down).id, ws[s].onmessage} \subseteq mixed
  BY <1>2 DEF IInv, Own
<1>5. Resolve(ws[s].onmessage, Head(ws[s].down))
  BY DEF Onmessage, Take
<1> QED  BY <1>1, <1>3, <1>4, <1>5 DEF Resolve

\* onmessage keeps the invariant.  A response to getBrokerInfo finds its promise
\* waiting, and leaves nothing on the local socket that could resolve it again.
LEMMA OnmessageKeeps == ASSUME IInv, NEW s \in Socket, Onmessage(s) PROVE IInv'
<1> USE DEF IInv
<1> DEFINE h == ws[s].onmessage
           reply == Head(ws[s].down)
           new == [ws[s] EXCEPT !.down = Tail(@)]
<1>1. /\ ws \in [Socket -> Sockets] /\ ws[s] \in Sockets /\ ws[s].down # <<>>
      /\ UNCHANGED <<closes, mixed, lost>> /\ Info \in Id /\ None \notin Id
  BY IdAssumption DEF Types, Onmessage, Take, Id
<1>2. /\ Kept(ws[s], new) /\ reply \in Reply /\ reply.id \in On(ws[s])
      /\ AtMostOne(ws[s]) => On(new) = {}
  BY <1>1, TakeSocket
<1>3. \/ UNCHANGED outcome /\ (h # None => outcome[h].state # "waiting")
      \/ /\ h \in Id /\ outcome[h].state = "waiting" /\ reply.id \in Id
         /\ outcome' = [outcome EXCEPT
                           ![h] = [state |-> "settled", by |-> reply.id, type |-> reply.type]]
  BY ResolveOutcome
<1>4. reply.type \in {"response", "error"}
  BY <1>2 DEF Reply
<1>5. h = Info => s = "local" /\ AtMostOne(ws[s]) /\ outcome[Info].state = "waiting"
                  /\ outcome[Info].type = "none"
  BY <1>1, <1>2 DEF InfoOnce, Socket, Started
<1>6. /\ outcome' \in [Id -> [state : {"idle", "waiting", "failed", "settled"}, by : Id,
                              type : {"none", "response", "error"}]]
      /\ \A q \in Id : q # h => outcome'[q] = outcome[q]
      /\ \A q \in Id : outcome[q].state # "idle" => outcome'[q].state # "idle"
      /\ \A q \in Id : outcome'[q].state # "settled" => outcome'[q] = outcome[q]
      /\ h = Info => outcome'[Info].type = reply.type /\ outcome'[Info].state = "settled"
  <2>1. outcome \in [Id -> [state : {"idle", "waiting", "failed", "settled"}, by : Id,
                            type : {"none", "response", "error"}]]
    BY DEF Types
  <2>2. CASE UNCHANGED outcome /\ (h # None => outcome[h].state # "waiting")
    BY <2>1, <2>2, <1>1, <1>5
  <2>3. CASE /\ h \in Id /\ outcome[h].state = "waiting" /\ reply.id \in Id
             /\ outcome' = [outcome EXCEPT
                               ![h] = [state |-> "settled", by |-> reply.id, type |-> reply.type]]
    <3> HIDE DEF h, reply
    <3> QED  BY <2>1, <2>3, <1>4
  <2> QED  BY <2>2, <2>3, <1>3
<1>7. CASE h = Info /\ reply.type = "response"
  <2> DEFINE b == Fresh("connecting", None)
  <2>1. /\ b \in Sockets /\ On(b) = {} /\ b.readyState = "connecting" /\ b.onmessage = None
    BY FreshSocket
  <2>2. new \in Sockets
    BY <1>2 DEF Kept
  <2>3. ws' = [ws EXCEPT !["local"].down = Tail(@), !["broker"] = b]
    BY <1>1, <1>5, <1>7 DEF Onmessage, Take, IsResponse
  <2>4. /\ ws' \in [Socket -> Sockets] /\ ws'["local"] = new /\ ws'["broker"] = b
    <3>1. ws["local"] \in Sockets /\ new = [ws["local"] EXCEPT !.down = Tail(@)] /\ s = "local"
      BY <1>1, <1>5, <1>7
    <3> HIDE DEF new, b
    <3> QED  BY <1>1, <2>1, <2>2, <2>3, <3>1 DEF Socket
  <2> HIDE DEF new, b, h, reply
  <2>5. /\ new.readyState = ws["local"].readyState /\ new.onmessage = Info
        /\ On(new) = {} /\ AtMostOne(new)
    BY <1>2, <1>5, <1>7 DEF Kept, h
  <2>6. Types'
    BY <1>1, <1>6, <2>4 DEF Types
  <2>7. Quiet' /\ Own'
    BY <2>1, <2>4, <2>5 DEF Quiet, Own, Socket
  <2>8. Started'
    <3>1. \A q \in Id : outcome'[q].state # "settled" => outcome'[q].type = "none" /\ outcome'[q].by = q
      BY <1>6 DEF Started
    <3> QED  BY <3>1, <2>1, <2>4, <2>5 DEF Started, Socket
  <2>9. InfoOnce'
    BY <1>1, <1>5, <1>6, <1>7, <2>1, <2>4, <2>5 DEF InfoOnce
  <2> QED  BY <2>6, <2>7, <2>8, <2>9
<1>8. CASE ~(h = Info /\ reply.type = "response")
  <2>1. ws' = [ws EXCEPT ![s] = new]
    BY <1>1, <1>8 DEF Onmessage, Take, IsResponse
  <2>2. /\ ws' \in [Socket -> Sockets] /\ ws'[s] = new
        /\ \A t \in Socket : t # s => ws'[t] = ws[t]
    <3>1. new \in Sockets
      BY <1>2 DEF Kept
    <3> HIDE DEF new
    <3> QED  BY <1>1, <2>1, <3>1
  <2> HIDE DEF new, h, reply
  <2>3. \A t \in Socket :
          /\ ws'[t].readyState = ws[t].readyState /\ ws'[t].onmessage = ws[t].onmessage
          /\ On(ws'[t]) \subseteq On(ws[t]) /\ (AtMostOne(ws[t]) => AtMostOne(ws'[t]))
    BY <1>2, <2>2 DEF Kept
  <2>4. Types'
    BY <1>1, <1>6, <2>2 DEF Types
  <2>5. Quiet' /\ Own'
    BY <1>1, <2>3 DEF Quiet, Own
  <2>6. Started'
    <3>1. \A q \in Id : outcome'[q].state # "settled" => outcome'[q].type = "none" /\ outcome'[q].by = q
      BY <1>6 DEF Started
    <3>2. \A t \in Socket : On(ws[t]) \subseteq Id
      BY <1>1, OnCalls
    <3>3. \A t \in Socket : \A q \in On(ws'[t]) : q \in Id /\ outcome[q].state # "idle"
      BY <2>3, <3>2 DEF Started
    <3> QED  BY <1>6, <3>1, <3>3 DEF Started
  <2>7. InfoOnce'
    <3>1. CASE h = Info
      <4>1. outcome'[Info].type = "error" /\ outcome[Info].type = "none" /\ s = "local"
        BY <3>1, <1>4, <1>5, <1>6, <1>8
      <4>2. ws'["local"] = new /\ On(new) = {} /\ ws'["broker"] = ws["broker"]
        BY <3>1, <1>2, <1>5, <2>2 DEF Socket
      <4>3. ws["local"].readyState # "connecting"
        BY <3>1, <1>5 DEF InfoOnce
      <4> QED  BY <4>1, <4>2, <4>3, <2>3 DEF InfoOnce, Socket
    <3>2. CASE h # Info
      <4>1. outcome'[Info] = outcome[Info]
        BY <3>2, <1>1, <1>6
      <4> QED  BY <4>1, <2>3 DEF InfoOnce, Socket
    <3> QED  BY <3>1, <3>2
  <2> QED  BY <2>4, <2>5, <2>6, <2>7
<1> QED  BY <1>7, <1>8
-----------------------------------------------------------------------------
\* The invariant holds initially, of the socket the constructor opens.
LEMMA InitKeeps == Init => IInv
<1> SUFFICES ASSUME Init PROVE IInv
  OBVIOUS
<1>1. /\ Fresh("connecting", Info) \in Sockets /\ On(Fresh("connecting", Info)) = {}
      /\ AtMostOne(Fresh("connecting", Info))
      /\ Fresh("connecting", Info).readyState = "connecting" /\ Fresh("connecting", Info).onmessage = Info
  BY FreshSocket DEF Id
<1>2. /\ Fresh("none", None) \in Sockets /\ On(Fresh("none", None)) = {}
      /\ Fresh("none", None).readyState = "none" /\ Fresh("none", None).onmessage = None
  BY FreshSocket
<1>3. ws["local"] = Fresh("connecting", Info) /\ ws["broker"] = Fresh("none", None)
  BY DEF Init, Socket
<1>4. ws \in [Socket -> Sockets]
  BY <1>1, <1>2 DEF Init
<1>5. Types
  BY <1>4, BoundAssumption DEF Init, Types
<1>6. Quiet /\ Own
  BY <1>1, <1>2, <1>3 DEF Quiet, Own, Socket
<1>7. Started
  BY <1>1, <1>2, <1>3 DEF Started, Socket, Init
<1>8. InfoOnce
  BY <1>1, <1>2, <1>3, IdAssumption DEF InfoOnce, Init, Id
<1> QED  BY <1>5, <1>6, <1>7, <1>8 DEF IInv

\* Every step of the page, of the Java side or of the network keeps the invariant.
LEMMA NextKeeps == IInv /\ [Next]_vars => IInv'
<1> SUFFICES ASSUME IInv, [Next]_vars PROVE IInv'
  OBVIOUS
<1>1. ASSUME NEW s \in Socket, Open(s) PROVE IInv'
  BY <1>1, OpenKeeps
<1>2. ASSUME NEW s \in Socket, Onmessage(s) PROVE IInv'
  BY <1>2, OnmessageKeeps
<1>3. ASSUME NEW s \in Socket, Close(s) PROVE IInv'
  BY <1>3, CloseKeeps
<1>4. ASSUME NEW s \in Socket, NEW m \in ws[s].working, Complete(s, m) PROVE IInv'
  BY <1>4, CompleteKeeps
<1>5. ASSUME LocalHandle \/ BrokerHandle PROVE IInv'
  BY <1>5, JavaKeeps
<1>6. ASSUME NEW r \in Request, NEW kind \in Kinds, ClientCall(r, kind) \/ BrokerCall(r, kind)
      PROVE  IInv'
  BY <1>6, CallKeeps
<1>7. CASE UNCHANGED vars
  BY <1>7 DEF IInv, Types, Quiet, Own, Started, InfoOnce, vars
<1> QED  BY <1>1, <1>2, <1>3, <1>4, <1>5, <1>6, <1>7 DEF Next

\* In every reachable state what is on its way on a socket belongs to the handler
\* that is installed there, or is mixed up with it.
THEOREM Invariance == Spec => []IInv
<1>1. Init => IInv
  BY InitKeeps
<1>2. IInv /\ [Next]_vars => IInv'
  BY NextKeeps
<1> QED  BY <1>1, <1>2, PTL DEF Spec

\* Each variable keeps its type, and there is an LHCBBroker exactly when
\* getBrokerInfo has been answered with a response (the constructor of LHCBClient).
THEOREM TypeCorrectness == Spec => []TypeOK
<1>1. IInv => TypeOK
  BY DEF IInv, Types, TypeOK, InfoOnce, Sockets
<1> QED  BY <1>1, Invariance, PTL
-----------------------------------------------------------------------------
\* The promises as the abstract calls see them: without the type of the answer.
Bar == [q \in Id |-> [state |-> outcome[q].state, by |-> outcome[q].by]]

\* A step that leaves the promises and the mixed up calls alone is a stutter.
LEMMA Stutter == UNCHANGED <<outcome, mixed>> => UNCHANGED Calls!vars
BY DEF Calls!vars

\* A call that begins, with all the calls on a socket newly mixed up, is an
\* abstract Call: they have been made.
LEMMA BeginRefines ==
    ASSUME IInv, NEW q \in Id, NEW state \in {"waiting", "failed"}, Begin(q, state),
           outcome[q].state = "idle",
           UNCHANGED mixed \/ (\E s \in Socket : Overlap(s, q))
    PROVE  Calls!Next
<1>1. /\ outcome' \in [Id -> [state : {"idle", "waiting", "failed", "settled"}, by : Id,
                              type : {"none", "response", "error"}]]
      /\ outcome'[q].state = state /\ outcome'[q].by = q /\ outcome'[q].type = "none"
      /\ \A x \in Id : x # q => outcome'[x] = outcome[x]
  BY BeginOutcome
<1>2. outcome[q].by = q
  BY DEF IInv, Started
<1>3. Bar' = [Bar EXCEPT ![q].state = state]
  BY <1>1, <1>2 DEF Bar
<1>4. Bar[q].state = "idle" /\ \A x \in Id : Bar[x].state = outcome[x].state
  BY DEF Bar
<1>5. mixed \subseteq mixed' /\ mixed' \subseteq mixed \cup {q} \cup {x \in Id : outcome[x].state # "idle"}
  <2>1. CASE UNCHANGED mixed
    BY <2>1
  <2>2. ASSUME NEW s \in Socket, Overlap(s, q)
        PROVE  mixed \subseteq mixed' /\ mixed' \subseteq mixed \cup {q} \cup {x \in Id : outcome[x].state # "idle"}
    <3>1. On(ws[s]) \subseteq {x \in Id : outcome[x].state # "idle"}
      <4>1. On(ws[s]) \subseteq Id
        BY OnCalls DEF IInv, Types
      <4> QED  BY <4>1 DEF IInv, Started
    <3> QED  BY <2>2, <3>1, OutstandingOn DEF Overlap
  <2> QED  BY <2>1, <2>2
<1>6. Calls!Call(q)
  BY <1>3, <1>4, <1>5 DEF Calls!Call, Bar
<1> QED  BY <1>6 DEF Calls!Next

\* onmessage is an abstract Settle, or nothing if nobody waits.
LEMMA OnmessageRefines ==
    ASSUME IInv, NEW s \in Socket, Onmessage(s)
    PROVE  Calls!Next \/ UNCHANGED Calls!vars
<1> DEFINE h == ws[s].onmessage
           reply == Head(ws[s].down)
<1>1. UNCHANGED mixed
  BY DEF Onmessage, Take
<1>2. CASE UNCHANGED outcome
  BY <1>1, <1>2, Stutter
<1>3. CASE /\ h \in Id /\ outcome[h].state = "waiting" /\ reply.id \in Id
           /\ reply.id = h \/ {h, reply.id} \subseteq mixed
           /\ outcome' = [outcome EXCEPT
                             ![h] = [state |-> "settled", by |-> reply.id, type |-> reply.type]]
  <2> HIDE DEF h, reply
  <2>1. PICK q \in Id, by \in Id : q = h /\ by = reply.id
    BY <1>3
  <2>2. Bar' = [Bar EXCEPT ![q] = [state |-> "settled", by |-> by]] /\ Bar[q].state = "waiting"
    BY <1>3, <2>1 DEF Bar, IInv, Types
  <2>3. Calls!Settle(q, by)
    BY <1>1, <1>3, <2>1, <2>2 DEF Calls!Settle, Bar
  <2> QED  BY <2>3 DEF Calls!Next
<1> QED  BY <1>2, <1>3, ResolveOutcome

\* read and execute, and the constructor's getBrokerInfo, begin a call.
LEMMA CallRefines ==
    ASSUME IInv, NEW r \in Request, NEW kind \in Kinds, ClientCall(r, kind) \/ BrokerCall(r, kind)
    PROVE  Calls!Next
<1>1. r \in Id /\ outcome[r].state = "idle" /\ "local" \in Socket /\ "broker" \in Socket
  BY DEF Id, Socket, ClientCall, BrokerCall
<1>2. /\ Begin(r, "waiting") \/ Begin(r, "failed")
      /\ UNCHANGED mixed \/ Overlap("local", r) \/ Overlap("broker", r)
  BY DEF ClientCall, BrokerCall, Send, SendWith
<1> QED  BY <1>1, <1>2, BeginRefines

\* Each step is a step of the abstract calls or leaves them alone.
LEMMA StepRefines == IInv /\ [Next]_vars => [Calls!Next]_Calls!vars
<1> SUFFICES ASSUME IInv, [Next]_vars PROVE Calls!Next \/ UNCHANGED Calls!vars
  OBVIOUS
<1>1. ASSUME NEW s \in Socket, Open(s) PROVE Calls!Next \/ UNCHANGED Calls!vars
  <2>1. CASE s = "local"
    <3>1. Info \in Id /\ outcome[Info].state = "idle" /\ Begin(Info, "waiting") /\ UNCHANGED mixed
      BY <1>1, <2>1 DEF Id, Open, IInv, InfoOnce
    <3> QED  BY <3>1, BeginRefines
  <2>2. CASE s # "local"
    BY <1>1, <2>2, Stutter DEF Open
  <2> QED  BY <2>1, <2>2
<1>2. ASSUME NEW s \in Socket, Onmessage(s) PROVE Calls!Next \/ UNCHANGED Calls!vars
  BY <1>2, OnmessageRefines
<1>3. ASSUME NEW s \in Socket, Close(s) PROVE UNCHANGED Calls!vars
  BY <1>3, Stutter DEF Close
<1>4. ASSUME NEW s \in Socket, NEW m \in ws[s].working, Complete(s, m) PROVE UNCHANGED Calls!vars
  BY <1>4, Stutter DEF Complete
<1>5. ASSUME LocalHandle \/ BrokerHandle PROVE UNCHANGED Calls!vars
  <2>1. UNCHANGED <<outcome, mixed>>
    BY <1>5 DEF LocalHandle, BrokerHandle, Handle
  <2> QED  BY <2>1, Stutter
<1>6. ASSUME NEW r \in Request, NEW kind \in Kinds, ClientCall(r, kind) \/ BrokerCall(r, kind)
      PROVE  Calls!Next
  BY <1>6, CallRefines
<1>7. CASE UNCHANGED vars
  BY <1>7, Stutter DEF vars
<1> QED  BY <1>1, <1>2, <1>3, <1>4, <1>5, <1>6, <1>7 DEF Next

\* The library implements the abstract calls, whatever the calls and however many
\* sockets close: a promise settles once, and with another call's answer only if
\* both overlapped on a socket (onmessage, which looks at no id).
THEOREM Refinement == Spec => RefinesRequestReply
<1>1. Init => Calls!Init
  BY DEF Init, Calls!Init
<1>2. IInv /\ [Next]_vars => [Calls!Next]_Calls!vars
  BY StepRefines
<1> QED  BY <1>1, <1>2, Invariance, PTL DEF Spec, RefinesRequestReply
-----------------------------------------------------------------------------
(***************************************************************************)
(* No answer is dropped.                                                   *)
(***************************************************************************)
\* The answer to a call that waits is on its way, unless the call is mixed up with
\* another one or lost.
Due == \A q \in Id : outcome[q].state = "waiting" =>
           q \in mixed \cup lost \/ \E s \in Socket : q \in On(ws[s])

\* Taking the first reply leaves the others.
LEMMA TakeLeaves ==
    ASSUME NEW k \in Sockets, k.down # <<>>
    PROVE  On(k) \subseteq On([k EXCEPT !.down = Tail(@)]) \cup {Head(k.down).id}
<1> DEFINE new == [k EXCEPT !.down = Tail(@)]
<1>1. k.down \in Seq(Reply) /\ new.up = k.up /\ new.working = k.working /\ new.down = Tail(k.down)
  BY DEF Sockets
<1>2. ToSet(k.down) = ToSet(Tail(k.down)) \cup {Head(k.down)}
  BY <1>1, ToSetQueue
<1> HIDE DEF new
<1>3. On(k) \subseteq On(new) \cup {Head(k.down).id}
  BY <1>1, <1>2 DEF On
<1> QED  BY <1>3 DEF new

\* A message that is answered, or kept, stays on its way.
LEMMA HandleLeaves ==
    ASSUME NEW k \in Sockets, k.up # <<>>, NEW type \in {"response", "error"},
           NEW r, r = [id |-> Head(k.up).id, type |-> type]
    PROVE  /\ On(k) \subseteq On([k EXCEPT !.up = Tail(@)]) \cup {Head(k.up).id}
           /\ On(k) \subseteq On([k EXCEPT !.down = Append(@, r), !.up = Tail(@)])
           /\ On(k) \subseteq On([k EXCEPT !.working = @ \cup {Head(k.up)}, !.up = Tail(@)])
<1>1. k.up \in Seq(Msg) /\ k.working \subseteq Msg /\ k.down \in Seq(Reply)
  BY DEF Sockets
<1>2. Head(k.up) \in Msg /\ ToSet(k.up) = ToSet(Tail(k.up)) \cup {Head(k.up)}
  BY <1>1, ToSetQueue
<1>3. r \in Reply /\ r.id = Head(k.up).id
  BY <1>2 DEF Msg, Reply
<1>4. ToSet(Append(k.down, r)) = ToSet(k.down) \cup {r}
  BY <1>1, <1>3, ToSetAppend
<1>5. On(k) \subseteq On([k EXCEPT !.up = Tail(@)]) \cup {Head(k.up).id}
  <2> DEFINE new == [k EXCEPT !.up = Tail(@)]
  <2>1. new.up = Tail(k.up) /\ new.working = k.working /\ new.down = k.down
    BY <1>1 DEF Sockets
  <2> HIDE DEF new
  <2>2. On(k) \subseteq On(new) \cup {Head(k.up).id}
    BY <1>2, <2>1 DEF On
  <2> QED  BY <2>2 DEF new
<1>6. On(k) \subseteq On([k EXCEPT !.down = Append(@, r), !.up = Tail(@)])
  <2> DEFINE new == [k EXCEPT !.down = Append(@, r), !.up = Tail(@)]
  <2>1. new.up = Tail(k.up) /\ new.working = k.working /\ new.down = Append(k.down, r)
    BY <1>1 DEF Sockets
  <2> HIDE DEF new
  <2>2. On(k) \subseteq On(new)
    BY <1>2, <1>3, <1>4, <2>1 DEF On
  <2> QED  BY <2>2 DEF new
<1>7. On(k) \subseteq On([k EXCEPT !.working = @ \cup {Head(k.up)}, !.up = Tail(@)])
  <2> DEFINE new == [k EXCEPT !.working = @ \cup {Head(k.up)}, !.up = Tail(@)]
  <2>1. new.up = Tail(k.up) /\ new.working = k.working \cup {Head(k.up)} /\ new.down = k.down
    BY <1>1 DEF Sockets
  <2> HIDE DEF new
  <2>2. On(k) \subseteq On(new)
    BY <1>2, <2>1 DEF On
  <2> QED  BY <2>2 DEF new
<1> QED  BY <1>5, <1>6, <1>7

\* So does one the Java side was working on.
LEMMA CompleteLeaves ==
    ASSUME NEW k \in Sockets, NEW m \in k.working, NEW type \in {"response", "error"},
           NEW r, r = [id |-> m.id, type |-> type]
    PROVE  /\ On(k) \subseteq On([k EXCEPT !.working = @ \ {m}]) \cup {m.id}
           /\ On(k) \subseteq On([k EXCEPT !.down = Append(@, r), !.working = @ \ {m}])
<1>1. k.working \subseteq Msg /\ k.down \in Seq(Reply) /\ m \in Msg
  BY DEF Sockets
<1>2. r \in Reply /\ r.id = m.id
  BY <1>1 DEF Msg, Reply
<1>3. ToSet(Append(k.down, r)) = ToSet(k.down) \cup {r}
  BY <1>1, <1>2, ToSetAppend
<1>4. On(k) \subseteq On([k EXCEPT !.working = @ \ {m}]) \cup {m.id}
  <2> DEFINE new == [k EXCEPT !.working = @ \ {m}]
  <2>1. new.up = k.up /\ new.working = k.working \ {m} /\ new.down = k.down
    BY DEF Sockets
  <2> HIDE DEF new
  <2>2. On(k) \subseteq On(new) \cup {m.id}
    BY <2>1 DEF On
  <2> QED  BY <2>2 DEF new
<1>5. On(k) \subseteq On([k EXCEPT !.down = Append(@, r), !.working = @ \ {m}])
  <2> DEFINE new == [k EXCEPT !.down = Append(@, r), !.working = @ \ {m}]
  <2>1. new.up = k.up /\ new.working = k.working \ {m} /\ new.down = Append(k.down, r)
    BY DEF Sockets
  <2> HIDE DEF new
  <2>2. On(k) \subseteq On(new)
    BY <1>2, <1>3, <2>1 DEF On
  <2> QED  BY <2>2 DEF new
<1> QED  BY <1>4, <1>5

\* What a step may do: a call that begins to wait is on its way or lost, and what
\* is on its way stays so, is lost, mixed up, or no longer waited for.
LEMMA DueStep ==
    ASSUME Due, mixed \subseteq mixed', lost \subseteq lost',
           \A q \in Id : outcome'[q].state = "waiting" =>
               outcome[q].state = "waiting" \/ q \in lost' \/ \E t \in Socket : q \in On(ws'[t]),
           \A s \in Socket : \A q \in On(ws[s]) :
               \/ outcome'[q].state # "waiting" \/ q \in mixed' \cup lost'
               \/ \E t \in Socket : q \in On(ws'[t])
    PROVE  Due'
<1> SUFFICES ASSUME NEW q \in Id, outcome'[q].state = "waiting", q \notin mixed' \cup lost'
             PROVE  \E t \in Socket : q \in On(ws'[t])
  BY DEF Due
<1>1. CASE outcome[q].state = "waiting"
  <2>1. PICK s \in Socket : q \in On(ws[s])
    BY <1>1 DEF Due
  <2> QED  BY <2>1
<1>2. CASE outcome[q].state # "waiting"
  BY <1>2
<1> QED  BY <1>1, <1>2

\* A step of one socket that leaves what is on its way there, but for x.
LEMMA SocketDue ==
    ASSUME IInv, Due, NEW s \in Socket, NEW new, ws' = [ws EXCEPT ![s] = new], mixed \subseteq mixed',
           lost \subseteq lost', NEW x, On(ws[s]) \subseteq On(new) \cup {x},
           \A q \in Id : outcome'[q].state = "waiting" =>
               outcome[q].state = "waiting" \/ q \in lost' \/ q \in On(new),
           outcome'[x].state # "waiting" \/ x \in mixed' \cup lost' \/ x \in On(new)
    PROVE  Due'
<1>1. ws'[s] = new /\ \A t \in Socket : t # s => ws'[t] = ws[t]
  BY DEF IInv, Types
<1>2. \A q \in Id : outcome'[q].state = "waiting" =>
        outcome[q].state = "waiting" \/ q \in lost' \/ \E t \in Socket : q \in On(ws'[t])
  BY <1>1
<1>3. ASSUME NEW t \in Socket, NEW q \in On(ws[t])
      PROVE  \/ outcome'[q].state # "waiting" \/ q \in mixed' \cup lost'
             \/ \E u \in Socket : q \in On(ws'[u])
  <2>1. CASE t # s
    BY <1>1, <2>1
  <2>2. CASE t = s
    <3>1. q \in On(new) \/ q = x
      BY <2>2
    <3> QED  BY <1>1, <3>1
  <2> QED  BY <2>1, <2>2
<1> QED  BY <1>2, <1>3, DueStep

\* Handle, whichever answer it gives; without one the call is lost.
LEMMA HandleDue ==
    ASSUME IInv, Due, NEW s \in Socket, NEW kinds, NEW none \in BOOLEAN,
           NEW type \in {"response", "error"}, NEW sock,
           sock \in {Answer(s, Head(ws[s].up), type), Later(s)} \/ (sock = ws[s] /\ none),
           Handle(s, kinds, sock, none)
    PROVE  Due'
<1>1. /\ ws[s] \in Sockets /\ ws[s].up # <<>> /\ UNCHANGED <<outcome, mixed>>
      /\ ws' = [ws EXCEPT ![s] = [sock EXCEPT !.up = Tail(@)]]
      /\ lost' = IF none THEN lost \cup {Head(ws[s].up).id} ELSE lost
  BY DEF IInv, Types, Handle
<1>2. PICK x, new : x = Head(ws[s].up).id /\ new = [sock EXCEPT !.up = Tail(@)]
  OBVIOUS
<1>3. /\ On(ws[s]) \subseteq On([ws[s] EXCEPT !.up = Tail(@)]) \cup {x}
      /\ On(ws[s]) \subseteq On([ws[s] EXCEPT !.down = Append(@, [id |-> Head(ws[s].up).id, type |-> type]),
                                   !.up = Tail(@)])
      /\ On(ws[s]) \subseteq On([ws[s] EXCEPT !.working = @ \cup {Head(ws[s].up)}, !.up = Tail(@)])
  BY <1>1, <1>2, HandleLeaves
<1>4. Head(ws[s].up).id \in On(ws[s])
  BY <1>1, HandleSocket
<1>5. On(ws[s]) \subseteq On(new) \cup {x} /\ (x \in lost' \/ x \in On(new))
  <2>1. CASE sock = ws[s] /\ none
    BY <1>1, <1>2, <1>3, <2>1
  <2>2. CASE sock = Answer(s, Head(ws[s].up), type)
    <3>1. [sock EXCEPT !.up = Tail(@)]
            = [ws[s] EXCEPT !.down = Append(@, [id |-> Head(ws[s].up).id, type |-> type]), !.up = Tail(@)]
      BY <1>1, <2>2 DEF Answer, Sockets
    <3> QED  BY <1>2, <1>3, <1>4, <3>1
  <2>3. CASE sock = Later(s)
    <3>1. [sock EXCEPT !.up = Tail(@)] = [ws[s] EXCEPT !.working = @ \cup {Head(ws[s].up)}, !.up = Tail(@)]
      BY <1>1, <2>3 DEF Later, Sockets
    <3> QED  BY <1>2, <1>3, <1>4, <3>1
  <2> QED  BY <2>1, <2>2, <2>3
<1>6. ws' = [ws EXCEPT ![s] = new] /\ lost \subseteq lost'
  BY <1>1, <1>2
<1>7. \A q \in Id : outcome'[q].state = "waiting" => outcome[q].state = "waiting"
  BY <1>1
<1> QED  BY <1>1, <1>5, <1>6, <1>7, SocketDue

\* LocalHandle and BrokerHandle.
LEMMA JavaDue == ASSUME IInv, Due, LocalHandle \/ BrokerHandle PROVE Due'
<1>1. "local" \in Socket /\ "broker" \in Socket
  BY DEF Socket
<1>2. ASSUME NEW s \in Socket, NEW kinds, NEW type \in {"response", "error"},
             Handle(s, kinds, Answer(s, Head(ws[s].up), type), FALSE)
      PROVE  Due'
  BY <1>2, HandleDue
<1>3. ASSUME NEW s \in Socket, NEW kinds, Handle(s, kinds, Later(s), FALSE) PROVE Due'
  BY <1>3, HandleDue
<1>4. ASSUME NEW s \in Socket, NEW kinds, Handle(s, kinds, ws[s], TRUE) PROVE Due'
  BY <1>4, HandleDue
<1>5. CASE LocalHandle
  <2>1. ASSUME NEW type \in {"response", "error"},
               Handle("local", {"read"}, Answer("local", Head(ws["local"].up), type), FALSE)
        PROVE  Due'
    BY <1>1, <1>2, <2>1
  <2>2. CASE Handle("local", {"changeIface"}, Answer("local", Head(ws["local"].up), "response"), FALSE)
    BY <1>1, <1>2, <2>2
  <2>3. CASE Handle("local", {"getBrokerInfo"}, Later("local"), FALSE)
    BY <1>1, <1>3, <2>3
  <2>4. CASE Handle("local", {"getBrokerInfo"}, Answer("local", Head(ws["local"].up), "error"), FALSE)
    BY <1>1, <1>2, <2>4
  <2>5. CASE Handle("local", {"read", "other"}, ws["local"], TRUE)
    BY <1>1, <1>4, <2>5
  <2> QED  BY <1>5, <2>1, <2>2, <2>3, <2>4, <2>5 DEF LocalHandle
<1>6. CASE BrokerHandle
  <2>1. CASE Handle("broker", {"read", "changeIface", "getBrokerInfo"}, Answer("broker", Head(ws["broker"].up), "response"), FALSE)
    BY <1>1, <1>2, <2>1
  <2>2. CASE Handle("broker", {"read", "changeIface"}, Answer("broker", Head(ws["broker"].up), "error"), FALSE)
    BY <1>1, <1>2, <2>2
  <2>3. CASE Handle("broker", {"read", "changeIface"}, Later("broker"), FALSE)
    BY <1>1, <1>3, <2>3
  <2>4. CASE Handle("broker", {"other"}, ws["broker"], TRUE)
    BY <1>1, <1>4, <2>4
  <2> QED  BY <1>6, <2>1, <2>2, <2>3, <2>4 DEF BrokerHandle
<1> QED  BY <1>5, <1>6

\* Complete answers one message, or its call is lost.
LEMMA CompleteDue ==
    ASSUME IInv, Due, NEW s \in Socket, NEW m \in ws[s].working, Complete(s, m)
    PROVE  Due'
<1>1. ws[s] \in Sockets /\ m \in Msg /\ m.id \in On(ws[s]) /\ UNCHANGED <<outcome, mixed>>
  BY DEF IInv, Types, Sockets, On, Complete
<1>2. \A q \in Id : outcome'[q].state = "waiting" => outcome[q].state = "waiting"
  BY <1>1
<1>3. CASE ws' = [ws EXCEPT ![s].working = @ \ {m}] /\ lost' = lost \cup {m.id}
  <2>1. On(ws[s]) \subseteq On([ws[s] EXCEPT !.working = @ \ {m}]) \cup {m.id}
    BY <1>1, CompleteLeaves
  <2>2. ws' = [ws EXCEPT ![s] = [ws[s] EXCEPT !.working = @ \ {m}]]
    BY <1>3
  <2>3. PICK new : new = [ws[s] EXCEPT !.working = @ \ {m}]
    OBVIOUS
  <2> QED  BY <1>1, <1>2, <1>3, <2>1, <2>2, <2>3, SocketDue
<1>4. ASSUME NEW type \in {"response", "error"},
             ws' = [ws EXCEPT ![s] = [Answer(s, m, type) EXCEPT !.working = @ \ {m}]], UNCHANGED lost
      PROVE  Due'
  <2>1. On(ws[s]) \subseteq On([ws[s] EXCEPT !.down = Append(@, [id |-> m.id, type |-> type]), !.working = @ \ {m}])
    BY <1>1, CompleteLeaves
  <2>2. PICK new : new = [Answer(s, m, type) EXCEPT !.working = @ \ {m}]
    OBVIOUS
  <2>3. new = [ws[s] EXCEPT !.down = Append(@, [id |-> m.id, type |-> type]), !.working = @ \ {m}]
    BY <1>1, <2>2 DEF Answer, Sockets
  <2>4. ws' = [ws EXCEPT ![s] = new] /\ On(ws[s]) \subseteq On(new) \cup {m.id} /\ m.id \in On(new)
    BY <1>1, <1>4, <2>1, <2>2, <2>3
  <2> QED  BY <1>1, <1>2, <1>4, <2>4, SocketDue
<1> QED  BY <1>3, <1>4 DEF Complete

\* Close loses what was on its way.
LEMMA CloseDue == ASSUME IInv, Due, NEW s \in Socket, Close(s) PROVE Due'
<1>1. /\ ws' = [ws EXCEPT ![s] = Fresh("closed", ws[s].onmessage)] /\ lost' = lost \cup On(ws[s])
      /\ UNCHANGED <<outcome, mixed>>
  BY OutstandingOn DEF Close
<1>2. \A t \in Socket : t # s => ws'[t] = ws[t]
  BY <1>1 DEF IInv, Types
<1>3. ASSUME NEW t \in Socket, NEW q \in On(ws[t])
      PROVE  q \in mixed' \cup lost' \/ \E u \in Socket : q \in On(ws'[u])
  BY <1>1, <1>2
<1> QED  BY <1>1, <1>3, DueStep

\* onopen: the constructor's message is on its way.
LEMMA OpenDue == ASSUME IInv, Due, NEW s \in Socket, Open(s) PROVE Due'
<1>1. ws[s] \in Sockets /\ On(ws[s]) = {} /\ UNCHANGED <<mixed, lost>>
  BY DEF IInv, Types, Quiet, Open
<1>2. CASE s = "local"
  <2> DEFINE m == [id |-> Info, kind |-> "getBrokerInfo"]
             new == [ws[s] EXCEPT !.readyState = "open", !.up = Append(@, m)]
  <2>1. m \in Msg /\ m.id = Info
    BY DEF Msg, Id, Kinds
  <2>2. new.up = Append(ws[s].up, m) /\ new.working = ws[s].working /\ new.down = ws[s].down
    BY <1>1 DEF Sockets
  <2>3. ws' = [ws EXCEPT ![s] = new] /\ outcome' = [outcome EXCEPT ![Info].state = "waiting"]
    BY <1>2 DEF Open, Begin
  <2> HIDE DEF m, new
  <2>4. On(new) = {Info}
    <3>1. On(new) = On(ws[s]) \cup {m.id}
      BY <1>1, <2>1, <2>2, SendSocket
    <3> QED  BY <1>1, <2>1, <3>1
  <2>5. \A q \in Id : outcome'[q].state = "waiting" => outcome[q].state = "waiting" \/ q \in On(new)
    BY <2>3, <2>4 DEF IInv, Types
  <2> QED  BY <1>1, <2>3, <2>4, <2>5, SocketDue
<1>3. CASE s # "local"
  <2>1. PICK new : new = [ws[s] EXCEPT !.readyState = "open"]
    OBVIOUS
  <2>2. ws' = [ws EXCEPT ![s] = new] /\ UNCHANGED outcome
    BY <1>3, <2>1 DEF Open
  <2>3. \A t \in Socket : t # s => ws'[t] = ws[t]
    BY <2>2 DEF IInv, Types
  <2>4. ASSUME NEW t \in Socket, NEW q \in On(ws[t]) PROVE \E u \in Socket : q \in On(ws'[u])
    BY <1>1, <2>3
  <2> QED  BY <1>1, <2>2, <2>4, DueStep
<1> QED  BY <1>2, <1>3

\* read and execute: the call is on its way, fails, or is lost on a closed socket.
LEMMA SendDue ==
    ASSUME IInv, Due, NEW s \in Socket, NEW r \in Request, NEW kind \in Kinds,
           outcome[r].state = "idle", Send(s, r, kind)
    PROVE  Due'
<1> DEFINE m == [id |-> r, kind |-> kind]
<1>1. ws[s] \in Sockets /\ r \in Id /\ m \in Msg /\ m.id = r
  BY DEF IInv, Types, Id, Msg
<1>2. CASE ws[s].readyState = "open"
  <2> DEFINE new == [ws[s] EXCEPT !.onmessage = r, !.up = Append(@, m)]
  <2>1. new.up = Append(ws[s].up, m) /\ new.working = ws[s].working /\ new.down = ws[s].down
    BY <1>1 DEF Sockets
  <2>2. /\ ws' = [ws EXCEPT ![s] = new] /\ outcome' = [outcome EXCEPT ![r].state = "waiting"]
        /\ mixed \subseteq mixed' /\ UNCHANGED lost
    BY <1>2 DEF Send, SendWith, Begin, Overlap
  <2> HIDE DEF m, new
  <2>3. On(new) = On(ws[s]) \cup {r}
    BY <1>1, <2>1, SendSocket
  <2>4. \A q \in Id : outcome'[q].state = "waiting" => outcome[q].state = "waiting" \/ q \in On(new)
    BY <2>2, <2>3 DEF IInv, Types
  <2> QED  BY <2>2, <2>3, <2>4, SocketDue
<1>3. CASE ws[s].readyState # "open"
  <2>1. /\ \E state \in {"waiting", "failed"} :
              /\ outcome' = [outcome EXCEPT ![r].state = state]
              /\ state = "waiting" => r \in lost'
        /\ ws' = [ws EXCEPT ![s].onmessage = r] /\ UNCHANGED mixed /\ lost \subseteq lost'
    BY <1>3 DEF Send, SendWith, Begin
  <2>2. \A t \in Socket : t # s => ws'[t] = ws[t]
    BY <2>1 DEF IInv, Types
  <2>3. On(ws[s]) = {}
    BY <1>3 DEF IInv, Quiet
  <2>4. \A q \in Id : outcome'[q].state = "waiting" => outcome[q].state = "waiting" \/ q \in lost'
    <3>1. outcome \in [Id -> [state : {"idle", "waiting", "failed", "settled"}, by : Id,
                              type : {"none", "response", "error"}]]
      BY DEF IInv, Types
    <3> QED  BY <1>1, <2>1, <3>1
  <2>5. ASSUME NEW t \in Socket, NEW q \in On(ws[t]) PROVE \E u \in Socket : q \in On(ws'[u])
    BY <2>2, <2>3
  <2> QED  BY <2>1, <2>4, <2>5, DueStep
<1> QED  BY <1>2, <1>3

\* ClientCall and BrokerCall.
LEMMA CallDue ==
    ASSUME IInv, Due, NEW r \in Request, NEW kind \in Kinds, ClientCall(r, kind) \/ BrokerCall(r, kind)
    PROVE  Due'
<1>1. "local" \in Socket /\ "broker" \in Socket /\ outcome[r].state = "idle"
  BY DEF Socket, ClientCall, BrokerCall
<1>2. ASSUME NEW s \in Socket, Send(s, r, kind) PROVE Due'
  BY <1>1, <1>2, SendDue
<1>3. CASE Begin(r, "failed") /\ UNCHANGED <<ws, mixed, lost>>
  <2>1. r \in Id
    BY DEF Id
  <2>2. \A q \in Id : outcome'[q].state = "waiting" => outcome[q].state = "waiting"
    BY <1>3, <2>1 DEF IInv, Types, Begin
  <2> QED  BY <1>3, <2>2, DueStep
<1> QED  BY <1>1, <1>2, <1>3 DEF ClientCall, BrokerCall

\* onmessage: the reply settles the call it answers, or that call is mixed up.
LEMMA OnmessageDue == ASSUME IInv, Due, NEW s \in Socket, Onmessage(s) PROVE Due'
<1>1. PICK h, reply, new : h = ws[s].onmessage /\ reply = Head(ws[s].down) /\ new = [ws[s] EXCEPT !.down = Tail(@)]
  OBVIOUS
<1>2. ws \in [Socket -> Sockets] /\ ws[s] \in Sockets /\ ws[s].down # <<>> /\ UNCHANGED <<mixed, lost>>
  BY DEF IInv, Types, Onmessage, Take
<1>3. reply.id \in On(ws[s]) /\ reply.id \in Id /\ On(ws[s]) \subseteq On(new) \cup {reply.id}
  BY <1>1, <1>2, TakeSocket, TakeLeaves DEF Reply
<1>4. h = reply.id \/ reply.id \in mixed
  BY <1>1, <1>3 DEF IInv, Own
<1>5. \/ UNCHANGED outcome /\ (h # None => outcome[h].state # "waiting")
      \/ /\ h \in Id /\ outcome' = [outcome EXCEPT
                           ![h] = [state |-> "settled", by |-> reply.id, type |-> reply.type]]
  BY <1>1, ResolveOutcome
<1>6. /\ \A q \in Id : outcome'[q].state = "waiting" => outcome[q].state = "waiting"
      /\ outcome'[reply.id].state # "waiting" \/ reply.id \in mixed'
  <2>1. outcome \in [Id -> [state : {"idle", "waiting", "failed", "settled"}, by : Id,
                            type : {"none", "response", "error"}]] /\ None \notin Id
    BY IdAssumption DEF IInv, Types, Id
  <2> QED  BY <1>2, <1>3, <1>4, <1>5, <2>1
<1>7. CASE ws' = [ws EXCEPT ![s].down = Tail(@)]
  <2>1. ws' = [ws EXCEPT ![s] = new]
    BY <1>1, <1>7
  <2> QED  BY <1>2, <1>3, <1>6, <2>1, SocketDue
<1>8. CASE ws' = [ws EXCEPT ![s].down = Tail(@), !["broker"] = Fresh("connecting", None)] /\ h = Info
  <2>1. s = "local" /\ AtMostOne(ws[s]) /\ outcome[Info].state = "waiting" /\ outcome[Info].type = "none"
    BY <1>1, <1>3, <1>8, IdAssumption DEF IInv, InfoOnce, Socket, Started, Id
  <2>2. On(ws["broker"]) = {}
    BY <2>1 DEF IInv, InfoOnce, Quiet, Socket
  <2>3. ws'["local"] = new
    BY <1>1, <1>2, <1>8, <2>1 DEF Socket
  <2>4. ASSUME NEW t \in Socket, NEW q \in On(ws[t])
        PROVE  \/ outcome'[q].state # "waiting" \/ q \in mixed' \cup lost'
               \/ \E u \in Socket : q \in On(ws'[u])
    <3>1. t = "local" /\ (q \in On(new) \/ q = reply.id)
      BY <1>3, <2>1, <2>2 DEF Socket
    <3> QED  BY <1>6, <2>3, <3>1
  <2> QED  BY <1>2, <1>6, <2>4, DueStep
<1> QED  BY <1>1, <1>7, <1>8 DEF Onmessage, Take

\* In every reachable state an answer that is waited for is on its way.
THEOREM AnswersDue == Spec => []Due
<1>1. Init => Due
  BY DEF Init, Due
<1>2. IInv /\ Due /\ [Next]_vars => Due'
  <2> SUFFICES ASSUME IInv, Due, [Next]_vars PROVE Due'
    OBVIOUS
  <2>1. ASSUME NEW s \in Socket, Open(s) PROVE Due'
    BY <2>1, OpenDue
  <2>2. ASSUME NEW s \in Socket, Onmessage(s) PROVE Due'
    BY <2>2, OnmessageDue
  <2>3. ASSUME NEW s \in Socket, Close(s) PROVE Due'
    BY <2>3, CloseDue
  <2>4. ASSUME NEW s \in Socket, NEW m \in ws[s].working, Complete(s, m) PROVE Due'
    BY <2>4, CompleteDue
  <2>5. ASSUME LocalHandle \/ BrokerHandle PROVE Due'
    BY <2>5, JavaDue
  <2>6. ASSUME NEW r \in Request, NEW kind \in Kinds, ClientCall(r, kind) \/ BrokerCall(r, kind)
        PROVE  Due'
    BY <2>6, CallDue
  <2>7. CASE UNCHANGED vars
    BY <2>7 DEF Due, vars
  <2> QED  BY <2>1, <2>2, <2>3, <2>4, <2>5, <2>6, <2>7 DEF Next
<1> QED  BY <1>1, <1>2, Invariance, PTL DEF Spec

\* For any set of calls: the answer to a call that waits is on its way on a socket
\* whose handler is still that call's, unless the call overlapped with another one
\* or is lost (read and execute, onmessage, the constructor of LHCBClient).
THEOREM NoAnswerDropped == Spec => []AnswerStillToCome
<1>1. IInv /\ Due => AnswerStillToCome
  <2> SUFFICES ASSUME IInv, Due, NEW q \in Id, outcome[q].state = "waiting", q \notin mixed \cup lost
               PROVE  \E s \in Socket : q \in Outstanding(s) /\ ws[s].onmessage = q
    BY DEF AnswerStillToCome
  <2>1. PICK s \in Socket : q \in On(ws[s])
    BY DEF Due
  <2>2. ws[s].onmessage = q
    BY <2>1 DEF IInv, Own
  <2> QED  BY <2>1, <2>2, OutstandingOn
<1> QED  BY <1>1, Invariance, AnswersDue, PTL
=============================================================================
