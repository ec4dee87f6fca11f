-------------------------- MODULE Signalling_proofs --------------------------
(***************************************************************************)
(* Who calls and through what, in the demonstration's room: for every      *)
(* number of pages, whatever the order in which they come, share their     *)
(* cameras, hear of each other, leave and die.                             *)
(***************************************************************************)
EXTENDS Signalling, SequenceTheorems, FiniteSetTheorems, TLAPS

\* What is on its way, as far as the argument looks at it: whether a message of
\* kind k is, whether only the first is one, whether 'leave' is before each 'bye'.
Has(q, k) == \E i \in 1..Len(q) : q[i].kind = k
First(q, k) == \A i \in 1..Len(q) : q[i].kind = k => i = 1
LeavesFirst(q) == \A j \in 1..Len(q) : q[j].kind = "bye" => \E i \in 1..(j - 1) : q[i].kind = "leave"
Kinds == {"create or join", "leave", "bye", "created"}

\* A page asks for the room once, first of all; until the server has handled that,
\* it is not in the room and hears nothing.
Asks(p) ==
    /\ view[p] = "loading" => up[p] = <<>>
    /\ First(up[p], "create or join")
    /\ view[p] = "loading" \/ Has(up[p], "create or join") =>
          down[p] = <<>> /\ ~isChannelReady[p] /\ ~isInitiator[p] /\ p \notin room

\* Only a page that is there hears anything or is the initiator.
Listens(p) == view[p] # "open" => down[p] = <<>> /\ ~isInitiator[p]

\* 'created' is the first thing a page hears, before it can have a connection.
Creates(p) ==
    /\ First(down[p], "created")
    /\ Has(down[p], "created") => ~isChannelReady[p]
    /\ ~isChannelReady[p] => ~pc[p].there

\* The connection of an initiator that had its camera early is configured.
Relays(p) ==
    /\ p \in early => localStream[p]
    /\ p \in early /\ Configured(p) /\ isInitiator[p] /\ pc[p].there => pc[p].relay

\* A page that is closed leaves the room, then says so; in a smooth run each does.
Parts(p) ==
    /\ Has(up[p], "leave") \/ Has(up[p], "bye") => view[p] = "closed"
    /\ LeavesFirst(up[p]) \/ (p \notin room /\ ~Has(up[p], "create or join"))
    /\ smooth /\ view[p] = "closed" /\ (p \in room \/ Has(up[p], "create or join")) => Has(up[p], "bye")

PageInv(p) == Asks(p) /\ Listens(p) /\ Creates(p) /\ Relays(p) /\ Parts(p)

\* A page that is the initiator or will be when it has handled what it hears.
Claims(p) == isInitiator[p] \/ Has(down[p], "created") \/ Has(down[p], "bye")

\* In a smooth run at most one page of the room is, and one is unless the 'bye' that
\* makes one has not been relayed yet.
OneClaim == smooth => \A p, q \in room : Claims(p) /\ Claims(q) => p = q
SomeClaim ==
    smooth /\ room # {} => (\E p \in room : Claims(p)) \/ (\E p \in Page : Has(up[p], "bye"))

IInv == TypeOK /\ (\A p \in Page : PageInv(p)) /\ OneClaim /\ SomeClaim
-----------------------------------------------------------------------------
(***************************************************************************)
(* Messages on their way.                                                  *)
(***************************************************************************)
\* Nothing is on its way.
LEMMA NoneHas ==
    /\ \A k \in Kinds : ~Has(<<>>, k) /\ First(<<>>, k)
    /\ LeavesFirst(<<>>)
<1>1. Len(<<>>) = 0 /\ 1..0 = {}
  BY EmptySeq
<1> QED  BY <1>1 DEF Has, First, LeavesFirst

\* One more message.
LEMMA AppendHas ==
    ASSUME NEW S, NEW q \in Seq(S), NEW m \in S
    PROVE  /\ \A k \in Kinds : Has(Append(q, m), k) <=> Has(q, k) \/ m.kind = k
           /\ \A k \in Kinds : First(q, k) /\ m.kind # k => First(Append(q, m), k)
           /\ \A k \in Kinds : q = <<>> => First(Append(q, m), k)
           /\ LeavesFirst(q) /\ (m.kind # "bye" \/ Has(q, "leave")) => LeavesFirst(Append(q, m))
<1>1. PICK n, r : n = Len(q) /\ r = Append(q, m)
  OBVIOUS
<1>2. n \in Nat /\ Len(r) = n + 1 /\ r[n + 1] = m /\ \A i \in 1..n : r[i] = q[i]
  BY <1>1, AppendProperties, LenProperties
<1>3. n + 1 \in 1..(n + 1) /\ (\A i \in 1..n : i \in 1..(n + 1)) /\ \A i \in 1..(n + 1) : i \in 1..n \/ i = n + 1
  BY <1>2
<1>4. ASSUME NEW k \in Kinds
      PROVE  /\ Has(r, k) <=> Has(q, k) \/ m.kind = k
             /\ First(q, k) /\ m.kind # k => First(r, k)
             /\ q = <<>> => First(r, k)
  <2>1. Has(r, k) <=> Has(q, k) \/ m.kind = k
    BY <1>1, <1>2, <1>3 DEF Has
  <2>2. First(q, k) /\ m.kind # k => First(r, k)
    BY <1>1, <1>2, <1>3 DEF First
  <2>3. q = <<>> => First(r, k)
    <3>1. ASSUME q = <<>> PROVE n = 0
      BY <1>1, <3>1, EmptySeq
    <3>2. ASSUME n = 0 PROVE First(r, k)
      BY <1>2, <3>2 DEF First
    <3> QED  BY <3>1, <3>2
  <2> QED  BY <2>1, <2>2, <2>3
<1>5. ASSUME LeavesFirst(q), m.kind # "bye" \/ Has(q, "leave") PROVE LeavesFirst(r)
  <2>1. ASSUME NEW j \in 1..(n + 1), r[j].kind = "bye" PROVE \E i \in 1..(j - 1) : r[i].kind = "leave"
    <3>1. CASE j \in 1..n
      <4>1. PICK i \in 1..(j - 1) : q[i].kind = "leave"
        BY <1>1, <1>2, <1>5, <2>1, <3>1 DEF LeavesFirst
      <4>2. i \in 1..n
        BY <1>2, <3>1
      <4> QED  BY <1>2, <4>1, <4>2
    <3>2. CASE j = n + 1
      <4>1. PICK i \in 1..n : q[i].kind = "leave"
        BY <1>1, <1>2, <1>5, <2>1, <3>2 DEF Has
      <4>2. i \in 1..(j - 1)
        BY <1>2, <3>2
      <4> QED  BY <1>2, <4>1, <4>2
    <3> QED  BY <1>3, <2>1, <3>1, <3>2
  <2> QED  BY <1>2, <2>1 DEF LeavesFirst
<1> QED  BY <1>1, <1>4, <1>5

\* The first message is handled.
LEMMA TailHas ==
    ASSUME NEW S, NEW q \in Seq(S), q # <<>>
    PROVE  /\ \A k \in Kinds : Has(q, k) <=> Has(Tail(q), k) \/ Head(q).kind = k
           /\ \A k \in Kinds : First(q, k) => ~Has(Tail(q), k) /\ First(Tail(q), k)
           /\ LeavesFirst(q) => Head(q).kind # "bye" /\ (Head(q).kind # "leave" => LeavesFirst(Tail(q)))
<1>1. PICK n, r : n = Len(q) - 1 /\ r = Tail(q)
  OBVIOUS
<1>2. n \in Nat /\ Len(q) = n + 1 /\ Len(r) = n /\ q[1] = Head(q) /\ \A i \in 1..n : r[i] = q[i + 1]
  BY <1>1, HeadTailProperties, LenProperties, EmptySeq
<1>3. /\ 1 \in 1..(n + 1) /\ \A i \in 1..n : i + 1 \in 1..(n + 1) /\ i + 1 # 1
      /\ \A i \in 1..(n + 1) : i = 1 \/ (i - 1 \in 1..n /\ (i - 1) + 1 = i)
  BY <1>2
<1>4. ASSUME NEW k \in Kinds
      PROVE  /\ Has(q, k) <=> Has(r, k) \/ Head(q).kind = k
             /\ First(q, k) => ~Has(r, k) /\ First(r, k)
  <2>1. Has(q, k) <=> Has(r, k) \/ Head(q).kind = k
    <3>1. ASSUME Has(r, k) \/ Head(q).kind = k PROVE Has(q, k)
      BY <1>2, <1>3, <3>1 DEF Has
    <3>2. ASSUME NEW i \in 1..(n + 1), q[i].kind = k, i # 1 PROVE Has(r, k)
      <4>1. PICK j : j = i - 1
        OBVIOUS
      <4>2. j \in 1..n /\ j + 1 = i
        BY <1>2, <1>3, <3>2, <4>1
      <4>3. r[j].kind = k
        BY <1>2, <3>2, <4>2
      <4> QED  BY <1>2, <4>2, <4>3 DEF Has
    <3>3. ASSUME Has(q, k) PROVE Has(r, k) \/ Head(q).kind = k
      BY <1>2, <3>2, <3>3 DEF Has
    <3> QED  BY <3>1, <3>3
  <2>2. First(q, k) => ~Has(r, k)
    BY <1>2, <1>3 DEF Has, First
  <2>3. ~Has(r, k) => First(r, k)
    BY DEF Has, First
  <2> QED  BY <2>1, <2>2, <2>3
<1>5. ASSUME LeavesFirst(q) PROVE Head(q).kind # "bye" /\ (Head(q).kind # "leave" => LeavesFirst(r))
  <2>1. Head(q).kind # "bye"
    BY <1>2, <1>3, <1>5 DEF LeavesFirst
  <2>2. ASSUME Head(q).kind # "leave", NEW j \in 1..n, r[j].kind = "bye"
        PROVE  \E i \in 1..(j - 1) : r[i].kind = "leave"
    <3>1. PICK i \in 1..j : q[i].kind = "leave"
      <4>1. \E i \in 1..((j + 1) - 1) : q[i].kind = "leave"
        BY <1>2, <1>3, <1>5, <2>2 DEF LeavesFirst
      <4>2. (j + 1) - 1 = j
        BY <1>2
      <4> QED  BY <4>1, <4>2
    <3>2. i # 1
      BY <1>2, <2>2, <3>1
    <3>3. i - 1 \in 1..(j - 1) /\ i - 1 \in 1..n /\ (i - 1) + 1 = i
      BY <1>2, <3>1, <3>2
    <3>4. r[i - 1].kind = "leave"
      BY <1>2, <3>1, <3>3
    <3> QED  BY <3>3, <3>4
  <2> QED  BY <1>2, <2>1, <2>2 DEF LeavesFirst
<1> QED  BY <1>1, <1>4, <1>5

\* Only the first n arrive.
LEMMA PrefixHas ==
    ASSUME NEW S, NEW q \in Seq(S), NEW n \in 0..Len(q)
    PROVE  /\ SubSeq(q, 1, n) \in Seq(S)
           /\ \A k \in Kinds : Has(SubSeq(q, 1, n), k) => Has(q, k)
           /\ \A k \in Kinds : First(q, k) => First(SubSeq(q, 1, n), k)
           /\ LeavesFirst(q) => LeavesFirst(SubSeq(q, 1, n))
<1>1. PICK r, l : r = SubSeq(q, 1, n) /\ l = Len(q)
  OBVIOUS
<1>2. l \in Nat /\ n \in Nat /\ n <= l /\ q \in [1..l -> S] /\ \A i \in 1..n : i \in 1..l /\ q[i] \in S
  BY <1>1, LenProperties
<1>3. r \in Seq(S) /\ Len(r) = n /\ \A i \in 1..n : r[i] = q[i]
  BY <1>1, <1>2
<1>4. ASSUME NEW k \in Kinds PROVE (Has(r, k) => Has(q, k)) /\ (First(q, k) => First(r, k))
  BY <1>1, <1>2, <1>3 DEF Has, First
<1>5. ASSUME LeavesFirst(q) PROVE LeavesFirst(r)
  <2>1. ASSUME NEW j \in 1..n, r[j].kind = "bye" PROVE \E i \in 1..(j - 1) : r[i].kind = "leave"
    <3>1. PICK i \in 1..(j - 1) : q[i].kind = "leave"
      BY <1>1, <1>2, <1>3, <1>5, <2>1 DEF LeavesFirst
    <3>2. i \in 1..n
      BY <1>2, <2>1, <3>1
    <3> QED  BY <1>3, <3>1, <3>2
  <2> QED  BY <1>3, <2>1 DEF LeavesFirst
<1> QED  BY <1>1, <1>3, <1>4, <1>5
-----------------------------------------------------------------------------
(***************************************************************************)
(* Types.                                                                  *)
(***************************************************************************)
\* Connections and messages are what they should be.
LEMMA Values ==
    ASSUME TypeOK, NEW p \in Page
    PROVE  /\ NoId(p) \in Id /\ Self(p) \in Id
           /\ pc[p] \in Pc /\ pc[p].n \in Nat
           /\ \A n \in Nat : Null(p, n) \in Pc /\ ~Null(p, n).there
           /\ \A kind \in {"create or join", "leave", "got user media", "offer", "answer", "bye"}, from \in Id :
                 Emit(kind, from) \in ToServer /\ Emit(kind, from).kind = kind
           /\ \A kind \in {"created", "join", "joined", "full"}, from \in Id :
                 Emit(kind, from) \in ToPage /\ Emit(kind, from).kind = kind
           /\ \A m \in ToServer : m.kind \in Relayed => m \in ToPage
<1>1. pc[p] \in Pc
  BY DEF TypeOK
<1>2. pc[p].n \in Nat
  BY <1>1 DEF Pc
<1>3. NoId(p) \in Id /\ Self(p) \in Id
  BY <1>2 DEF NoId, Self, Id
<1>4. ASSUME NEW n \in Nat PROVE Null(p, n) \in Pc /\ ~Null(p, n).there
  BY <1>3 DEF Null, Pc
<1>5. /\ \A kind \in {"create or join", "leave", "got user media", "offer", "answer", "bye"}, from \in Id :
            Emit(kind, from) \in ToServer /\ Emit(kind, from).kind = kind
      /\ \A kind \in {"created", "join", "joined", "full"}, from \in Id :
            Emit(kind, from) \in ToPage /\ Emit(kind, from).kind = kind
  BY DEF Emit, ToServer, ToPage, Message, Relayed
<1>6. \A m \in ToServer : m.kind \in Relayed => m \in ToPage
  BY DEF ToServer, ToPage, Message
<1> QED  BY <1>1, <1>2, <1>3, <1>4, <1>5, <1>6

\* peerConnection makes a new connection, with or without the configuration.
LEMMA NewValue ==
    ASSUME TypeOK, NEW p \in Page, NEW relay \in BOOLEAN
    PROVE  New(p, relay) \in Pc /\ New(p, relay).there /\ New(p, relay).relay = relay /\ New(p, relay).state = "stable"
<1>1. pc[p].n + 1 \in Nat /\ NoId(p) \in Id
  <2>1. pc[p].n \in Nat /\ NoId(p) \in Id
    BY Values
  <2> QED  BY <2>1
<1>2. PICK c, i : c = Null(p, pc[p].n + 1) /\ i = NoId(p)
  OBVIOUS
<1>3. c \in Pc /\ c = [n |-> pc[p].n + 1, there |-> FALSE, relay |-> FALSE, state |-> "stable", peer |-> i]
  BY <1>1, <1>2, Values DEF Null
<1>4. PICK d : d = [c EXCEPT !.there = TRUE, !.relay = relay]
  OBVIOUS
<1>5. d \in Pc /\ d.there = TRUE /\ d.relay = relay /\ d.state = "stable"
  BY <1>3, <1>4 DEF Pc
<1>6. New(p, relay) = d
  BY <1>2, <1>4 DEF New
<1> QED  BY <1>5, <1>6

\* socket.emit appends to what the pages that are there hear.
LEMMA Emitting ==
    ASSUME TypeOK, NEW qs, NEW m \in ToPage
    PROVE  /\ EmitTo(qs, m) \in [Page -> Seq(ToPage)]
           /\ \A q \in Page : EmitTo(qs, m)[q] = IF q \in qs /\ view[q] = "open" THEN Append(down[q], m) ELSE down[q]
<1>1. \A q \in Page : down[q] \in Seq(ToPage) /\ Append(down[q], m) \in Seq(ToPage)
  BY AppendProperties DEF TypeOK
<1> QED  BY <1>1 DEF EmitTo

\* A set of pages is finite.
LEMMA PagesFinite == \A S \in SUBSET Page : IsFiniteSet(S) /\ Cardinality(S) \in Nat
<1>1. IsFiniteSet(Page)
  BY PagesAssumption, FS_Interval DEF Page
<1> QED  BY <1>1, FS_Subset, FS_CardinalityType

\* What the server does when it handles a message of p.
LEMMA Handling ==
    ASSUME TypeOK, NEW p \in Page, NEW kinds, Handle(p, kinds)
    PROVE  /\ up[p] \in Seq(ToServer) /\ up[p] # <<>> /\ Head(up[p]) \in ToServer /\ Head(up[p]).kind \in kinds
           /\ up' \in [Page -> Seq(ToServer)] /\ up'[p] = Tail(up[p])
           /\ \A q \in Page \ {p} : up'[q] = up[q]
           /\ UNCHANGED <<view, isInitiator, isStarted, isChannelReady, localStream, pc, making, leaves, early>>
<1>1. up \in [Page -> Seq(ToServer)] /\ up[p] \in Seq(ToServer)
  BY DEF TypeOK
<1>2. up[p] # <<>> /\ Head(up[p]).kind \in kinds /\ up' = [up EXCEPT ![p] = Tail(@)]
  BY DEF Handle
<1>3. Head(up[p]) \in ToServer /\ Tail(up[p]) \in Seq(ToServer)
  BY <1>1, <1>2, HeadTailProperties
<1>4. UNCHANGED <<view, isInitiator, isStarted, isChannelReady, localStream, pc, making, leaves, early>>
  BY DEF Handle, flags
<1> QED  BY <1>1, <1>2, <1>3, <1>4

\* What a page does when it handles a message.
LEMMA Hearing ==
    ASSUME TypeOK, NEW p \in Page, NEW kinds, Hears(p, kinds)
    PROVE  /\ down[p] \in Seq(ToPage) /\ down[p] # <<>> /\ Head(down[p]) \in ToPage /\ Head(down[p]).kind \in kinds
           /\ down' \in [Page -> Seq(ToPage)] /\ down'[p] = Tail(down[p])
           /\ \A q \in Page \ {p} : down'[q] = down[q]
           /\ UNCHANGED <<view, localStream, room, leaves, early>> /\ view[p] = "open"
<1>1. down \in [Page -> Seq(ToPage)] /\ down[p] \in Seq(ToPage)
  BY DEF TypeOK
<1>2. down[p] # <<>> /\ Head(down[p]).kind \in kinds /\ down' = [down EXCEPT ![p] = Tail(@)]
  BY DEF Hears
<1>3. Head(down[p]) \in ToPage /\ Tail(down[p]) \in Seq(ToPage)
  BY <1>1, <1>2, HeadTailProperties
<1>4. UNCHANGED <<view, localStream, room, leaves, early>> /\ view[p] = "open"
  BY DEF Hears
<1> QED  BY <1>1, <1>2, <1>3, <1>4

\* maybeStart builds a connection with the configuration it is given, or does nothing.
LEMMA Starting ==
    ASSUME TypeOK, NEW p \in Page, NEW relay \in BOOLEAN, MaybeStart(p, relay),
           localStream' \in [Page -> BOOLEAN]
    PROVE  /\ pc' \in [Page -> Pc] /\ isStarted' \in [Page -> BOOLEAN]
           /\ making' \in [Page -> SUBSET Asked]
           /\ \A q \in Page \ {p} : pc'[q] = pc[q]
           /\ pc'[p] = pc[p] \/ (isChannelReady[p] /\ pc'[p].relay = relay)
<1>1. pc \in [Page -> Pc] /\ isStarted \in [Page -> BOOLEAN] /\ making \in [Page -> SUBSET Asked]
  BY DEF TypeOK
<1>2. CASE WouldStart(p)
  <2>1. New(p, relay) \in Pc /\ New(p, relay).relay = relay
    BY NewValue
  <2>2. pc' = [pc EXCEPT ![p] = New(p, relay)] /\ isStarted' = [isStarted EXCEPT ![p] = localStream'[p]]
    BY <1>2 DEF MaybeStart
  <2>0. [kind |-> "offer", n |-> New(p, relay).n] \in Asked
    BY <2>1 DEF Pc, Asked
  <2>3. PICK m : m = (IF localStream'[p] /\ isInitiator[p]
                      THEN making[p] \cup {[kind |-> "offer", n |-> New(p, relay).n]} ELSE making[p])
    OBVIOUS
  <2>8. making' = [making EXCEPT ![p] = m]
    BY <1>2, <2>3 DEF MaybeStart
  <2>4. m \in SUBSET Asked /\ making' = [making EXCEPT ![p] = m]
    BY <1>1, <2>0, <2>3, <2>8
  <2>5. pc' \in [Page -> Pc] /\ pc'[p] = New(p, relay) /\ \A q \in Page \ {p} : pc'[q] = pc[q]
    BY <1>1, <2>1, <2>2
  <2>6. isStarted' \in [Page -> BOOLEAN] /\ making' \in [Page -> SUBSET Asked]
    BY <1>1, <2>2, <2>4
  <2>7. isChannelReady[p]
    BY <1>2 DEF WouldStart
  <2> QED  BY <2>1, <2>5, <2>6, <2>7
<1>3. CASE ~WouldStart(p)
  BY <1>1, <1>3 DEF MaybeStart
<1> QED  BY <1>2, <1>3

\* What an offer makes of a connection.
LEMMA OfferedValue ==
    ASSUME NEW c \in Pc, NEW from \in Id
    PROVE  Offered(c, from) \in Pc /\ Offered(c, from).there = c.there /\ Offered(c, from).relay = c.relay
<1>1. CASE c.state = "have-local"
  BY <1>1 DEF Offered
<1>2. CASE c.state # "have-local"
  <2>1. PICK d : d = [c EXCEPT !.state = "have-remote", !.peer = from]
    OBVIOUS
  <2>2. d \in Pc /\ d.there = c.there /\ d.relay = c.relay
    BY <2>1 DEF Pc
  <2> QED  BY <1>2, <2>1, <2>2 DEF Offered
<1> QED  BY <1>1, <1>2

\* What HearOffer does: it starts no page that is the initiator.
LEMMA HearingOffer ==
    ASSUME TypeOK, NEW p \in Page, HearOffer(p)
    PROVE  /\ pc' \in [Page -> Pc] /\ isStarted' \in [Page -> BOOLEAN]
           /\ making' \in [Page -> SUBSET Asked]
           /\ \A q \in Page \ {p} : pc'[q] = pc[q]
           /\ \/ ~isInitiator[p] /\ isChannelReady[p]
              \/ pc'[p].there = pc[p].there /\ pc'[p].relay = pc[p].relay
           /\ smooth' \in BOOLEAN /\ (smooth' => smooth)
           /\ UNCHANGED <<isInitiator, isChannelReady, up>>
<1>1. /\ pc \in [Page -> Pc] /\ isStarted \in [Page -> BOOLEAN] /\ making \in [Page -> SUBSET Asked]
      /\ pc[p] \in Pc /\ making[p] \subseteq Asked /\ smooth \in BOOLEAN
  BY DEF TypeOK
<1> DEFINE starts == ~isInitiator[p] /\ WouldStart(p)
           c == IF starts THEN New(p, FALSE) ELSE pc[p]
           throws == IF starts THEN ~localStream[p] ELSE ~pc[p].there
           d == IF throws THEN c ELSE Offered(c, Head(down[p]).from)
           m == IF throws \/ c.state = "have-local" THEN making[p]
                ELSE making[p] \cup {[kind |-> "answer", n |-> c.n]}
<1>2. /\ pc' = [pc EXCEPT ![p] = d]
      /\ isStarted' = [isStarted EXCEPT ![p] = @ \/ (starts /\ ~throws)]
      /\ making' = [making EXCEPT ![p] = m]
      /\ smooth' = (smooth /\ ~throws)
      /\ UNCHANGED <<isInitiator, isChannelReady, up>>
  BY DEF HearOffer
<1>3. Hears(p, {"offer"})
  BY DEF HearOffer
<1>4. Head(down[p]).from \in Id
  BY <1>3, Hearing DEF ToPage, Message
<1>5. c \in Pc
  BY <1>1, NewValue
<1>6. d \in Pc /\ (~starts => d.there = pc[p].there /\ d.relay = pc[p].relay)
  <2> HIDE DEF starts, throws
  <2>1. ~starts => c = pc[p]
    OBVIOUS
  <2>2. d = c \/ d = Offered(c, Head(down[p]).from)
    OBVIOUS
  <2> HIDE DEF c, d
  <2>3. d \in Pc /\ d.there = c.there /\ d.relay = c.relay
    BY <1>4, <1>5, <2>2, OfferedValue
  <2> QED  BY <2>1, <2>3
<1>7. m \subseteq Asked
  <2> HIDE DEF starts, throws, c
  <2>1. [kind |-> "answer", n |-> c.n] \in Asked
    BY <1>5 DEF Pc, Asked
  <2> QED  BY <1>1, <2>1
<1>8. starts => ~isInitiator[p] /\ isChannelReady[p]
  BY DEF WouldStart
<1> HIDE DEF starts, c, throws, d, m
<1>9. pc' \in [Page -> Pc] /\ pc'[p] = d /\ \A q \in Page \ {p} : pc'[q] = pc[q]
  BY <1>1, <1>2, <1>6
<1>10. making' \in [Page -> SUBSET Asked]
  BY <1>1, <1>2, <1>7
<1>11. isStarted' \in [Page -> BOOLEAN]
  <2>1. PICK b : b = (isStarted[p] \/ (starts /\ ~throws))
    OBVIOUS
  <2>2. b \in BOOLEAN /\ isStarted' = [isStarted EXCEPT ![p] = b]
    BY <1>2, <2>1
  <2> QED  BY <1>1, <2>2
<1>12. smooth' \in BOOLEAN /\ (smooth' => smooth)
  BY <1>2
<1> QED  BY <1>2, <1>6, <1>8, <1>9, <1>10, <1>11, <1>12

\* The browser creates a description: it is sent, and the connection stays the same.
LEMMA Describing ==
    ASSUME TypeOK, NEW p \in Page, NEW a \in making[p], Described(p, a)
    PROVE  /\ view[p] = "open"
           /\ pc' \in [Page -> Pc] /\ making' \in [Page -> SUBSET Asked]
           /\ pc'[p].there = pc[p].there /\ pc'[p].relay = pc[p].relay
           /\ \A q \in Page \ {p} : pc'[q] = pc[q]
           /\ a.kind \in {"offer", "answer"}
           /\ \E m \in ToServer : m.kind = a.kind /\ up' = [up EXCEPT ![p] = Append(@, m)]
           /\ UNCHANGED <<view, isInitiator, isStarted, isChannelReady, localStream, down, room, leaves, smooth, early>>
<1>1. /\ pc \in [Page -> Pc] /\ pc[p] \in Pc /\ making \in [Page -> SUBSET Asked] /\ a \in Asked
  BY DEF TypeOK
<1>2. PICK st : st = CASE a = [kind |-> "offer", n |-> pc[p].n] /\ pc[p].state = "stable" -> "have-local"
                       [] a = [kind |-> "answer", n |-> pc[p].n] /\ pc[p].state = "have-remote" -> "stable"
                       [] OTHER -> pc[p].state
  OBVIOUS
<1>3. st \in {"stable", "have-local", "have-remote"}
  BY <1>1, <1>2 DEF Pc
<1>4. PICK d : d = [pc[p] EXCEPT !.state = st]
  OBVIOUS
<1>5. d \in Pc /\ d.there = pc[p].there /\ d.relay = pc[p].relay
  BY <1>1, <1>3, <1>4 DEF Pc
<1>6. pc' = [pc EXCEPT ![p] = d]
  BY <1>2, <1>4 DEF Described
<1>7. pc' \in [Page -> Pc] /\ pc'[p] = d /\ \A q \in Page \ {p} : pc'[q] = pc[q]
  BY <1>1, <1>5, <1>6
<1>8. making' \in [Page -> SUBSET Asked]
  BY <1>1 DEF Described
<1>9. a.kind \in {"offer", "answer"} /\ <<p, a.n>> \in Id
  BY <1>1 DEF Asked, Id
<1>10. Emit(a.kind, <<p, a.n>>) \in ToServer /\ Emit(a.kind, <<p, a.n>>).kind = a.kind
  BY <1>9 DEF Emit, ToServer, Message, Relayed
<1>11. /\ up' = [up EXCEPT ![p] = Append(@, Emit(a.kind, <<p, a.n>>))] /\ view[p] = "open"
       /\ UNCHANGED <<view, isInitiator, isStarted, isChannelReady, localStream, down, room, leaves, smooth, early>>
  BY DEF Described, flags, history
<1> QED  BY <1>5, <1>7, <1>8, <1>9, <1>10, <1>11

\* A page is closed: nothing is left of it but what it has sent.
LEMMA Closing ==
    ASSUME TypeOK, NEW p \in Page, NEW sent \in Seq(ToServer), Close(p, sent)
    PROVE  /\ view[p] = "open" /\ view' \in [Page -> Views] /\ view'[p] = "closed"
           /\ up' \in [Page -> Seq(ToServer)] /\ up'[p] = sent
           /\ down' \in [Page -> Seq(ToPage)] /\ down'[p] = <<>>
           /\ isInitiator' \in [Page -> BOOLEAN] /\ ~isInitiator'[p]
           /\ isChannelReady' \in [Page -> BOOLEAN] /\ ~isChannelReady'[p]
           /\ isStarted' \in [Page -> BOOLEAN] /\ localStream' \in [Page -> BOOLEAN]
           /\ pc' \in [Page -> Pc] /\ ~pc'[p].there
           /\ making' \in [Page -> SUBSET Asked]
           /\ leaves' \in 0..MaxLeaves /\ early' = early \ {p} /\ room' = room
           /\ \A q \in Page \ {p} :
                 /\ view'[q] = view[q] /\ up'[q] = up[q] /\ down'[q] = down[q] /\ pc'[q] = pc[q]
                 /\ isInitiator'[q] = isInitiator[q] /\ isChannelReady'[q] = isChannelReady[q]
                 /\ localStream'[q] = localStream[q]
<1>1. /\ view \in [Page -> Views] /\ up \in [Page -> Seq(ToServer)] /\ down \in [Page -> Seq(ToPage)]
      /\ isInitiator \in [Page -> BOOLEAN] /\ isStarted \in [Page -> BOOLEAN]
      /\ isChannelReady \in [Page -> BOOLEAN] /\ localStream \in [Page -> BOOLEAN]
      /\ pc \in [Page -> Pc] /\ making \in [Page -> SUBSET Asked] /\ leaves \in 0..MaxLeaves
  BY DEF TypeOK
<1>2. /\ view[p] = "open" /\ leaves < MaxLeaves
      /\ view' = [view EXCEPT ![p] = "closed"]
      /\ up' = [up EXCEPT ![p] = sent] /\ down' = [down EXCEPT ![p] = <<>>]
      /\ isInitiator' = [isInitiator EXCEPT ![p] = FALSE]
      /\ isStarted' = [isStarted EXCEPT ![p] = FALSE]
      /\ isChannelReady' = [isChannelReady EXCEPT ![p] = FALSE]
      /\ localStream' = [localStream EXCEPT ![p] = FALSE]
      /\ pc' = [pc EXCEPT ![p] = Null(p, pc[p].n)]
      /\ making' = [making EXCEPT ![p] = {}]
      /\ leaves' = leaves + 1 /\ early' = early \ {p} /\ room' = room
  BY DEF Close
<1>3. Null(p, pc[p].n) \in Pc /\ ~Null(p, pc[p].n).there
  <2>1. pc[p].n \in Nat
    BY Values
  <2> QED  BY <2>1, Values
<1>4. <<>> \in Seq(ToPage) /\ leaves' \in 0..MaxLeaves
  BY <1>1, <1>2, EmptySeq, BoundAssumption
<1>5. /\ view' \in [Page -> Views] /\ view'[p] = "closed" /\ \A q \in Page \ {p} : view'[q] = view[q]
  BY <1>1, <1>2 DEF Views
<1>6. /\ up' \in [Page -> Seq(ToServer)] /\ up'[p] = sent /\ down' \in [Page -> Seq(ToPage)] /\ down'[p] = <<>>
      /\ \A q \in Page \ {p} : up'[q] = up[q] /\ down'[q] = down[q]
  BY <1>1, <1>2, <1>4
<1>7. /\ isInitiator' \in [Page -> BOOLEAN] /\ ~isInitiator'[p]
      /\ isChannelReady' \in [Page -> BOOLEAN] /\ ~isChannelReady'[p]
      /\ isStarted' \in [Page -> BOOLEAN] /\ localStream' \in [Page -> BOOLEAN]
      /\ \A q \in Page \ {p} : /\ isInitiator'[q] = isInitiator[q] /\ isChannelReady'[q] = isChannelReady[q]
                               /\ localStream'[q] = localStream[q]
  BY <1>1, <1>2
<1>8. /\ pc' \in [Page -> Pc] /\ ~pc'[p].there /\ making' \in [Page -> SUBSET Asked]
      /\ \A q \in Page \ {p} : pc'[q] = pc[q]
  BY <1>1, <1>2, <1>3
<1> QED  BY <1>2, <1>4, <1>5, <1>6, <1>7, <1>8

\* window.onbeforeunload sends 'leave', then 'bye'.
LEMMA Farewell ==
    ASSUME NEW p \in Page, NEW q \in Seq(ToServer)
    PROVE  LET sent == q \o <<Emit("leave", NoId(p)), Emit("bye", NoId(p))>>
           IN  /\ sent \in Seq(ToServer)
               /\ \A k \in Kinds : Has(sent, k) <=> Has(q, k) \/ k \in {"leave", "bye"}
               /\ First(q, "create or join") => First(sent, "create or join")
               /\ LeavesFirst(q) => LeavesFirst(sent)
<1>1. PICK l, b : l = Emit("leave", NoId(p)) /\ b = Emit("bye", NoId(p))
  OBVIOUS
<1>2. l \in ToServer /\ b \in ToServer /\ l.kind = "leave" /\ b.kind = "bye"
  BY <1>1 DEF Emit, ToServer, Message, Relayed, NoId, Id
<1>3. PICK r, s : r = Append(q, l) /\ s = Append(r, b)
  OBVIOUS
<1>4. r \in Seq(ToServer) /\ s \in Seq(ToServer)
  BY <1>2, <1>3, AppendProperties
<1>5. q \o <<l, b>> = s
  BY <1>2, <1>3
<1>6. /\ \A k \in Kinds : Has(r, k) <=> Has(q, k) \/ k = "leave"
      /\ First(q, "create or join") => First(r, "create or join")
      /\ LeavesFirst(q) => LeavesFirst(r)
  BY <1>2, <1>3, AppendHas DEF Kinds
<1>7. /\ \A k \in Kinds : Has(s, k) <=> Has(r, k) \/ k = "bye"
      /\ First(r, "create or join") => First(s, "create or join")
      /\ LeavesFirst(r) /\ Has(r, "leave") => LeavesFirst(s)
  <2>1. /\ \A k \in Kinds : Has(s, k) <=> Has(r, k) \/ b.kind = k
        /\ \A k \in Kinds : First(r, k) /\ b.kind # k => First(s, k)
        /\ LeavesFirst(r) /\ (b.kind # "bye" \/ Has(r, "leave")) => LeavesFirst(s)
    BY <1>2, <1>3, <1>4, AppendHas
  <2>2. "create or join" \in Kinds
    BY DEF Kinds
  <2> QED  BY <1>2, <2>1, <2>2
<1>8. Has(r, "leave")
  BY <1>6 DEF Kinds
<1> QED  BY <1>1, <1>4, <1>5, <1>6, <1>7, <1>8

\* What 'create or join' does to the room and to what the pages hear.
LEMMA Admitting ==
    ASSUME TypeOK, NEW p \in Page, CreateOrJoin(p)
    PROVE  /\ Handle(p, {"create or join"}) /\ smooth' = smooth
           /\ room' \subseteq Page /\ Cardinality(room') <= 2 /\ down' \in [Page -> Seq(ToPage)]
           /\ \/ /\ room = {} /\ room' = {p}
                 /\ \E m \in ToPage : /\ m.kind = "created"
                                      /\ down'[p] = IF view[p] = "open" THEN Append(down[p], m) ELSE down[p]
                 /\ \A q \in Page \ {p} : down'[q] = down[q]
              \/ /\ room' \in {room, room \cup {p}} /\ room # {}
                 /\ \A q \in Page : \/ down'[q] = down[q]
                                    \/ /\ view[q] = "open" /\ (q \in room \/ q = p)
                                       /\ \E m \in ToPage : m.kind \in {"join", "joined", "full"} /\ down'[q] = Append(down[q], m)
<1>1. Handle(p, {"create or join"}) /\ smooth' = smooth
  BY DEF CreateOrJoin, Admit
<1>2. room \subseteq Page /\ Cardinality(room) <= 2 /\ IsFiniteSet(room) /\ Cardinality(room) \in Nat
  BY PagesFinite DEF TypeOK
<1>3. PICK c, jn, jd, fl : /\ c = Emit("created", NoId(p)) /\ jn = Emit("join", NoId(p))
                           /\ jd = Emit("joined", NoId(p)) /\ fl = Emit("full", NoId(p))
  OBVIOUS
<1>4. /\ c \in ToPage /\ jn \in ToPage /\ jd \in ToPage /\ fl \in ToPage
      /\ c.kind = "created" /\ jn.kind = "join" /\ jd.kind = "joined" /\ fl.kind = "full"
  BY <1>3 DEF Emit, ToPage, Message, NoId, Id
<1>5. CASE room = {} /\ room' = {p} /\ down' = EmitTo({p}, c)
  <2>1. /\ down' \in [Page -> Seq(ToPage)] /\ down'[p] = (IF view[p] = "open" THEN Append(down[p], c) ELSE down[p])
        /\ \A q \in Page \ {p} : down'[q] = down[q]
    BY <1>4, <1>5, Emitting
  <2>2. room' \subseteq Page /\ Cardinality(room') <= 2
    BY <1>5, FS_Singleton
  <2> QED  BY <1>1, <1>4, <1>5, <2>1, <2>2
<1>6. CASE /\ room # {} /\ Cardinality(room) < 2 /\ room' = room \cup {p}
           /\ down' = [EmitTo(room, jn) EXCEPT ![p] = EmitTo({p}, jd)[p]]
  <2>1. Cardinality(room') <= 2 /\ room' \subseteq Page
    <3>1. Cardinality(room \cup {p}) = IF p \in room THEN Cardinality(room) ELSE Cardinality(room) + 1
      BY <1>2, FS_AddElement
    <3>2. Cardinality(room \cup {p}) <= 2
      BY <1>2, <1>6, <3>1
    <3> QED  BY <1>2, <1>6, <3>2
  <2>2. /\ EmitTo(room, jn) \in [Page -> Seq(ToPage)] /\ EmitTo({p}, jd) \in [Page -> Seq(ToPage)]
        /\ \A q \in Page : EmitTo(room, jn)[q] = IF q \in room /\ view[q] = "open" THEN Append(down[q], jn) ELSE down[q]
        /\ EmitTo({p}, jd)[p] = IF view[p] = "open" THEN Append(down[p], jd) ELSE down[p]
    BY <1>4, Emitting
  <2>3. down' \in [Page -> Seq(ToPage)] /\ down'[p] = EmitTo({p}, jd)[p] /\ \A q \in Page \ {p} : down'[q] = EmitTo(room, jn)[q]
    BY <1>6, <2>2
  <2>4. ASSUME NEW q \in Page
        PROVE  \/ down'[q] = down[q]
               \/ /\ view[q] = "open" /\ (q \in room \/ q = p)
                  /\ \E m \in ToPage : m.kind \in {"join", "joined", "full"} /\ down'[q] = Append(down[q], m)
    <3>1. CASE q = p
      BY <1>4, <2>2, <2>3, <3>1
    <3>2. CASE q # p
      BY <1>4, <2>2, <2>3, <3>2
    <3> QED  BY <3>1, <3>2
  <2> QED  BY <1>1, <1>6, <2>1, <2>3, <2>4
<1>7. CASE down' = EmitTo({p}, fl) /\ room' = room /\ Cardinality(room) >= 2
  <2>1. /\ down' \in [Page -> Seq(ToPage)] /\ down'[p] = (IF view[p] = "open" THEN Append(down[p], fl) ELSE down[p])
        /\ \A q \in Page \ {p} : down'[q] = down[q]
    BY <1>4, <1>7, Emitting
  <2>2. ASSUME NEW q \in Page
        PROVE  \/ down'[q] = down[q]
               \/ /\ view[q] = "open" /\ (q \in room \/ q = p)
                  /\ \E m \in ToPage : m.kind \in {"join", "joined", "full"} /\ down'[q] = Append(down[q], m)
    BY <1>4, <2>1
  <2>3. room # {}
    BY <1>7, FS_EmptySet
  <2> QED  BY <1>1, <1>2, <1>7, <2>1, <2>2, <2>3
<1>8. \/ room = {} /\ room' = {p} /\ down' = EmitTo({p}, c)
      \/ /\ room # {} /\ Cardinality(room) < 2 /\ room' = room \cup {p}
         /\ down' = [EmitTo(room, jn) EXCEPT ![p] = EmitTo({p}, jd)[p]]
      \/ down' = EmitTo({p}, fl) /\ room' = room /\ Cardinality(room) >= 2
  BY <1>3 DEF CreateOrJoin, Admit
<1> QED  BY <1>5, <1>6, <1>7, <1>8

\* What Relay does to what the pages hear.
LEMMA Relaying ==
    ASSUME TypeOK, NEW p \in Page, Relay(p)
    PROVE  /\ Handle(p, Relayed) /\ room' = room /\ smooth' \in BOOLEAN
           /\ smooth' => smooth /\ (Head(up[p]).kind = "bye" => Cardinality(room \ {p}) <= 1)
           /\ Head(up[p]) \in ToPage /\ Head(up[p]).kind \in Relayed
           /\ down' \in [Page -> Seq(ToPage)]
           /\ \A q \in Page : down'[q] = IF q \in room \ {p} /\ view[q] = "open"
                                         THEN Append(down[q], Head(up[p])) ELSE down[q]
<1>1. /\ Handle(p, Relayed) /\ room' = room /\ down' = EmitTo(room \ {p}, Head(up[p]))
      /\ smooth' = (smooth /\ (Head(up[p]).kind = "bye" => Cardinality(room \ {p}) <= 1))
  BY DEF Relay
<1>2. Head(up[p]) \in ToServer /\ Head(up[p]).kind \in Relayed
  BY <1>1, Handling
<1>3. Head(up[p]) \in ToPage
  BY <1>2 DEF ToServer, ToPage, Message
<1>4. /\ down' \in [Page -> Seq(ToPage)]
      /\ \A q \in Page : down'[q] = IF q \in room \ {p} /\ view[q] = "open"
                                    THEN Append(down[q], Head(up[p])) ELSE down[q]
  BY <1>1, <1>3, Emitting
<1> QED  BY <1>1, <1>2, <1>3, <1>4

\* An answer completes an offer; the connection stays the same.
LEMMA AnswerValue ==
    ASSUME TypeOK, NEW p \in Page, HearAnswer(p)
    PROVE  /\ pc' \in [Page -> Pc] /\ pc'[p].there = pc[p].there /\ pc'[p].relay = pc[p].relay
           /\ \A q \in Page \ {p} : pc'[q] = pc[q]
<1>1. pc \in [Page -> Pc] /\ pc[p] \in Pc
  BY DEF TypeOK
<1>2. Hears(p, {"answer"})
  BY DEF HearAnswer
<1>3. Head(down[p]).from \in Id
  BY <1>2, Hearing DEF ToPage, Message
<1>4. CASE isStarted[p] /\ pc[p].state = "have-local"
  <2>1. PICK d : d = [pc[p] EXCEPT !.state = "stable", !.peer = Head(down[p]).from]
    OBVIOUS
  <2>2. d \in Pc /\ d.there = pc[p].there /\ d.relay = pc[p].relay
    BY <1>1, <1>3, <2>1 DEF Pc
  <2>3. pc' = [pc EXCEPT ![p] = d]
    BY <1>1, <1>4, <2>1 DEF HearAnswer
  <2> QED  BY <1>1, <2>2, <2>3
<1>5. CASE ~(isStarted[p] /\ pc[p].state = "have-local")
  BY <1>1, <1>5 DEF HearAnswer
<1> QED  BY <1>4, <1>5

\* Every step keeps the types, and the room small enough.
LEMMA TypeStep ==
    ASSUME TypeOK, [Next]_vars
    PROVE  TypeOK'
<1>1. ASSUME NEW p \in Page, StartupBehavior(p) PROVE TypeOK'
  <2>1. Emit("create or join", NoId(p)) \in ToServer
    BY DEF Emit, ToServer, Message, NoId, Id
  <2>2. up' \in [Page -> Seq(ToServer)] /\ view' \in [Page -> Views]
    BY <1>1, <2>1, AppendProperties DEF StartupBehavior, TypeOK, Views
  <2> QED  BY <1>1, <2>2 DEF TypeOK, StartupBehavior, flags, history
<1>2. ASSUME NEW p \in Page, HandleUserMedia(p) PROVE TypeOK'
  <2>1. Emit("got user media", NoId(p)) \in ToServer
    BY DEF Emit, ToServer, Message, NoId, Id, Relayed
  <2>2. up' \in [Page -> Seq(ToServer)]
    BY <1>2, <2>1, AppendProperties DEF HandleUserMedia, TypeOK
  <2>3. localStream' \in [Page -> BOOLEAN] /\ early' \subseteq Page
    BY <1>2 DEF HandleUserMedia, TypeOK
  <2>4. pc' \in [Page -> Pc] /\ isStarted' \in [Page -> BOOLEAN] /\ making' \in [Page -> SUBSET Asked]
    <3>1. CASE MaybeStart(p, FALSE)
      BY <2>3, <3>1, Starting
    <3>2. CASE UNCHANGED <<pc, isStarted, making>>
      BY <3>2 DEF TypeOK
    <3> QED  BY <1>2, <3>1, <3>2 DEF HandleUserMedia
  <2> QED  BY <1>2, <2>2, <2>3, <2>4 DEF TypeOK, HandleUserMedia
<1>3. ASSUME NEW p \in Page, CreateOrJoin(p) PROVE TypeOK'
  <2>1. /\ Handle(p, {"create or join"}) /\ smooth' = smooth
        /\ room' \subseteq Page /\ Cardinality(room') <= 2 /\ down' \in [Page -> Seq(ToPage)]
    BY <1>3, Admitting
  <2>2. /\ up' \in [Page -> Seq(ToServer)]
        /\ UNCHANGED <<view, isInitiator, isStarted, isChannelReady, localStream, pc, making, leaves, early>>
    BY <2>1, Handling
  <2> QED  BY <2>1, <2>2 DEF TypeOK
<1>4. ASSUME NEW p \in Page, Relay(p) PROVE TypeOK'
  <2>1. Handle(p, Relayed) /\ room' = room /\ smooth' \in BOOLEAN /\ down' \in [Page -> Seq(ToPage)]
    BY <1>4, Relaying
  <2>2. /\ up' \in [Page -> Seq(ToServer)]
        /\ UNCHANGED <<view, isInitiator, isStarted, isChannelReady, localStream, pc, making, leaves, early>>
    BY <2>1, Handling
  <2> QED  BY <2>1, <2>2 DEF TypeOK
<1>5. ASSUME room \subseteq Page, Cardinality(room) <= 2, NEW p PROVE room \ {p} \subseteq Page /\ Cardinality(room \ {p}) <= 2
  <2>1. IsFiniteSet(room) /\ Cardinality(room) \in Nat /\ Cardinality(room \ {p}) \in Nat
    BY <1>5, PagesFinite
  <2>2. Cardinality(room \ {p}) <= Cardinality(room)
    BY <2>1, FS_Subset
  <2> QED  BY <1>5, <2>1, <2>2
<1>6. ASSUME NEW p \in Page, LeaveRoom(p) PROVE TypeOK'
  <2>1. Handle(p, {"leave"}) /\ room' = room \ {p} /\ UNCHANGED <<down, smooth>>
    BY <1>6 DEF LeaveRoom
  <2>2. /\ up' \in [Page -> Seq(ToServer)]
        /\ UNCHANGED <<view, isInitiator, isStarted, isChannelReady, localStream, pc, making, leaves, early>>
    BY <2>1, Handling
  <2>3. room' \subseteq Page /\ Cardinality(room') <= 2
    BY <1>5, <2>1 DEF TypeOK
  <2> QED  BY <2>1, <2>2, <2>3 DEF TypeOK
<1>7. ASSUME NEW p \in Page, Disconnect(p) PROVE TypeOK'
  <2>1. room' \subseteq Page /\ Cardinality(room') <= 2
    BY <1>5, <1>7 DEF TypeOK, Disconnect
  <2> QED  BY <1>7, <2>1 DEF TypeOK, Disconnect, flags, history
<1>8. ASSUME NEW p \in Page, NEW kinds, Hears(p, kinds),
             isInitiator' \in [Page -> BOOLEAN], isChannelReady' \in [Page -> BOOLEAN], up' = up,
             isStarted' \in [Page -> BOOLEAN], pc' \in [Page -> Pc],
             making' \in [Page -> SUBSET Asked], smooth' \in BOOLEAN
      PROVE  TypeOK'
  <2>1. down' \in [Page -> Seq(ToPage)] /\ UNCHANGED <<view, localStream, room, leaves, early>>
    BY <1>8, Hearing
  <2> QED  BY <1>8, <2>1 DEF TypeOK
<1>9. ASSUME NEW p \in Page, Created(p) PROVE TypeOK'
  <2>1. Hears(p, {"created"}) /\ isInitiator' \in [Page -> BOOLEAN]
    BY <1>9 DEF Created, TypeOK
  <2> QED  BY <1>8, <1>9, <2>1 DEF Created, TypeOK
<1>10. ASSUME NEW p \in Page, ChannelReady(p) PROVE TypeOK'
  <2>1. Hears(p, {"join", "joined"}) /\ isChannelReady' \in [Page -> BOOLEAN]
    BY <1>10 DEF ChannelReady, TypeOK
  <2> QED  BY <1>8, <1>10, <2>1 DEF ChannelReady, TypeOK
<1>11. ASSUME NEW p \in Page, Full(p) PROVE TypeOK'
  BY <1>8, <1>11 DEF Full, TypeOK, flags
<1>12. ASSUME NEW p \in Page, HearMedia(p) PROVE TypeOK'
  <2>1. /\ Hears(p, {"got user media"}) /\ MaybeStart(p, Configured(p))
        /\ UNCHANGED <<isInitiator, isChannelReady, up, smooth>>
    BY <1>12 DEF HearMedia, MediaThere
  <2>4. Configured(p) \in BOOLEAN
    BY DEF Configured
  <2>2. localStream' \in [Page -> BOOLEAN]
    BY <2>1, Hearing DEF TypeOK
  <2>3. pc' \in [Page -> Pc] /\ isStarted' \in [Page -> BOOLEAN] /\ making' \in [Page -> SUBSET Asked]
    BY <2>1, <2>2, <2>4, Starting
  <2> QED  BY <1>8, <2>1, <2>3 DEF TypeOK
<1>13. ASSUME NEW p \in Page, HearOffer(p) PROVE TypeOK'
  <2>1. Hears(p, {"offer"})
    BY <1>13 DEF HearOffer
  <2>2. /\ pc' \in [Page -> Pc] /\ isStarted' \in [Page -> BOOLEAN] /\ smooth' \in BOOLEAN
        /\ making' \in [Page -> SUBSET Asked] /\ UNCHANGED <<isInitiator, isChannelReady, up>>
    BY <1>13, HearingOffer
  <2> QED  BY <1>8, <2>1, <2>2 DEF TypeOK
<1>14. ASSUME NEW p \in Page, HearAnswer(p) PROVE TypeOK'
  <2>1. Hears(p, {"answer"}) /\ UNCHANGED <<isInitiator, isStarted, isChannelReady, making, up, smooth>>
    BY <1>14 DEF HearAnswer, flags
  <2>2. pc' \in [Page -> Pc]
    BY <1>14, AnswerValue
  <2> QED  BY <1>8, <2>1, <2>2 DEF TypeOK
<1>15. ASSUME NEW p \in Page, HearBye(p) PROVE TypeOK'
  <2>1. Hears(p, {"bye"}) /\ UNCHANGED <<isChannelReady, up>>
    BY <1>15 DEF HearBye, Hangup
  <2>2. Null(p, pc[p].n) \in Pc
    <3>1. pc[p].n \in Nat
      BY Values
    <3> QED  BY <3>1, Values
  <2>3. /\ pc' \in [Page -> Pc] /\ isStarted' \in [Page -> BOOLEAN] /\ isInitiator' \in [Page -> BOOLEAN]
        /\ making' \in [Page -> SUBSET Asked] /\ smooth' \in BOOLEAN
    <3>1. CASE isStarted[p]
      <4>1. /\ isStarted' = [isStarted EXCEPT ![p] = FALSE] /\ pc' = [pc EXCEPT ![p] = Null(p, pc[p].n)]
            /\ making' = [making EXCEPT ![p] = {}] /\ isInitiator' = [isInitiator EXCEPT ![p] = TRUE]
            /\ smooth' = smooth
        <5>1. isInitiator' = [isInitiator EXCEPT ![p] = isInitiator[p] \/ TRUE]
          BY <1>15, <3>1 DEF HearBye, Hangup
        <5> QED  BY <1>15, <3>1, <5>1 DEF HearBye, Hangup
      <4>2. pc \in [Page -> Pc] /\ making \in [Page -> SUBSET Asked]
        BY DEF TypeOK
      <4>3. pc' \in [Page -> Pc] /\ making' \in [Page -> SUBSET Asked]
        BY <2>2, <4>1, <4>2
      <4> QED  BY <4>1, <4>3 DEF TypeOK
    <3>2. CASE ~isStarted[p]
      BY <1>15, <3>2 DEF HearBye, Hangup, TypeOK
    <3> QED  BY <3>1, <3>2
  <2> QED  BY <1>8, <2>1, <2>3 DEF TypeOK
<1>16. ASSUME NEW p \in Page, NEW a \in making[p], Described(p, a) PROVE TypeOK'
  <2>1. /\ pc' \in [Page -> Pc] /\ making' \in [Page -> SUBSET Asked]
        /\ \E m \in ToServer : up' = [up EXCEPT ![p] = Append(@, m)]
        /\ UNCHANGED <<view, isInitiator, isStarted, isChannelReady, localStream, down, room, leaves, smooth, early>>
    BY <1>16, Describing
  <2>2. up' \in [Page -> Seq(ToServer)]
    BY <2>1, AppendProperties DEF TypeOK
  <2> QED  BY <2>1, <2>2 DEF TypeOK
<1>17. ASSUME NEW p \in Page, NEW sent \in Seq(ToServer), Close(p, sent), smooth' \in BOOLEAN PROVE TypeOK'
  <2>1. /\ view' \in [Page -> Views] /\ up' \in [Page -> Seq(ToServer)] /\ down' \in [Page -> Seq(ToPage)]
        /\ isInitiator' \in [Page -> BOOLEAN] /\ isChannelReady' \in [Page -> BOOLEAN]
        /\ isStarted' \in [Page -> BOOLEAN] /\ localStream' \in [Page -> BOOLEAN]
        /\ pc' \in [Page -> Pc] /\ making' \in [Page -> SUBSET Asked]
        /\ leaves' \in 0..MaxLeaves /\ early' = early \ {p} /\ room' = room
    BY <1>17, Closing
  <2> QED  BY <1>17, <2>1 DEF TypeOK
<1>18. ASSUME NEW p \in Page, Unload(p) PROVE TypeOK'
  <2>1. Close(p, up[p] \o <<Emit("leave", NoId(p)), Emit("bye", NoId(p))>>) /\ smooth' \in BOOLEAN
    BY <1>18 DEF Unload, TypeOK
  <2>2. up[p] \o <<Emit("leave", NoId(p)), Emit("bye", NoId(p))>> \in Seq(ToServer)
    BY Farewell DEF TypeOK
  <2> QED  BY <1>17, <2>1, <2>2
<1>19. ASSUME NEW p \in Page, NEW n \in 0..Len(up[p]), Die(p, n) PROVE TypeOK'
  <2>1. Close(p, SubSeq(up[p], 1, n)) /\ smooth' \in BOOLEAN
    BY <1>19 DEF Die
  <2>2. SubSeq(up[p], 1, n) \in Seq(ToServer)
    BY PrefixHas DEF TypeOK
  <2> QED  BY <1>17, <2>1, <2>2
<1>20. CASE UNCHANGED vars
  BY <1>20 DEF TypeOK, vars, flags, history
<1> QED  BY <1>1, <1>2, <1>3, <1>4, <1>6, <1>7, <1>9, <1>10, <1>11, <1>12, <1>13, <1>14, <1>15, <1>16, <1>18, <1>19, <1>20
         DEF Next, Serve, Hear, Describe
-----------------------------------------------------------------------------
(***************************************************************************)
(* The pages.                                                              *)
(***************************************************************************)
\* A page that a step does not touch.
LEMMA SamePage ==
    ASSUME NEW q \in Page, PageInv(q), view'[q] = view[q], up'[q] = up[q], down'[q] = down[q],
           isInitiator'[q] = isInitiator[q], isChannelReady'[q] = isChannelReady[q],
           localStream'[q] = localStream[q], pc'[q] = pc[q],
           q \in room' <=> q \in room, q \in early' <=> q \in early, smooth' => smooth
    PROVE  PageInv(q)'
<1>1. Asks(q)' /\ Listens(q)' /\ Creates(q)'
  BY DEF PageInv, Asks, Listens, Creates
<1>2. Relays(q)'
  BY DEF PageInv, Relays, Configured
<1>3. Parts(q)'
  BY DEF PageInv, Parts
<1> QED  BY <1>1, <1>2, <1>3 DEF PageInv

\* A page that handles a message.
LEMMA HearPage ==
    ASSUME TypeOK, NEW p \in Page, NEW kinds, PageInv(p), Hears(p, kinds), up' = up,
           isChannelReady[p] => isChannelReady'[p],
           pc'[p].there => pc[p].there \/ isChannelReady[p],
           Relays(p)', smooth' => smooth
    PROVE  PageInv(p)'
<1>1. /\ down[p] \in Seq(ToPage) /\ down[p] # <<>> /\ down'[p] = Tail(down[p])
      /\ UNCHANGED <<view, localStream, room, leaves, early>> /\ view[p] = "open"
  BY Hearing
<1>2. First(down[p], "created") /\ "created" \in Kinds
  BY DEF PageInv, Creates, Kinds
<1>3. ~Has(down'[p], "created") /\ First(down'[p], "created")
  BY <1>1, <1>2, TailHas
<1>4. ~Has(up[p], "create or join")
  BY <1>1 DEF PageInv, Asks
<1>5. Asks(p)' /\ Listens(p)'
  BY <1>1, <1>4 DEF PageInv, Asks, Listens
<1>6. Creates(p)'
  BY <1>3 DEF PageInv, Creates
<1>7. Parts(p)'
  BY <1>1 DEF PageInv, Parts
<1> QED  BY <1>5, <1>6, <1>7 DEF PageInv

\* A page that sends a message to the others.
LEMMA SendPage ==
    ASSUME TypeOK, NEW p \in Page, NEW m \in ToServer, PageInv(p),
           m.kind \notin {"create or join", "leave", "bye"}, view[p] = "open",
           up'[p] = Append(up[p], m),
           UNCHANGED <<view, isInitiator, isChannelReady, down, room, smooth>>,
           pc'[p].there => pc[p].there \/ isChannelReady[p], Relays(p)'
    PROVE  PageInv(p)' /\ (Has(up'[p], "bye") <=> Has(up[p], "bye"))
<1>1. up[p] \in Seq(ToServer) /\ {"create or join", "leave", "bye"} \subseteq Kinds
  BY DEF TypeOK, Kinds
<1>2. /\ \A k \in Kinds : Has(up'[p], k) <=> Has(up[p], k) \/ m.kind = k
      /\ \A k \in Kinds : First(up[p], k) /\ m.kind # k => First(up'[p], k)
      /\ LeavesFirst(up[p]) => LeavesFirst(up'[p])
  <2>1. PICK q, r : q = up[p] /\ r = up'[p]
    OBVIOUS
  <2>2. q \in Seq(ToServer) /\ r = Append(q, m)
    BY <1>1, <2>1
  <2>3. /\ \A k \in Kinds : Has(r, k) <=> Has(q, k) \/ m.kind = k
        /\ \A k \in Kinds : First(q, k) /\ m.kind # k => First(r, k)
        /\ LeavesFirst(q) /\ (m.kind # "bye" \/ Has(q, "leave")) => LeavesFirst(r)
    BY <2>2, AppendHas
  <2> QED  BY <2>1, <2>3
<1>3. /\ \A k \in {"create or join", "leave", "bye"} : Has(up'[p], k) <=> Has(up[p], k)
      /\ First(up[p], "create or join") => First(up'[p], "create or join")
  BY <1>1, <1>2
<1>4. Asks(p)' /\ Listens(p)' /\ Creates(p)'
  BY <1>3 DEF PageInv, Asks, Listens, Creates
<1>5. Parts(p)'
  BY <1>2, <1>3 DEF PageInv, Parts
<1> QED  BY <1>3, <1>4, <1>5 DEF PageInv

\* When no one's claim changes.
LEMMA SameClaims ==
    ASSUME OneClaim, SomeClaim, room' = room, smooth' => smooth,
           smooth' => \A q \in room : Claims(q)' <=> Claims(q),
           \A q \in Page : Has(up[q], "bye") => Has(up'[q], "bye")
    PROVE  OneClaim' /\ SomeClaim'
<1>1. OneClaim'
  <2>1. SUFFICES ASSUME smooth', NEW p \in room, NEW q \in room, Claims(p)', Claims(q)' PROVE p = q
    BY DEF OneClaim
  <2>2. Claims(p) /\ Claims(q)
    BY <2>1
  <2> QED  BY <2>1, <2>2 DEF OneClaim
<1>2. SomeClaim'
  <2>1. SUFFICES ASSUME smooth', room # {}
                 PROVE  (\E p \in room : Claims(p)') \/ (\E p \in Page : Has(up'[p], "bye"))
    BY DEF SomeClaim
  <2>2. (\E p \in room : Claims(p)) \/ (\E p \in Page : Has(up[p], "bye"))
    BY <2>1 DEF SomeClaim
  <2> QED  BY <2>1, <2>2
<1> QED  BY <1>1, <1>2

\* The page itself: what the invariant says is kept by the handlers of a page.
LEMMA HearStep ==
    ASSUME IInv, NEW p \in Page, Hear(p)
    PROVE  (\A q \in Page : PageInv(q)') /\ OneClaim' /\ SomeClaim'
<1>1. TypeOK /\ (\A q \in Page : PageInv(q)) /\ OneClaim /\ SomeClaim
  BY DEF IInv
<1>2. {"created", "bye"} \subseteq Kinds
  BY DEF Kinds
<1>3. ASSUME NEW kinds, Hears(p, kinds), up' = up, smooth' => smooth,
             isChannelReady[p] => isChannelReady'[p],
             pc'[p].there => pc[p].there \/ isChannelReady[p], Relays(p)',
             \A q \in Page \ {p} : /\ isInitiator'[q] = isInitiator[q] /\ pc'[q] = pc[q]
                                   /\ isChannelReady'[q] = isChannelReady[q],
             smooth' => (isInitiator'[p] <=> isInitiator[p] \/ Head(down[p]).kind \in {"created", "bye"})
      PROVE  (\A q \in Page : PageInv(q)') /\ OneClaim' /\ SomeClaim'
  <2>1. /\ down[p] \in Seq(ToPage) /\ down[p] # <<>> /\ down'[p] = Tail(down[p])
        /\ \A q \in Page \ {p} : down'[q] = down[q]
        /\ UNCHANGED <<view, localStream, room, leaves, early>>
    BY <1>1, <1>3, Hearing
  <2>2. PageInv(p)'
    BY <1>1, <1>3, HearPage
  <2>3. ASSUME NEW q \in Page \ {p} PROVE PageInv(q)'
    BY <1>1, <1>3, <2>1, SamePage
  <2>4. \A k \in Kinds : Has(down[p], k) <=> Has(down'[p], k) \/ Head(down[p]).kind = k
    BY <2>1, TailHas
  <2>5. smooth' => (Claims(p)' <=> Claims(p))
    BY <1>2, <1>3, <2>4 DEF Claims
  <2>6. ASSUME NEW q \in Page \ {p} PROVE Claims(q)' <=> Claims(q)
    BY <1>3, <2>1 DEF Claims
  <2>7. room \subseteq Page /\ room' = room
    BY <1>1, <2>1 DEF TypeOK
  <2>8. smooth' => \A q \in room : Claims(q)' <=> Claims(q)
    BY <2>5, <2>6, <2>7
  <2>9. OneClaim' /\ SomeClaim'
    BY <1>1, <1>3, <2>7, <2>8, SameClaims
  <2> QED  BY <2>2, <2>3, <2>9
<1>4. ASSUME NEW kinds, Hears(p, kinds)
      PROVE  /\ UNCHANGED <<early, localStream>> /\ Head(down[p]).kind \in kinds
             /\ down[p] \in Seq(ToPage) /\ down[p] # <<>>
  BY <1>1, <1>4, Hearing
<1>5. Relays(p) /\ Creates(p) /\ isInitiator \in [Page -> BOOLEAN] /\ isChannelReady \in [Page -> BOOLEAN]
      /\ pc \in [Page -> Pc]
  BY <1>1 DEF PageInv, TypeOK
<1>6. ASSUME Created(p) PROVE (\A q \in Page : PageInv(q)') /\ OneClaim' /\ SomeClaim'
  <2>1. /\ Hears(p, {"created"}) /\ isInitiator' = [isInitiator EXCEPT ![p] = TRUE]
        /\ UNCHANGED <<isStarted, isChannelReady, pc, making, up, smooth>>
    BY <1>6 DEF Created
  <2>2. Has(down[p], "created")
    BY <1>2, <1>4, <2>1, TailHas
  <2>3. ~pc[p].there
    BY <1>5, <2>2 DEF Creates
  <2>4. Relays(p)'
    BY <1>4, <1>5, <2>1, <2>3 DEF Relays, Configured
  <2>5. isInitiator'[p] = TRUE /\ \A q \in Page \ {p} : isInitiator'[q] = isInitiator[q]
    BY <1>5, <2>1
  <2>6. Head(down[p]).kind = "created"
    BY <1>4, <2>1
  <2> QED  BY <1>3, <2>1, <2>4, <2>5, <2>6
<1>7. ASSUME ChannelReady(p) PROVE (\A q \in Page : PageInv(q)') /\ OneClaim' /\ SomeClaim'
  <2>1. /\ Hears(p, {"join", "joined"}) /\ isChannelReady' = [isChannelReady EXCEPT ![p] = TRUE]
        /\ UNCHANGED <<isInitiator, isStarted, pc, making, up, smooth>>
    BY <1>7 DEF ChannelReady
  <2>2. Relays(p)'
    BY <1>4, <1>5, <2>1 DEF Relays, Configured
  <2>3. isChannelReady'[p] = TRUE /\ \A q \in Page \ {p} : isChannelReady'[q] = isChannelReady[q]
    BY <1>5, <2>1
  <2>4. Head(down[p]).kind \notin {"created", "bye"}
    BY <1>4, <2>1
  <2> QED  BY <1>3, <2>1, <2>2, <2>3, <2>4
<1>8. ASSUME Full(p) PROVE (\A q \in Page : PageInv(q)') /\ OneClaim' /\ SomeClaim'
  <2>1. Hears(p, {"full"}) /\ UNCHANGED <<isInitiator, isStarted, isChannelReady, pc, making, up, smooth>>
    BY <1>8 DEF Full, flags
  <2>2. Relays(p)'
    BY <1>4, <1>5, <2>1 DEF Relays, Configured
  <2>3. Head(down[p]).kind \notin {"created", "bye"}
    BY <1>4, <2>1
  <2> QED  BY <1>3, <2>1, <2>2, <2>3
<1>9. ASSUME HearMedia(p) PROVE (\A q \in Page : PageInv(q)') /\ OneClaim' /\ SomeClaim'
  <2>1. /\ Hears(p, {"got user media"}) /\ MaybeStart(p, Configured(p))
        /\ UNCHANGED <<isInitiator, isChannelReady, up, smooth>>
    BY <1>9 DEF HearMedia, MediaThere
  <2>2. Configured(p) \in BOOLEAN
    BY DEF Configured
  <2>3. localStream' \in [Page -> BOOLEAN]
    BY <1>1, <1>4, <2>1 DEF TypeOK
  <2>4. /\ \A q \in Page \ {p} : pc'[q] = pc[q]
        /\ pc'[p] = pc[p] \/ (isChannelReady[p] /\ pc'[p].relay = Configured(p))
    BY <1>1, <2>1, <2>2, <2>3, Starting
  <2>5. Relays(p)'
    <3>1. Configured(p)' = Configured(p)
      BY DEF Configured
    <3> QED  BY <1>4, <1>5, <2>1, <2>4, <3>1 DEF Relays
  <2>6. Head(down[p]).kind \notin {"created", "bye"}
    <3>1. Head(down[p]).kind \in {"got user media"}
      BY <1>4, <2>1
    <3> QED  BY <3>1
  <2> QED  BY <1>3, <2>1, <2>4, <2>5, <2>6
<1>10. ASSUME HearOffer(p) PROVE (\A q \in Page : PageInv(q)') /\ OneClaim' /\ SomeClaim'
  <2>1. Hears(p, {"offer"})
    BY <1>10 DEF HearOffer
  <2>2. /\ \A q \in Page \ {p} : pc'[q] = pc[q]
        /\ \/ ~isInitiator[p] /\ isChannelReady[p]
           \/ pc'[p].there = pc[p].there /\ pc'[p].relay = pc[p].relay
        /\ (smooth' => smooth) /\ UNCHANGED <<isInitiator, isChannelReady, up>>
    BY <1>1, <1>10, HearingOffer
  <2>3. Relays(p)'
    BY <1>4, <1>5, <2>1, <2>2 DEF Relays, Configured
  <2>4. Head(down[p]).kind \notin {"created", "bye"}
    BY <1>4, <2>1
  <2> QED  BY <1>3, <2>1, <2>2, <2>3, <2>4
<1>11. ASSUME HearAnswer(p) PROVE (\A q \in Page : PageInv(q)') /\ OneClaim' /\ SomeClaim'
  <2>1. Hears(p, {"answer"}) /\ UNCHANGED <<isInitiator, isStarted, isChannelReady, making, up, smooth>>
    BY <1>11 DEF HearAnswer, flags
  <2>2. pc'[p].there = pc[p].there /\ pc'[p].relay = pc[p].relay /\ \A q \in Page \ {p} : pc'[q] = pc[q]
    BY <1>1, <1>11, AnswerValue
  <2>3. Relays(p)'
    BY <1>4, <1>5, <2>1, <2>2 DEF Relays, Configured
  <2>4. Head(down[p]).kind \notin {"created", "bye"}
    BY <1>4, <2>1
  <2> QED  BY <1>3, <2>1, <2>2, <2>3, <2>4
<1>12. ASSUME HearBye(p) PROVE (\A q \in Page : PageInv(q)') /\ OneClaim' /\ SomeClaim'
  <2>1. Hears(p, {"bye"}) /\ UNCHANGED <<isChannelReady, up>>
    BY <1>12 DEF HearBye, Hangup
  <2>2. Head(down[p]).kind = "bye"
    BY <1>4, <2>1
  <2>3. CASE isStarted[p]
    <3>1. /\ pc' = [pc EXCEPT ![p] = Null(p, pc[p].n)] /\ smooth' = smooth
          /\ isInitiator' = [isInitiator EXCEPT ![p] = @ \/ TRUE]
      BY <1>12, <2>3 DEF HearBye, Hangup
    <3>2. ~Null(p, pc[p].n).there
      BY DEF Null
    <3>3. ~pc'[p].there /\ \A q \in Page \ {p} : pc'[q] = pc[q]
      BY <1>5, <3>1, <3>2
    <3>4. isInitiator'[p] /\ \A q \in Page \ {p} : isInitiator'[q] = isInitiator[q]
      BY <1>5, <3>1
    <3>5. Relays(p)'
      BY <1>4, <1>5, <2>1, <3>3 DEF Relays, Configured
    <3> QED  BY <1>3, <2>1, <2>2, <3>1, <3>3, <3>4, <3>5
  <2>4. CASE ~isStarted[p]
    <3>1. smooth' = FALSE /\ UNCHANGED <<isInitiator, isStarted, pc, making>>
      BY <1>12, <2>4 DEF HearBye, Hangup
    <3>2. Relays(p)'
      BY <1>4, <1>5, <2>1, <3>1 DEF Relays, Configured
    <3> QED  BY <1>3, <2>1, <3>1, <3>2
  <2> QED  BY <2>3, <2>4
<1> QED  BY <1>6, <1>7, <1>8, <1>9, <1>10, <1>11, <1>12 DEF Hear

\* A page comes up: it asks for the room before anything else.
LEMMA StartupStep ==
    ASSUME IInv, NEW p \in Page, StartupBehavior(p)
    PROVE  (\A q \in Page : PageInv(q)') /\ OneClaim' /\ SomeClaim'
<1>1. TypeOK /\ (\A q \in Page : PageInv(q)) /\ OneClaim /\ SomeClaim
  BY DEF IInv
<1>2. PICK m : m = Emit("create or join", NoId(p))
  OBVIOUS
<1>3. m \in ToServer /\ m.kind = "create or join"
  BY <1>2 DEF Emit, ToServer, Message, NoId, Id
<1>4. /\ view[p] = "loading" /\ view' = [view EXCEPT ![p] = "open"] /\ up' = [up EXCEPT ![p] = Append(@, m)]
      /\ UNCHANGED <<isInitiator, isStarted, isChannelReady, localStream, pc, making, down, room, leaves, smooth, early>>
  BY <1>2 DEF StartupBehavior, flags, history
<1>5. /\ up[p] = <<>> /\ down[p] = <<>> /\ ~isChannelReady[p] /\ ~isInitiator[p] /\ p \notin room
      /\ Creates(p) /\ Relays(p)
  BY <1>1, <1>4 DEF PageInv, Asks
<1>6. /\ view'[p] = "open" /\ up'[p] = Append(<<>>, m)
      /\ \A q \in Page \ {p} : view'[q] = view[q] /\ up'[q] = up[q]
  BY <1>1, <1>4, <1>5 DEF TypeOK
<1>7. <<>> \in Seq(ToServer) /\ {"create or join", "leave", "bye"} \subseteq Kinds
  BY EmptySeq DEF Kinds
<1>8. /\ Has(up'[p], "create or join") /\ ~Has(up'[p], "leave") /\ ~Has(up'[p], "bye")
      /\ First(up'[p], "create or join") /\ LeavesFirst(up'[p])
  <2>1. PICK r : r = Append(<<>>, m)
    OBVIOUS
  <2>2. /\ \A k \in Kinds : Has(r, k) <=> Has(<<>>, k) \/ m.kind = k
        /\ \A k \in Kinds : First(r, k)
        /\ LeavesFirst(<<>>) /\ (m.kind # "bye" \/ Has(<<>>, "leave")) => LeavesFirst(r)
    BY <1>3, <1>7, <2>1, AppendHas
  <2> QED  BY <1>3, <1>6, <1>7, <2>1, <2>2, NoneHas
<1>9. PageInv(p)'
  <2>1. Asks(p)' /\ Listens(p)' /\ Creates(p)'
    BY <1>4, <1>5, <1>6, <1>8 DEF Asks, Listens, Creates
  <2>2. Relays(p)' /\ Parts(p)'
    BY <1>4, <1>5, <1>6, <1>8 DEF Relays, Configured, Parts
  <2> QED  BY <2>1, <2>2 DEF PageInv
<1>10. ASSUME NEW q \in Page \ {p} PROVE PageInv(q)'
  BY <1>1, <1>4, <1>6, SamePage
<1>11. \A q \in Page : Has(up[q], "bye") => Has(up'[q], "bye")
  BY <1>5, <1>6, <1>7, NoneHas
<1>12. \A q \in Page : Claims(q)' <=> Claims(q)
  BY <1>4 DEF Claims
<1>13. OneClaim' /\ SomeClaim'
  <2>1. room \subseteq Page
    BY <1>1 DEF TypeOK
  <2> QED  BY <1>1, <1>4, <1>11, <1>12, <2>1, SameClaims
<1> QED  BY <1>9, <1>10, <1>13

\* A page sends to the others: its camera is there, or a description.
LEMMA SendStep ==
    ASSUME IInv, NEW p \in Page, HandleUserMedia(p) \/ Describe(p)
    PROVE  (\A q \in Page : PageInv(q)') /\ OneClaim' /\ SomeClaim'
<1>1. TypeOK /\ (\A q \in Page : PageInv(q)) /\ OneClaim /\ SomeClaim
  BY DEF IInv
<1>2. Relays(p) /\ Creates(p)
  BY <1>1 DEF PageInv
<1>3. ASSUME NEW m \in ToServer, m.kind \notin {"create or join", "leave", "bye"}, view[p] = "open",
             up' = [up EXCEPT ![p] = Append(@, m)],
             UNCHANGED <<view, isInitiator, isChannelReady, down, room, smooth>>,
             pc'[p].there => pc[p].there \/ isChannelReady[p], Relays(p)',
             \A q \in Page \ {p} : /\ pc'[q] = pc[q] /\ localStream'[q] = localStream[q]
                                   /\ q \in early' <=> q \in early
      PROVE  (\A q \in Page : PageInv(q)') /\ OneClaim' /\ SomeClaim'
  <2>1. up'[p] = Append(up[p], m) /\ \A q \in Page \ {p} : up'[q] = up[q]
    BY <1>1, <1>3 DEF TypeOK
  <2>2. PageInv(p)' /\ (Has(up'[p], "bye") <=> Has(up[p], "bye"))
    BY <1>1, <1>3, <2>1, SendPage
  <2>3. ASSUME NEW q \in Page \ {p} PROVE PageInv(q)'
    BY <1>1, <1>3, <2>1, SamePage
  <2>4. \A q \in Page : Has(up[q], "bye") => Has(up'[q], "bye")
    BY <2>1, <2>2
  <2>5. \A q \in Page : Claims(q)' <=> Claims(q)
    BY <1>3 DEF Claims
  <2>6. room \subseteq Page
    BY <1>1 DEF TypeOK
  <2>7. OneClaim' /\ SomeClaim'
    BY <1>1, <1>3, <2>4, <2>5, <2>6, SameClaims
  <2> QED  BY <2>2, <2>3, <2>7
<1>4. CASE HandleUserMedia(p)
  <2>1. PICK m : m = Emit("got user media", NoId(p))
    OBVIOUS
  <2>2. m \in ToServer /\ m.kind = "got user media"
    BY <2>1 DEF Emit, ToServer, Message, NoId, Id, Relayed
  <2>3. /\ view[p] = "open" /\ ~localStream[p] /\ localStream' = [localStream EXCEPT ![p] = TRUE]
        /\ up' = [up EXCEPT ![p] = Append(@, m)]
        /\ MaybeStart(p, FALSE) \/ pc' = pc
        /\ early' = IF isChannelReady[p] THEN early ELSE early \cup {p}
        /\ UNCHANGED <<view, isInitiator, isChannelReady, down, room, leaves, smooth>>
    BY <1>4, <2>1 DEF HandleUserMedia
  <2>4. /\ localStream' \in [Page -> BOOLEAN] /\ localStream'[p] /\ p \notin early
        /\ \A q \in Page \ {p} : localStream'[q] = localStream[q] /\ (q \in early' <=> q \in early)
    BY <1>1, <1>2, <2>3 DEF TypeOK, Relays
  <2>5. /\ \A q \in Page \ {p} : pc'[q] = pc[q]
        /\ pc'[p] = pc[p] \/ isChannelReady[p]
    <3>1. CASE MaybeStart(p, FALSE)
      BY <1>1, <2>4, <3>1, Starting
    <3>2. CASE pc' = pc
      BY <3>2
    <3> QED  BY <2>3, <3>1, <3>2
  <2>6. p \in early' => ~isChannelReady[p] /\ pc'[p] = pc[p] /\ ~pc[p].there
    BY <1>2, <2>3, <2>4, <2>5 DEF Creates
  <2>7. Relays(p)'
    BY <2>3, <2>4, <2>6 DEF Relays, Configured
  <2> QED  BY <1>3, <2>2, <2>3, <2>4, <2>5, <2>7
<1>5. ASSUME NEW a \in making[p], Described(p, a)
      PROVE  (\A q \in Page : PageInv(q)') /\ OneClaim' /\ SomeClaim'
  <2>1. /\ view[p] = "open" /\ pc'[p].there = pc[p].there /\ pc'[p].relay = pc[p].relay
        /\ \A q \in Page \ {p} : pc'[q] = pc[q]
        /\ a.kind \in {"offer", "answer"}
        /\ \E m \in ToServer : m.kind = a.kind /\ up' = [up EXCEPT ![p] = Append(@, m)]
        /\ UNCHANGED <<view, isInitiator, isStarted, isChannelReady, localStream, down, room, leaves, smooth, early>>
    BY <1>1, <1>5, Describing
  <2>2. PICK m \in ToServer : m.kind = a.kind /\ up' = [up EXCEPT ![p] = Append(@, m)]
    BY <2>1
  <2>3. Relays(p)'
    BY <1>2, <2>1 DEF Relays, Configured
  <2> QED  BY <1>3, <2>1, <2>2, <2>3
<1> QED  BY <1>4, <1>5 DEF Describe

\* A page of the room that is told something else than 'created'.
LEMMA ToldPage ==
    ASSUME TypeOK, NEW q \in Page, PageInv(q), NEW m \in ToPage, m.kind # "created", view[q] = "open",
           q \in room, q \in room', up'[q] = up[q], down'[q] = Append(down[q], m),
           UNCHANGED <<view, isInitiator, isChannelReady, localStream, pc, early>>, smooth' => smooth
    PROVE  /\ PageInv(q)'
           /\ \A k \in {"created", "bye"} : Has(down'[q], k) <=> Has(down[q], k) \/ m.kind = k
<1>1. down[q] \in Seq(ToPage) /\ {"created", "bye"} \subseteq Kinds
  BY DEF TypeOK, Kinds
<1>2. /\ \A k \in Kinds : Has(down'[q], k) <=> Has(down[q], k) \/ m.kind = k
      /\ \A k \in Kinds : First(down[q], k) /\ m.kind # k => First(down'[q], k)
  <2>1. PICK s, r : s = down[q] /\ r = down'[q]
    OBVIOUS
  <2>2. /\ \A k \in Kinds : Has(r, k) <=> Has(s, k) \/ m.kind = k
        /\ \A k \in Kinds : First(s, k) /\ m.kind # k => First(r, k)
    BY <1>1, <2>1, AppendHas
  <2> QED  BY <2>1, <2>2
<1>3. Asks(q)' /\ Listens(q)'
  BY DEF PageInv, Asks, Listens
<1>4. Creates(q)'
  BY <1>1, <1>2 DEF PageInv, Creates
<1>5. Relays(q)' /\ Parts(q)'
  BY DEF PageInv, Relays, Configured, Parts
<1> QED  BY <1>1, <1>2, <1>3, <1>4, <1>5 DEF PageInv

\* The server lets a page in, or not: a page that comes claims nothing, unless the
\* room was empty.
LEMMA AdmitStep ==
    ASSUME IInv, NEW p \in Page, CreateOrJoin(p)
    PROVE  (\A q \in Page : PageInv(q)') /\ OneClaim' /\ SomeClaim'
<1>1. TypeOK /\ (\A q \in Page : PageInv(q)) /\ OneClaim /\ SomeClaim
  BY DEF IInv
<1>2. {"create or join", "leave", "bye", "created"} = Kinds
  BY DEF Kinds
<1>3. Handle(p, {"create or join"}) /\ smooth' = smooth /\ down' \in [Page -> Seq(ToPage)]
  BY <1>1, Admitting
<1>4. /\ up[p] \in Seq(ToServer) /\ up[p] # <<>> /\ Head(up[p]).kind = "create or join"
      /\ up'[p] = Tail(up[p]) /\ \A q \in Page \ {p} : up'[q] = up[q]
      /\ UNCHANGED <<view, isInitiator, isStarted, isChannelReady, localStream, pc, making, leaves, early>>
  <2>1. Head(up[p]).kind \in {"create or join"}
    BY <1>1, <1>3, Handling
  <2> QED  BY <1>1, <1>3, <2>1, Handling
<1>5. /\ \A k \in Kinds : Has(up[p], k) <=> Has(up'[p], k) \/ Head(up[p]).kind = k
      /\ \A k \in Kinds : First(up[p], k) => ~Has(up'[p], k) /\ First(up'[p], k)
      /\ LeavesFirst(up[p]) => LeavesFirst(up'[p])
  <2>1. PICK s, t : s = up[p] /\ t = Tail(s)
    OBVIOUS
  <2>2. s \in Seq(ToServer) /\ s # <<>> /\ Head(s).kind = "create or join" /\ up'[p] = t
    BY <1>4, <2>1
  <2>3. /\ \A k \in Kinds : Has(s, k) <=> Has(Tail(s), k) \/ Head(s).kind = k
        /\ \A k \in Kinds : First(s, k) => ~Has(Tail(s), k) /\ First(Tail(s), k)
        /\ LeavesFirst(s) => Head(s).kind # "bye" /\ (Head(s).kind # "leave" => LeavesFirst(Tail(s)))
    BY <2>2, TailHas
  <2> QED  BY <2>1, <2>2, <2>3
<1>6. /\ Has(up[p], "create or join") /\ ~Has(up'[p], "create or join") /\ First(up'[p], "create or join")
      /\ (Has(up[p], "bye") <=> Has(up'[p], "bye")) /\ (Has(up[p], "leave") <=> Has(up'[p], "leave"))
  BY <1>1, <1>2, <1>4, <1>5 DEF PageInv, Asks
<1>7. /\ view[p] # "loading" /\ down[p] = <<>> /\ ~isChannelReady[p] /\ ~isInitiator[p] /\ p \notin room
      /\ Relays(p) /\ Creates(p) /\ LeavesFirst(up'[p])
      /\ smooth /\ view[p] = "closed" => Has(up'[p], "bye")
      /\ Has(up[p], "leave") \/ Has(up[p], "bye") => view[p] = "closed"
  BY <1>1, <1>4, <1>5, <1>6 DEF PageInv, Asks, Parts
<1>8. <<>> \in Seq(ToPage)
  BY EmptySeq
<1>9. view[p] \in {"open", "closed"}
  BY <1>1, <1>7 DEF TypeOK, Views
<1>10. ASSUME First(down'[p], "created"), view[p] # "open" => down'[p] = <<>>
       PROVE  PageInv(p)'
  <2>1. Asks(p)' /\ Listens(p)'
    BY <1>4, <1>6, <1>7, <1>10 DEF Asks, Listens
  <2>2. Creates(p)'
    BY <1>4, <1>7, <1>10 DEF Creates
  <2>3. Relays(p)' /\ Parts(p)'
    BY <1>3, <1>4, <1>6, <1>7 DEF Relays, Configured, Parts
  <2> QED  BY <2>1, <2>2, <2>3 DEF PageInv
<1>11. \A q \in Page : Has(up[q], "bye") => Has(up'[q], "bye")
  BY <1>4, <1>6
<1>12. CASE /\ room = {} /\ room' = {p}
            /\ \E m \in ToPage : /\ m.kind = "created"
                                 /\ down'[p] = IF view[p] = "open" THEN Append(down[p], m) ELSE down[p]
            /\ \A q \in Page \ {p} : down'[q] = down[q]
  <2>1. PICK m \in ToPage : m.kind = "created" /\ down'[p] = (IF view[p] = "open" THEN Append(<<>>, m) ELSE <<>>)
    BY <1>7, <1>12
  <2>2. PICK r : r = Append(<<>>, m)
    OBVIOUS
  <2>3. First(r, "created") /\ Has(r, "created")
    BY <1>2, <1>8, <2>1, <2>2, AppendHas
  <2>4. First(down'[p], "created")
    BY <1>2, <2>1, <2>2, <2>3, NoneHas
  <2>5. PageInv(p)'
    BY <1>10, <2>1, <2>4
  <2>6. ASSUME NEW q \in Page \ {p} PROVE PageInv(q)'
    BY <1>1, <1>3, <1>4, <1>12, SamePage
  <2>7. OneClaim'
    BY <1>12 DEF OneClaim
  <2>8. SomeClaim'
    <3>1. CASE view[p] = "open"
      <4>1. Claims(p)'
        BY <2>1, <2>2, <2>3, <3>1 DEF Claims
      <4> QED  BY <1>12, <4>1 DEF SomeClaim
    <3>2. CASE view[p] = "closed"
      BY <1>3, <1>7, <3>2 DEF SomeClaim
    <3> QED  BY <1>9, <3>1, <3>2
  <2> QED  BY <2>5, <2>6, <2>7, <2>8
<1>13. CASE /\ room' \in {room, room \cup {p}} /\ room # {}
            /\ \A q \in Page : \/ down'[q] = down[q]
                               \/ /\ view[q] = "open" /\ (q \in room \/ q = p)
                                  /\ \E m \in ToPage : m.kind \in {"join", "joined", "full"} /\ down'[q] = Append(down[q], m)
  <2>1. First(down'[p], "created") /\ ~Has(down'[p], "created") /\ ~Has(down'[p], "bye") /\ (view[p] # "open" => down'[p] = <<>>)
    <3>1. CASE down'[p] = <<>>
      BY <1>2, <3>1, NoneHas
    <3>2. CASE \E m \in ToPage : m.kind \in {"join", "joined", "full"} /\ view[p] = "open" /\ down'[p] = Append(<<>>, m)
      <4>1. PICK m \in ToPage : m.kind \in {"join", "joined", "full"} /\ view[p] = "open" /\ down'[p] = Append(<<>>, m)
        BY <3>2
      <4>2. PICK r : r = Append(<<>>, m)
        OBVIOUS
      <4>3. /\ \A k \in Kinds : Has(r, k) <=> Has(<<>>, k) \/ m.kind = k
            /\ \A k \in Kinds : First(r, k)
        BY <1>8, <4>2, AppendHas
      <4>4. First(r, "created") /\ ~Has(r, "created") /\ ~Has(r, "bye")
        BY <1>2, <4>1, <4>3, NoneHas
      <4> QED  BY <4>1, <4>2, <4>4
    <3> QED  BY <1>7, <1>13, <3>1, <3>2
  <2>2. PageInv(p)'
    BY <1>10, <2>1
  <2>3. ASSUME NEW q \in Page \ {p} PROVE PageInv(q)' /\ (Claims(q)' <=> Claims(q))
    <3>1. q \in room' <=> q \in room
      BY <1>13
    <3>2. CASE down'[q] = down[q]
      <4>1. PageInv(q)'
        BY <1>1, <1>3, <1>4, <3>1, <3>2, SamePage
      <4>2. Claims(q)' <=> Claims(q)
        BY <1>4, <3>2 DEF Claims
      <4> QED  BY <4>1, <4>2
    <3>3. CASE down'[q] # down[q]
      <4>1. PICK m \in ToPage : m.kind \in {"join", "joined", "full"} /\ down'[q] = Append(down[q], m)
        BY <1>13, <3>3
      <4>2. q \in room /\ view[q] = "open"
        BY <1>13, <3>3
      <4>3. /\ PageInv(q)'
            /\ \A k \in {"created", "bye"} : Has(down'[q], k) <=> Has(down[q], k) \/ m.kind = k
        BY <1>1, <1>3, <1>4, <3>1, <4>1, <4>2, ToldPage
      <4>4. \A k \in {"created", "bye"} : Has(down'[q], k) <=> Has(down[q], k)
        BY <4>1, <4>3
      <4>5. Claims(q)' <=> Claims(q)
        BY <1>4, <4>4 DEF Claims
      <4> QED  BY <4>3, <4>5
    <3> QED  BY <3>2, <3>3
  <2>4. ~Claims(p)'
    BY <1>4, <1>7, <2>1 DEF Claims
  <2>5. room \subseteq Page
    BY <1>1 DEF TypeOK
  <2>6. OneClaim'
    <3>1. SUFFICES ASSUME smooth', NEW a \in room', NEW b \in room', Claims(a)', Claims(b)' PROVE a = b
      BY DEF OneClaim
    <3>2. a \in room /\ b \in room /\ a # p /\ b # p
      BY <1>13, <2>4, <3>1
    <3>3. Claims(a) /\ Claims(b)
      BY <2>3, <2>5, <3>1, <3>2
    <3> QED  BY <1>1, <1>3, <3>1, <3>2, <3>3 DEF OneClaim
  <2>7. SomeClaim'
    <3>1. SUFFICES ASSUME smooth' PROVE (\E a \in room' : Claims(a)') \/ (\E a \in Page : Has(up'[a], "bye"))
      BY DEF SomeClaim
    <3>2. (\E a \in room : Claims(a)) \/ (\E a \in Page : Has(up[a], "bye"))
      BY <1>1, <1>3, <1>13, <3>1 DEF SomeClaim
    <3>3. CASE \E a \in room : Claims(a)
      <4>1. PICK a \in room : Claims(a)
        BY <3>3
      <4>2. a \in Page \ {p} /\ a \in room'
        BY <1>7, <1>13, <2>5
      <4>3. Claims(a)'
        BY <2>3, <4>1, <4>2
      <4> QED  BY <4>2, <4>3
    <3> QED  BY <1>11, <3>2, <3>3
  <2> QED  BY <2>2, <2>3, <2>6, <2>7
<1> QED
  <2>1. \/ /\ room = {} /\ room' = {p}
           /\ \E m \in ToPage : /\ m.kind = "created"
                                /\ down'[p] = IF view[p] = "open" THEN Append(down[p], m) ELSE down[p]
           /\ \A q \in Page \ {p} : down'[q] = down[q]
        \/ /\ room' \in {room, room \cup {p}} /\ room # {}
           /\ \A q \in Page : \/ down'[q] = down[q]
                              \/ /\ view[q] = "open" /\ (q \in room \/ q = p)
                                 /\ \E m \in ToPage : m.kind \in {"join", "joined", "full"} /\ down'[q] = Append(down[q], m)
    BY <1>1, Admitting
  <2> QED  BY <1>12, <1>13, <2>1

\* A set with one element at most.
LEMMA AtMostOne ==
    ASSUME NEW S \in SUBSET Page, Cardinality(S) <= 1, NEW a \in S, NEW b \in S
    PROVE  a = b
<1>1. SUFFICES ASSUME a # b PROVE FALSE
  OBVIOUS
<1>2. /\ IsFiniteSet(S) /\ Cardinality(S) \in Nat
      /\ IsFiniteSet(S \ {a}) /\ Cardinality(S \ {a}) \in Nat
      /\ Cardinality((S \ {a}) \ {b}) \in Nat
  BY PagesFinite
<1>3. Cardinality(S \ {a}) = Cardinality(S) - 1
  BY <1>2, FS_RemoveElement
<1>4. Cardinality((S \ {a}) \ {b}) = Cardinality(S \ {a}) - 1
  <2>1. b \in S \ {a}
    BY <1>1
  <2> QED  BY <1>2, <2>1, FS_RemoveElement
<1> QED  BY <1>2, <1>3, <1>4

\* A message that the server has relayed is no longer in front of the others of its page.
LEMMA RelayedPage ==
    ASSUME TypeOK, NEW p \in Page, PageInv(p), Relay(p)
    PROVE  /\ PageInv(p)'
           /\ Head(up[p]).kind # "bye" => (Has(up'[p], "bye") <=> Has(up[p], "bye"))
           /\ Head(up[p]).kind = "bye" => p \notin room /\ view[p] = "closed"
           /\ ~Has(up[p], "create or join") /\ down'[p] = down[p]
<1>1. /\ Handle(p, Relayed) /\ room' = room /\ (smooth' => smooth) /\ Head(up[p]).kind \in Relayed
      /\ down'[p] = down[p]
  BY Relaying
<1>2. /\ up[p] \in Seq(ToServer) /\ up[p] # <<>> /\ up'[p] = Tail(up[p])
      /\ UNCHANGED <<view, isInitiator, isChannelReady, localStream, pc, early>>
  BY <1>1, Handling
<1>3. {"create or join", "leave", "bye", "created"} = Kinds
  BY DEF Kinds
<1>4. Head(up[p]).kind \notin {"create or join", "leave", "created"}
  BY <1>1 DEF Relayed
<1>5. /\ \A k \in Kinds : Has(up[p], k) <=> Has(up'[p], k) \/ Head(up[p]).kind = k
      /\ \A k \in Kinds : First(up[p], k) => ~Has(up'[p], k) /\ First(up'[p], k)
      /\ LeavesFirst(up[p]) => Head(up[p]).kind # "bye" /\ (Head(up[p]).kind # "leave" => LeavesFirst(up'[p]))
  BY <1>2, TailHas
<1>6. First(up[p], "create or join") /\ view[p] # "loading"
  BY <1>2 DEF PageInv, Asks
<1>7. /\ ~Has(up'[p], "create or join") /\ First(up'[p], "create or join") /\ ~Has(up[p], "create or join")
      /\ Has(up'[p], "leave") <=> Has(up[p], "leave")
      /\ Has(up'[p], "bye") => Has(up[p], "bye")
      /\ Head(up[p]).kind # "bye" => (Has(up'[p], "bye") <=> Has(up[p], "bye"))
      /\ Head(up[p]).kind = "bye" => Has(up[p], "bye") /\ ~LeavesFirst(up[p])
      /\ LeavesFirst(up[p]) => LeavesFirst(up'[p])
  BY <1>3, <1>4, <1>5, <1>6
<1>8. Head(up[p]).kind = "bye" => p \notin room /\ view[p] = "closed"
  BY <1>7 DEF PageInv, Parts
<1>9. Asks(p)' /\ Listens(p)' /\ Creates(p)'
  BY <1>1, <1>2, <1>6, <1>7 DEF PageInv, Asks, Listens, Creates
<1>10. Relays(p)'
  BY <1>2 DEF PageInv, Relays, Configured
<1>11. Parts(p)'
  BY <1>1, <1>2, <1>7, <1>8 DEF PageInv, Parts
<1> QED  BY <1>1, <1>7, <1>8, <1>9, <1>10, <1>11 DEF PageInv

\* The server relays a message: 'bye' comes from a page that has left, makes the one
\* that is left in the room claim, and there is no second one in a smooth run.
LEMMA RelayStep ==
    ASSUME IInv, NEW p \in Page, Relay(p)
    PROVE  (\A q \in Page : PageInv(q)') /\ OneClaim' /\ SomeClaim'
<1>1. TypeOK /\ (\A q \in Page : PageInv(q)) /\ OneClaim /\ SomeClaim
  BY DEF IInv
<1>2. PICK m : m = Head(up[p])
  OBVIOUS
<1>3. /\ Handle(p, Relayed) /\ room' = room /\ m \in ToPage /\ m.kind \in Relayed
      /\ smooth' => smooth /\ (m.kind = "bye" => Cardinality(room \ {p}) <= 1)
      /\ \A q \in Page : down'[q] = IF q \in room \ {p} /\ view[q] = "open" THEN Append(down[q], m) ELSE down[q]
  BY <1>1, <1>2, Relaying
<1>4. /\ \A q \in Page \ {p} : up'[q] = up[q]
      /\ UNCHANGED <<view, isInitiator, isChannelReady, localStream, pc, early>>
  BY <1>1, <1>3, Handling
<1>5. /\ PageInv(p)' /\ down'[p] = down[p]
      /\ m.kind # "bye" => (Has(up'[p], "bye") <=> Has(up[p], "bye"))
      /\ m.kind = "bye" => p \notin room /\ view[p] = "closed"
  BY <1>1, <1>2, RelayedPage
<1>6. m.kind # "created"
  BY <1>3 DEF Relayed
<1>7. ASSUME NEW q \in Page \ {p}
      PROVE  /\ PageInv(q)'
             /\ m.kind # "bye" => (Claims(q)' <=> Claims(q))
             /\ m.kind = "bye" /\ q \in room /\ view[q] = "open" => Claims(q)'
  <2>1. CASE q \in room /\ view[q] = "open"
    <3>1. down'[q] = Append(down[q], m) /\ q \in room'
      BY <1>3, <2>1
    <3>2. /\ PageInv(q)'
          /\ \A k \in {"created", "bye"} : Has(down'[q], k) <=> Has(down[q], k) \/ m.kind = k
      BY <1>1, <1>3, <1>4, <1>6, <2>1, <3>1, ToldPage
    <3>3. m.kind # "bye" => (Claims(q)' <=> Claims(q))
      BY <1>4, <1>6, <3>2 DEF Claims
    <3>4. m.kind = "bye" => Claims(q)'
      BY <3>2 DEF Claims
    <3> QED  BY <3>2, <3>3, <3>4
  <2>2. CASE ~(q \in room /\ view[q] = "open")
    <3>1. down'[q] = down[q]
      BY <1>3, <2>2
    <3>2. PageInv(q)'
      BY <1>1, <1>3, <1>4, <3>1, SamePage
    <3>3. Claims(q)' <=> Claims(q)
      BY <1>4, <3>1 DEF Claims
    <3> QED  BY <2>2, <3>2, <3>3
  <2> QED  BY <2>1, <2>2
<1>8. room \subseteq Page
  BY <1>1 DEF TypeOK
<1>9. CASE m.kind # "bye"
  <2>1. Claims(p)' <=> Claims(p)
    BY <1>4, <1>5 DEF Claims
  <2>2. \A q \in room : Claims(q)' <=> Claims(q)
    BY <1>7, <1>8, <1>9, <2>1
  <2>3. \A q \in Page : Has(up[q], "bye") => Has(up'[q], "bye")
    BY <1>4, <1>5, <1>9
  <2>4. OneClaim' /\ SomeClaim'
    BY <1>1, <1>3, <2>2, <2>3, SameClaims
  <2> QED  BY <1>5, <1>7, <2>4
<1>10. CASE m.kind = "bye"
  <2>1. p \notin room /\ room \ {p} = room
    BY <1>5, <1>10
  <2>2. OneClaim'
    <3>1. SUFFICES ASSUME smooth', NEW a \in room, NEW b \in room PROVE a = b
      BY <1>3 DEF OneClaim
    <3>2. Cardinality(room) <= 1
      BY <1>3, <1>10, <2>1, <3>1
    <3> QED  BY <1>8, <3>1, <3>2, AtMostOne
  <2>3. SomeClaim'
    <3>1. SUFFICES ASSUME smooth', NEW q \in room
                   PROVE  (\E a \in room : Claims(a)') \/ (\E a \in Page : Has(up'[a], "bye"))
      BY <1>3 DEF SomeClaim
    <3>2. q \in Page \ {p} /\ smooth
      BY <1>3, <1>8, <2>1, <3>1
    <3>3. view[q] \in {"open", "closed"}
      BY <1>1, <3>1, <3>2 DEF PageInv, Asks, TypeOK, Views
    <3>4. CASE view[q] = "open"
      BY <1>7, <1>10, <3>1, <3>2, <3>4
    <3>5. CASE view[q] = "closed"
      <4>1. Has(up[q], "bye")
        BY <1>1, <3>1, <3>2, <3>5 DEF PageInv, Parts
      <4> QED  BY <1>4, <3>2, <4>1
    <3> QED  BY <3>3, <3>4, <3>5
  <2> QED  BY <1>5, <1>7, <2>2, <2>3
<1> QED  BY <1>9, <1>10

\* A page that is closed claims nothing: the claims of the room are as before without it.
LEMMA DepartedClaims ==
    ASSUME IInv, NEW p \in Page, view[p] = "closed", room' = room \ {p},
           UNCHANGED <<isInitiator, down, smooth>>,
           \A q \in Page : Has(up[q], "bye") => Has(up'[q], "bye")
    PROVE  OneClaim' /\ SomeClaim'
<1>1. (\A q \in Page : PageInv(q)) /\ OneClaim /\ SomeClaim /\ "created" \in Kinds /\ "bye" \in Kinds
  BY DEF IInv, Kinds
<1>2. ~Claims(p)
  <2>1. down[p] = <<>> /\ ~isInitiator[p]
    BY <1>1 DEF PageInv, Listens
  <2> QED  BY <1>1, <2>1, NoneHas DEF Claims
<1>3. \A q : Claims(q)' <=> Claims(q)
  BY DEF Claims
<1>4. OneClaim'
  BY <1>1, <1>3 DEF OneClaim
<1>5. SomeClaim'
  BY <1>1, <1>2, <1>3 DEF SomeClaim
<1> QED  BY <1>4, <1>5

\* The server handles 'leave', or the socket of a page that is gone is closed.
LEMMA LeaveStep ==
    ASSUME IInv, NEW p \in Page, LeaveRoom(p) \/ Disconnect(p)
    PROVE  (\A q \in Page : PageInv(q)') /\ OneClaim' /\ SomeClaim'
<1>1. TypeOK /\ (\A q \in Page : PageInv(q)) /\ PageInv(p)
  BY DEF IInv
<1>2. {"create or join", "leave", "bye", "created"} = Kinds
  BY DEF Kinds
<1>3. ASSUME view[p] = "closed", room' = room \ {p}, \A q \in Page \ {p} : up'[q] = up[q],
             UNCHANGED <<view, isInitiator, isChannelReady, localStream, pc, early, down, smooth>>,
             ~Has(up'[p], "create or join"), First(up'[p], "create or join"),
             Has(up'[p], "bye") <=> Has(up[p], "bye")
      PROVE  (\A q \in Page : PageInv(q)') /\ OneClaim' /\ SomeClaim'
  <2>1. p \notin room'
    BY <1>3
  <2>2. Asks(p)' /\ Listens(p)' /\ Creates(p)'
    BY <1>1, <1>3, <2>1 DEF PageInv, Asks, Listens, Creates
  <2>3. Relays(p)' /\ Parts(p)'
    BY <1>1, <1>3, <2>1 DEF PageInv, Relays, Configured, Parts
  <2>4. ASSUME NEW q \in Page \ {p} PROVE PageInv(q)'
    BY <1>1, <1>3, SamePage
  <2>5. \A q \in Page : Has(up[q], "bye") => Has(up'[q], "bye")
    BY <1>3
  <2>6. OneClaim' /\ SomeClaim'
    BY <1>3, <2>5, DepartedClaims
  <2> QED  BY <2>2, <2>3, <2>4, <2>6 DEF PageInv
<1>4. CASE LeaveRoom(p)
  <2>1. Handle(p, {"leave"}) /\ room' = room \ {p} /\ UNCHANGED <<down, smooth>>
    BY <1>4 DEF LeaveRoom
  <2>2. /\ up[p] \in Seq(ToServer) /\ up[p] # <<>> /\ Head(up[p]).kind \in {"leave"}
        /\ up'[p] = Tail(up[p]) /\ \A q \in Page \ {p} : up'[q] = up[q]
        /\ UNCHANGED <<view, isInitiator, isChannelReady, localStream, pc, early>>
    BY <1>1, <2>1, Handling
  <2>3. /\ \A k \in Kinds : Has(up[p], k) <=> Has(up'[p], k) \/ Head(up[p]).kind = k
        /\ \A k \in Kinds : First(up[p], k) => ~Has(up'[p], k) /\ First(up'[p], k)
    BY <2>2, TailHas
  <2>4. First(up[p], "create or join")
    BY <1>1 DEF PageInv, Asks
  <2>5. /\ ~Has(up'[p], "create or join") /\ First(up'[p], "create or join")
        /\ Has(up'[p], "bye") <=> Has(up[p], "bye")
        /\ Has(up[p], "leave")
    BY <1>2, <2>2, <2>3, <2>4
  <2>6. view[p] = "closed"
    BY <1>1, <2>5 DEF PageInv, Parts
  <2> QED  BY <1>3, <2>1, <2>2, <2>5, <2>6
<1>5. CASE Disconnect(p)
  <2>1. /\ view[p] = "closed" /\ up[p] = <<>> /\ room' = room \ {p} /\ up' = up
        /\ UNCHANGED <<view, isInitiator, isChannelReady, localStream, pc, early, down, smooth>>
    BY <1>5 DEF Disconnect, flags, history
  <2>2. ~Has(<<>>, "create or join") /\ First(<<>>, "create or join")
    BY <1>2, NoneHas
  <2> QED  BY <1>3, <2>1, <2>2
<1> QED  BY <1>4, <1>5

\* A page is closed or dies.  In a smooth run it is closed, and says so.
LEMMA CloseStep ==
    ASSUME IInv, NEW p \in Page, Unload(p) \/ (\E n \in 0..Len(up[p]) : Die(p, n))
    PROVE  (\A q \in Page : PageInv(q)') /\ OneClaim' /\ SomeClaim'
<1>1. TypeOK /\ (\A q \in Page : PageInv(q)) /\ PageInv(p) /\ OneClaim /\ SomeClaim
  BY DEF IInv
<1>2. {"create or join", "leave", "bye", "created"} = Kinds
  BY DEF Kinds
<1>3. up[p] \in Seq(ToServer) /\ First(up[p], "create or join") /\ room \subseteq Page
  BY <1>1 DEF TypeOK, PageInv, Asks
<1>4. ASSUME view[p] = "open" PROVE ~Has(up[p], "bye") /\ LeavesFirst(up[p])
  <2>1. ~Has(up[p], "bye")
    BY <1>1, <1>4 DEF PageInv, Parts
  <2>2. \A j \in 1..Len(up[p]) : up[p][j].kind # "bye"
    BY <2>1 DEF Has
  <2> QED  BY <2>1, <2>2 DEF LeavesFirst
<1>5. ASSUME NEW sent \in Seq(ToServer), Close(p, sent), First(sent, "create or join"), LeavesFirst(sent),
             Has(sent, "create or join") => Has(up[p], "create or join"),
             smooth' => smooth /\ Has(sent, "bye")
      PROVE  (\A q \in Page : PageInv(q)') /\ OneClaim' /\ SomeClaim'
  <2>1. /\ view[p] = "open" /\ view'[p] = "closed" /\ up'[p] = sent /\ down'[p] = <<>>
        /\ ~isInitiator'[p] /\ ~isChannelReady'[p] /\ ~pc'[p].there
        /\ early' = early \ {p} /\ room' = room
        /\ \A q \in Page \ {p} :
              /\ view'[q] = view[q] /\ up'[q] = up[q] /\ down'[q] = down[q] /\ pc'[q] = pc[q]
              /\ isInitiator'[q] = isInitiator[q] /\ isChannelReady'[q] = isChannelReady[q]
              /\ localStream'[q] = localStream[q]
    BY <1>1, <1>5, Closing
  <2>2. \A k \in Kinds : ~Has(down'[p], k) /\ First(down'[p], k)
    BY <2>1, NoneHas
  <2>3. Asks(p)'
    BY <1>1, <1>5, <2>1 DEF PageInv, Asks
  <2>4. Listens(p)' /\ Creates(p)'
    BY <1>2, <2>1, <2>2 DEF Listens, Creates
  <2>5. Relays(p)' /\ Parts(p)'
    BY <1>5, <2>1 DEF Relays, Configured, Parts
  <2>6. ASSUME NEW q \in Page \ {p} PROVE PageInv(q)' /\ (Claims(q)' <=> Claims(q))
    <3>1. PageInv(q)'
      BY <1>1, <1>5, <2>1, SamePage
    <3>2. Claims(q)' <=> Claims(q)
      BY <2>1 DEF Claims
    <3> QED  BY <3>1, <3>2
  <2>7. ~Claims(p)'
    BY <1>2, <2>1, <2>2 DEF Claims
  <2>8. OneClaim'
    <3>1. SUFFICES ASSUME smooth', NEW a \in room, NEW b \in room, Claims(a)', Claims(b)' PROVE a = b
      BY <2>1 DEF OneClaim
    <3>2. a \in Page \ {p} /\ b \in Page \ {p}
      BY <1>3, <2>7, <3>1
    <3>3. Claims(a) /\ Claims(b)
      BY <2>6, <3>1, <3>2
    <3> QED  BY <1>1, <1>5, <3>1, <3>3 DEF OneClaim
  <2>9. SomeClaim'
    BY <1>5, <2>1 DEF SomeClaim
  <2> QED  BY <2>3, <2>4, <2>5, <2>6, <2>8, <2>9 DEF PageInv
<1>6. CASE Unload(p)
  <2>1. PICK sent : sent = up[p] \o <<Emit("leave", NoId(p)), Emit("bye", NoId(p))>>
    OBVIOUS
  <2>2. Close(p, sent) /\ smooth' = smooth
    BY <1>6, <2>1 DEF Unload
  <2>3. view[p] = "open"
    BY <2>2 DEF Close
  <2>4. /\ sent \in Seq(ToServer)
        /\ \A k \in Kinds : Has(sent, k) <=> Has(up[p], k) \/ k \in {"leave", "bye"}
        /\ First(up[p], "create or join") => First(sent, "create or join")
        /\ LeavesFirst(up[p]) => LeavesFirst(sent)
    BY <1>3, <2>1, Farewell
  <2>5. Has(sent, "bye") /\ (Has(sent, "create or join") => Has(up[p], "create or join"))
    BY <1>2, <2>4
  <2> QED  BY <1>3, <1>4, <1>5, <2>2, <2>3, <2>4, <2>5
<1>7. ASSUME NEW n \in 0..Len(up[p]), Die(p, n)
      PROVE  (\A q \in Page : PageInv(q)') /\ OneClaim' /\ SomeClaim'
  <2>1. PICK sent : sent = SubSeq(up[p], 1, n)
    OBVIOUS
  <2>2. Close(p, sent) /\ smooth' = FALSE
    BY <1>7, <2>1 DEF Die
  <2>3. view[p] = "open"
    BY <2>2 DEF Close
  <2>4. /\ sent \in Seq(ToServer)
        /\ \A k \in Kinds : Has(sent, k) => Has(up[p], k)
        /\ \A k \in Kinds : First(up[p], k) => First(sent, k)
        /\ LeavesFirst(up[p]) => LeavesFirst(sent)
    BY <1>3, <2>1, PrefixHas
  <2>5. First(sent, "create or join") /\ (Has(sent, "create or join") => Has(up[p], "create or join"))
    BY <1>2, <1>3, <2>4
  <2> QED  BY <1>4, <1>5, <2>2, <2>3, <2>4, <2>5
<1> QED  BY <1>6, <1>7
-----------------------------------------------------------------------------
(***************************************************************************)
(* The theorems.                                                           *)
(***************************************************************************)
\* No page is up yet.
LEMMA Start == Init => IInv
<1>1. SUFFICES ASSUME Init PROVE IInv
  OBVIOUS
<1>2. /\ view = [p \in Page |-> "loading"] /\ isInitiator = [p \in Page |-> FALSE]
      /\ isStarted = [p \in Page |-> FALSE] /\ isChannelReady = [p \in Page |-> FALSE]
      /\ localStream = [p \in Page |-> FALSE] /\ pc = [p \in Page |-> Null(p, 0)]
      /\ making = [p \in Page |-> {}] /\ up = [p \in Page |-> <<>>] /\ down = [p \in Page |-> <<>>]
      /\ room = {} /\ leaves = 0 /\ smooth = TRUE /\ early = {}
  BY <1>1 DEF Init
<1>3. \A p \in Page : Null(p, 0) \in Pc /\ Null(p, 0).there = FALSE
  BY DEF Null, Pc, NoId, Id
<1>4. <<>> \in Seq(ToServer) /\ <<>> \in Seq(ToPage) /\ Cardinality({}) = 0
  BY EmptySeq, FS_EmptySet
<1>5. TypeOK
  BY <1>2, <1>3, <1>4, BoundAssumption DEF TypeOK, Views
<1>6. {"create or join", "leave", "bye", "created"} = Kinds
  BY DEF Kinds
<1>7. ASSUME NEW p \in Page PROVE PageInv(p)
  <2>1. /\ view[p] = "loading" /\ up[p] = <<>> /\ down[p] = <<>> /\ ~isChannelReady[p] /\ ~isInitiator[p]
        /\ p \notin room /\ p \notin early /\ ~pc[p].there
    BY <1>2, <1>3
  <2>2. /\ \A k \in Kinds : ~Has(<<>>, k) /\ First(<<>>, k)
        /\ LeavesFirst(<<>>)
    BY NoneHas
  <2>3. Asks(p) /\ Listens(p) /\ Creates(p)
    BY <1>6, <2>1, <2>2 DEF Asks, Listens, Creates
  <2>4. Relays(p) /\ Parts(p)
    BY <1>6, <2>1, <2>2 DEF Relays, Parts
  <2> QED  BY <2>3, <2>4 DEF PageInv
<1>8. OneClaim /\ SomeClaim
  BY <1>2 DEF OneClaim, SomeClaim
<1> QED  BY <1>5, <1>7, <1>8 DEF IInv

\* Every step of a page or of the server keeps the invariant.
LEMMA Step == IInv /\ [Next]_vars => IInv'
<1>1. SUFFICES ASSUME IInv, [Next]_vars PROVE IInv'
  OBVIOUS
<1>2. TypeOK'
  BY <1>1, TypeStep DEF IInv
<1>3. ASSUME NEW p \in Page,
             \/ StartupBehavior(p) \/ HandleUserMedia(p) \/ Serve(p) \/ Hear(p) \/ Describe(p)
             \/ Unload(p) \/ (\E n \in 0..Len(up[p]) : Die(p, n))
      PROVE  (\A q \in Page : PageInv(q)') /\ OneClaim' /\ SomeClaim'
  <2>1. CASE StartupBehavior(p)
    BY <1>1, <2>1, StartupStep
  <2>2. CASE HandleUserMedia(p) \/ Describe(p)
    BY <1>1, <2>2, SendStep
  <2>3. CASE Serve(p)
    <3>1. CASE CreateOrJoin(p)
      BY <1>1, <3>1, AdmitStep
    <3>2. CASE Relay(p)
      BY <1>1, <3>2, RelayStep
    <3>3. CASE LeaveRoom(p) \/ Disconnect(p)
      BY <1>1, <3>3, LeaveStep
    <3> QED  BY <2>3, <3>1, <3>2, <3>3 DEF Serve
  <2>4. CASE Hear(p)
    BY <1>1, <2>4, HearStep
  <2>5. CASE Unload(p) \/ (\E n \in 0..Len(up[p]) : Die(p, n))
    BY <1>1, <2>5, CloseStep
  <2> QED  BY <1>3, <2>1, <2>2, <2>3, <2>4, <2>5
<1>4. CASE Next
  BY <1>2, <1>3, <1>4 DEF Next, IInv
<1>5. CASE UNCHANGED vars
  <2>1. /\ UNCHANGED <<view, isInitiator, isStarted, isChannelReady, localStream, pc, making, up, down, room, leaves>>
        /\ UNCHANGED <<smooth, early>>
    BY <1>5 DEF vars, flags, history
  <2>2. \A q \in Page : PageInv(q)'
    BY <1>1, <2>1, SamePage DEF IInv
  <2>3. \A q : Claims(q)' <=> Claims(q)
    BY <2>1 DEF Claims
  <2>4. OneClaim' /\ SomeClaim'
    BY <1>1, <2>1, <2>3 DEF IInv, OneClaim, SomeClaim
  <2> QED  BY <1>2, <2>2, <2>4 DEF IInv
<1> QED  BY <1>1, <1>4, <1>5

\* What appWebRTC.js and main.js keep between them, whatever the number of pages and
\* the order of their messages.
THEOREM Invariance == Spec => []IInv
<1>1. Init => IInv
  BY Start
<1>2. IInv /\ [Next]_vars => IInv'
  BY Step
<1> QED  BY <1>1, <1>2, PTL DEF Spec

\* The variables keep their types and 'create or join' never lets a third socket in.
THEOREM TypeCorrectness == Spec => []TypeOK
<1>1. IInv => TypeOK
  BY DEF IInv
<1> QED  BY <1>1, Invariance, PTL

\* The pages agree on who calls: the 'created', the 'bye' and the departures never make
\* two initiators of one room, nor leave it without one.
THEOREM InitiatorsAgree == Spec => []OneInitiator
<1>1. ASSUME IInv PROVE OneInitiator
  <2>1. TypeOK /\ (\A p \in Page : PageInv(p)) /\ OneClaim /\ SomeClaim /\ room \subseteq Page
    BY <1>1 DEF IInv, TypeOK
  <2>2. ASSUME smooth PROVE Cardinality(Initiators) <= 1
    <3>1. \A a, b \in Initiators : a = b
      BY <2>1, <2>2 DEF Initiators, OneClaim, Claims
    <3>2. CASE Initiators = {}
      BY <3>2, FS_EmptySet
    <3>3. CASE Initiators # {}
      <4>1. PICK a : a \in Initiators
        BY <3>3
      <4>2. Initiators = {a}
        BY <3>1, <4>1
      <4> QED  BY <4>2, FS_Singleton
    <3> QED  BY <3>2, <3>3
  <2>3. ASSUME smooth, Quiet, room # {} PROVE Initiators # {}
    <3>1. \A p \in Page : ~Has(up[p], "bye") /\ ~Has(down[p], "created") /\ ~Has(down[p], "bye")
      <4>1. \A p \in Page : up[p] = <<>> /\ down[p] = <<>>
        BY <2>3 DEF Quiet
      <4>2. ~Has(<<>>, "bye") /\ ~Has(<<>>, "created")
        BY NoneHas DEF Kinds
      <4> QED  BY <4>1, <4>2
    <3>2. PICK p \in room : Claims(p)
      BY <2>1, <2>3, <3>1 DEF SomeClaim
    <3>3. isInitiator[p]
      BY <2>1, <3>1, <3>2 DEF Claims
    <3> QED  BY <3>2, <3>3 DEF Initiators
  <2> QED  BY <2>2, <2>3 DEF OneInitiator
<1> QED  BY <1>1, Invariance, PTL

\* The caller's media goes through the TURN server that the broker granted, when its
\* camera was there before anyone joined: maybeStart was then called with the
\* configuration.
THEOREM CallerRelayed == Spec => []CallerRelays
<1>1. ASSUME IInv PROVE CallerRelays
  BY <1>1 DEF IInv, PageInv, Relays, CallerRelays, InCall
<1> QED  BY <1>1, Invariance, PTL
=============================================================================
