-------------------------- MODULE EventStreams_proofs --------------------------
(***************************************************************************)
(* What the browsers of the LHCB broker's event streams see, proved for    *)
(* any number of streams, clients, changes and values.                     *)
(***************************************************************************)
EXTENDS EventStreams, TLAPS

\* An answer is awaited for a stream that is there and the client's registration,
\* or the stream was closed, or the client unregistered, hastily.
Awaited ==
    \A o \in opening :
        /\ endpoint[o[1]] \in Endpoint
        /\ \/ o[1] \in events /\ registered[endpoint[o[1]]] = o[2]
           \/ <<endpoint[o[1]], o[2]>> \in hasty

\* A stream that is watching is there, and its client's registration observed.
Watched ==
    \A e \in watching :
        /\ e \in events /\ endpoint[e] \in Endpoint
        /\ <<endpoint[e], registered[endpoint[e]]>> \in observed

\* Nothing is received, denied or on its way that has not happened.
Bounded ==
    /\ \A e \in Stream :
        /\ seen[e] <= latest[e]
        /\ endpoint[e] = General => latest[e] <= changes /\ denied[e] <= changes
        /\ endpoint[e] \in Endpoint => latest[e] <= value[endpoint[e]]
    /\ \A l \in lists : l.version <= changes
    /\ \A m \in news : m.value <= value[m.of]

\* The list of the clients as they are has been received, denied or is on its way.
ListComing ==
    \A e \in (events \cap Of(General)) \ gone :
        \/ latest[e] = changes \/ denied[e] = changes
        \/ \E l \in lists : e \in l.to /\ l.version = changes

\* The last value of the client has been received or is on its way.
ValueComing ==
    \A e \in watching \ gone : value[endpoint[e]] > since[e] =>
        latest[e] = value[endpoint[e]] \/ [of |-> endpoint[e], value |-> value[endpoint[e]]] \in news

IInv == TypeOK /\ Awaited /\ Watched /\ Bounded /\ ListComing /\ ValueComing /\ NoOrphanObservation
-----------------------------------------------------------------------------
\* The streams of an endpoint; general streams are nobody's.
LEMMA OfFacts ==
    /\ \A c, e : e \in Of(c) <=> e \in Stream /\ endpoint[e] = c
    /\ \A e \in Stream : endpoint[e] \in Endpoint \cup {General}
    /\ General \notin Endpoint
BY StreamAssumption DEF Of

\* Initially there is nothing to see.
LEMMA InitKeeps == Init => IInv
<1> SUFFICES ASSUME Init PROVE IInv
  OBVIOUS
<1>1. TypeOK
  <2>1. registered \in [Endpoint -> 0..MaxChanges] /\ changes \in 0..MaxChanges
    BY BoundAssumption DEF Init
  <2>2. value \in [Endpoint -> 0..MaxValues]
    BY BoundAssumption DEF Init
  <2>3. /\ seen \in [Stream -> Nat] /\ since \in [Stream -> Nat]
        /\ latest \in [Stream -> Nat] /\ denied \in [Stream -> Nat]
    BY DEF Init
  <2> QED  BY <2>1, <2>2, <2>3 DEF Init, TypeOK
<1>2. Awaited /\ Watched /\ ListComing /\ ValueComing /\ NoOrphanObservation
  BY DEF Init, Awaited, Watched, ListComing, ValueComing, NoOrphanObservation
<1>3. Bounded
  BY OfFacts DEF Init, Bounded
<1> QED  BY <1>1, <1>2, <1>3 DEF IInv

\* onOpen of a stream: a general one has its list coming.
LEMMA OnOpenKeeps == ASSUME IInv, NEW e \in Stream, OnOpen(e) PROVE IInv'
<1> USE DEF IInv, OnOpen, Opens, leshan, history
<1>1. CASE endpoint[e] = General
  <2> DEFINE l == [to |-> {e}, version |-> changes]
  <2>1. /\ lists' = lists \cup {l} /\ l.to = {e} /\ l.version = changes
        /\ UNCHANGED opening /\ events' = events \cup {e} /\ used' = used \cup {e}
    BY <1>1, OfFacts DEF NewList
  <2>2. l \in [to : SUBSET Of(General), version : 0..MaxChanges] /\ changes \in Nat
    BY <1>1, OfFacts DEF TypeOK
  <2> HIDE DEF l
  <2>3. TypeOK'
    BY <2>1, <2>2 DEF TypeOK
  <2>4. Awaited' /\ Watched' /\ ValueComing' /\ NoOrphanObservation'
    BY <2>1 DEF Awaited, Watched, ValueComing, NoOrphanObservation
  <2>5. Bounded'
    BY <2>1, <2>2 DEF Bounded
  <2>6. ListComing'
    BY <2>1 DEF ListComing
  <2> QED  BY <2>3, <2>4, <2>5, <2>6
<1>2. CASE endpoint[e] # General
  <2>1. UNCHANGED lists /\ events' = events \cup {e} /\ used' = used \cup {e}
    BY <1>2
  <2>2. opening' = opening \/ (opening' = opening \cup {<<e, registered[endpoint[e]]>>} /\ IsRegistered(endpoint[e]))
    BY <1>2
  <2>3. opening' \subseteq Stream \X (1..MaxChanges)
    BY <2>2 DEF TypeOK, IsRegistered
  <2>4. TypeOK'
    BY <2>1, <2>3 DEF TypeOK
  <2>5. Awaited'
    <3> SUFFICES ASSUME NEW o \in opening', o \notin opening
                 PROVE  /\ endpoint[o[1]] \in Endpoint
                        /\ o[1] \in events' /\ registered[endpoint[o[1]]] = o[2]
      BY <2>1 DEF Awaited
    <3>1. o = <<e, registered[endpoint[e]]>> /\ IsRegistered(endpoint[e])
      BY <2>2
    <3> QED  BY <2>1, <3>1 DEF IsRegistered
  <2>6. Watched' /\ ValueComing' /\ NoOrphanObservation' /\ Bounded'
    BY <2>1 DEF Watched, ValueComing, NoOrphanObservation, Bounded
  <2>7. ListComing'
    BY <1>2, <2>1, OfFacts DEF ListComing
  <2> QED  BY <2>4, <2>5, <2>6, <2>7
<1> QED  BY <1>1, <1>2

\* The answer to an observation: no value is newer than it.
LEMMA ObserveResponseKeeps ==
    ASSUME IInv, NEW o \in opening, NEW ok \in BOOLEAN, ObserveResponse(o[1], o[2], ok)
    PROVE  IInv'
<1> USE DEF IInv, ObserveResponse
<1> DEFINE e == o[1]
           c == endpoint[o[1]]
           n == o[2]
<1>1. /\ e \in Stream /\ c \in Endpoint /\ n \in 1..MaxChanges /\ value[c] \in Nat
      /\ (e \in events /\ registered[c] = n) \/ <<c, n>> \in hasty
  BY DEF Awaited, TypeOK
<1>2. /\ opening' = opening \ {<<e, n>>}
      /\ observed' = observed \/ observed' = observed \cup {<<c, n>>}
      /\ UNCHANGED <<events, gone, used, registered, changes, value, lists, news, seen, latest, denied, hasty>>
  OBVIOUS
<1>3. \/ UNCHANGED <<since, watching>>
      \/ /\ registered[c] = n /\ observed' = observed \cup {<<c, n>>}
         /\ watching' = watching \cup ({e} \cap events)
         /\ since' = [since EXCEPT ![e] = IF e \in gone THEN 0 ELSE value[c]]
  OBVIOUS
<1> HIDE DEF ObserveResponse
<1>4. /\ since' \in [Stream -> Nat] /\ watching' \subseteq Stream
      /\ \A x \in Stream : x # e => since'[x] = since[x]
  BY <1>1, <1>3 DEF TypeOK
<1>5. TypeOK'
  BY <1>1, <1>2, <1>4 DEF TypeOK
<1>6. Awaited' /\ Bounded' /\ ListComing'
  BY <1>2 DEF Awaited, Bounded, ListComing
<1>7. Watched'
  BY <1>1, <1>2, <1>3 DEF Watched
<1>8. NoOrphanObservation'
  <2> SUFFICES ASSUME NEW p \in observed', p \notin hasty
               PROVE  p[2] = registered[p[1]] /\ \E x \in events : endpoint[x] = p[1]
    BY <1>2 DEF NoOrphanObservation
  <2>1. CASE p \in observed
    BY <2>1 DEF NoOrphanObservation
  <2>2. CASE p = <<c, n>>
    BY <2>2, <1>1
  <2> QED  BY <1>2, <2>1, <2>2
<1>9. ValueComing'
  <2>1. CASE UNCHANGED <<since, watching>>
    BY <1>2, <2>1 DEF ValueComing
  <2>2. CASE watching' = watching \cup ({e} \cap events) /\ since' = [since EXCEPT ![e] = IF e \in gone THEN 0 ELSE value[c]]
    <3>1. e \notin gone => since'[e] = value[c]
      BY <2>2, <1>1 DEF TypeOK
    <3>2. \A x \in watching : x \in Stream
      BY DEF TypeOK
    <3> QED  BY <1>1, <1>2, <1>4, <2>2, <3>1, <3>2 DEF ValueComing
  <2> QED  BY <1>3, <2>1, <2>2
<1> QED  BY <1>5, <1>6, <1>7, <1>8, <1>9

\* onClose of streams: whoever relied on their clients' observations is not watching
\* any more, and every other observation keeps its stream.
LEMMA OnCloseKeeps ==
    ASSUME IInv, NEW es \in SUBSET Stream, OnCloseAll(es), UNCHANGED <<opening, registered>>
    PROVE  /\ events' \subseteq events /\ watching' \subseteq watching /\ observed' \subseteq observed
           /\ hasty' \subseteq (Endpoint \cup {General}) \X (1..MaxChanges)
           /\ Awaited' /\ Watched' /\ NoOrphanObservation'
<1> DEFINE cs == {endpoint[e] : e \in es}
           new == {<<endpoint[o[1]], o[2]>> : o \in {o \in opening : o[1] \in es}}
<1>1. /\ events' = events \ es
      /\ observed' = {o \in observed : ~(o[1] \in cs /\ o[2] = registered[o[1]])}
      /\ watching' = {e \in watching \ es : endpoint[e] \notin cs}
      /\ hasty' = hasty \cup new
  BY DEF OnCloseAll, Remove
<1>2. /\ \A e \in es : endpoint[e] \in cs
      /\ \A o \in opening : o[1] \in es => <<endpoint[o[1]], o[2]>> \in new
  OBVIOUS
<1>3. new \subseteq Endpoint \X (1..MaxChanges)
  BY DEF IInv, TypeOK, Awaited
<1> HIDE DEF cs, new
<1>4. hasty' \subseteq (Endpoint \cup {General}) \X (1..MaxChanges)
  BY <1>1, <1>3 DEF IInv, TypeOK
<1>5. Awaited'
  BY <1>1, <1>2 DEF IInv, Awaited
<1>6. Watched'
  <2> SUFFICES ASSUME NEW e \in watching'
               PROVE  /\ e \in events' /\ endpoint[e] \in Endpoint
                      /\ <<endpoint[e], registered[endpoint[e]]>> \in observed'
    BY DEF Watched
  <2> DEFINE p == <<endpoint[e], registered[endpoint[e]]>>
  <2>1. e \in watching /\ e \notin es /\ endpoint[e] \notin cs
    BY <1>1
  <2>2. e \in events /\ endpoint[e] \in Endpoint /\ p \in observed
    BY <2>1 DEF IInv, Watched
  <2>3. p[1] = endpoint[e]
    OBVIOUS
  <2> QED  BY <1>1, <2>1, <2>2, <2>3
<1>7. NoOrphanObservation'
  <2> SUFFICES ASSUME NEW o \in observed', o \notin hasty'
               PROVE  o[2] = registered[o[1]] /\ \E e \in events' : endpoint[e] = o[1]
    BY DEF NoOrphanObservation
  <2>1. o \in observed /\ o \notin hasty /\ ~(o[1] \in cs /\ o[2] = registered[o[1]])
    BY <1>1
  <2>2. o[2] = registered[o[1]]
    BY <2>1 DEF IInv, NoOrphanObservation
  <2>3. PICK e \in events : endpoint[e] = o[1]
    BY <2>1 DEF IInv, NoOrphanObservation
  <2> QED  BY <1>1, <1>2, <2>1, <2>2, <2>3
<1> QED  BY <1>1, <1>4, <1>5, <1>6, <1>7

\* The browser goes away: what it saw does not matter any more.
LEMMA LeaveKeeps == ASSUME IInv, NEW e \in Stream, Leave(e) PROVE IInv'
<1> USE DEF IInv, Leave, leshan
<1>1. TypeOK'
  BY DEF TypeOK
<1>2. Awaited' /\ Watched' /\ NoOrphanObservation'
  BY DEF Awaited, Watched, NoOrphanObservation
<1>3. /\ \A x \in Stream : x # e => seen'[x] = seen[x] /\ since'[x] = since[x]
                                     /\ latest'[x] = latest[x] /\ denied'[x] = denied[x]
      /\ seen'[e] = 0 /\ latest'[e] = 0 /\ denied'[e] = 0
  BY DEF TypeOK
<1>4. ListComing'
  BY <1>3, OfFacts DEF ListComing
<1>5. ValueComing'
  BY <1>3 DEF ValueComing, TypeOK
<1>6. Bounded'
  BY <1>3 DEF Bounded, TypeOK
<1> QED  BY <1>1, <1>2, <1>4, <1>5, <1>6

\* Jetty notices.
LEMMA NoticeKeeps == ASSUME IInv, NEW e \in Stream, Notice(e) PROVE IInv'
<1>1. /\ OnCloseAll({e}) /\ {e} \in SUBSET Stream
      /\ UNCHANGED <<opening, gone, used, registered, changes, value, lists, news, seen, since, latest, denied>>
  BY DEF Notice
<1>2. /\ events' \subseteq events /\ watching' \subseteq watching /\ observed' \subseteq observed
      /\ hasty' \subseteq (Endpoint \cup {General}) \X (1..MaxChanges)
      /\ Awaited' /\ Watched' /\ NoOrphanObservation'
  BY <1>1, OnCloseKeeps
<1>3. TypeOK'
  BY <1>1, <1>2 DEF IInv, TypeOK
<1>4. Bounded' /\ ListComing' /\ ValueComing'
  BY <1>1, <1>2 DEF IInv, Bounded, ListComing, ValueComing
<1> QED  BY <1>2, <1>3, <1>4 DEF IInv

\* A change of the clients puts together the list that all general streams wait for.
LEMMA NewListKeeps ==
    ASSUME IInv, NewList(Of(General), changes + 1), changes' = changes + 1, changes < MaxChanges,
           UNCHANGED <<events, gone, value, news, seen, latest, denied>>
    PROVE  /\ lists' \subseteq [to : SUBSET Of(General), version : 0..MaxChanges]
           /\ changes' \in 0..MaxChanges /\ changes + 1 \in 1..MaxChanges
           /\ Bounded' /\ ListComing'
<1> DEFINE l == [to |-> Of(General), version |-> changes + 1]
<1>1. lists' = lists \cup {l} /\ l.to = Of(General) /\ l.version = changes'
  BY DEF NewList
<1>2. changes \in Nat /\ changes' \in 0..MaxChanges /\ changes + 1 \in 1..MaxChanges
      /\ \A k \in lists : k.version \in Nat
  BY BoundAssumption DEF IInv, TypeOK
<1>3. l \in [to : SUBSET Of(General), version : 0..MaxChanges]
  BY <1>2
<1> HIDE DEF l
<1>4. lists' \subseteq [to : SUBSET Of(General), version : 0..MaxChanges]
  BY <1>1, <1>3 DEF IInv, TypeOK
<1>5. Bounded'
  BY <1>1, <1>2 DEF IInv, Bounded, TypeOK
<1>6. ListComing'
  BY <1>1 DEF ListComing
<1> QED  BY <1>2, <1>4, <1>5, <1>6

\* registered: whatever still awaits the client's answer is of a registration that was.
LEMMA RegisterKeeps == ASSUME IInv, NEW c \in Endpoint, Register(c) PROVE IInv'
<1> USE DEF Register, history
<1>1. /\ lists' \subseteq [to : SUBSET Of(General), version : 0..MaxChanges]
      /\ changes' \in 0..MaxChanges /\ changes + 1 \in 1..MaxChanges /\ Bounded' /\ ListComing'
  BY NewListKeeps
<1>2. /\ registered' \in [Endpoint -> 0..MaxChanges] /\ registered[c] = 0
      /\ \A x \in Endpoint : x # c => registered'[x] = registered[x]
  BY <1>1 DEF IInv, TypeOK
<1>3. TypeOK'
  BY <1>1, <1>2 DEF IInv, TypeOK
<1>4. Awaited'
  BY <1>2 DEF IInv, Awaited, TypeOK
<1>5. Watched'
  <2>1. \A e \in watching : endpoint[e] # c
    <3> SUFFICES ASSUME NEW e \in watching, endpoint[e] = c PROVE FALSE
      OBVIOUS
    <3>1. <<c, 0>> \in observed
      BY <1>2 DEF IInv, Watched
    <3> QED  BY <3>1 DEF IInv, TypeOK
  <2> QED  BY <1>2, <2>1 DEF IInv, Watched
<1>6. NoOrphanObservation'
  BY <1>2 DEF IInv, NoOrphanObservation, TypeOK
<1>7. ValueComing'
  BY DEF IInv, ValueComing
<1> QED  BY <1>1, <1>3, <1>4, <1>5, <1>6, <1>7 DEF IInv

\* unregistered: its streams are not watching any more.
LEMMA UnregisterKeeps == ASSUME IInv, NEW c \in Endpoint, Unregister(c) PROVE IInv'
<1> DEFINE new == {<<endpoint[o[1]], o[2]>> : o \in {o \in opening : endpoint[o[1]] = c}}
<1>1. /\ registered[c] # 0 /\ changes < MaxChanges /\ changes' = changes + 1
      /\ registered' = [registered EXCEPT ![c] = 0]
      /\ observed' = observed \ {<<c, registered[c]>>} /\ watching' = watching \ Of(c)
      /\ hasty' = hasty \cup new /\ NewList(Of(General), changes + 1)
      /\ UNCHANGED <<events, opening, gone, used, value, news, seen, since, latest, denied>>
  BY DEF Unregister, Unregisters
<1>2. /\ new \subseteq Endpoint \X (1..MaxChanges)
      /\ \A o \in opening : endpoint[o[1]] = c => <<endpoint[o[1]], o[2]>> \in new
  BY DEF IInv, TypeOK, Awaited
<1> HIDE DEF new
<1>3. /\ lists' \subseteq [to : SUBSET Of(General), version : 0..MaxChanges]
      /\ changes' \in 0..MaxChanges /\ Bounded' /\ ListComing'
  BY <1>1, NewListKeeps
<1>4. /\ registered' \in [Endpoint -> 0..MaxChanges]
      /\ \A x \in Endpoint : x # c => registered'[x] = registered[x]
  BY <1>1, BoundAssumption DEF IInv, TypeOK
<1>5. TypeOK'
  BY <1>1, <1>2, <1>3, <1>4 DEF IInv, TypeOK
<1>6. Awaited'
  BY <1>1, <1>2, <1>4 DEF IInv, Awaited
<1>7. Watched'
  BY <1>1, <1>4, OfFacts DEF IInv, Watched, TypeOK
<1>8. NoOrphanObservation'
  <2> SUFFICES ASSUME NEW o \in observed', o \notin hasty'
               PROVE  o[2] = registered'[o[1]] /\ \E e \in events' : endpoint[e] = o[1]
    BY DEF NoOrphanObservation
  <2>1. /\ o \in observed /\ o \notin hasty /\ o # <<c, registered[c]>>
        /\ o[1] \in Endpoint /\ o = <<o[1], o[2]>>
    BY <1>1 DEF IInv, TypeOK
  <2>2. o[2] = registered[o[1]] /\ \E e \in events : endpoint[e] = o[1]
    BY <2>1 DEF IInv, NoOrphanObservation
  <2>3. o[1] # c
    BY <2>1, <2>2
  <2> QED  BY <1>1, <1>4, <2>1, <2>2, <2>3
<1>9. ValueComing'
  BY <1>1 DEF IInv, ValueComing
<1> QED  BY <1>3, <1>5, <1>6, <1>7, <1>8, <1>9 DEF IInv

\* newValue: the value every stream that is watching waits for is put together.
LEMMA NewValueKeeps == ASSUME IInv, NEW c \in Endpoint, NewValue(c) PROVE IInv'
<1> DEFINE m == [of |-> c, value |-> value[c] + 1]
<1>1. /\ UNCHANGED <<events, opening, gone, used, registered, changes, observed, lists, seen,
                     since, watching, latest, denied, hasty>>
      /\ registered[c] # 0 /\ value[c] < MaxValues /\ value' = [value EXCEPT ![c] = @ + 1]
      /\ news' = IF <<c, registered[c]>> \in observed THEN news \cup {m} ELSE news
  BY DEF NewValue, history
<1>2. /\ value' \in [Endpoint -> 0..MaxValues] /\ value'[c] = value[c] + 1 /\ value[c] \in Nat
      /\ \A x \in Endpoint : x # c => value'[x] = value[x]
  BY <1>1, BoundAssumption DEF IInv, TypeOK
<1>3. m \in [of : Endpoint, value : 1..MaxValues] /\ m.of = c /\ m.value = value'[c]
  BY <1>1, <1>2, BoundAssumption
<1>4. m = [of |-> c, value |-> value'[c]]
  BY <1>2
<1> HIDE DEF m
<1>5. TypeOK'
  BY <1>1, <1>2, <1>3 DEF IInv, TypeOK
<1>6. Awaited' /\ Watched' /\ NoOrphanObservation' /\ ListComing'
  BY <1>1 DEF IInv, Awaited, Watched, NoOrphanObservation, ListComing
<1>7. Bounded'
  <2>1. \A x \in Endpoint : value[x] <= value'[x] /\ value[x] \in Nat /\ value'[x] \in Nat
    BY <1>2 DEF IInv, TypeOK
  <2>2. \A k \in news' : k.value <= value'[k.of]
    <3> SUFFICES ASSUME NEW k \in news' PROVE k.value <= value'[k.of]
      OBVIOUS
    <3>1. CASE k \in news
      BY <3>1, <2>1 DEF IInv, Bounded, TypeOK
    <3>2. CASE k = m
      BY <3>2, <1>3, <2>1
    <3> QED  BY <1>1, <3>1, <3>2
  <2>3. \A e \in Stream : endpoint[e] \in Endpoint => latest[e] <= value'[endpoint[e]]
    BY <2>1 DEF IInv, Bounded, TypeOK
  <2> QED  BY <1>1, <2>2, <2>3 DEF IInv, Bounded
<1>8. ValueComing'
  <2> SUFFICES ASSUME NEW e \in watching \ gone, value'[endpoint[e]] > since[e]
               PROVE  \/ latest[e] = value'[endpoint[e]]
                      \/ [of |-> endpoint[e], value |-> value'[endpoint[e]]] \in news'
    BY <1>1 DEF ValueComing
  <2>1. endpoint[e] \in Endpoint /\ <<endpoint[e], registered[endpoint[e]]>> \in observed
    BY DEF IInv, Watched
  <2>2. CASE endpoint[e] = c
    BY <2>1, <2>2, <1>1, <1>4
  <2>3. CASE endpoint[e] # c
    BY <2>1, <2>3, <1>1, <1>2 DEF IInv, ValueComing
  <2> QED  BY <2>2, <2>3
<1> QED  BY <1>5, <1>6, <1>7, <1>8 DEF IInv

\* What the browsers of streams have received afterwards.
LEMMA ReceiveFacts ==
    ASSUME TypeOK, Bounded, NEW es \in SUBSET Stream, NEW n \in Nat, Receive(es, n)
    PROVE  /\ seen' \in [Stream -> Nat] /\ latest' \in [Stream -> Nat]
           /\ \A e \in Stream : seen'[e] <= latest'[e]
           /\ \A e \in Stream : latest'[e] = latest[e] \/ (e \in es /\ latest'[e] = n)
           /\ \A e \in Stream : e \notin es => seen'[e] = seen[e] /\ latest'[e] = latest[e]
           /\ \A e \in es \ gone : latest[e] <= n => latest'[e] = n
<1>1. \A e \in Stream : /\ seen[e] \in Nat /\ latest[e] \in Nat /\ seen[e] <= latest[e]
                        /\ Later(latest[e], n) \in {latest[e], n} /\ Later(latest[e], n) >= n
                        /\ latest[e] <= n => Later(latest[e], n) = n
  BY DEF TypeOK, Bounded, Later
<1>2. /\ seen' = [e \in Stream |-> IF e \in es \ gone THEN n ELSE seen[e]]
      /\ latest' = [e \in Stream |-> IF e \in es \ gone THEN Later(latest[e], n) ELSE latest[e]]
  BY DEF Receive
<1>3. seen' \in [Stream -> Nat] /\ latest' \in [Stream -> Nat]
  BY <1>1, <1>2
<1> QED  BY <1>1, <1>2, <1>3

\* sendEvent of a value: it is received, or a later one is on its way.
LEMMA SendValueKeeps ==
    ASSUME IInv, NEW m \in news, NEW es \in SUBSET (Of(m.of) \cap gone), SendValue(m, es)
    PROVE  IInv'
<1> DEFINE c == m.of
<1>1. /\ news' = news \ {m} /\ Receive(Matches(c), m.value) /\ OnCloseAll(es)
      /\ UNCHANGED <<opening, gone, used, registered, changes, value, lists, since, denied>>
  BY DEF SendValue
<1>2. /\ c \in Endpoint /\ m.value \in Nat /\ m = [of |-> c, value |-> m.value]
      /\ m.value <= value[c] /\ value[c] \in Nat
  BY DEF IInv, TypeOK, Bounded
<1>3. /\ es \in SUBSET Stream /\ Matches(c) \in SUBSET Stream
      /\ \A e \in Matches(c) : endpoint[e] = c
      /\ \A e \in events : e \in Stream /\ (endpoint[e] = c => e \in Matches(c))
  BY OfFacts DEF Matches, IInv, TypeOK
<1>4. /\ events' \subseteq events /\ watching' \subseteq watching /\ observed' \subseteq observed
      /\ hasty' \subseteq (Endpoint \cup {General}) \X (1..MaxChanges)
      /\ Awaited' /\ Watched' /\ NoOrphanObservation'
  BY <1>1, <1>3, OnCloseKeeps
<1>5. /\ seen' \in [Stream -> Nat] /\ latest' \in [Stream -> Nat]
      /\ \A e \in Stream : seen'[e] <= latest'[e]
      /\ \A e \in Stream : latest'[e] = latest[e] \/ (e \in Matches(c) /\ latest'[e] = m.value)
      /\ \A e \in Stream : e \notin Matches(c) => seen'[e] = seen[e] /\ latest'[e] = latest[e]
      /\ \A e \in Matches(c) \ gone : latest[e] <= m.value => latest'[e] = m.value
  BY <1>1, <1>2, <1>3, ReceiveFacts DEF IInv
<1>6. TypeOK'
  BY <1>1, <1>4, <1>5 DEF IInv, TypeOK
<1>7. Bounded'
  BY <1>1, <1>2, <1>3, <1>5, OfFacts DEF IInv, Bounded
<1>8. ListComing'
  BY <1>1, <1>2, <1>3, <1>4, <1>5, OfFacts DEF IInv, ListComing
<1>9. ValueComing'
  <2> SUFFICES ASSUME NEW e \in watching' \ gone', value[endpoint[e]] > since[e]
               PROVE  \/ latest'[e] = value[endpoint[e]]
                      \/ [of |-> endpoint[e], value |-> value[endpoint[e]]] \in news'
    BY <1>1 DEF ValueComing
  <2>1. e \in watching \ gone /\ e \in events /\ e \in Stream /\ endpoint[e] \in Endpoint
    BY <1>1, <1>4, <1>3 DEF IInv, Watched
  <2>2. latest[e] <= value[endpoint[e]]
    BY <2>1 DEF IInv, Bounded
  <2> DEFINE k == [of |-> endpoint[e], value |-> value[endpoint[e]]]
  <2>3. latest[e] = value[endpoint[e]] \/ k \in news
    BY <2>1 DEF IInv, ValueComing
  <2>4. CASE endpoint[e] = c /\ m.value = value[c]
    BY <1>3, <1>5, <2>1, <2>2, <2>4
  <2>5. CASE ~(endpoint[e] = c /\ m.value = value[c])
    <3>1. k # m
      BY <2>5
    <3>2. latest[e] = value[endpoint[e]] => latest'[e] = latest[e]
      <4>1. CASE endpoint[e] # c
        BY <4>1, <1>3, <1>5, <2>1
      <4>2. CASE endpoint[e] = c
        <5> SUFFICES ASSUME latest[e] = value[c] PROVE latest'[e] = latest[e]
          BY <4>2
        <5>1. m.value < latest[e] /\ latest[e] \in Nat
          BY <1>2, <2>5, <4>2
        <5>2. latest'[e] = Later(latest[e], m.value) \/ latest'[e] = latest[e]
          BY <1>1, <2>1 DEF Receive
        <5> QED  BY <5>1, <5>2, <1>2 DEF Later
      <4> QED  BY <4>1, <4>2
    <3> QED  BY <1>1, <2>3, <3>1, <3>2
  <2> QED  BY <2>4, <2>5
<1> QED  BY <1>4, <1>6, <1>7, <1>8, <1>9 DEF IInv

\* sendEvent of a list: it is received, or a later one is on its way.
LEMMA SendListKeeps == ASSUME IInv, NEW l \in lists, SendList(l) PROVE IInv'
<1> DEFINE to == Matches(General) \cap l.to
<1>1. /\ UNCHANGED <<events, opening, gone, used, registered, changes, observed, value, news, since,
                     watching, denied, hasty>>
      /\ lists' = lists \ {l} /\ Receive(to, l.version)
  BY DEF SendList, leshan
<1>2. l.version \in Nat /\ l.to \subseteq Of(General) /\ l.version <= changes /\ changes \in Nat
  BY DEF IInv, TypeOK, Bounded
<1>3. /\ to \in SUBSET Stream /\ \A e \in to : endpoint[e] = General /\ e \in l.to
      /\ \A e \in events : e \in l.to => e \in to
  BY <1>2, OfFacts DEF Matches
<1> HIDE DEF to
<1>4. /\ seen' \in [Stream -> Nat] /\ latest' \in [Stream -> Nat]
      /\ \A e \in Stream : seen'[e] <= latest'[e]
      /\ \A e \in Stream : latest'[e] = latest[e] \/ (e \in to /\ latest'[e] = l.version)
      /\ \A e \in Stream : e \notin to => seen'[e] = seen[e] /\ latest'[e] = latest[e]
      /\ \A e \in to \ gone : latest[e] <= l.version => latest'[e] = l.version
  BY <1>1, <1>2, <1>3, ReceiveFacts DEF IInv
<1>5. TypeOK'
  BY <1>1, <1>4 DEF IInv, TypeOK
<1>6. Awaited' /\ Watched' /\ NoOrphanObservation'
  BY <1>1 DEF IInv, Awaited, Watched, NoOrphanObservation
<1>7. Bounded'
  BY <1>1, <1>2, <1>3, <1>4, OfFacts DEF IInv, Bounded
<1>8. ListComing'
  <2> SUFFICES ASSUME NEW e \in (events \cap Of(General)) \ gone, denied[e] # changes
               PROVE  \/ latest'[e] = changes
                      \/ \E k \in lists' : e \in k.to /\ k.version = changes
    BY <1>1 DEF ListComing
  <2>1. e \in Stream /\ latest[e] \in Nat /\ latest[e] <= changes
    BY OfFacts DEF IInv, Bounded, TypeOK
  <2>2. CASE latest[e] = changes
    BY <2>1, <2>2, <1>1, <1>2 DEF Receive, Later
  <2>3. ASSUME NEW k \in lists, e \in k.to, k.version = changes PROVE latest'[e] = changes \/ k \in lists'
    BY <2>1, <2>3, <1>1, <1>3, <1>4
  <2> QED  BY <2>2, <2>3 DEF IInv, ListComing
<1>9. ValueComing'
  <2>1. \A e \in watching : e \in Stream /\ endpoint[e] \in Endpoint
    BY DEF IInv, TypeOK, Watched
  <2>2. \A e \in watching : latest'[e] = latest[e]
    BY <1>3, <1>4, <2>1, OfFacts
  <2> QED  BY <1>1, <2>2 DEF IInv, ValueComing
<1> QED  BY <1>5, <1>6, <1>7, <1>8, <1>9 DEF IInv

\* An emitter throws: one general stream is removed, some of the others hear.
LEMMA SendListThrowsKeeps ==
    ASSUME IInv, NEW l \in lists, NEW es \in SUBSET (Matches(General) \ gone), NEW x \in Of(General),
           SendListThrows(l, es, x)
    PROVE  IInv'
<1> DEFINE all == Matches(General) \cap l.to
           to == all \cap es
<1>1. /\ UNCHANGED <<opening, gone, used, registered, changes, observed, value, news, since, watching, hasty>>
      /\ lists' = lists \ {l} /\ events' = events \ {x} /\ Receive(to, l.version)
      /\ denied' = [e \in Stream |-> IF e \in (all \ es) \ gone THEN Later(denied[e], l.version) ELSE denied[e]]
  BY DEF SendListThrows, leshan
<1>2. /\ l.version \in Nat /\ l.to \subseteq Of(General) /\ l.version <= changes /\ changes \in Nat
      /\ x \in Stream /\ endpoint[x] = General
  BY OfFacts DEF IInv, TypeOK, Bounded
<1>3. /\ to \in SUBSET Stream /\ \A e \in to : endpoint[e] = General /\ e \in l.to
      /\ \A e \in events : e \in l.to => e \in to \/ e \in all \ es
  BY <1>2, OfFacts DEF Matches
<1> HIDE DEF to, all
<1>4. /\ seen' \in [Stream -> Nat] /\ latest' \in [Stream -> Nat]
      /\ \A e \in Stream : seen'[e] <= latest'[e]
      /\ \A e \in Stream : latest'[e] = latest[e] \/ (e \in to /\ latest'[e] = l.version)
      /\ \A e \in Stream : e \notin to => seen'[e] = seen[e] /\ latest'[e] = latest[e]
      /\ \A e \in to \ gone : latest[e] <= l.version => latest'[e] = l.version
  BY <1>1, <1>2, <1>3, ReceiveFacts DEF IInv
<1>5. /\ denied' \in [Stream -> Nat]
      /\ \A e \in Stream : /\ denied[e] <= changes => denied'[e] <= changes
                           /\ denied[e] = changes => denied'[e] = changes
                           /\ e \in (all \ es) \ gone /\ denied[e] <= l.version => denied'[e] = l.version
  <2>1. \A e \in Stream : denied[e] \in Nat /\ Later(denied[e], l.version) \in {denied[e], l.version}
                          /\ Later(denied[e], l.version) >= denied[e]
                          /\ (denied[e] <= l.version => Later(denied[e], l.version) = l.version)
    BY <1>2 DEF IInv, TypeOK, Later
  <2> QED  BY <1>1, <1>2, <2>1
<1>6. TypeOK'
  BY <1>1, <1>4, <1>5 DEF IInv, TypeOK
<1>7. Awaited' /\ Watched'
  BY <1>1, <1>2, OfFacts DEF IInv, Awaited, Watched
<1>8. NoOrphanObservation'
  BY <1>1, <1>2, OfFacts DEF IInv, NoOrphanObservation, TypeOK
<1>9. Bounded'
  BY <1>1, <1>2, <1>3, <1>4, <1>5, OfFacts DEF IInv, Bounded
<1>10. ListComing'
  <2> SUFFICES ASSUME NEW e \in (events \cap Of(General)) \ gone
               PROVE  \/ latest'[e] = changes \/ denied'[e] = changes
                      \/ \E k \in lists' : e \in k.to /\ k.version = changes
    BY <1>1 DEF ListComing
  <2>1. e \in Stream /\ latest[e] \in Nat /\ latest[e] <= changes /\ denied[e] <= changes
    BY OfFacts DEF IInv, Bounded, TypeOK
  <2>2. CASE latest[e] = changes
    BY <2>1, <2>2, <1>1, <1>2 DEF Receive, Later
  <2>3. CASE denied[e] = changes
    BY <2>1, <2>3, <1>5
  <2>4. ASSUME NEW k \in lists, e \in k.to, k.version = changes
        PROVE  latest'[e] = changes \/ denied'[e] = changes \/ k \in lists'
    BY <2>1, <2>4, <1>1, <1>3, <1>4, <1>5
  <2> QED  BY <2>2, <2>3, <2>4 DEF IInv, ListComing
<1>11. ValueComing'
  <2>1. \A e \in watching : e \in Stream /\ endpoint[e] \in Endpoint
    BY DEF IInv, TypeOK, Watched
  <2>2. \A e \in watching : latest'[e] = latest[e]
    BY <1>3, <1>4, <2>1, OfFacts
  <2> QED  BY <1>1, <2>2 DEF IInv, ValueComing
<1> QED  BY <1>6, <1>7, <1>8, <1>9, <1>10, <1>11 DEF IInv
-----------------------------------------------------------------------------
\* Every step of Jetty's and Leshan's threads keeps the invariant.
LEMMA NextKeeps == IInv /\ [Next]_vars => IInv'
<1> SUFFICES ASSUME IInv, [Next]_vars PROVE IInv'
  OBVIOUS
<1>1. ASSUME NEW e \in Stream, OnOpen(e) \/ Leave(e) \/ Notice(e) PROVE IInv'
  BY <1>1, OnOpenKeeps, LeaveKeeps, NoticeKeeps
<1>2. ASSUME NEW o \in opening, NEW ok \in BOOLEAN, ObserveResponse(o[1], o[2], ok) PROVE IInv'
  BY <1>2, ObserveResponseKeeps
<1>3. ASSUME NEW c \in Endpoint, Register(c) \/ Unregister(c) \/ NewValue(c) PROVE IInv'
  BY <1>3, RegisterKeeps, UnregisterKeeps, NewValueKeeps
<1>4. ASSUME NEW m \in news, NEW es \in SUBSET (Of(m.of) \cap gone), SendValue(m, es) PROVE IInv'
  BY <1>4, SendValueKeeps
<1>5. ASSUME NEW l \in lists, SendList(l) PROVE IInv'
  BY <1>5, SendListKeeps
<1>6. ASSUME NEW l \in lists, NEW es \in SUBSET (Matches(General) \ gone), NEW e \in Of(General),
             SendListThrows(l, es, e)
      PROVE  IInv'
  BY <1>6, SendListThrowsKeeps
<1>7. CASE UNCHANGED vars
  BY <1>7 DEF IInv, TypeOK, Awaited, Watched, Bounded, ListComing, ValueComing, NoOrphanObservation,
              vars, leshan, history
<1> QED  BY <1>1, <1>2, <1>3, <1>4, <1>5, <1>6, <1>7 DEF Next

\* The inductive invariant holds in every reachable state.
THEOREM Invariance == Spec => []IInv
<1>1. IInv /\ [Next]_vars => IInv'
  BY NextKeeps
<1> QED  BY <1>1, InitKeeps, PTL DEF Spec

\* Each variable keeps its type, and only registrations that were made are observed.
THEOREM TypeCorrectness == Spec => []TypeOK
BY Invariance, PTL DEF IInv

\* Once no value of its client is on its way, a browser whose observation has not been
\* cancelled (onClose of another stream, the client's deregistration) has received the
\* last one; it shows an older one only if that was sent after it.
THEOREM ValuesCurrent == Spec => []ValueCurrent
<1>1. IInv => ValueCurrent
  <2> SUFFICES ASSUME IInv, NEW e \in watching \ gone, value[endpoint[e]] > since[e],
                      \A m \in news : m.of # endpoint[e]
               PROVE  seen[e] = value[endpoint[e]] \/ (latest[e] = value[endpoint[e]] /\ seen[e] < latest[e])
    BY DEF ValueCurrent
  <2>1. latest[e] = value[endpoint[e]]
    BY DEF IInv, ValueComing
  <2>2. e \in Stream /\ seen[e] \in Nat /\ latest[e] \in Nat /\ seen[e] <= latest[e]
    BY DEF IInv, TypeOK, Bounded
  <2> QED  BY <2>1, <2>2
<1> QED  BY <1>1, Invariance, PTL

\* Once no list of the clients is on its way, a general stream has received the last
\* one, or an emitter threw in the very sending of it; it shows an older one only if
\* that was sent after it.
THEOREM ListsCurrent == Spec => []ListCurrent
<1>1. IInv => ListCurrent
  <2> SUFFICES ASSUME IInv, lists = {}, NEW e \in (events \cap Of(General)) \ gone, denied[e] # changes
               PROVE  seen[e] = changes \/ (latest[e] = changes /\ seen[e] < latest[e])
    BY DEF ListCurrent
  <2>1. latest[e] = changes
    BY DEF IInv, ListComing
  <2>2. e \in Stream /\ seen[e] \in Nat /\ latest[e] \in Nat /\ seen[e] <= latest[e]
    BY OfFacts DEF IInv, TypeOK, Bounded
  <2> QED  BY <2>1, <2>2
<1> QED  BY <1>1, Invariance, PTL

\* A client is observed in vain only if a stream was closed, or the client
\* unregistered, before it had answered the request of onOpen.
THEOREM NoOrphans == Spec => []NoOrphanObservation
BY Invariance, PTL DEF IInv
=============================================================================
