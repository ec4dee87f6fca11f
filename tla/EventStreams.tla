---------------------------- MODULE EventStreams ----------------------------
(***************************************************************************)
(* The event streams of the LHCB broker (EventServlet).  A browser opens a *)
(* stream for one client, to hear each new value of its connectivity       *)
(* monitor (/4/0), or a general one, to hear the list of clients whenever  *)
(* it changes.  The first kind makes the broker observe the client.        *)
(*                                                                         *)
(* The registries of clients and of observations are Leshan's (external):  *)
(* an observation belongs to a registration; a client that unregisters     *)
(* loses those it has, cancelObservations cancels everybody's.  Streams    *)
(* are opened and closed by Jetty's threads, registrations and values      *)
(* arrive on Leshan's; only the loop over the streams is synchronized,     *)
(* what it sends has been put together before.                             *)
(***************************************************************************)
EXTENDS Naturals, FiniteSets

CONSTANTS Stream,      \* streams, each opened once
          Endpoint,    \* clients
          General,     \* the endpoint of a stream opened without one
          endpoint,    \* the endpoint of each stream
          MaxOpens,    \* bound: streams that are opened
          MaxChanges,  \* bound: registrations and deregistrations
          MaxValues    \* bound: new values of each client

ASSUME StreamAssumption == General \notin Endpoint /\ endpoint \in [Stream -> Endpoint \cup {General}]
ASSUME BoundAssumption == MaxOpens \in Nat /\ MaxChanges \in Nat /\ MaxValues \in Nat

VARIABLES
    events,      \* the servlet's set of streams
    opening,     \* streams whose onOpen waits for the answer of a registration
    gone,        \* streams whose browser is gone
    used,        \* streams that have been opened
    registered,  \* registration number of each client, 0 when there is none
    changes,     \* changes of the list of clients so far: its version
    observed,    \* observations of /4/0: a client and its registration
    value,       \* the last value of each client
    lists,       \* lists put together and not sent yet
    news,        \* values put together and not sent yet
    seen,        \* the version or value each browser has received last
    \* History, read by no action:
    since,       \* the value from which on a stream's client is observed
    watching,    \* streams whose observation has not been cancelled
    latest,      \* the latest version or value each browser has received
    denied,      \* the latest version an exception has kept from each stream
    hasty        \* observations asked for by a stream that closed, or of a client
                 \* that unregistered, before the answer

leshan == <<registered, changes, observed, value>>
history == <<since, watching, latest, denied, hasty>>
vars == <<events, opening, gone, used, leshan, lists, news, seen, history>>

Init ==
    /\ events = {} /\ opening = {} /\ gone = {} /\ used = {}
    /\ registered = [c \in Endpoint |-> 0] /\ changes = 0
    /\ observed = {} /\ value = [c \in Endpoint |-> 0]
    /\ lists = {} /\ news = {} /\ seen = [e \in Stream |-> 0]
    /\ since = [e \in Stream |-> 0] /\ watching = {} /\ hasty = {}
    /\ latest = [e \in Stream |-> 0] /\ denied = [e \in Stream |-> 0]

Of(c) == {e \in Stream : endpoint[e] = c}

\* A list of the clients is put together, for the streams in to.
NewList(to, version) == lists' = lists \cup {[to |-> to, version |-> version]}

Later(m, n) == IF n > m THEN n ELSE m
-----------------------------------------------------------------------------
(***************************************************************************)
(* A stream opens.                                                         *)
(***************************************************************************)
\* onOpen: a general stream is sent the list; otherwise the client is asked for
\* an observation, if it is registered.
Opens(e, asks) ==
    /\ e \notin used /\ Cardinality(used) < MaxOpens
    /\ used' = used \cup {e} /\ events' = events \cup {e}
    /\ \/ /\ endpoint[e] = General
          /\ NewList({e}, changes)
          /\ UNCHANGED opening
       \/ /\ endpoint[e] # General
          /\ opening' = IF asks THEN opening \cup {<<e, registered[endpoint[e]]>>} ELSE opening
          /\ UNCHANGED lists
    /\ UNCHANGED <<gone, leshan, news, seen, history>>
IsRegistered(c) == c \in Endpoint /\ registered[c] # 0
OnOpenAnyway(e) == Opens(e, TRUE)
OnOpen(e) == Opens(e, IsRegistered(endpoint[e]))

\* The client has answered (ok) or not.  Nothing looks whether the stream, or the
\* registration, is still there.
ObserveResponse(e, n, ok) ==
    LET c == endpoint[e] IN
    /\ <<e, n>> \in opening
    /\ opening' = opening \ {<<e, n>>}
    /\ observed' = IF ok THEN observed \cup {<<c, n>>} ELSE observed
    /\ IF ok /\ registered[c] = n
       THEN /\ since' = [since EXCEPT ![e] = IF e \in gone THEN 0 ELSE value[c]]
            /\ watching' = watching \cup ({e} \cap events)
       ELSE UNCHANGED <<since, watching>>
    /\ UNCHANGED <<events, gone, used, registered, changes, value, lists, news, seen,
                   latest, denied, hasty>>
-----------------------------------------------------------------------------
(***************************************************************************)
(* A stream closes.                                                        *)
(***************************************************************************)
\* onClose of the streams es: they are removed, and the observations of their
\* clients' registrations cancelled, whoever else relies on them.
Remove(es, cancel) ==
    LET cs == IF cancel THEN {endpoint[e] : e \in es} ELSE {}
    IN  /\ events' = events \ es
        /\ observed' = {o \in observed : ~(o[1] \in cs /\ o[2] = registered[o[1]])}
        /\ watching' = {e \in watching \ es : endpoint[e] \notin cs}
        /\ hasty' = hasty \cup {<<endpoint[o[1]], o[2]>> : o \in {o \in opening : o[1] \in es}}
RemoveOnly(es) == Remove(es, FALSE)
OnCloseAll(es) == Remove(es, TRUE)

\* The browser goes away, and with it what it has seen.
Leave(e) ==
    /\ e \in events \ gone
    /\ gone' = gone \cup {e}
    /\ seen' = [seen EXCEPT ![e] = 0] /\ latest' = [latest EXCEPT ![e] = 0]
    /\ since' = [since EXCEPT ![e] = 0] /\ denied' = [denied EXCEPT ![e] = 0]
    /\ UNCHANGED <<events, opening, used, leshan, lists, news, watching, hasty>>

\* Jetty notices, and calls onClose.
Notice(e) ==
    /\ e \in events \cap gone
    /\ OnCloseAll({e})
    /\ UNCHANGED <<opening, gone, used, registered, changes, value, lists, news, seen,
                   since, latest, denied>>
-----------------------------------------------------------------------------
(***************************************************************************)
(* Clients register, unregister and have new values.                       *)
(***************************************************************************)
\* registered, unregistered: sendNotify puts the list together.
Register(c) ==
    /\ registered[c] = 0 /\ changes < MaxChanges
    /\ changes' = changes + 1
    /\ registered' = [registered EXCEPT ![c] = changes + 1]
    /\ NewList(Of(General), changes + 1)
    /\ UNCHANGED <<events, opening, gone, used, observed, value, news, seen, history>>

Unregisters(c, notify) ==
    /\ registered[c] # 0 /\ changes < MaxChanges
    /\ changes' = changes + 1
    /\ registered' = [registered EXCEPT ![c] = 0]
    /\ observed' = observed \ {<<c, registered[c]>>} /\ watching' = watching \ Of(c)
    /\ hasty' = hasty \cup {<<endpoint[o[1]], o[2]>> : o \in {o \in opening : endpoint[o[1]] = c}}
    /\ IF notify THEN NewList(Of(General), changes + 1) ELSE UNCHANGED lists
    /\ UNCHANGED <<events, opening, gone, used, value, news, seen, since, latest, denied>>
UnregisterQuietly(c) == Unregisters(c, FALSE)
Unregister(c) == Unregisters(c, TRUE)

\* newValue: what comes from an observation of the client's registration is put
\* together for its streams; findByRegistrationId drops the rest.
NewValue(c) ==
    /\ registered[c] # 0 /\ value[c] < MaxValues
    /\ value' = [value EXCEPT ![c] = @ + 1]
    /\ news' = IF <<c, registered[c]>> \in observed
               THEN news \cup {[of |-> c, value |-> value[c] + 1]} ELSE news
    /\ UNCHANGED <<events, opening, gone, used, registered, changes, observed, lists, seen, history>>
-----------------------------------------------------------------------------
(***************************************************************************)
(* sendEvent, one event at a time; those put together on other threads     *)
(* may be sent in any order.                                               *)
(***************************************************************************)
\* What the browsers of the streams es see once they have received n.
Receive(es, n) ==
    /\ seen' = [e \in Stream |-> IF e \in es \ gone THEN n ELSE seen[e]]
    /\ latest' = [e \in Stream |-> IF e \in es \ gone THEN Later(latest[e], n) ELSE latest[e]]

\* The streams an event of client c is for
MatchesGeneral(c) == events \cap Of(General)
Matches(c) == events \cap Of(c)

\* A value is sent to the streams of its client.  An emitter whose browser is gone
\* may throw, which closes the stream.
SendValue(m, noticed) ==
    /\ m \in news
    /\ news' = news \ {m}
    /\ noticed \subseteq Matches(m.of) \cap gone
    /\ Receive(Matches(m.of), m.value)
    /\ OnCloseAll(noticed)
    /\ UNCHANGED <<opening, gone, used, registered, changes, value, lists, since, denied>>

\* A list is sent to each general stream, or to the one that has been opened.
SendList(l) ==
    /\ l \in lists
    /\ lists' = lists \ {l}
    /\ Receive(Matches(General) \cap l.to, l.version)
    /\ UNCHANGED <<events, opening, gone, used, leshan, news, since, watching, denied, hasty>>

\* An emitter throws on the way: onClose removes the stream and then throws
\* itself, as the registry takes no null endpoint; the rest hear nothing.
SendListThrows(l, before, e) ==
    LET to == Matches(General) \cap l.to IN
    /\ l \in lists
    /\ e \in to \cap gone
    /\ lists' = lists \ {l}
    /\ events' = events \ {e}
    /\ Receive(to \cap before, l.version)
    /\ denied' = [x \in Stream |-> IF x \in (to \ before) \ gone THEN Later(denied[x], l.version) ELSE denied[x]]
    /\ UNCHANGED <<opening, gone, used, leshan, news, since, watching, hasty>>

Next ==
    \/ \E e \in Stream : OnOpen(e) \/ Leave(e) \/ Notice(e)
    \/ \E o \in opening, ok \in BOOLEAN : ObserveResponse(o[1], o[2], ok)
    \/ \E c \in Endpoint : Register(c) \/ Unregister(c) \/ NewValue(c)
    \/ \E m \in news : \E es \in SUBSET (Of(m.of) \cap gone) : SendValue(m, es)
    \/ \E l \in lists : SendList(l) \/ (\E es \in SUBSET (Matches(General) \ gone), e \in Of(General) : SendListThrows(l, es, e))

Spec == Init /\ [][Next]_vars
-----------------------------------------------------------------------------
\* Each variable keeps its type; what is observed is a registration that was made.
TypeOK ==
    /\ events \subseteq used /\ used \subseteq Stream /\ gone \subseteq used
    /\ opening \subseteq Stream \X (1..MaxChanges)
    /\ registered \in [Endpoint -> 0..MaxChanges] /\ changes \in 0..MaxChanges
    /\ observed \subseteq Endpoint \X (1..MaxChanges)
    /\ value \in [Endpoint -> 0..MaxValues]
    /\ lists \subseteq [to : SUBSET Of(General), version : 0..MaxChanges]
    /\ news \subseteq [of : Endpoint, value : 1..MaxValues]
    /\ seen \in [Stream -> Nat] /\ latest \in [Stream -> Nat]
    /\ since \in [Stream -> Nat] /\ denied \in [Stream -> Nat]
    /\ watching \subseteq Stream
    /\ hasty \subseteq (Endpoint \cup {General}) \X (1..MaxChanges)

\* A browser has received its client's last value, once there is one newer than the
\* observation and none is on its way: only another stream of the same client that
\* closes, or the client that unregisters, keep it from that.  It is left with an
\* old one only if that was sent after the last one, having been put together before
\* (newValue outside the synchronized sendEvent).
ValueCurrent ==
    \A e \in watching \ gone :
        value[endpoint[e]] > since[e] /\ (\A m \in news : m.of # endpoint[e]) =>
            seen[e] = value[endpoint[e]] \/ (latest[e] = value[endpoint[e]] /\ seen[e] < latest[e])

\* A general stream has received the list of the clients as they are, once none is on
\* its way: only an exception for the sake of another stream, in the very sending of that
\* list, keeps it from that.  It is left with an old one only if that was sent after it.
ListCurrent ==
    lists = {} => \A e \in (events \cap Of(General)) \ gone :
        \/ seen[e] = changes
        \/ latest[e] = changes /\ seen[e] < latest[e]
        \/ denied[e] = changes

\* Nobody is observed in vain: an observation has a stream and the registration it
\* was made for, unless the stream was closed, or the client unregistered, before the
\* client had answered; those are never cancelled.
NoOrphanObservation ==
    \A o \in observed \ hasty : o[2] = registered[o[1]] /\ \E e \in events : endpoint[e] = o[1]
=============================================================================
