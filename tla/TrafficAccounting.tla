------------------------- MODULE TrafficAccounting -------------------------
(***************************************************************************)
(* From relayed packets to billed traffic.  A TURN server counts the       *)
(* packets and bytes of every session, publishes them once Chunk packets   *)
(* have passed (turn_report_session_usage) and starts counting anew.  The  *)
(* broker listens to the pattern of all traffic channels only to learn     *)
(* their names: for every new one it subscribes to the channel itself, and *)
(* what arrives through that subscription is billed.                       *)
(*                                                                         *)
(* Redis delivers what is published to those who are subscribed at that    *)
(* moment and keeps nothing.  Only sent bytes are billed; received packets *)
(* count towards the Chunk.  A session's channel is its own: it carries    *)
(* the user and the session id.                                            *)
(***************************************************************************)
EXTENDS Naturals, Sequences, SequencesExt, FiniteSetsExt

CONSTANTS Session,     \* sessions of clients with a TURN server
          Chunk,       \* packets between two reports: 2048
          Size,        \* bytes of a packet
          MaxPackets,  \* bound: packets relayed in each session
          MaxFaults,   \* bound: connections that break, restarts of the broker
          All          \* the pattern turn/*/*/realm/*/user/*/allocation/*/traffic

ASSUME ChunkAssumption == Chunk \in Nat \ {0} /\ Size \subseteq Nat
ASSUME BoundAssumption == MaxPackets \in [Session -> Nat] /\ MaxFaults \in Nat
ASSUME AllAssumption == All \notin Session

VARIABLES
    ss,           \* TURN server: the statistics of each session
    out,          \* TURN server to Redis: sent_bytes of the reports on their way
    asks,         \* broker to Redis: SUBSCRIBEs and the PSUBSCRIBE on their way
    subscribed,   \* Redis: what the broker's connection is subscribed to
    events,       \* Redis to broker: what its subscriptions delivered
    subscribers,  \* broker: the channels it has subscribed to, in order
    billed,       \* broker: bytes handed to addCSPConso
    faults,       \* faults so far
    relayed,      \* history: packets and bytes relayed
    missed,       \* history: bytes published to a channel nobody was subscribed to
    heard         \* history: bytes published while their channel matched a subscription

turn == <<ss, out, relayed>>
broker == <<subscribers, billed>>
redis == <<asks, subscribed, events>>
history == <<missed, heard>>
vars == <<ss, out, asks, subscribed, events, subscribers, billed, faults, relayed, missed, heard>>

\* realm: the session has one, and its channel matches the pattern All; open: it has
\* not been shut down; rp, sp, sb: received_packets, sent_packets and sent_bytes
\* since the last report; tsb: t_sent_bytes
Stats == [realm : BOOLEAN, open : BOOLEAN, rp : 0..(Chunk - 1), sp : 0..(Chunk - 1), sb : Nat, tsb : Nat]
Event == [kind : {"pmessage", "message"}, s : Session, bytes : Nat]

Init ==
    /\ ss \in [Session -> [realm : BOOLEAN, open : {TRUE}, rp : {0}, sp : {0}, sb : {0}, tsb : {0}]]
    /\ out = [s \in Session |-> <<>>]
    /\ asks = <<All>> /\ subscribed = {} /\ events = <<>>
    /\ subscribers = <<>> /\ billed = [s \in Session |-> 0]
    /\ faults = 0
    /\ relayed = [s \in Session |-> [packets |-> 0, bytes |-> 0]]
    /\ missed = [s \in Session |-> 0] /\ heard = [s \in Session |-> 0]
-----------------------------------------------------------------------------
(***************************************************************************)
(* The TURN server.                                                        *)
(***************************************************************************)
\* turn_report_session_usage: publish, add to the totals, start anew.
ReportKeepsPackets(s, c) ==
    IF (c.rp + c.sp) % Chunk = 0
    THEN /\ out' = [out EXCEPT ![s] = Append(@, c.sb)]
         /\ ss' = [ss EXCEPT ![s] = [c EXCEPT !.sb = 0, !.tsb = @ + c.sb]]
    ELSE ss' = [ss EXCEPT ![s] = c] /\ UNCHANGED out
ReportKeepsBytes(s, c) ==
    IF (c.rp + c.sp) % Chunk = 0
    THEN /\ out' = [out EXCEPT ![s] = Append(@, c.sb)]
         /\ ss' = [ss EXCEPT ![s] = [c EXCEPT !.rp = 0, !.sp = 0, !.tsb = @ + c.sb]]
    ELSE ss' = [ss EXCEPT ![s] = c] /\ UNCHANGED out
ReportResetsFirst(s, c) ==
    IF (c.rp + c.sp) % Chunk = 0
    THEN /\ out' = [out EXCEPT ![s] = Append(@, 0)]
         /\ ss' = [ss EXCEPT ![s] = [c EXCEPT !.rp = 0, !.sp = 0, !.sb = 0, !.tsb = @ + c.sb]]
    ELSE ss' = [ss EXCEPT ![s] = c] /\ UNCHANGED out
Report(s, c) ==
    IF (c.rp + c.sp) % Chunk = 0
    THEN /\ out' = [out EXCEPT ![s] = Append(@, c.sb)]
         /\ ss' = [ss EXCEPT ![s] = [c EXCEPT !.rp = 0, !.sp = 0, !.sb = 0, !.tsb = @ + c.sb]]
    ELSE ss' = [ss EXCEPT ![s] = c] /\ UNCHANGED out

\* A packet of b bytes is sent to the client.
SendToClient(s, b) ==
    /\ ss[s].open /\ relayed[s].packets < MaxPackets[s]
    /\ Report(s, [ss[s] EXCEPT !.sp = @ + 1, !.sb = @ + b])
    /\ relayed' = [relayed EXCEPT ![s] = [packets |-> @.packets + 1, bytes |-> @.bytes + b]]
    /\ UNCHANGED <<redis, broker, faults, history>>

\* A packet is received from the client.
ReceiveFromClient(s) ==
    /\ ss[s].open /\ relayed[s].packets < MaxPackets[s]
    /\ Report(s, [ss[s] EXCEPT !.rp = @ + 1])
    /\ relayed' = [relayed EXCEPT ![s].packets = @ + 1]
    /\ UNCHANGED <<redis, broker, faults, history>>

\* shutdown_client_connection: what was counted since the last report is dropped.
Shutdown(s) ==
    /\ ss[s].open
    /\ ss' = [ss EXCEPT ![s].open = FALSE]
    /\ UNCHANGED <<out, relayed, redis, broker, faults, history>>
-----------------------------------------------------------------------------
(***************************************************************************)
(* Redis.                                                                  *)
(***************************************************************************)
\* PUBLISH: to the subscribers of the channel, then to those of the pattern.
Publish(s) ==
    LET bytes == Head(out[s])
        Channel == s \in subscribed
        Pattern == All \in subscribed /\ ss[s].realm
        Copy(kind, to) == IF to THEN <<[kind |-> kind, s |-> s, bytes |-> bytes]>> ELSE <<>>
    IN  /\ out[s] # <<>>
        /\ out' = [out EXCEPT ![s] = Tail(@)]
        /\ events' = events \o Copy("message", Channel) \o Copy("pmessage", Pattern)
        /\ missed' = IF Channel THEN missed ELSE [missed EXCEPT ![s] = @ + bytes]
        /\ heard' = IF Channel \/ Pattern THEN [heard EXCEPT ![s] = @ + bytes] ELSE heard
        /\ UNCHANGED <<ss, relayed, asks, subscribed, broker, faults>>

\* SUBSCRIBE or PSUBSCRIBE
Subscribe ==
    /\ asks # <<>>
    /\ asks' = Tail(asks)
    /\ subscribed' = subscribed \cup {Head(asks)}
    /\ UNCHANGED <<turn, events, broker, faults, history>>
-----------------------------------------------------------------------------
PmessageTestInverted ==
    /\ events # <<>> /\ Head(events).kind = "pmessage"
    /\ events' = Tail(events)
    /\ IF Head(events).s \in ToSet(subscribers)
       THEN /\ asks' = Append(asks, Head(events).s)
            /\ subscribers' = Append(subscribers, Head(events).s)
       ELSE UNCHANGED <<asks, subscribers>>
    /\ UNCHANGED <<turn, subscribed, billed, faults, history>>
Pmessage ==
    /\ events # <<>> /\ Head(events).kind = "pmessage"
    /\ events' = Tail(events)
    /\ IF Head(events).s \in ToSet(subscribers)
       THEN UNCHANGED <<asks, subscribers>>
       ELSE /\ asks' = Append(asks, Head(events).s)
            /\ subscribers' = Append(subscribers, Head(events).s)
    /\ UNCHANGED <<turn, subscribed, billed, faults, history>>

\* 'message': parse the report and bill its sent bytes.  Only channels and messages of
\* turn_report_session_usage come here, and parseTurnTraffic's patterns match them all.
MessageOnce ==
    /\ events # <<>> /\ Head(events).kind = "message"
    /\ events' = Tail(events)
    /\ subscribed' = subscribed \ {Head(events).s}
    /\ billed' = [billed EXCEPT ![Head(events).s] = @ + Head(events).bytes]
    /\ UNCHANGED <<turn, asks, subscribers, faults, history>>
Message ==
    /\ events # <<>> /\ Head(events).kind = "message"
    /\ events' = Tail(events)
    /\ billed' = [billed EXCEPT ![Head(events).s] = @ + Head(events).bytes]
    /\ UNCHANGED <<turn, asks, subscribed, subscribers, faults, history>>
-----------------------------------------------------------------------------
(***************************************************************************)
(* Faults.                                                                 *)
(***************************************************************************)
\* The statistics connection of the session's relay thread breaks: reports on
\* their way are lost, the counters have been reset already.
StatsBreak(s) ==
    /\ faults < MaxFaults /\ out[s] # <<>>
    /\ out' = [out EXCEPT ![s] = <<>>]
    /\ faults' = faults + 1
    /\ UNCHANGED <<ss, relayed, redis, broker, history>>

\* The subscriber connection breaks: node_redis makes a new one and subscribes
\* again to everything, in the order of the first time.
SubscriberBreak ==
    /\ faults < MaxFaults
    /\ asks' = <<All>> \o subscribers
    /\ subscribed' = {} /\ events' = <<>>
    /\ faults' = faults + 1
    /\ UNCHANGED <<turn, broker, history>>

\* The broker is restarted; server.js subscribes to the pattern.  What has been
\* billed is in Redis.
BrokerRestart ==
    /\ faults < MaxFaults
    /\ asks' = <<All>> /\ subscribed' = {} /\ events' = <<>>
    /\ subscribers' = <<>>
    /\ faults' = faults + 1
    /\ UNCHANGED <<turn, billed, history>>

Next ==
    \/ \E s \in Session :
          \/ ReceiveFromClient(s) \/ Shutdown(s) \/ Publish(s) \/ StatsBreak(s)
          \/ \E b \in Size : SendToClient(s, b)
    \/ Subscribe \/ Pmessage \/ Message \/ SubscriberBreak \/ BrokerRestart

\* Redis executes, the broker handles what arrives.  Clients need not send.
Fairness ==
    /\ \A s \in Session : WF_vars(Publish(s))
    /\ WF_vars(Subscribe) /\ WF_vars(Pmessage) /\ WF_vars(Message)

Spec == Init /\ [][Next]_vars /\ Fairness
-----------------------------------------------------------------------------
\* Bytes on their way to be billed.
Reported(s) == FoldSeq(LAMBDA bytes, sum : bytes + sum, 0, out[s])
Delivered(s) ==
    FoldSeq(LAMBDA e, sum : (IF e.kind = "message" /\ e.s = s THEN e.bytes ELSE 0) + sum, 0, events)
Quiet == asks = <<>> /\ events = <<>> /\ \A s \in Session : out[s] = <<>>

\* Each variable keeps its type; a session's counters stay below a Chunk between
\* two packets.
TypeOK ==
    /\ ss \in [Session -> Stats]
    /\ \A s \in Session : ss[s].rp + ss[s].sp < Chunk
    /\ out \in [Session -> Seq(Nat)]
    /\ asks \in Seq(Session \cup {All}) /\ subscribed \subseteq Session \cup {All}
    /\ events \in Seq(Event)
    /\ subscribers \in Seq(Session)
    /\ billed \in [Session -> Nat] /\ missed \in [Session -> Nat] /\ heard \in [Session -> Nat]
    /\ relayed \in [Session -> [packets : Nat, bytes : Nat]]
    /\ \A s \in Session : relayed[s].packets <= MaxPackets[s]
    /\ faults \in 0..MaxFaults

\* Whatever breaks and is restarted, whoever subscribes again: a session is
\* never billed more than its TURN server has sent, also counting what is still
\* on its way to be billed.
NeverOverbilled ==
    \A s \in Session : billed[s] + Delivered(s) + Reported(s) + ss[s].sb <= relayed[s].bytes

\* As long as nothing breaks, every report published while the broker is
\* subscribed to the channel is billed, and nothing else is: the traffic that is
\* not billed is exactly what was published before the subscription and what
\* the session has not reported.
OnlyEarlyReportsMissed ==
    faults = 0 => \A s \in Session :
        billed[s] + Delivered(s) + Reported(s) + missed[s] + ss[s].sb = relayed[s].bytes

\* A subscription holds for good: as long as nothing breaks, a session that has
\* been billed once misses no report any more.
SubscribedForGood ==
    [][\A s \in Session : faults' = 0 /\ billed[s] > 0 => missed'[s] = missed[s]]_vars

\* As long as nothing breaks, the first report after the broker has subscribed to
\* the pattern makes its channel known: the broker is subscribed to it in the end,
\* unless the session has no realm (its traffic is never billed).
ChannelDiscovered ==
    \A s \in Session :
        ss[s].realm /\ faults = 0 /\ All \in subscribed /\ out[s] # <<>> ~> s \in subscribed \/ faults > 0

-----------------------------------------------------------------------------
\* dao.js subscribes to the exact channel "to retrieve the traffic informations":
\* once all is quiet, every report that came to the broker's connection, through the
\* channel or through the pattern, is billed.
ReportedTrafficBilled ==
    Quiet /\ faults = 0 => \A s \in Session : billed[s] = heard[s]
=============================================================================
