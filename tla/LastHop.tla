------------------------------- MODULE LastHop -------------------------------
(***************************************************************************)
(* Calls through the last-hop connectivity library lhcb.js.  A page holds  *)
(* an LHCBClient with a WebSocket to the client on its host                *)
(* (ClientWebSocketListener), which it asks for the broker at once, and    *)
(* then an LHCBBroker with a WebSocket to the broker                       *)
(* (BrokerWebSocketListener, RequestHandler).                              *)
(*                                                                         *)
(* A socket delivers in order, but it has one onmessage handler, which     *)
(* every call replaces, and the Java side answers some messages at once    *)
(* and others when a third party has answered.                             *)
(***************************************************************************)
EXTENDS Naturals, Sequences, SequencesExt

CONSTANTS Request,   \* calls of read and execute
          Info,      \* the getBrokerInfo of the constructor
          None,      \* no handler
          MaxCloses  \* bound: sockets that close

ASSUME IdAssumption == Info \notin Request /\ None \notin Request \cup {Info}
ASSUME BoundAssumption == MaxCloses \in Nat

VARIABLES
    ws,       \* the sockets, with what is on its way
    outcome,  \* the promise of each call
    closes,   \* sockets closed so far
    \* History, read by no action:
    mixed,    \* calls sent on a socket while another one was on its way
    lost      \* calls that get no answer: closed socket, or nothing sent back

vars == <<ws, outcome, closes, mixed, lost>>

Id == Request \cup {Info}
Socket == {"local", "broker"}

\* What a call asks for; "other": to execute what nobody has, or without args
Kinds == {"read", "changeIface", "other", "getBrokerInfo"}
Msg == [id : Id, kind : Kinds]
Reply == [id : Id, type : {"response", "error"}]

\* up: messages to the Java side; working: those it answers later; down: replies
Sockets == [readyState : {"none", "connecting", "open", "closed"}, onmessage : Id \cup {None},
            up : Seq(Msg), working : SUBSET Msg, down : Seq(Reply)]

Fresh(readyState, onmessage) ==
    [readyState |-> readyState, onmessage |-> onmessage, up |-> <<>>, working |-> {}, down |-> <<>>]

\* getLocalClient(): the constructor of LHCBClient
Init ==
    /\ ws = [s \in Socket |-> IF s = "local" THEN Fresh("connecting", Info) ELSE Fresh("none", None)]
    /\ outcome = [q \in Id |-> [state |-> "idle", by |-> q, type |-> "none"]]
    /\ closes = 0 /\ mixed = {} /\ lost = {}

\* Calls on their way on a socket.
Outstanding(s) ==
    {m.id : m \in ToSet(ws[s].up) \cup ws[s].working} \cup {r.id : r \in ToSet(ws[s].down)}

\* ws.send of an open socket
Overlap(s, q) == mixed' = IF Outstanding(s) = {} THEN mixed ELSE mixed \cup {q} \cup Outstanding(s)
Begin(q, state) == outcome' = [outcome EXCEPT ![q].state = state]
-----------------------------------------------------------------------------
(***************************************************************************)
(* The page.                                                               *)
(***************************************************************************)
\* onopen; the local one asks for the broker.
Open(s) ==
    /\ ws[s].readyState = "connecting"
    /\ IF s = "local"
       THEN /\ ws' = [ws EXCEPT ![s].readyState = "open",
                                ![s].up = Append(@, [id |-> Info, kind |-> "getBrokerInfo"])]
            /\ Begin(Info, "waiting")
       ELSE ws' = [ws EXCEPT ![s].readyState = "open"] /\ UNCHANGED outcome
    /\ UNCHANGED <<closes, mixed, lost>>

\* The body of read and execute: h takes over onmessage and r is sent.  send
\* throws on a socket that is connecting and does nothing on a closed one.
SendWith(s, r, kind, h) ==
    \/ /\ ws[s].readyState = "open"
       /\ ws' = [ws EXCEPT ![s].onmessage = h, ![s].up = Append(@, [id |-> r, kind |-> kind])]
       /\ Begin(r, "waiting") /\ Overlap(s, r)
       /\ UNCHANGED lost
    \/ /\ ws[s].readyState = "connecting"
       /\ ws' = [ws EXCEPT ![s].onmessage = h]
       /\ Begin(r, "failed")
       /\ UNCHANGED <<mixed, lost>>
    \/ /\ ws[s].readyState = "closed"
       /\ ws' = [ws EXCEPT ![s].onmessage = h]
       /\ Begin(r, "waiting")
       /\ lost' = lost \cup {r}
       /\ UNCHANGED mixed
SendOnly(s, r, kind) == SendWith(s, r, kind, None)
Send(s, r, kind) == SendWith(s, r, kind, r)

\* LHCBBroker.read and execute
BrokerCall(r, kind) ==
    /\ outcome[r].state = "idle" /\ ws["broker"].readyState # "none"
    /\ Send("broker", r, kind)
    /\ UNCHANGED closes

\* LHCBClient.read and execute: locally if that socket is open, else through the
\* broker, which is undefined until it is known.
ClientCall(r, kind) ==
    /\ outcome[r].state = "idle"
    /\ \/ /\ ws["local"].readyState = "open"
          /\ Send("local", r, kind)
       \/ /\ ws["local"].readyState # "open" /\ ws["broker"].readyState # "none"
          /\ Send("broker", r, kind)
       \/ /\ ws["local"].readyState # "open" /\ ws["broker"].readyState = "none"
          /\ Begin(r, "failed")
          /\ UNCHANGED <<ws, mixed, lost>>
    /\ UNCHANGED closes

\* resolve, whatever the answer answers; a promise settles once.
Resolve(h, reply) ==
    IF h # None /\ outcome[h].state = "waiting"
    THEN outcome' = [outcome EXCEPT ![h] = [state |-> "settled", by |-> reply.id, type |-> reply.type]]
    ELSE UNCHANGED outcome

\* onmessage; the constructor's creates the LHCBBroker if there is a response.
Take(s, h, known) ==
    LET reply == Head(ws[s].down)
    IN  /\ ws[s].down # <<>>
        /\ ws' = IF h = Info /\ known
                 THEN [ws EXCEPT ![s].down = Tail(@), !["broker"] = Fresh("connecting", None)]
                 ELSE [ws EXCEPT ![s].down = Tail(@)]
        /\ Resolve(h, reply)
        /\ UNCHANGED <<closes, mixed, lost>>
IsResponse(s) == ws[s].down # <<>> /\ Head(ws[s].down).type = "response"
OnmessageOfAnyone(s) == \E q \in Id : outcome[q].state = "waiting" /\ Take(s, q, IsResponse(s))
OnmessageUntested(s) == Take(s, ws[s].onmessage, TRUE)
OnmessageNoErrors(s) == Take(s, IF IsResponse(s) THEN ws[s].onmessage ELSE None, IsResponse(s))
Onmessage(s) == Take(s, ws[s].onmessage, IsResponse(s))
-----------------------------------------------------------------------------
(***************************************************************************)
(* The Java side, one message of a socket at a time.                       *)
(***************************************************************************)
\* sendString(m.response(...)) or sendString(m.errorResponse(...))
Answer(s, m, type) == [ws[s] EXCEPT !.down = Append(@, [id |-> m.id, type |-> type])]

\* The head of the socket's messages, of one of these kinds, is handled; sock is
\* what has become of the socket, none whether nothing will be sent back.
Handle(s, kinds, sock, none) ==
    /\ ws[s].up # <<>> /\ Head(ws[s].up).kind \in kinds
    /\ ws' = [ws EXCEPT ![s] = [sock EXCEPT !.up = Tail(@)]]
    /\ lost' = IF none THEN lost \cup {Head(ws[s].up).id} ELSE lost
    /\ UNCHANGED <<outcome, closes, mixed>>

Later(s) == [ws[s] EXCEPT !.working = @ \cup {Head(ws[s].up)}]

\* ClientWebSocketListener.onWebSocketText: read and changeIface are answered at
\* once (a read with an error if there is no connectivity monitor),
\* getBrokerInfo when the broker has answered, or with an error if it cannot be
\* reached; a read whose ReadResponse has no content (parseCMReadResponse throws) and
\* an execute of anything else are not answered.
LocalHandle ==
    \/ \E type \in {"response", "error"} :
          Handle("local", {"read"}, Answer("local", Head(ws["local"].up), type), FALSE)
    \/ Handle("local", {"changeIface"}, Answer("local", Head(ws["local"].up), "response"), FALSE)
    \/ Handle("local", {"getBrokerInfo"}, Later("local"), FALSE)
    \/ Handle("local", {"getBrokerInfo"}, Answer("local", Head(ws["local"].up), "error"), FALSE)
    \/ Handle("local", {"read", "other"}, ws["local"], TRUE)

\* BrokerWebSocketListener.onWebSocketText and RequestHandler.handleRequest: host
\* and port, the list of clients (of a call that names none), or that a client is
\* unknown, at once; else when the client has answered.
BrokerHandle ==
    \/ Handle("broker", {"read", "changeIface", "getBrokerInfo"},
              Answer("broker", Head(ws["broker"].up), "response"), FALSE)
    \/ Handle("broker", {"read", "changeIface"}, Answer("broker", Head(ws["broker"].up), "error"), FALSE)
    \/ Handle("broker", {"read", "changeIface"}, Later("broker"), FALSE)
    \/ Handle("broker", {"other"}, ws["broker"], TRUE)

\* The third party has answered m or failed.  Nothing is sent if its answer
\* cannot be used: parseCMReadResponse of a refused read throws, so does
\* errorResponse of an exception without a message; the broker may be gone.
Complete(s, m) ==
    /\ m \in ws[s].working
    /\ \/ /\ \E type \in {"response", "error"} :
                /\ type = "error" => m.kind # "getBrokerInfo"
                /\ ws' = [ws EXCEPT ![s] = [Answer(s, m, type) EXCEPT !.working = @ \ {m}]]
          /\ UNCHANGED lost
       \/ /\ ws' = [ws EXCEPT ![s].working = @ \ {m}]
          /\ lost' = lost \cup {m.id}
    /\ UNCHANGED <<outcome, closes, mixed>>

\* A socket closes, or cannot be opened; outbound is null, later answers are lost.
Close(s) ==
    /\ ws[s].readyState \in {"connecting", "open"} /\ closes < MaxCloses
    /\ ws' = [ws EXCEPT ![s] = Fresh("closed", ws[s].onmessage)]
    /\ lost' = lost \cup Outstanding(s)
    /\ closes' = closes + 1
    /\ UNCHANGED <<outcome, mixed>>

Next ==
    \/ \E s \in Socket : Open(s) \/ Onmessage(s) \/ Close(s) \/ (\E m \in ws[s].working : Complete(s, m))
    \/ LocalHandle \/ BrokerHandle
    \/ \E r \in Request, kind \in Kinds : ClientCall(r, kind) \/ BrokerCall(r, kind)

\* Both sides handle what arrives, and LWM2M answers or times out.
Fairness ==
    /\ WF_vars(LocalHandle) /\ WF_vars(BrokerHandle)
    /\ \A s \in Socket : WF_vars(Onmessage(s)) /\ WF_vars(\E m \in ws[s].working : Complete(s, m))

Spec == Init /\ [][Next]_vars /\ Fairness
-----------------------------------------------------------------------------
\* Each variable keeps its type, and there is an LHCBBroker exactly when
\* getBrokerInfo has been answered with a response.
TypeOK ==
    /\ DOMAIN ws = Socket
    /\ \A s \in Socket :
          /\ ws[s].readyState \in {"none", "connecting", "open", "closed"}
          /\ ws[s].onmessage \in Id \cup {None}
          /\ ws[s].up \in Seq(Msg) /\ ws[s].working \subseteq Msg /\ ws[s].down \in Seq(Reply)
    /\ outcome \in [Id -> [state : {"idle", "waiting", "failed", "settled"}, by : Id,
                           type : {"none", "response", "error"}]]
    /\ ws["broker"].readyState # "none" <=> outcome[Info].type = "response"
    /\ closes \in 0..MaxCloses /\ mixed \subseteq Id /\ lost \subseteq Id

\* The library implements the abstract calls: a call that did not overlap with
\* another one on its socket never settles with another one's answer, although
\* replies carry nothing the library looks at, sockets close and calls fall
\* back from one to the other, and unanswered calls are left behind.
Calls == INSTANCE RequestReply
             WITH outcome <- [q \in Id |-> [state |-> outcome[q].state, by |-> outcome[q].by]]
RefinesRequestReply == Calls!Init /\ [][Calls!Next]_Calls!vars

\* A call that waits has its answer to come and the handler that will take it,
\* unless it overlapped with another one, its socket closed or the Java side sends
\* nothing back: no reply is spent on another call, none dropped when the handler
\* of getBrokerInfo makes the LHCBBroker, and no later call takes the handler away.
AnswerStillToCome ==
    \A q \in Id :
        outcome[q].state = "waiting" /\ q \notin mixed \cup lost =>
            \E s \in Socket : q \in Outstanding(s) /\ ws[s].onmessage = q

\* A call that does not overlap settles, unless its socket closes or the Java side
\* sends nothing back; the constructor's getBrokerInfo too.
CallAnswered ==
    \A q \in Id :
        outcome[q].state = "waiting" ~> outcome[q].state = "settled" \/ q \in mixed \cup lost

\* Of calls that overlap, the last one sent settles with the first answer
\* that arrives: it is never the one that waits for ever.
LastCallAnswered ==
    \A s \in Socket, r \in Request :
        ws[s].onmessage = r /\ Outstanding(s) # {}
            ~> outcome[r].state = "settled" \/ ws[s].onmessage # r \/ r \in lost
=============================================================================
