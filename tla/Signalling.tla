----------------------------- MODULE Signalling -----------------------------
(***************************************************************************)
(* The WebRTC example of the broker: the signalling server                 *)
(* appWebRTC/appWebRTC.js and the page public/js/main.js, for one room.    *)
(*                                                                         *)
(* A page asks the broker for a TURN server, connects its socket, asks to  *)
(* create or join the room and for the user's camera, in one go; what      *)
(* comes back comes in any order.  The server relays what a page sends to  *)
(* the pages in the room, in order.  The handlers decide on isInitiator,   *)
(* isStarted, isChannelReady and localStream, all set by other handlers.   *)
(* An exception ends the handler it is thrown in and nothing else.         *)
(*                                                                         *)
(* RTCPeerConnection is external: an offer or an answer that does not fit  *)
(* the signalling state is rejected, a closed connection never calls back. *)
(***************************************************************************)
EXTENDS Naturals, Sequences, FiniteSets

CONSTANTS N,          \* pages that visit the room, numbered as they come up
          Granted,    \* those the broker gives a TURN server and credentials
          MaxLeaves   \* bound: pages that are closed or die

ASSUME PagesAssumption == N \in Nat /\ Granted \subseteq 1..N
ASSUME BoundAssumption == MaxLeaves \in Nat

VARIABLES
    view,            \* where each page is in its life
    isInitiator, isStarted, isChannelReady,
    localStream,     \* whether the camera's stream is there
    pc,              \* the page's RTCPeerConnection
    making,          \* descriptions a connection has been asked to create
    up, down,        \* socket messages from and to each page
    room,            \* server: the sockets in the room
    leaves,          \* pages gone so far
    \* History, read by no action:
    smooth,          \* no offer came to a page that could not answer it, no 'bye' to
                     \* one that had not started or to both pages of a room, no
                     \* page has died
    early            \* pages whose stream was there before another page joined

flags == <<isInitiator, isStarted, isChannelReady>>
history == <<smooth, early>>
vars == <<view, flags, localStream, pc, making, up, down, room, leaves, history>>

Page == 1..N
Views == {"loading", "open", "closed"}

\* A connection is named by its page and its number; number 0 names none.
Id == Page \X Nat
\* n: how many connections the page has built; there: pc is not null;
\* relay: built with the configuration; state: its signalingState;
\* peer: whose description it was given
Pc == [n : Nat, there : BOOLEAN, relay : BOOLEAN, state : {"stable", "have-local", "have-remote"},
       peer : Id]

\* createOffer or createAnswer of the n-th connection
Asked == [kind : {"offer", "answer"}, n : Nat]

\* Socket messages: 'create or join' and 'bye' (leave) for the server, what
\* pages send each other through it, and what the server says itself.
Relayed == {"got user media", "offer", "answer", "bye"}
Message(kinds) == [kind : kinds, from : Id]
ToServer == Message(Relayed \cup {"create or join", "leave"})
ToPage == Message(Relayed \cup {"created", "join", "joined", "full"})

NoId(p) == <<p, 0>>
Self(p) == <<p, pc[p].n>>

\* pc = null; the number of connections built is kept.
Null(p, n) == [n |-> n, there |-> FALSE, relay |-> FALSE, state |-> "stable", peer |-> NoId(p)]

\* peerConnection(RTCPeerConfiguration)
New(p, relay) == [Null(p, pc[p].n + 1) EXCEPT !.there = TRUE, !.relay = relay]

Init ==
    /\ view = [p \in Page |-> "loading"]
    /\ isInitiator = [p \in Page |-> FALSE]
    /\ isStarted = [p \in Page |-> FALSE]
    /\ isChannelReady = [p \in Page |-> FALSE]
    /\ localStream = [p \in Page |-> FALSE]
    /\ pc = [p \in Page |-> Null(p, 0)]
    /\ making = [p \in Page |-> {}]
    /\ up = [p \in Page |-> <<>>] /\ down = [p \in Page |-> <<>>]
    /\ room = {}
    /\ leaves = 0
    /\ smooth = TRUE /\ early = {}
-----------------------------------------------------------------------------
(***************************************************************************)
(* The page comes up.                                                      *)
(***************************************************************************)
\* socket.emit, sendMessage
Emit(kind, from) == [kind |-> kind, from |-> from]

\* getAppropriateTurn and getCredentials have been answered, or the first has
\* failed (when the second fails the page stays as it is).  startupBehavior:
\* connect, ask for the camera, ask for the room.
StartupBehavior(p) ==
    /\ view[p] = "loading" /\ \A q \in 1..(p - 1) : view[q] # "loading"
    /\ view' = [view EXCEPT ![p] = "open"]
    /\ up' = [up EXCEPT ![p] = Append(@, Emit("create or join", NoId(p)))]
    /\ UNCHANGED <<flags, localStream, pc, making, down, room, leaves, history>>

\* Whether it was called with an RTCPeerConfiguration.
Configured(p) == p \in Granted
-----------------------------------------------------------------------------
(***************************************************************************)
(* The server's handlers, one message of one page at a time.               *)
(***************************************************************************)
\* socket.emit to the sockets in qs: a page that is gone hears nothing.
EmitTo(qs, message) ==
    [q \in Page |-> IF q \in qs /\ view[q] = "open" THEN Append(down[q], message) ELSE down[q]]

Handle(p, kinds) ==
    /\ up[p] # <<>> /\ Head(up[p]).kind \in kinds
    /\ up' = [up EXCEPT ![p] = Tail(@)]
    /\ UNCHANGED <<view, flags, localStream, pc, making, leaves, early>>

\* 'create or join', in a room for max pages
Admit(p, max) ==
    /\ Handle(p, {"create or join"})
    /\ \/ /\ room = {}
          /\ room' = {p}
          /\ down' = EmitTo({p}, Emit("created", NoId(p)))
       \/ /\ room # {} /\ Cardinality(room) < max
          /\ room' = room \cup {p}
          /\ down' = [EmitTo(room, Emit("join", NoId(p)))
                         EXCEPT ![p] = EmitTo({p}, Emit("joined", NoId(p)))[p]]
       \/ /\ Cardinality(room) >= max
          /\ down' = EmitTo({p}, Emit("full", NoId(p)))
          /\ UNCHANGED room
    /\ UNCHANGED smooth
CreateOrJoinThree(p) == Admit(p, 3)
CreateOrJoin(p) == Admit(p, 2)

\* 'message': to everyone in the room but the sender, who need not be in it.
Relay(p) ==
    /\ Handle(p, Relayed)
    /\ down' = EmitTo(room \ {p}, Head(up[p]))
    /\ smooth' = (smooth /\ (Head(up[p]).kind = "bye" => Cardinality(room \ {p}) <= 1))
    /\ UNCHANGED room

\* 'bye'
LeaveRoom(p) ==
    /\ Handle(p, {"leave"})
    /\ room' = room \ {p}
    /\ UNCHANGED <<down, smooth>>

\* The socket of a page that is gone is closed: it leaves its rooms.
Disconnect(p) ==
    /\ view[p] = "closed" /\ up[p] = <<>> /\ p \in room
    /\ room' = room \ {p}
    /\ UNCHANGED <<view, flags, localStream, pc, making, up, down, leaves, history>>
-----------------------------------------------------------------------------
(***************************************************************************)
(* The page's handlers.                                                    *)
(***************************************************************************)
\* maybeStart(RTCPeerConfiguration): the test of localStream is always true,
\* addStream(null) throws.  A page that starts as initiator makes an offer.
WouldStart(p) == ~isStarted[p] /\ isChannelReady[p]
MaybeStart(p, relay) ==
    IF WouldStart(p)
    THEN /\ pc' = [pc EXCEPT ![p] = New(p, relay)]
         /\ isStarted' = [isStarted EXCEPT ![p] = localStream'[p]]
         /\ making' = [making EXCEPT ![p] = IF localStream'[p] /\ isInitiator[p]
                                            THEN @ \cup {[kind |-> "offer", n |-> New(p, relay).n]} ELSE @]
    ELSE UNCHANGED <<pc, isStarted, making>>

\* handleUserMedia: no configuration is passed on.
HandleUserMedia(p) ==
    /\ view[p] = "open" /\ ~localStream[p]
    /\ localStream' = [localStream EXCEPT ![p] = TRUE]
    /\ up' = [up EXCEPT ![p] = Append(@, Emit("got user media", NoId(p)))]
    /\ IF isInitiator[p] THEN MaybeStart(p, FALSE)
       ELSE UNCHANGED <<pc, isStarted, making>>
    /\ early' = IF isChannelReady[p] THEN early ELSE early \cup {p}
    /\ UNCHANGED <<view, isInitiator, isChannelReady, down, room, leaves, smooth>>

\* The next message that page p has received.
Hears(p, kinds) ==
    /\ view[p] = "open" /\ down[p] # <<>> /\ Head(down[p]).kind \in kinds
    /\ down' = [down EXCEPT ![p] = Tail(@)]
    /\ UNCHANGED <<view, localStream, room, leaves, early>>

Created(p) ==
    /\ Hears(p, {"created"})
    /\ isInitiator' = [isInitiator EXCEPT ![p] = TRUE]
    /\ UNCHANGED <<isStarted, isChannelReady, pc, making, up, smooth>>

\* 'join' and 'joined'
ChannelReady(p) ==
    /\ Hears(p, {"join", "joined"})
    /\ isChannelReady' = [isChannelReady EXCEPT ![p] = TRUE]
    /\ UNCHANGED <<isInitiator, isStarted, pc, making, up, smooth>>

Full(p) ==
    /\ Hears(p, {"full"})
    /\ UNCHANGED <<flags, pc, making, up, smooth>>

MediaThere(p, relay) ==
    /\ Hears(p, {"got user media"})
    /\ MaybeStart(p, relay)
    /\ UNCHANGED <<isInitiator, isChannelReady, up, smooth>>
HearMediaUnconfigured(p) == MediaThere(p, FALSE)
HearMedia(p) == MediaThere(p, Configured(p))

\* pc.setRemoteDescription(offer), then doAnswer: a connection with an offer
\* of its own rejects both.
OfferedForgotten(c, from) == c
Offered(c, from) ==
    IF c.state = "have-local" THEN c ELSE [c EXCEPT !.state = "have-remote", !.peer = from]

\* An offer starts a page that is not the initiator, again without the
\* configuration; with no pc, or if the start throws, there is no answer.
HearOffer(p) ==
    LET starts == ~isInitiator[p] /\ WouldStart(p)
        c == IF starts THEN New(p, FALSE) ELSE pc[p]
        throws == IF starts THEN ~localStream[p] ELSE ~pc[p].there
    IN  /\ Hears(p, {"offer"})
        /\ pc' = [pc EXCEPT ![p] = IF throws THEN c ELSE Offered(c, Head(down[p]).from)]
        /\ isStarted' = [isStarted EXCEPT ![p] = @ \/ (starts /\ ~throws)]
        /\ making' = [making EXCEPT ![p] = IF throws \/ c.state = "have-local" THEN @
                                           ELSE @ \cup {[kind |-> "answer", n |-> c.n]}]
        /\ smooth' = (smooth /\ ~throws)
        /\ UNCHANGED <<isInitiator, isChannelReady, up>>

HearAnswer(p) ==
    /\ Hears(p, {"answer"})
    /\ pc' = IF isStarted[p] /\ pc[p].state = "have-local"
             THEN [pc EXCEPT ![p].state = "stable", ![p].peer = Head(down[p]).from]
             ELSE pc
    /\ UNCHANGED <<flags, making, up, smooth>>

\* 'bye': handleRemoteHangup and stop, on a page that has started.
Hangup(p, initiates) ==
    /\ Hears(p, {"bye"})
    /\ IF isStarted[p]
       THEN /\ isStarted' = [isStarted EXCEPT ![p] = FALSE]
            /\ pc' = [pc EXCEPT ![p] = Null(p, @.n)]
            /\ making' = [making EXCEPT ![p] = {}]
            /\ isInitiator' = [isInitiator EXCEPT ![p] = @ \/ initiates]
            /\ UNCHANGED smooth
       ELSE /\ smooth' = FALSE
            /\ UNCHANGED <<isInitiator, isStarted, pc, making>>
    /\ UNCHANGED <<isChannelReady, up>>
HearByeOnly(p) == Hangup(p, FALSE)
HearBye(p) == Hangup(p, TRUE)

\* setLocalAndSendMessage: the description is sent whether or not it was set; that
\* of a connection which maybeStart has replaced cannot be.
Described(p, m) ==
    /\ view[p] = "open" /\ m \in making[p] /\ pc[p].there
    /\ making' = [making EXCEPT ![p] = @ \ {m}]
    /\ pc' = [pc EXCEPT ![p].state =
                 CASE m = [kind |-> "offer", n |-> pc[p].n] /\ @ = "stable" -> "have-local"
                   [] m = [kind |-> "answer", n |-> pc[p].n] /\ @ = "have-remote" -> "stable"
                   [] OTHER -> @]
    /\ up' = [up EXCEPT ![p] = Append(@, Emit(m.kind, <<p, m.n>>))]
    /\ UNCHANGED <<view, flags, localStream, down, room, leaves, history>>
-----------------------------------------------------------------------------
(***************************************************************************)
(* Pages are closed or die.                                                *)
(***************************************************************************)
\* What the page was is gone with it; the server still gets what it has sent.
Close(p, sent) ==
    /\ view[p] = "open" /\ leaves < MaxLeaves
    /\ view' = [view EXCEPT ![p] = "closed"]
    /\ up' = [up EXCEPT ![p] = sent] /\ down' = [down EXCEPT ![p] = <<>>]
    /\ isInitiator' = [isInitiator EXCEPT ![p] = FALSE]
    /\ isStarted' = [isStarted EXCEPT ![p] = FALSE]
    /\ isChannelReady' = [isChannelReady EXCEPT ![p] = FALSE]
    /\ localStream' = [localStream EXCEPT ![p] = FALSE]
    /\ pc' = [pc EXCEPT ![p] = Null(p, @.n)]
    /\ making' = [making EXCEPT ![p] = {}]
    /\ leaves' = leaves + 1
    /\ early' = early \ {p}
    /\ UNCHANGED room

\* window.onbeforeunload
Unload(p) ==
    /\ Close(p, up[p] \o <<Emit("leave", NoId(p)), Emit("bye", NoId(p))>>)
    /\ UNCHANGED smooth

\* The page dies: the first n of the messages on their way arrive.
Die(p, n) ==
    /\ Close(p, SubSeq(up[p], 1, n))
    /\ smooth' = FALSE

Serve(p) == CreateOrJoin(p) \/ Relay(p) \/ LeaveRoom(p) \/ Disconnect(p)
Hear(p) ==
    \/ Created(p) \/ ChannelReady(p) \/ Full(p) \/ HearMedia(p) \/ HearOffer(p)
    \/ HearAnswer(p) \/ HearBye(p)
Describe(p) == \E m \in making[p] : Described(p, m)

Next ==
    \E p \in Page :
        \/ StartupBehavior(p) \/ HandleUserMedia(p) \/ Serve(p) \/ Hear(p) \/ Describe(p)
        \/ Unload(p) \/ (\E n \in 0..Len(up[p]) : Die(p, n))

\* Sockets deliver, server and pages handle what arrives, the browser creates
\* what it was asked for.  No one need come, leave or share a camera.
Fairness == \A p \in Page : WF_vars(Serve(p)) /\ WF_vars(Hear(p)) /\ WF_vars(Describe(p))

Spec == Init /\ [][Next]_vars /\ Fairness
-----------------------------------------------------------------------------
\* Each variable keeps its type, and a room never holds more than two sockets
\* however requests to join, departures and deaths interleave (appWebRTC.js:73,
\* "max two clients").
TypeOK ==
    /\ view \in [Page -> Views]
    /\ isInitiator \in [Page -> BOOLEAN] /\ isStarted \in [Page -> BOOLEAN]
    /\ isChannelReady \in [Page -> BOOLEAN] /\ localStream \in [Page -> BOOLEAN]
    /\ pc \in [Page -> Pc] /\ making \in [Page -> SUBSET Asked]
    /\ up \in [Page -> Seq(ToServer)] /\ down \in [Page -> Seq(ToPage)]
    /\ room \subseteq Page /\ Cardinality(room) <= 2
    /\ leaves \in 0..MaxLeaves /\ early \subseteq Page /\ smooth \in BOOLEAN

\* p and q hold each other's descriptions.
InCall(p, q) ==
    /\ pc[p].there /\ pc[p].state = "stable" /\ pc[p].peer = Self(q)
    /\ pc[q].there /\ pc[q].state = "stable" /\ pc[q].peer = Self(p)

\* Two pages that have the room and their cameras are put through, whatever the
\* order in which streams, 'join', 'joined' and messages arrive and whoever was in
\* the room before: each ends up with the description of the other's current
\* connection, though a start may have failed (without a stream it throws) and is
\* tried again; unless one of them leaves or an offer found no stream at all.
CallSetUp ==
    \A p, q \in Page : p < q =>
        (({p, q} = room /\ localStream[p] /\ localStream[q])
            ~> (InCall(p, q) \/ view[p] = "closed" \/ view[q] = "closed" \/ ~smooth))

Initiators == {p \in room : isInitiator[p]}
Quiet == \A p \in Page : up[p] = <<>> /\ down[p] = <<>>

\* The pages agree on who calls: never two initiators in the room, and, once
\* every message has been handled, one in every room that is not empty, through
\* departures and arrivals (handleRemoteHangup: the one left becomes the initiator).
OneInitiator ==
    smooth => /\ Cardinality(Initiators) <= 1
              /\ Quiet /\ room # {} => Initiators # {}

\* The caller's media goes through the TURN server the broker granted: an
\* initiator that had its camera before anyone joined built its connection with the
\* configuration.  (handleUserMedia, and an offer, start without it.)
CallerRelays ==
    \A p, q \in Page :
        InCall(p, q) /\ isInitiator[p] /\ p \in early /\ Configured(p) => pc[p].relay
=============================================================================
