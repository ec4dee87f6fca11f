-------------------------- MODULE TurnRegistration --------------------------
(***************************************************************************)
(* How a TURN server keeps itself in the broker's list of servers:         *)
(* coturn's apps/relay/broker.c over the asynchronous Redis connection of  *)
(* apps/common/hiredis_libevent2.c.                                        *)
(*                                                                         *)
(* The server SETs its key turnservers:<ip>:<port>, gives it an expiry     *)
(* with a second command, EXPIRE, and repeats both every Period.  Its main *)
(* thread does it once while the broker thread is already running the      *)
(* connection's events; afterwards the broker thread's timer does it.      *)
(*                                                                         *)
(* Time is discrete.  Work that is ready (an event, a command on its way)  *)
(* is done within MaxDelay ticks.                                          *)
(***************************************************************************)
EXTENDS Naturals, Sequences

CONSTANTS Period,     \* TURN_REGISTER_REFRESH_PERIOD
          TTL,        \* TURN_REGISTERED_TTL_VALUE
          MaxDelay,   \* longest time ready work waits
          MaxFaults,  \* bound: broken connections, outages of Redis, crashes
          Swap        \* whether the hosts have swap space: a set of BOOLEANs

ASSUME PeriodAssumption == Period \in Nat \ {0} /\ MaxDelay \in Nat /\ MaxFaults \in Nat
ASSUME TTLAssumption == TTL \in Nat /\ TTL > Period
\* The margin the two values leave is what late work may use up.
ASSUME DelayAssumption == TTL > Period + MaxDelay
ASSUME SwapAssumption == Swap \subseteq BOOLEAN /\ Swap # {}

VARIABLES
    proc,     \* the server's process
    hasSwap,  \* whether its host has swap space
    timer,    \* ticks to the next refresh
    conn,     \* struct redisLibeventEvents and the hiredis context
    wire,     \* commands sent and not yet executed by Redis
    sel,      \* whether Redis has executed this connection's SELECT
    unread,   \* whether there are replies in the socket
    redisUp,
    key,      \* ticks the key in Redis has left, 0 when it has no expiry or is absent
    forever,  \* whether the key is there without expiry
    lag,      \* ticks for which some ready work has been waiting
    faults,   \* faults so far
    listed,   \* history: the current process has completed a registration
    halved,   \* history: a fault fell between a SET and its EXPIRE
    gap       \* history: ticks for which a running server has been missing from Redis

link == <<wire, sel, unread>>
store == <<key, forever>>
clocks == <<timer, gap>>
vars == <<proc, hasSwap, timer, conn, wire, sel, unread, redisUp, key, forever, lag,
          faults, listed, halved, gap>>

Cmds == {"SELECT", "SET", "EXPIRE"}

\* valid  redis_le_valid(e): a context, and no error seen on it
\* tcp    what has become of the connection; closed: by the peer, unnoticed;
\*        reset: the kernel has been told
\* rev    the read event: the one of redisLibeventAttach persists, the one of
\*        redis_reconnect fires once and is never added again (rev_set stays)
\* buf    the output buffer of the context
Conn == [valid : BOOLEAN, tcp : {"none", "connecting", "open", "closed", "reset"},
         rev : {"none", "persist", "oneshot", "spent"}, buf : Seq(Cmds)]

NoConn == [valid |-> FALSE, tcp |-> "none", rev |-> "none", buf |-> <<>>]

\* How long one fault can keep a running server off the list: a refresh that is
\* lost, one whose write fails, one that is sent on the new connection.
Absence == 3 * (Period + MaxDelay)
MaxGap == Absence + 1     \* bound: where the history stops counting

\* What register_to_db passes to EXPIRE, and setup_db_connection to the timer.
ExpiryIsThePeriod == Period
Expiry == TTL
RearmIsTheTTL == TTL
Rearm == Period

Present == forever \/ key > 0
Alive == proc \in {"setup", "half", "running"}
-----------------------------------------------------------------------------
(***************************************************************************)
(* hiredis_libevent2.c                                                     *)
(***************************************************************************)
\* redisLibeventAttach: the SELECT is the first command of the buffer.
Attach == [valid |-> TRUE, tcp |-> "connecting", rev |-> "persist", buf |-> <<"SELECT">>]

\* redis_reconnect: a new context, a new buffer, a read event without EV_PERSIST.
ReconnectNoSelect(c) == [valid |-> TRUE, tcp |-> "connecting", rev |-> "oneshot", buf |-> <<>>]
Reconnect(c) == [valid |-> TRUE, tcp |-> "connecting", rev |-> "oneshot", buf |-> <<"SELECT">>]

\* send_message_to_redis: reconnect an invalid connection, then buffer the
\* command.
SendMessageNoReconnect(c, cmd) == IF c.valid THEN [c EXCEPT !.buf = Append(@, cmd)] ELSE c
SendMessageNullOnly(c, cmd) ==
    LET d == IF c.tcp = "none" THEN Reconnect(c) ELSE c
    IN  IF d.valid THEN [d EXCEPT !.buf = Append(@, cmd)] ELSE d
SendMessage(c, cmd) ==
    LET d == IF c.valid THEN c ELSE Reconnect(c)
    IN  [d EXCEPT !.buf = Append(@, cmd)]

\* register_to_db, both commands in one callback of the broker thread
RegisterNoExpire(c) == SendMessage(c, "SET")
Register(c) == SendMessage(SendMessage(c, "SET"), "EXPIRE")
-----------------------------------------------------------------------------
\* Ready work.  Time passes only while there is none, or for MaxDelay ticks.
ReadReady == conn.tcp \in {"open", "closed", "reset"} /\ conn.rev \in {"persist", "oneshot"}

Pending ==
    \/ proc \in {"setup", "half"}
    \/ proc = "running" /\ timer = 0
    \/ Alive /\ conn.tcp = "connecting"
    \/ Alive /\ conn.valid /\ conn.buf # <<>>
    \/ Alive /\ ReadReady /\ (unread \/ conn.tcp \in {"closed", "reset"})
    \/ wire # <<>>

\* Waiting work that is done starts the clock anew.
Settle == lag' = IF Pending' THEN lag ELSE 0

Init ==
    /\ proc = "off" /\ hasSwap \in Swap
    /\ timer = 0
    /\ conn = NoConn
    /\ wire = <<>> /\ sel = FALSE /\ unread = FALSE
    /\ redisUp \in BOOLEAN
    /\ key = 0 /\ forever = FALSE
    /\ lag = 0 /\ faults = 0 /\ listed = FALSE /\ halved = FALSE /\ gap = 0

\* setup_broker_server up to pthread_create: the connection is being made, the
\* timer runs, the broker thread starts.
Setup ==
    /\ proc = "off"
    /\ proc' = "setup"
    /\ timer' = Rearm
    /\ conn' = Attach
    /\ wire' = <<>> /\ sel' = FALSE /\ unread' = FALSE
    /\ gap' = 0
    /\ UNCHANGED <<hasSwap, redisUp, store, faults, listed, halved>>
    /\ Settle

\* getSwapMemUsage divides by the host's amount of swap: the first
\* register_to_db ends the process where there is none.
DivideByZero ==
    /\ proc = "setup" /\ ~hasSwap
    /\ proc' = "trapped"
    /\ conn' = NoConn
    /\ UNCHANGED <<hasSwap, clocks, link, redisUp, store, faults, listed, halved>>
    /\ Settle

\* The main thread's register_to_db, one command at a time, beside the
\* broker thread.
MainSet ==
    /\ proc = "setup" /\ hasSwap
    /\ proc' = "half"
    /\ conn' = SendMessage(conn, "SET")
    /\ UNCHANGED <<hasSwap, clocks, link, redisUp, store, faults, listed, halved>>
    /\ Settle

MainExpire ==
    /\ proc = "half"
    /\ proc' = "running"
    /\ conn' = SendMessage(conn, "EXPIRE")
    /\ UNCHANGED <<hasSwap, clocks, link, redisUp, store, faults, listed, halved>>
    /\ Settle

\* turn_register_timeout_handler; the timer is persistent.
Refresh ==
    /\ proc = "running" /\ timer = 0
    /\ timer' = Rearm
    /\ conn' = Register(conn)
    /\ UNCHANGED <<proc, hasSwap, gap, link, redisUp, store, faults, listed, halved>>
    /\ Settle
-----------------------------------------------------------------------------
(***************************************************************************)
(* The events of the connection, run by the broker thread.                 *)
(***************************************************************************)
\* hiredis learns the outcome of connect(); on failure it drops the context.
Connected ==
    /\ Alive /\ conn.tcp = "connecting"
    /\ conn' = IF redisUp THEN [conn EXCEPT !.tcp = "open"] ELSE NoConn
    /\ sel' = FALSE /\ wire' = <<>> /\ unread' = FALSE
    /\ UNCHANGED <<proc, hasSwap, clocks, redisUp, store, faults, listed, halved>>
    /\ Settle

\* redisLibeventWriteEvent: the buffer goes out in one write.  To a peer that
\* has closed, the first write is accepted and answered with a reset, the next
\* one fails: hiredis drops the context.
WriteEvent ==
    /\ Alive /\ conn.valid /\ conn.buf # <<>> /\ conn.tcp \in {"open", "closed", "reset"}
    /\ \/ /\ conn.tcp = "open"
          /\ wire' = wire \o conn.buf
          /\ conn' = [conn EXCEPT !.buf = <<>>]
       \/ /\ conn.tcp = "closed"
          /\ conn' = [conn EXCEPT !.buf = <<>>, !.tcp = "reset"]
          /\ UNCHANGED wire
       \/ /\ conn.tcp = "reset"
          /\ conn' = NoConn
          /\ UNCHANGED wire
    /\ UNCHANGED <<proc, hasSwap, clocks, sel, unread, redisUp, store, faults, listed, halved>>
    /\ Settle

Fired(rev) == IF rev = "oneshot" THEN "spent" ELSE rev

\* redisLibeventReadEvent on a valid connection: replies are consumed, the end
\* of the stream makes the connection invalid; on an invalid one, reconnect.
ReadEvent ==
    /\ Alive /\ ReadReady
    /\ unread \/ conn.tcp \in {"closed", "reset"}
    /\ \/ /\ conn.valid /\ unread /\ conn.tcp # "reset"
          /\ unread' = FALSE
          /\ conn' = [conn EXCEPT !.rev = Fired(@)]
       \/ /\ conn.valid /\ (~unread \/ conn.tcp = "reset")
          /\ conn' = [conn EXCEPT !.valid = FALSE, !.rev = Fired(@)]
          /\ UNCHANGED unread
       \/ /\ ~conn.valid
          /\ conn' = Reconnect(conn)
          /\ UNCHANGED unread
    /\ UNCHANGED <<proc, hasSwap, clocks, wire, sel, redisUp, store, faults, listed, halved>>
    /\ Settle
-----------------------------------------------------------------------------
(***************************************************************************)
(* Redis, time and faults.                                                 *)
(***************************************************************************)
\* Redis executes the next command.  The key the broker reads is in the
\* database the SELECT names.
RedisExec ==
    /\ wire # <<>>
    /\ wire' = Tail(wire)
    /\ unread' = Alive
    /\ \/ Head(wire) = "SELECT" /\ sel' = TRUE /\ UNCHANGED <<store, listed, halved, gap>>
       \/ /\ Head(wire) = "SET"
          /\ forever' = (sel \/ forever)
          /\ key' = IF sel THEN 0 ELSE key
          /\ gap' = IF sel THEN 0 ELSE gap
          /\ UNCHANGED <<sel, listed, halved>>
       \/ /\ Head(wire) = "EXPIRE"
          /\ key' = IF sel /\ Present THEN Expiry ELSE key
          /\ forever' = (forever /\ ~sel)
          /\ listed' = (listed \/ (sel /\ Present /\ Alive))
          /\ halved' = (halved /\ ~sel)
          /\ UNCHANGED <<sel, gap>>
    /\ UNCHANGED <<proc, hasSwap, timer, conn, redisUp, faults>>
    /\ Settle

Tick ==
    /\ Pending => lag < MaxDelay
    /\ lag' = IF Pending THEN lag + 1 ELSE 0
    /\ timer' = IF Alive /\ timer > 0 THEN timer - 1 ELSE timer
    /\ key' = IF key > 0 THEN key - 1 ELSE 0
    /\ UNCHANGED <<proc, hasSwap, conn, link, redisUp, forever, faults, listed, halved>>
    /\ gap' = IF proc # "running" \/ ~redisUp \/ Present' THEN 0
              ELSE IF gap < MaxGap THEN gap + 1 ELSE gap

\* Redis gets no more than the first n commands of the wire, the last of
\* which that concern the key is a SET whose EXPIRE was still to come.
Halves(n) ==
    /\ IF n > 0 /\ wire[n] # "SELECT" THEN wire[n] = "SET" ELSE forever
    /\ \/ proc = "half"
       \/ \E i \in 1..Len(conn.buf) : conn.buf[i] = "EXPIRE"
       \/ \E i \in (n + 1)..Len(wire) : wire[i] = "EXPIRE"

\* The connection breaks; what is on its way is lost.
Break ==
    /\ faults < MaxFaults
    /\ Alive /\ conn.tcp = "open"
    /\ conn' = [conn EXCEPT !.tcp = "closed"]
    /\ wire' = <<>>
    /\ faults' = faults + 1
    /\ halved' = (halved \/ Halves(0))
    /\ UNCHANGED <<proc, hasSwap, clocks, sel, unread, redisUp, store, listed>>
    /\ Settle

\* Redis goes away (its data is persistent) and comes back.
RedisStops ==
    /\ faults < MaxFaults /\ redisUp
    /\ redisUp' = FALSE
    /\ conn' = IF conn.tcp = "open" THEN [conn EXCEPT !.tcp = "closed"] ELSE conn
    /\ wire' = <<>>
    /\ faults' = faults + 1
    /\ halved' = (halved \/ Halves(0))
    /\ UNCHANGED <<proc, hasSwap, clocks, sel, unread, store, listed>>
    /\ Settle

RedisStarts ==
    /\ ~redisUp
    /\ redisUp' = TRUE
    /\ UNCHANGED <<proc, hasSwap, clocks, conn, link, store, faults, listed, halved>>
    /\ Settle

\* The server or its host dies: Redis still gets the first n of the commands
\* that were on their way.
Crash(n) ==
    /\ faults < MaxFaults /\ Alive
    /\ proc' = "dead"
    /\ conn' = NoConn
    /\ wire' = SubSeq(wire, 1, n)
    /\ unread' = FALSE
    /\ faults' = faults + 1
    /\ halved' = (halved \/ Halves(n))
    /\ listed' = FALSE /\ gap' = 0
    /\ UNCHANGED <<hasSwap, timer, sel, redisUp, store>>
    /\ Settle

\* The server is started again.
Restart ==
    /\ proc = "dead" /\ wire = <<>>
    /\ proc' = "off"
    /\ UNCHANGED <<hasSwap, clocks, conn, link, redisUp, store, faults, listed, halved>>
    /\ Settle

Next ==
    \/ Setup \/ DivideByZero \/ MainSet \/ MainExpire \/ Refresh
    \/ Connected \/ WriteEvent \/ ReadEvent \/ RedisExec
    \/ Tick \/ Break \/ RedisStops \/ RedisStarts \/ Restart
    \/ \E n \in 0..Len(wire) : Crash(n)

\* The threads run, commands on an open connection arrive, time passes.  Faults
\* need not happen, Redis need not come back, a dead server need not restart.
Fairness ==
    /\ WF_vars(MainSet) /\ WF_vars(MainExpire) /\ WF_vars(Refresh)
    /\ WF_vars(Connected) /\ WF_vars(WriteEvent) /\ WF_vars(ReadEvent)
    /\ WF_vars(RedisExec) /\ WF_vars(Tick)

Spec == Init /\ [][Next]_vars /\ Fairness
-----------------------------------------------------------------------------
\* Each variable keeps its type; ready work never waits longer than MaxDelay,
\* a key never has more than TTL to live.
TypeOK ==
    /\ proc \in {"off", "setup", "half", "running", "dead", "trapped"}
    /\ hasSwap \in BOOLEAN
    /\ timer \in 0..Period
    /\ conn \in Conn
    /\ wire \in Seq(Cmds)
    /\ sel \in BOOLEAN /\ unread \in BOOLEAN /\ redisUp \in BOOLEAN
    /\ key \in 0..TTL /\ forever \in BOOLEAN
    /\ lag \in 0..MaxDelay
    /\ faults \in 0..MaxFaults
    /\ listed \in BOOLEAN /\ halved \in BOOLEAN
    /\ gap \in 0..MaxGap

\* Without faults, a server that has registered once stays in the list: the
\* refresh arrives before the expiry of the previous one, however late the
\* timer, the write and Redis are within MaxDelay (the comment of
\* TURN_REGISTERED_TTL_VALUE).
ListedWhileHealthy == faults = 0 /\ listed => Present

\* No SET or EXPIRE is executed on a connection before its SELECT, on a
\* connection that was broken and remade in the middle of a registration too:
\* a server never registers in the wrong database.
SelectFirst == wire # <<>> /\ Head(wire) # "SELECT" => sel

\* A single fault keeps a running server off the list for a bounded time, though
\* the read event redis_reconnect leaves fires only once, so that the break of
\* a connection that was remade goes unnoticed until two writes have failed.
OneFaultBoundedAbsence == faults <= 1 /\ listed => gap <= Absence

\* A server that runs and is missing from the list is back on it eventually,
\* as often as its connection breaks, unless Redis itself stays away.
RegistrationRecovers ==
    (proc = "running" /\ ~Present) ~> (Present \/ proc # "running" \/ ~redisUp)

\* A dead server disappears from the list (unless it is restarted), except
\* when a fault separated its last SET from the EXPIRE that follows it.
DeadServerForgottenUnlessHalved ==
    (proc = "dead") ~> (~Present \/ proc # "dead" \/ halved)
=============================================================================
