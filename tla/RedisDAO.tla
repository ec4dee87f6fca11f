------------------------------ MODULE RedisDAO ------------------------------
(***************************************************************************)
(* The data access object of the QoS broker (BrokerServer/app/dao.js) and  *)
(* the REST handlers that drive it (app/routes.js), over ONE node_redis    *)
(* connection.                                                             *)
(*                                                                         *)
(* Every HTTP request and every traffic notification issues its Redis      *)
(* commands on the shared connection dao.client.  Redis executes the       *)
(* commands of a connection in order, each in the database the connection  *)
(* has SELECTed last, whoever asked for that database.  node_redis answers *)
(* in order; a callback given to a command runs when the reply arrives, a  *)
(* promise's continuation runs in a later turn of the event loop, after    *)
(* which other requests may already have sent commands of their own.       *)
(* When the connection breaks, node_redis fails every command whose reply  *)
(* it has not read, connects again and selects the last database it knows  *)
(* to be selected.                                                         *)
(*                                                                         *)
(* Only the fields a decision of the broker looks at are kept: the data    *)
(* quota and the data consumption of a CSP (audio and video quotas are     *)
(* stored and displayed, never compared), the CSP of a client, the         *)
(* presence of a TURN key and of a TURN server.                            *)
(***************************************************************************)
EXTENDS Naturals, Sequences, FiniteSets

CONSTANTS Request,    \* HTTP requests and traffic notifications, each made once
          OldClient,  \* client ids that no request of the run creates
          OldOwner,   \* the CSP of those handed out before the run, None for
                      \* those that were never handed out
          Csp,        \* names of communication service providers
          NullCsp,    \* the name "null", where a null reply is concatenated
          Turn,       \* TURN servers
          Quota,      \* data quotas that forms and dashboards submit
          NaN,        \* a quota that is not a number: parseInt(undefined), "undefined"
          Bytes,      \* amounts of traffic in one notification
          Workload,   \* the kinds of request each of them may be
          None        \* absence of a key

AllKinds == {"provRequest", "getAppropriateTurn", "getCredentials", "deleteCSP",
             "changeQuotas", "getAllCspInfo", "getCspConso", "addCSPConso"}

ASSUME WorkloadAssumption == Workload \in [Request -> SUBSET AllKinds]
ASSUME NumbersAssumption == Quota \subseteq Nat /\ Bytes \subseteq Nat
ASSUME OwnerAssumption == OldOwner \in [OldClient -> Csp \cup {None}]
ASSUME NoneAssumption ==
    /\ None \notin Nat \cup {NaN, NullCsp} \cup Csp \cup OldClient \cup Request
    /\ Request \cap OldClient = {}
    /\ NaN \notin Nat
    /\ NullCsp \notin Csp

(***************************************************************************)
(* The Redis side: databases 0 (TURN users) and 2 (broker).                *)
(***************************************************************************)
Dbs == {0, 2}
Client == Request \cup OldClient
CspKey == Csp \cup {NullCsp}
Amount == Nat \cup {None}
QuotaValue == Quota \cup {NaN}

\* The keys of one database:
\*   prov[c]   prov:<c>, its dataQuota field        conso[c]  prov:<c>:conso, its data field
\*   histo[c]  histoprov:<c>:conso, its data field  users[u]  users:<u>
\*   ttl       the clients whose users: key has an expiry
\*   cred      the clients with a turn/realm/.../user/<u>/key
\*   turn      turnservers:<t>, written by the TURN servers
Store == [prov  : [Csp -> QuotaValue \cup {None}],
          conso : [CspKey -> Amount],
          histo : [Csp -> Amount],
          users : [Client -> Csp \cup {None}],
          ttl   : SUBSET Client,
          cred  : SUBSET Client,
          turn  : SUBSET Turn]

Ops == {"SELECT_0", "SELECT_2", "SET_USER", "EXPIRE_USER", "HSETNX_PROV",
        "HSETNX_CONSO", "HGETALL_PROV", "HGETALL_CONSO", "KEYS_TURN", "GET_TURNS",
        "SET_KEY", "RENAME_CONSO", "RENAME_PROV", "HMSET_PROV", "KEYS_PROV",
        "HGETALL_EACH", "GET_USER", "HINCRBY"}

\* A command on the connection: what it does, for which request, and whether
\* the caller waits for the reply.  Keys and values are those of job[r], got[r].
Command == [op : Ops, r : Request, cb : BOOLEAN]

Job == [kind   : AllKinds \cup {"none"},
        csp    : Csp \cup {None},
        client : Client \cup {None},
        quota  : QuotaValue \cup {None},
        bytes  : Bytes \cup {None}]

NoJob == [kind |-> "none", csp |-> None, client |-> None, quota |-> None, bytes |-> None]

\* What the replies to a request have brought back so far.
Reply == [quota : QuotaValue \cup {None},
          conso : Amount,
          csp   : CspKey,
          turns : SUBSET Turn,
          provs : SUBSET Csp,
          ok    : BOOLEAN]

NoReply == [quota |-> None, conso |-> None, csp |-> NullCsp, turns |-> {},
            provs |-> {}, ok |-> TRUE]

\* Where a request is: the continuation that its next reply triggers.
Waiting == {"infosSelected", "infos", "consoSelected", "conso", "turnsSelected",
            "turnKeys", "turns", "credSelected", "cred", "provSelected", "renamed",
            "quotaSelected", "quota", "allKeys", "allInfos", "userSelected", "user",
            "incr"}

\* Of these, the ones whose reply tells node_redis that a SELECT was executed:
\* that of the request itself, or one it sent in the same go ...
Selecting == {"infosSelected", "consoSelected", "turnsSelected", "credSelected",
              "provSelected", "quotaSelected", "userSelected", "renamed", "allKeys"}

\* ... which was sent without waiting for the reply.
SelectedBefore == {"infosSelected", "renamed", "allKeys"}

Pc == Waiting \cup {"idle", "done", "hung"}

\* Callbacks passed to a command directly run inside the delivery of the
\* reply; everything else is the continuation of a promise.
PlainCallback == {"turnKeys", "renamed", "allKeys", "allInfos"}

Answers == {"none", "redirect", "granted", "notfound", "overquota", "noturn", "error", "ok"}

VARIABLES
    db,         \* the databases
    selected,   \* the database SELECTed on dao.client
    selected_db, \* the same, as far as node_redis has read the replies
    pipe,       \* commands sent on dao.client and not yet executed
    inbox,      \* requests whose awaited reply is on its way back
    tasks,      \* continuations of promises, ready to run
    pc, job, got,
    answer,     \* the HTTP answer to each request
    chosen,     \* the TURN server each request was given
    up,         \* FALSE once an exception escaped to the event loop
    \* History, read by no action:
    overlapped, \* requests that were live with one that uses the other database
    misplaced,  \* requests one of whose commands ran in the wrong database
    witness,    \* what was true at some moment of the life of a turn request
    carried,    \* traffic TURN servers reported for the clients of each CSP
    lapsed,     \* clients whose users: key expired
    cut,        \* requests whose reply was lost with the connection
    pulled      \* polls a CSP of which was deleted between their KEYS and HGETALL

redis == <<db, selected>>
history == <<overlapped, misplaced, witness, carried, lapsed, cut, pulled>>
vars == <<db, selected, selected_db, pipe, inbox, tasks, pc, job, got, answer, chosen, up,
          overlapped, misplaced, witness, carried, lapsed, cut, pulled>>
-----------------------------------------------------------------------------
\* The database a request is written for.
Target(kind) == IF kind = "getCredentials" THEN 0 ELSE 2

IsSelect(op) == op \in {"SELECT_0", "SELECT_2"}
SelectedBy(op) == IF op = "SELECT_0" THEN 0 ELSE 2

\* Requests that have commands or continuations under way.
Live == {r \in Request : \/ pc[r] \in Waiting
                         \/ \E i \in 1..Len(pipe) : pipe[i].r = r}

\* The CSP a client was created for: that of the getAppropriateTurn request
\* that generated its id; None when no request did.
OwnerOf(u) == IF u \in Request THEN job[u].csp ELSE OldOwner[u]

EmptyStore == [prov  |-> [c \in Csp |-> None],
               conso |-> [c \in CspKey |-> None],
               histo |-> [c \in Csp |-> None],
               users |-> [u \in Client |-> None],
               ttl   |-> {}, cred |-> {}, turn |-> {}]

\* The comparison of getAppropriateTurn: Number(dataConso) > Number(dataQuota),
\* false when the quota is not a number.
ExceedsSwapped(conso, quota) == quota # NaN /\ quota > conso
Exceeds(conso, quota) == quota # NaN /\ conso > quota

\* What an observer of database 2 can say about a CSP and the TURN servers.
Facts(c, s) ==
    {CASE s.prov[c] = None \/ s.conso[c] = None -> "absent"
       [] s.prov[c] \in Nat /\ s.conso[c] \in Nat /\ s.conso[c] > s.prov[c] -> "over"
       [] OTHER -> "within"}
    \cup (IF s.turn = {} THEN {"noturn"} ELSE s.turn)

\* The moments a pending turn request lives through, s being database 2 now.
Witnessed(s) ==
    [r \in Request |-> IF job[r].kind = "getAppropriateTurn" /\ answer[r] = "none"
                       THEN witness[r] \cup Facts(job[r].csp, s)
                       ELSE witness[r]]

Init ==
    /\ \E prov \in [Csp -> QuotaValue \cup {None}], spent \in [Csp -> Bytes \cup {0}],
          turn \in SUBSET Turn, cred \in SUBSET OldClient :
          LET conso == [c \in CspKey |-> IF c = NullCsp \/ (c # NullCsp /\ prov[c] = None)
                                         THEN None ELSE spent[c]]
          IN  /\ \A c \in Csp : prov[c] = None => spent[c] = 0
              /\ db = [d \in Dbs |->
                    IF d = 0 THEN [EmptyStore EXCEPT !.cred = cred]
                    ELSE [EmptyStore EXCEPT
                            !.prov = prov, !.conso = conso, !.turn = turn,
                            !.users = [u \in Client |-> IF u \in OldClient THEN OldOwner[u]
                                                        ELSE None],
                            !.ttl = {u \in OldClient : OldOwner[u] # None}]]
              /\ carried = spent
    /\ selected = 0 /\ selected_db = 0
    /\ pipe = <<>> /\ inbox = <<>> /\ tasks = <<>>
    /\ pc = [r \in Request |-> "idle"]
    /\ job = [r \in Request |-> NoJob]
    /\ got = [r \in Request |-> NoReply]
    /\ answer = [r \in Request |-> "none"]
    /\ chosen = [r \in Request |-> None]
    /\ up = TRUE
    /\ overlapped = {} /\ misplaced = {} /\ lapsed = {}
    /\ cut = {} /\ pulled = {}
    /\ witness = [r \in Request |-> {}]
-----------------------------------------------------------------------------
(***************************************************************************)
(* The requests.  A handler runs to the end of its synchronous part: the   *)
(* commands it sends there enter the pipe together.                        *)
(***************************************************************************)
Send(cmds) == pipe' = pipe \o cmds

Cmd(op, r) == [op |-> op, r |-> r, cb |-> FALSE]       \* no one waits for the reply
Await(op, r) == [op |-> op, r |-> r, cb |-> TRUE]

\* Request r arrives with job j, sends cmds and will continue at next.
Start(r, j, cmds, next) ==
    /\ up
    /\ pc[r] = "idle"
    /\ j.kind \in Workload[r]
    /\ pc' = [pc EXCEPT ![r] = next]
    /\ job' = [job EXCEPT ![r] = j]
    /\ Send(cmds)
    /\ LET other == {s \in Live : Target(job[s].kind) # Target(j.kind)}
       IN  overlapped' = IF other = {} THEN overlapped ELSE overlapped \cup other \cup {r}
    /\ UNCHANGED <<redis, selected_db, inbox, tasks, got, chosen, up, misplaced, lapsed,
                   cut, pulled>>

\* POST /provRequest: registerCSP answers at once, whatever becomes of its
\* commands.  q is NaN when the form has no qdata field.
ProvRequest(r, c, q) ==
    /\ Start(r, [NoJob EXCEPT !.kind = "provRequest", !.csp = c, !.quota = q],
             <<Await("SELECT_2", r)>>, "provSelected")
    /\ answer' = [answer EXCEPT ![r] = "redirect"]
    /\ UNCHANGED <<witness, carried>>

\* The commands of registerUser, sent in one go.  The new client is named
\* after the request that creates it.
RegisterUserForGood(r) == <<Cmd("SELECT_2", r), Cmd("SET_USER", r)>>
RegisterUserCmds(r) == <<Cmd("SELECT_2", r), Cmd("SET_USER", r), Cmd("EXPIRE_USER", r)>>

\* GET /getAppropriateTurn: registerUser, then the SELECT of getCSPInfos.
GetAppropriateTurn(r, c) ==
    /\ Start(r, [NoJob EXCEPT !.kind = "getAppropriateTurn", !.csp = c, !.client = r],
             RegisterUserCmds(r) \o <<Await("SELECT_2", r)>>, "infosSelected")
    /\ witness' = [witness EXCEPT ![r] = Facts(c, db[2])]
    /\ UNCHANGED <<answer, carried>>

\* GET /getCredentials for any client id a caller can name: one it was given by
\* getAppropriateTurn (an id is a hash with the time in it, known to no one
\* before it is answered), or one that was never given to anybody.
GetCredentials(r, u) ==
    /\ u \in OldClient \cup {s \in Request : answer[s] = "granted"}
    /\ Start(r, [NoJob EXCEPT !.kind = "getCredentials", !.client = u],
             <<Await("SELECT_0", r)>>, "credSelected")
    /\ UNCHANGED <<answer, witness, carried>>

\* DELETE /deleteCSP: three commands in one go, the last with a callback.
DeleteCSPNoSelect(r, c) ==
    /\ Start(r, [NoJob EXCEPT !.kind = "deleteCSP", !.csp = c],
             <<Cmd("RENAME_CONSO", r), Await("RENAME_PROV", r)>>, "renamed")
    /\ UNCHANGED <<answer, witness, carried>>
DeleteCSP(r, c) ==
    /\ Start(r, [NoJob EXCEPT !.kind = "deleteCSP", !.csp = c],
             <<Cmd("SELECT_2", r), Cmd("RENAME_CONSO", r), Await("RENAME_PROV", r)>>, "renamed")
    /\ UNCHANGED <<answer, witness, carried>>

\* DELETE /deleteCSP without a cspkey: the route does nothing, not even answer.
DeleteWithoutKey(r) ==
    /\ up
    /\ pc[r] = "idle"
    /\ "deleteCSP" \in Workload[r]
    /\ pc' = [pc EXCEPT ![r] = "hung"]
    /\ job' = [job EXCEPT ![r] = [NoJob EXCEPT !.kind = "deleteCSP"]]
    /\ UNCHANGED <<redis, selected_db, pipe, inbox, tasks, got, answer, chosen, up, history>>

\* GET /changeQuotas
ChangeQuotas(r, c, q) ==
    /\ Start(r, [NoJob EXCEPT !.kind = "changeQuotas", !.csp = c, !.quota = q],
             <<Await("SELECT_2", r)>>, "quotaSelected")
    /\ UNCHANGED <<answer, witness, carried>>

\* GET /getAllCspInfo
GetAllCspInfo(r) ==
    /\ Start(r, [NoJob EXCEPT !.kind = "getAllCspInfo"],
             <<Cmd("SELECT_2", r), Await("KEYS_PROV", r)>>, "allKeys")
    /\ UNCHANGED <<answer, witness, carried>>

\* GET /getCspConso
GetCspConso(r, c) ==
    /\ Start(r, [NoJob EXCEPT !.kind = "getCspConso", !.csp = c],
             <<Await("SELECT_2", r)>>, "consoSelected")
    /\ UNCHANGED <<answer, witness, carried>>

\* A traffic notification reaches addCSPConso.  Only a client whose key is in
\* database 0 can relay anything, so only such a client is reported.
AddCSPConso(r, u, n) ==
    /\ u \in db[0].cred
    /\ Start(r, [NoJob EXCEPT !.kind = "addCSPConso", !.client = u, !.bytes = n],
             <<Await("SELECT_2", r)>>, "userSelected")
    /\ carried' = IF OwnerOf(u) = None THEN carried
                  ELSE [carried EXCEPT ![OwnerOf(u)] = @ + n]
    /\ UNCHANGED <<answer, witness>>
-----------------------------------------------------------------------------
(***************************************************************************)
(* Redis executes the command at the head of the pipe, in the selected     *)
(* database.                                                               *)
(***************************************************************************)
SetUser(s, r) == [s EXCEPT !.users[r] = job[r].csp, !.ttl = @ \ {r}]

ExpireUser(s, r) == [s EXCEPT !.ttl = IF s.users[r] # None THEN @ \cup {r} ELSE @]

\* HSETNX leaves a field that exists alone.
HsetnxProv(s, r) ==
    [s EXCEPT !.prov[job[r].csp] = IF @ = None THEN job[r].quota ELSE @]

HsetConso(s, r) == [s EXCEPT !.conso[job[r].csp] = 0]
HsetnxConso(s, r) == [s EXCEPT !.conso[job[r].csp] = IF @ = None THEN 0 ELSE @]

\* RENAME overwrites its target; on a missing key it is an error.
DelConso(s, c) == [s EXCEPT !.conso[c] = None]
RenameConso(s, c) ==
    IF s.conso[c] = None THEN s
    ELSE [s EXCEPT !.histo[c] = s.conso[c], !.conso[c] = None]

RenameProv(s, c) == [s EXCEPT !.prov[c] = None]

HmsetProv(s, r) == [s EXCEPT !.prov[job[r].csp] = job[r].quota]

SetKey(s, r) == [s EXCEPT !.cred = @ \cup {job[r].client}]

\* HINCRBY creates the key when it is missing.
HincrbyConso(s, r) ==
    [s EXCEPT !.conso[got[r].csp] = (IF @ = None THEN 0 ELSE @) + job[r].bytes]

\* The name in 'prov:' + res + ':conso': a null res is spelled out.
KeyNameUnspelled(res) == res
KeyName(res) == IF res = None THEN NullCsp ELSE res

Effect(op, r, s) ==
    CASE op = "SET_USER"     -> SetUser(s, r)
      [] op = "EXPIRE_USER"  -> ExpireUser(s, r)
      [] op = "HSETNX_PROV"  -> HsetnxProv(s, r)
      [] op = "HSETNX_CONSO" -> HsetnxConso(s, r)
      [] op = "RENAME_CONSO" -> RenameConso(s, job[r].csp)
      [] op = "RENAME_PROV"  -> RenameProv(s, job[r].csp)
      [] op = "HMSET_PROV"   -> HmsetProv(s, r)
      [] op = "SET_KEY"      -> SetKey(s, r)
      [] op = "HINCRBY"      -> HincrbyConso(s, r)
      [] OTHER               -> s

\* Whether HGETALL finds every one of the keys that KEYS listed.
FoundEachConso(provs, s) == \A c \in provs : s.conso[c] # None
FoundEach(provs, s) == \A c \in provs : s.prov[c] # None

\* What the reply adds to what the request knows.
ReplyTo(op, r, s) ==
    CASE op = "HGETALL_PROV"  -> [got[r] EXCEPT !.quota = s.prov[job[r].csp]]
      [] op = "HGETALL_CONSO" -> [got[r] EXCEPT !.conso = s.conso[job[r].csp]]
      [] op = "KEYS_TURN"     -> [got[r] EXCEPT !.turns = s.turn]
      [] op = "GET_USER"      -> [got[r] EXCEPT !.csp = KeyName(s.users[job[r].client])]
      [] op = "RENAME_PROV"   -> [got[r] EXCEPT !.ok = s.prov[job[r].csp] # None]
      [] op = "KEYS_PROV"     -> [got[r] EXCEPT !.provs = {c \in Csp : s.prov[c] # None}]
      [] op = "HGETALL_EACH"  -> [got[r] EXCEPT !.ok = FoundEach(got[r].provs, s)]
      [] OTHER                -> got[r]

\* The polls between the execution of their KEYS and that of their HGETALL.
Polling == {p \in Request : \/ pc[p] = "allKeys"
                            \/ pc[p] = "allInfos" /\ \A i \in 1..Len(inbox) : inbox[i] # p}

\* Those whose list a command of request r makes out of date by a deletion.
Outdated(r) ==
    {p \in Polling : /\ job[r].kind = "deleteCSP"
                     /\ \E c \in got[p].provs : db[2].prov[c] # None /\ db'[2].prov[c] = None}

Exec ==
    /\ pipe # <<>>
    /\ LET cmd == Head(pipe)
           r   == cmd.r
       IN  /\ pipe' = Tail(pipe)
           /\ inbox' = IF cmd.cb THEN Append(inbox, r) ELSE inbox
           /\ selected' = IF IsSelect(cmd.op) THEN SelectedBy(cmd.op) ELSE selected
           /\ db' = [db EXCEPT ![selected] = Effect(cmd.op, r, @)]
           /\ got' = [got EXCEPT ![r] = ReplyTo(cmd.op, r, db[selected])]
           /\ misplaced' = IF ~IsSelect(cmd.op) /\ selected # Target(job[r].kind)
                           THEN misplaced \cup {r} ELSE misplaced
           /\ pulled' = pulled \cup Outdated(r)
    /\ witness' = Witnessed(db'[2])
    /\ UNCHANGED <<selected_db, tasks, pc, job, answer, chosen, up, overlapped, carried,
                   lapsed, cut>>
-----------------------------------------------------------------------------
(***************************************************************************)
(* The event loop: replies arrive in order, promise continuations run in   *)
(* order, and the two interleave freely with each other and with new       *)
(* requests.                                                               *)
(***************************************************************************)
\* The reply that node_redis reads for request r brings its selected_db up to
\* date when there was a SELECT.
Reads(r) ==
    selected_db' = IF pc[r] \in Selecting THEN Target(job[r].kind) ELSE selected_db

\* The reply settles a promise; its continuation is scheduled.
Deliver ==
    /\ up
    /\ inbox # <<>>
    /\ pc[Head(inbox)] \notin PlainCallback
    /\ inbox' = Tail(inbox)
    /\ tasks' = Append(tasks, Head(inbox))
    /\ Reads(Head(inbox))
    /\ UNCHANGED <<redis, pipe, pc, job, got, answer, chosen, up, history>>

\* The reply runs the callback of request r, waiting at the point at.
Callback(r, at) ==
    /\ up
    /\ inbox # <<>> /\ r = Head(inbox) /\ pc[r] = at
    /\ inbox' = Tail(inbox)
    /\ Reads(r)
    /\ UNCHANGED <<redis, tasks, job, got, history>>

\* The event loop runs the continuation of request r, waiting at the point at.
Resume(r, at) ==
    /\ up
    /\ tasks # <<>> /\ r = Head(tasks) /\ pc[r] = at
    /\ tasks' = Tail(tasks)
    /\ UNCHANGED <<redis, selected_db, inbox, job, got, history>>

Continue(r, cmds, next) ==
    /\ Send(cmds)
    /\ pc' = [pc EXCEPT ![r] = next]
    /\ UNCHANGED <<answer, chosen, up>>

Finish(r, a) ==
    /\ pc' = [pc EXCEPT ![r] = "done"]
    /\ answer' = [answer EXCEPT ![r] = a]
    /\ UNCHANGED <<pipe, up>>

\* getCSPInfos
InfosSelected(r) ==
    /\ Resume(r, "infosSelected")
    /\ Continue(r, <<Await("HGETALL_PROV", r)>>, "infos")

\* getCspInfoAndConso: a null reply makes cspInfos.cspName throw, which is
\* the rejection "CSP not found"; else on to getCSPConso.
Infos(r) ==
    /\ Resume(r, "infos")
    /\ IF got[r].quota = None
       THEN Finish(r, "notfound") /\ UNCHANGED chosen
       ELSE Continue(r, <<Await("SELECT_2", r)>>, "consoSelected")

\* getCSPConso, for getAppropriateTurn and for the route of that name
ConsoSelected(r) ==
    /\ Resume(r, "consoSelected")
    /\ Continue(r, <<Await("HGETALL_CONSO", r)>>, "conso")

\* The answer of GET /getCspConso, null or not
ConsoAnswered(r) ==
    /\ job[r].kind = "getCspConso"
    /\ Resume(r, "conso")
    /\ Finish(r, "ok") /\ UNCHANGED chosen

\* The quota check of getAppropriateTurn, then getTurnServers
CheckQuota(r) ==
    /\ job[r].kind = "getAppropriateTurn"
    /\ Resume(r, "conso")
    /\ IF got[r].conso = None
       THEN Finish(r, "notfound") /\ UNCHANGED chosen
       ELSE IF Exceeds(got[r].conso, got[r].quota)
       THEN Finish(r, "overquota") /\ UNCHANGED chosen
       ELSE Continue(r, <<Await("SELECT_2", r)>>, "turnsSelected")

TurnsSelected(r) ==
    /\ Resume(r, "turnsSelected")
    /\ Continue(r, <<Await("KEYS_TURN", r)>>, "turnKeys")

\* The callback of KEYS: reject an empty list, else GET every server.
\* The last of the GETs' replies resolves the promise.
TurnKeysNoReject(r) ==
    /\ Callback(r, "turnKeys")
    /\ Continue(r, IF got[r].turns = {} THEN <<>> ELSE <<Await("GET_TURNS", r)>>, "turns")
TurnKeys(r) ==
    /\ Callback(r, "turnKeys")
    /\ IF got[r].turns = {}
       THEN Finish(r, "noturn") /\ UNCHANGED chosen
       ELSE Continue(r, <<Await("GET_TURNS", r)>>, "turns")

\* A random server of the list is the answer.
ChooseTurn(r) ==
    /\ Resume(r, "turns")
    /\ Finish(r, "granted")
    /\ \E t \in got[r].turns : chosen' = [chosen EXCEPT ![r] = t]

\* createTurnCredentials
CredSelected(r) ==
    /\ Resume(r, "credSelected")
    /\ Continue(r, <<Await("SET_KEY", r)>>, "cred")

\* The password is the answer.
CredStored(r) ==
    /\ Resume(r, "cred")
    /\ Finish(r, "ok") /\ UNCHANGED chosen

\* registerCSP sends its seven HSETNX and forgets them.
ProvSelected(r) ==
    /\ Resume(r, "provSelected")
    /\ Continue(r, <<Cmd("HSETNX_PROV", r), Cmd("HSETNX_CONSO", r)>>, "done")

\* deleteCSP: the route has no handler for a rejection, so that a RENAME
\* that fails leaves the client without an answer.
RenamedSwapped(r) ==
    /\ Callback(r, "renamed")
    /\ IF ~got[r].ok THEN Finish(r, "ok") /\ UNCHANGED chosen
       ELSE Continue(r, <<>>, "hung")
Renamed(r) ==
    /\ Callback(r, "renamed")
    /\ IF got[r].ok THEN Finish(r, "ok") /\ UNCHANGED chosen
       ELSE Continue(r, <<>>, "hung")

\* updateCSPQuotas
QuotaSelected(r) ==
    /\ Resume(r, "quotaSelected")
    /\ Continue(r, <<Await("HMSET_PROV", r)>>, "quota")

QuotaSet(r) ==
    /\ Resume(r, "quota")
    /\ Finish(r, "ok") /\ UNCHANGED chosen

\* getAllCspInfo: HGETALL of every key found, without a SELECT of its own.
\* With no key the loop is empty and nothing ever resolves the promise.
AllKeysOne(r) ==
    /\ Callback(r, "allKeys")
    /\ IF Cardinality(got[r].provs) <= 1 THEN Continue(r, <<>>, "hung")
       ELSE Continue(r, <<Await("HGETALL_EACH", r)>>, "allInfos")
AllKeys(r) ==
    /\ Callback(r, "allKeys")
    /\ IF got[r].provs = {} THEN Continue(r, <<>>, "hung")
       ELSE Continue(r, <<Await("HGETALL_EACH", r)>>, "allInfos")

\* A key that is gone replies null; info.csp = ... then throws out of the
\* callback and takes the process down.
AllInfos(r) ==
    /\ Callback(r, "allInfos")
    /\ IF got[r].ok THEN Finish(r, "ok") /\ UNCHANGED chosen
       ELSE /\ up' = FALSE
            /\ UNCHANGED <<pipe, pc, answer, chosen>>

\* addCSPConso: GET users:<client>, then HINCRBY, the latter without a SELECT.
UserSelectedUnresolved(r) ==
    /\ Resume(r, "userSelected")
    /\ Continue(r, <<Await("HINCRBY", r)>>, "incr")
UserSelected(r) ==
    /\ Resume(r, "userSelected")
    /\ Continue(r, <<Await("GET_USER", r)>>, "user")

UserFoundTwice(r) ==
    /\ Resume(r, "user")
    /\ Continue(r, <<Cmd("HINCRBY", r), Await("HINCRBY", r)>>, "incr")
UserFound(r) ==
    /\ Resume(r, "user")
    /\ Continue(r, <<Await("HINCRBY", r)>>, "incr")

Incremented(r) ==
    /\ Resume(r, "incr")
    /\ Continue(r, <<>>, "done")

Task(r) ==
    \/ InfosSelected(r) \/ Infos(r) \/ ConsoSelected(r) \/ ConsoAnswered(r)
    \/ CheckQuota(r) \/ TurnsSelected(r) \/ ChooseTurn(r)
    \/ CredSelected(r) \/ CredStored(r) \/ ProvSelected(r)
    \/ QuotaSelected(r) \/ QuotaSet(r)
    \/ UserSelected(r) \/ UserFound(r) \/ Incremented(r)

PlainTask(r) == TurnKeys(r) \/ Renamed(r) \/ AllKeys(r) \/ AllInfos(r)
-----------------------------------------------------------------------------
(***************************************************************************)
(* The connection breaks.                                                  *)
(***************************************************************************)
\* The requests that wait for a reply on the connection.
CutOff == {r \in Request : pc[r] \in Waiting /\ \A i \in 1..Len(tasks) : tasks[i] # r}

\* What they make of the error.  In getCspInfoAndConso whatever goes wrong is
\* "CSP not found" or "CSP consumption unknown", getTurnServers hands the error
\* on; the other promises of dao.js, or their routes, have no handler for it.
AnswerToError(r) ==
    CASE pc[r] = "infos" -> "notfound"
      [] pc[r] = "conso" /\ job[r].kind = "getAppropriateTurn" -> "notfound"
      [] pc[r] \in {"turnKeys", "turns"} -> "error"
      [] OTHER -> answer[r]

\* Where a request is afterwards.
EndsAt(r) == IF AnswerToError(r) \in {"notfound", "error"} THEN "done" ELSE "hung"

\* Both callbacks of getAllCspInfo go on to use the reply they have not got, and
\* throw: a poll on its way takes the process down.
PollFails == \E r \in CutOff : job[r].kind = "getAllCspInfo"

\* The database that is selected again: that of the last SELECT whose reply was
\* read, which may be the first command of the request that is being served.
Reselected ==
    LET r == IF inbox = <<>> THEN Head(pipe).r ELSE Head(inbox)
        early == /\ pc[r] \in SelectedBefore
                 /\ \A i \in 1..Len(pipe) :
                       ~(pipe[i].r = r /\ IsSelect(pipe[i].op) /\ ~pipe[i].cb)
    IN  IF early THEN {selected_db, 2} ELSE {selected_db}

\* What is on the connection is lost, executed or not; node_redis fails the
\* commands it has no reply for and connects again.
ConnectionLost ==
    /\ up
    /\ pipe # <<>> \/ inbox # <<>>
    /\ pipe' = <<>> /\ inbox' = <<>>
    /\ selected' \in Reselected
    /\ selected_db' = selected'
    /\ pc' = [r \in Request |-> IF r \in CutOff THEN EndsAt(r) ELSE pc[r]]
    /\ answer' = [r \in Request |-> IF r \in CutOff /\ ~PollFails THEN AnswerToError(r)
                                    ELSE answer[r]]
    /\ up' = ~PollFails
    /\ cut' = cut \cup CutOff
    /\ UNCHANGED <<db, tasks, job, got, chosen, overlapped, misplaced, witness, carried,
                   lapsed, pulled>>
-----------------------------------------------------------------------------
(***************************************************************************)
(* Redis and the TURN servers, on their own.                               *)
(***************************************************************************)
\* A users: key reaches the end of its week (it is never refreshed).
UserExpires(u) ==
    /\ u \in db[2].ttl
    /\ db' = [db EXCEPT ![2].users[u] = None, ![2].ttl = @ \ {u}]
    /\ lapsed' = lapsed \cup {u}
    /\ UNCHANGED <<selected, selected_db, pipe, inbox, tasks, pc, job, got, answer, chosen,
                   up, overlapped, misplaced, witness, carried, cut, pulled>>

\* A TURN server registers itself, or its registration expires.
TurnChanges(t) ==
    /\ db' = [db EXCEPT ![2].turn = IF t \in @ THEN @ \ {t} ELSE @ \cup {t}]
    /\ witness' = Witnessed(db'[2])
    /\ UNCHANGED <<selected, selected_db, pipe, inbox, tasks, pc, job, got, answer, chosen,
                   up, overlapped, misplaced, carried, lapsed, cut, pulled>>

Arrive(r) ==
    \/ \E c \in Csp, q \in QuotaValue : ProvRequest(r, c, q)
    \/ \E c \in Csp : GetAppropriateTurn(r, c)
    \/ \E u \in Client : GetCredentials(r, u)
    \/ \E c \in Csp : DeleteCSP(r, c)
    \/ DeleteWithoutKey(r)
    \/ \E c \in Csp, q \in QuotaValue : ChangeQuotas(r, c, q)
    \/ GetAllCspInfo(r)
    \/ \E c \in Csp : GetCspConso(r, c)
    \/ \E u \in Client, n \in Bytes : AddCSPConso(r, u, n)

Next ==
    \/ \E r \in Request : Arrive(r) \/ Task(r) \/ PlainTask(r)
    \/ Exec
    \/ Deliver
    \/ ConnectionLost
    \/ \E u \in Client : UserExpires(u)
    \/ \E t \in Turn : TurnChanges(t)

\* Redis keeps executing what it was sent and the event loop keeps turning;
\* nothing obliges a request to arrive, a key to expire, a server to move or the
\* connection to break.
Fairness ==
    /\ WF_vars(Exec)
    /\ WF_vars(Deliver)
    /\ WF_vars(\E r \in Request : Task(r))
    /\ WF_vars(\E r \in Request : PlainTask(r))

Spec == Init /\ [][Next]_vars /\ Fairness
-----------------------------------------------------------------------------
\* Each variable keeps its type; in particular what Redis holds and what it
\* replies stays within what the broker's code writes there.
TypeOK ==
    /\ db \in [Dbs -> Store]
    /\ selected \in Dbs
    /\ selected_db \in Dbs
    /\ pipe \in Seq(Command)
    /\ inbox \in Seq(Request)
    /\ tasks \in Seq(Request)
    /\ pc \in [Request -> Pc]
    /\ job \in [Request -> Job]
    /\ got \in [Request -> Reply]
    /\ answer \in [Request -> Answers]
    /\ chosen \in [Request -> Turn \cup {None}]
    /\ up \in BOOLEAN
    /\ overlapped \subseteq Request
    /\ misplaced \subseteq Request
    /\ witness \in [Request -> SUBSET ({"absent", "over", "within", "noturn"} \cup Turn)]
    /\ carried \in [Csp -> Nat]
    /\ lapsed \subseteq Client
    /\ cut \subseteq Request
    /\ pulled \subseteq Request

\* A request that never runs beside a request for the other database has all
\* its commands executed in the database it is written for, whatever the
\* connection was left on by earlier requests, however the replies and
\* continuations of its peers fall, and although the connection may break and be
\* made again between two of its commands (the SELECTs of dao.js).
SharedConnectionIsolation == misplaced \subseteq overlapped

\* Some request of one of these kinds was made about the CSP of request r.
Meddled(r, kinds) ==
    \E s \in Request : job[s].kind \in kinds /\ job[s].csp = job[r].csp

\* The answer of getAppropriateTurn was true at some moment between request and
\* answer, although the quota, the consumption and the servers are read one by
\* one: a server is granted only within quota (unless the CSP is deleted half
\* way, or has no consumption yet when its quota is moved) and was registered at
\* the time, "no turn" was so, "not found" was so unless the reply was lost with
\* the connection (getCspInfoAndConso makes "not found" of every error), and
\* "exceeded" was so unless the quota was moved between the two reads.
AnswerJustified ==
    \A r \in Request \ overlapped :
        /\ answer[r] = "granted" =>
              /\ chosen[r] \in witness[r]
              /\ \/ "within" \in witness[r]
                 \/ Meddled(r, {"deleteCSP"})
                 \/ "absent" \in witness[r] /\ Meddled(r, {"changeQuotas"})
        /\ answer[r] = "notfound" => "absent" \in witness[r] \/ r \in cut
        /\ answer[r] = "noturn" => "noturn" \in witness[r]
        /\ answer[r] = "overquota" =>
              "over" \in witness[r] \/ Meddled(r, {"deleteCSP", "changeQuotas"})

\* A client that was given a server can be billed: its id leads to its CSP in
\* database 2, with an expiry, until that expiry, even when the shared
\* connection was pulled to the other database meanwhile (registerUser).
GrantedClientIsBillable ==
    \A r \in Request : answer[r] = "granted" /\ r \notin lapsed =>
        db[2].users[r] = job[r].csp /\ r \in db[2].ttl

OrZero(n) == IF n = None THEN 0 ELSE n

\* What the databases say a CSP has consumed, deleted accounts included.
Billed(c) == OrZero(db[0].conso[c]) + OrZero(db[0].histo[c])
             + OrZero(db[2].conso[c]) + OrZero(db[2].histo[c])

\* No CSP is charged for more than its own clients relayed, whatever overlaps,
\* expires or is deleted between the GET and the HINCRBY of addCSPConso.
NeverOverbilled == \A c \in Csp : Billed(c) <= carried[c]

\* The deletions of a CSP that were asked for.
Deletions(c) == {r \in Request : job[r].kind = "deleteCSP" /\ job[r].csp = c}

\* Once the broker is at rest, every reported byte is in the CSP's consumption or
\* in its history exactly once, however the notifications fall around a deletion
\* of the account and its provisioning anew: unless the account was deleted twice
\* (RENAME overwrites the first history), a client's entry expired, or a
\* notification ran beside a getCredentials or was cut off by a break of the
\* connection (addCSPConso, HSETNX, RENAME).
BilledExactly ==
    ( /\ Live = {}
      /\ lapsed = {}
      /\ \A r \in overlapped \cup cut : job[r].kind # "addCSPConso" )
    => \A c \in Csp : (\A r, s \in Deletions(c) : r = s) =>
          OrZero(db[2].conso[c]) + OrZero(db[2].histo[c]) = carried[c]

\* Only three things make the broker fall, all in the two unguarded callbacks of
\* getAllCspInfo: a deletion that removed a CSP its KEYS had listed before its
\* HGETALL was executed, a getCredentials that had one of its two commands
\* executed in the other database, or a connection that broke before one of the
\* two was answered.  No other request beside the dashboard's poll does.
CrashOnlyInPoll ==
    ~up => \E p \in Request : /\ job[p].kind = "getAllCspInfo"
                              /\ p \in pulled \cup misplaced \cup cut

\* Something is still to come for request r: its command is in the pipe, the
\* reply on its way back, or its continuation ready to run.
Awaits(r) ==
    \/ \E i \in 1..Len(pipe) : pipe[i].r = r /\ pipe[i].cb
    \/ \E i \in 1..Len(inbox) : inbox[i] = r
    \/ \E i \in 1..Len(tasks) : tasks[i] = r

\* As long as the broker survives no request is dropped on the way through its
\* promises and callbacks: one that has not come to its end has something to come,
\* and one that has was answered, unless it is a notification, which nobody waits
\* for, a deletion whose RENAME failed or that named no CSP, a poll that found no
\* CSP, or the connection broke before its reply (deleteCSP's route without a
\* reject path and without an else, the empty loop of getAllCspInfo, the promises
\* of dao.js that have no handler for an error).
NoRequestDropped ==
    up => \A r \in Request :
        /\ pc[r] \in Waiting => Awaits(r)
        /\ pc[r] \in {"done", "hung"} /\ answer[r] = "none" =>
              \/ job[r].kind = "addCSPConso"
              \/ job[r].kind = "deleteCSP" /\ (~got[r].ok \/ job[r].csp = None)
              \/ job[r].kind = "getAllCspInfo" /\ got[r].provs = {}
              \/ r \in cut

\* Traffic is booked on the counter prov:null:conso, which no CSP pays, only by a
\* notification whose client's users: key lapsed before the report, whose client
\* had its credentials under an id that no CSP was ever given (getCredentials
\* takes any), or one of whose commands ran in the database a getCredentials had
\* selected (addCSPConso).
GhostOnlyByExpiry ==
    (\E d \in Dbs : db[d].conso[NullCsp] # None) =>
        \E r \in Request :
            /\ job[r].kind = "addCSPConso" /\ got[r].csp = NullCsp
            /\ \/ job[r].client \in lapsed
               \/ OwnerOf(job[r].client) = None
               \/ r \in misplaced

\* A consumption counter only grows, or moves whole to the history: in
\* particular provisioning a CSP again does not reset it (HSETNX).
ConsoNeverReset ==
    [][\A d \in Dbs, c \in Csp :
          db[d].conso[c] # None =>
             \/ db'[d].conso[c] # None /\ db'[d].conso[c] >= db[d].conso[c]
             \/ db'[d].conso[c] = None /\ db'[d].histo[c] = db[d].conso[c]]_vars

\* Every getAppropriateTurn request is answered, with a server or an error, and so
\* is the dashboard's poll, unless there was no CSP when its KEYS was executed (the
\* promise of getAllCspInfo); or its connection breaks, or the broker goes down.
RequestAnswered ==
    \A r \in Request :
        (job[r].kind \in {"getAppropriateTurn", "getAllCspInfo"})
            ~> \/ answer[r] # "none" \/ r \in cut \/ ~up
               \/ job[r].kind = "getAllCspInfo" /\ pc[r] = "hung" /\ got[r].provs = {}

\* Of the requests on their way to delete a CSP that is there, one is answered,
\* although the route answers nothing when a RENAME fails: requests that overlap
\* cannot all find the key gone; or the connection breaks under one of them.
DeleteAnswered ==
    \A c \in Csp :
        (/\ db[2].prov[c] # None
         /\ \E i \in 1..Len(pipe) : pipe[i].op = "RENAME_PROV" /\ pipe[i].r \in Deletions(c))
            ~> ((\E r \in Deletions(c) : answer[r] = "ok" \/ r \in cut) \/ ~up)
-----------------------------------------------------------------------------
(***************************************************************************)
(* What comments and documentation of the code say, and the code does not. *)
(***************************************************************************)
\* routes.js documents the answer of getCredentials as a password for the
\* TURN server: the TURN server looks it up in database 0.
PasswordReachesTurn ==
    \A r \in Request : job[r].kind = "getCredentials" /\ answer[r] = "ok" =>
        job[r].client \in db[0].cred
=============================================================================
