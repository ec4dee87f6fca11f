--------------------------- MODULE RedisDAO_proofs ---------------------------
(***************************************************************************)
(* RedisDAO, for every set of requests, CSPs, clients and servers, every   *)
(* workload and any number of breaks of the connection.  First its types   *)
(* and the isolation of the requests on the shared connection.  Then how a *)
(* request flows over that connection: it awaits one reply at a time, and  *)
(* what it was promised by its earlier commands is in the databases when   *)
(* the later ones run, or it was cut off.  From this, who is billable, and *)
(* what alone can crash the broker or book on the null CSP.  Then what is  *)
(* billed, and what getAppropriateTurn answers; last, that no request is   *)
(* dropped on its way.                                                     *)
(***************************************************************************)
EXTENDS RedisDAO, SequenceTheorems, TLAPS

DbOf(r) == Target(job[r].kind)

\* A command in the pipe belongs to a request that has started, has the
\* arguments it needs, and, when it is a SELECT, selects the database its
\* request is written for.
Sound(cmd) ==
    /\ pc[cmd.r] # "idle"
    /\ cmd.op \in {"HGETALL_PROV", "HGETALL_CONSO", "RENAME_CONSO", "RENAME_PROV"} => job[cmd.r].csp \in Csp
    /\ cmd.op \in {"GET_USER", "SET_KEY"} => job[cmd.r].client \in Client
    /\ cmd.op = "HINCRBY" => job[cmd.r].bytes \in Nat
    /\ IsSelect(cmd.op) => SelectedBy(cmd.op) = DbOf(cmd.r)

\* A continuation has the arguments of the commands it will send.
Ready(r) ==
    /\ pc[r] \in {"infosSelected", "infos", "consoSelected", "conso"} =>
          job[r].csp \in Csp /\ DbOf(r) = 2
    /\ pc[r] \in {"userSelected", "user"} =>
          job[r].client \in Client /\ job[r].bytes \in Nat
    /\ pc[r] = "credSelected" => job[r].client \in Client
    /\ pc[r] \in {"renamed", "allKeys"} => DbOf(r) = 2

WellFormed ==
    /\ \A i \in 1..Len(pipe) : Sound(pipe[i])
    /\ \A r \in Request : Ready(r)

\* A live request that is not overlapped shares the connection only with
\* requests for its own database.
Peers == \A r \in Live \ overlapped : \A s \in Live : DbOf(r) = DbOf(s)

\* Its database is selected, or a SELECT is on its way ...
OnItsWay ==
    \A r \in Live \ overlapped :
        selected = DbOf(r) \/ \E i \in 1..Len(pipe) : IsSelect(pipe[i].op)

\* ... and ahead of every other command of the request.
Ahead ==
    \A i \in 1..Len(pipe) :
        ~IsSelect(pipe[i].op) /\ pipe[i].r \notin overlapped =>
            \/ selected = DbOf(pipe[i].r)
            \/ \E j \in 1..(i - 1) : IsSelect(pipe[j].op)

Isolated == Peers /\ OnItsWay /\ Ahead /\ SharedConnectionIsolation

Base == TypeOK /\ WellFormed /\ Isolated

\* What node_redis will select again after a break is the database of every
\* request that goes on after it, its SELECT having been answered already.
Restored ==
    \A r \in Request \ overlapped :
        /\ pc[r] \in Waiting
        /\ pc[r] \in Selecting => \E i \in 1..Len(tasks) : tasks[i] = r
        => selected_db = DbOf(r)

\* Replies and continuations are those of requests that have arrived.
Started ==
    /\ \A i \in 1..Len(inbox) : pc[inbox[i]] # "idle"
    /\ \A i \in 1..Len(tasks) : pc[tasks[i]] # "idle"

IInv == Base /\ Restored /\ Started
-----------------------------------------------------------------------------
(***************************************************************************)
(* The pipe.                                                               *)
(***************************************************************************)
\* The commands a synchronous piece of code appends follow those that were
\* already in the pipe.
LEMMA PipeExtends ==
    ASSUME NEW old \in Seq(Command), NEW cmds \in Seq(Command)
    PROVE  /\ old \o cmds \in Seq(Command)
           /\ Len(old \o cmds) = Len(old) + Len(cmds)
           /\ Len(old) \in Nat /\ Len(cmds) \in Nat
           /\ \A i \in 1..Len(old) : (old \o cmds)[i] = old[i]
           /\ \A i \in Len(old)+1..Len(old)+Len(cmds) :
                 /\ i - Len(old) \in 1..Len(cmds)
                 /\ (old \o cmds)[i] = cmds[i - Len(old)]
<1>1. Len(old) \in Nat /\ Len(cmds) \in Nat
  BY LenProperties
<1>2. /\ old \o cmds \in Seq(Command)
      /\ Len(old \o cmds) = Len(old) + Len(cmds)
      /\ \A i \in 1 .. Len(old) + Len(cmds) : (old \o cmds)[i] =
                     IF i <= Len(old) THEN old[i] ELSE cmds[i - Len(old)]
  BY ConcatProperties
<1> QED  BY <1>1, <1>2

\* Commands of the forms the code uses are commands.
LEMMA CmdType ==
    ASSUME NEW op \in Ops, NEW r \in Request
    PROVE  /\ Cmd(op, r) \in Command /\ Await(op, r) \in Command
           /\ Cmd(op, r).op = op /\ Cmd(op, r).r = r
           /\ Await(op, r).op = op /\ Await(op, r).r = r
BY DEF Cmd, Await, Command

\* What a request still under way may append: commands of its own, with their
\* arguments, selecting nothing but its own database.
Appends(r, cmds) ==
    \A k \in 1..Len(cmds) :
        /\ cmds[k].r = r
        /\ cmds[k].op \in {"HGETALL_PROV", "HGETALL_CONSO", "RENAME_CONSO", "RENAME_PROV"} => job[r].csp \in Csp
        /\ cmds[k].op \in {"GET_USER", "SET_KEY"} => job[r].client \in Client
        /\ cmds[k].op = "HINCRBY" => job[r].bytes \in Nat
        /\ IsSelect(cmds[k].op) => SelectedBy(cmds[k].op) = DbOf(r)

\* A continuation or a callback of request r that appends cmds to the pipe
\* keeps the pipe well formed and the requests isolated.
LEMMA ContinueKeeps ==
    ASSUME IInv, NEW r \in Request, pc[r] \in Waiting,
           NEW next \in Pc, next # "idle",
           NEW cmds \in Seq(Command), Appends(r, cmds),
           pipe' = pipe \o cmds,
           pc' = [pc EXCEPT ![r] = next],
           UNCHANGED <<selected, job, overlapped, misplaced>>,
           Ready(r)'
    PROVE  WellFormed' /\ Isolated'
<1>1. /\ Len(pipe') = Len(pipe) + Len(cmds)
      /\ Len(pipe) \in Nat /\ Len(cmds) \in Nat
      /\ \A i \in 1..Len(pipe) : pipe'[i] = pipe[i]
      /\ \A i \in Len(pipe)+1..Len(pipe)+Len(cmds) :
            i - Len(pipe) \in 1..Len(cmds) /\ pipe'[i] = cmds[i - Len(pipe)]
  BY PipeExtends DEF IInv, Base, TypeOK
<1>2. \A i \in Len(pipe)+1..Len(pipe') : pipe'[i].r = r
  BY <1>1 DEF Appends
<1>3. pc \in [Request -> Pc] /\ pipe \in Seq(Command)
  BY DEF IInv, Base, TypeOK
<1>4. \A i \in 1..Len(pipe) : pipe[i] \in Command
  BY <1>3, ElementOfSeq
<1>5. Live' \subseteq Live
  <2> SUFFICES ASSUME NEW s \in Live', s # r PROVE s \in Live
    BY DEF Live
  <2>1. CASE pc'[s] \in Waiting
    BY <2>1, <1>3 DEF Live
  <2>2. CASE \E i \in 1..Len(pipe') : pipe'[i].r = s
    BY <2>2, <1>1, <1>2 DEF Live
  <2> QED  BY <2>1, <2>2 DEF Live
<1>6. WellFormed'
  <2>1. ASSUME NEW i \in 1..Len(pipe') PROVE Sound(pipe[i])'
    <3>1. CASE i \in 1..Len(pipe)
      BY <3>1, <1>1, <1>3, <1>4 DEF IInv, Base, WellFormed, Sound, DbOf, Command
    <3>2. CASE i \in Len(pipe)+1..Len(pipe')
      <4> DEFINE k == i - Len(pipe)
      <4>1. k \in 1..Len(cmds) /\ pipe'[i] = cmds[k] /\ cmds[k].r = r
        BY <3>2, <1>1 DEF Appends
      <4>2. pc'[r] # "idle"
        BY <1>3
      <4> HIDE DEF k
      <4> QED  BY <4>1, <4>2 DEF Appends, Sound, DbOf
    <3> QED  BY <3>1, <3>2, <1>1
  <2>2. ASSUME NEW s \in Request PROVE Ready(s)'
    BY <1>3 DEF IInv, Base, WellFormed, Ready, DbOf
  <2> QED  BY <2>1, <2>2 DEF WellFormed
<1>7. Peers'
  BY <1>5 DEF IInv, Base, Isolated, Peers, DbOf
<1>8. OnItsWay'
  <2> SUFFICES ASSUME NEW s \in Live' \ overlapped', selected' # DbOf(s)'
               PROVE  \E i \in 1..Len(pipe') : IsSelect(pipe'[i].op)
    BY DEF OnItsWay
  <2>1. PICK i \in 1..Len(pipe) : IsSelect(pipe[i].op)
    BY <1>5 DEF IInv, Base, Isolated, OnItsWay, DbOf
  <2> QED  BY <2>1, <1>1
<1>9. Ahead'
  <2> SUFFICES ASSUME NEW i \in 1..Len(pipe'), ~IsSelect(pipe'[i].op),
                      pipe'[i].r \notin overlapped, selected # DbOf(pipe'[i].r)
               PROVE  \E j \in 1..(i - 1) : IsSelect(pipe'[j].op)
    BY DEF Ahead, DbOf
  <2>1. CASE i \in 1..Len(pipe)
    <3>1. PICK j \in 1..(i - 1) : IsSelect(pipe[j].op)
      BY <2>1, <1>1 DEF IInv, Base, Isolated, Ahead
    <3>2. j \in 1..Len(pipe)
      BY <2>1, <1>1
    <3>3. pipe'[j] = pipe[j]
      BY <3>2, <1>1
    <3> QED  BY <3>1, <3>3
  <2>2. CASE i \in Len(pipe)+1..Len(pipe')
    <3>1. r \in Live \ overlapped /\ selected # DbOf(r)
      BY <2>2, <1>2 DEF Live
    <3>2. PICK j \in 1..Len(pipe) : IsSelect(pipe[j].op)
      BY <3>1 DEF IInv, Base, Isolated, OnItsWay
    <3>3. pipe'[j] = pipe[j]
      BY <1>1
    <3>4. j \in 1..(i - 1)
      BY <2>2, <1>1
    <3> QED  BY <3>2, <3>3, <3>4
  <2> QED  BY <2>1, <2>2, <1>1
<1>10. SharedConnectionIsolation'
  BY DEF IInv, Base, Isolated, SharedConnectionIsolation
<1> QED  BY <1>6, <1>7, <1>8, <1>9, <1>10 DEF Isolated

\* A new request keeps the pipe well formed and the requests isolated: the
\* commands it sends at once begin with a SELECT of its own database, and the
\* live requests for the other database are overlapped from now on.
LEMMA StartKeeps ==
    ASSUME IInv, NEW r \in Request, NEW j \in Job,
           NEW next \in Waiting,
           NEW cmds \in Seq(Command), cmds # <<>>,
           Start(r, j, cmds, next),
           IsSelect(cmds[1].op),
           Appends(r, cmds)', Ready(r)'
    PROVE  WellFormed' /\ Isolated'
<1> USE DEF IInv, Base
<1>1. /\ Len(pipe') = Len(pipe) + Len(cmds)
      /\ Len(pipe) \in Nat /\ Len(cmds) \in Nat
      /\ \A i \in 1..Len(pipe) : pipe'[i] = pipe[i]
      /\ \A i \in Len(pipe)+1..Len(pipe)+Len(cmds) :
            i - Len(pipe) \in 1..Len(cmds) /\ pipe'[i] = cmds[i - Len(pipe)]
  BY PipeExtends DEF TypeOK, Start, Send
<1>2. Len(cmds) > 0
  BY <1>1, EmptySeq
<1>3. \A i \in Len(pipe)+1..Len(pipe') : pipe'[i].r = r
  BY <1>1 DEF Appends
<1>4. /\ pc \in [Request -> Pc] /\ pipe \in Seq(Command) /\ job \in [Request -> Job]
      /\ pc' = [pc EXCEPT ![r] = next] /\ pc[r] = "idle"
      /\ job' = [job EXCEPT ![r] = j]
      /\ selected' = selected /\ misplaced' = misplaced
  BY DEF TypeOK, Start, redis
<1>5. \A i \in 1..Len(pipe) : pipe[i] \in Command /\ pipe[i].r \in Request /\ pipe[i].r # r
  <2>1. \A i \in 1..Len(pipe) : pipe[i] \in Command
    BY <1>4, ElementOfSeq
  <2> QED  BY <2>1, <1>4 DEF WellFormed, Sound, Command
<1>6. /\ \A s \in Request : s # r => DbOf(s)' = DbOf(s)
      /\ DbOf(r)' = Target(j.kind)
  BY <1>4 DEF DbOf
<1>7. Live' \subseteq Live \cup {r} /\ r \notin Live
  <2>1. ASSUME NEW s \in Live', s # r PROVE s \in Live
    <3>1. CASE pc'[s] \in Waiting
      BY <3>1, <2>1, <1>4 DEF Live
    <3>2. CASE \E i \in 1..Len(pipe') : pipe'[i].r = s
      BY <3>2, <2>1, <1>1, <1>3 DEF Live
    <3> QED  BY <3>1, <3>2, <2>1 DEF Live
  <2>2. r \notin Live
    BY <1>4, <1>5 DEF Live, Waiting
  <2> QED  BY <2>1, <2>2
<1>8. /\ overlapped \subseteq overlapped'
      /\ \A s \in Live : DbOf(s) # Target(j.kind) => s \in overlapped' /\ r \in overlapped'
  BY DEF Start, DbOf
<1>9. WellFormed'
  <2>1. ASSUME NEW i \in 1..Len(pipe') PROVE Sound(pipe[i])'
    <3>1. CASE i \in 1..Len(pipe)
      BY <3>1, <1>1, <1>4, <1>5, <1>6 DEF WellFormed, Sound
    <3>2. CASE i \in Len(pipe)+1..Len(pipe')
      <4> DEFINE k == i - Len(pipe)
      <4>1. k \in 1..Len(cmds) /\ pipe'[i] = cmds[k] /\ cmds[k].r = r
        BY <3>2, <1>1 DEF Appends
      <4>2. pc'[r] # "idle"
        BY <1>4 DEF Waiting
      <4> HIDE DEF k
      <4> QED  BY <4>1, <4>2 DEF Appends, Sound, DbOf
    <3> QED  BY <3>1, <3>2, <1>1
  <2>2. ASSUME NEW s \in Request PROVE Ready(s)'
    BY <1>4, <1>6 DEF WellFormed, Ready
  <2> QED  BY <2>1, <2>2 DEF WellFormed
<1>10. Peers'
  <2> SUFFICES ASSUME NEW s \in Live', s \notin overlapped', NEW t \in Live'
               PROVE  DbOf(s)' = DbOf(t)'
    BY DEF Peers
  <2>1. s \in Request /\ t \in Request
    BY DEF Live
  <2>2. CASE s # r /\ t # r
    BY <2>1, <2>2, <1>6, <1>7, <1>8 DEF Isolated, Peers
  <2>3. CASE s = r \/ t = r
    BY <2>1, <2>3, <1>6, <1>7, <1>8
  <2> QED  BY <2>2, <2>3
<1>11. IsSelect(pipe'[Len(pipe) + 1].op) /\ Len(pipe) + 1 \in 1..Len(pipe')
  BY <1>1, <1>2
<1>12. OnItsWay'
  BY <1>11 DEF OnItsWay
<1>13. Ahead'
  <2> SUFFICES ASSUME NEW i \in 1..Len(pipe'), ~IsSelect(pipe'[i].op),
                      pipe'[i].r \notin overlapped', selected # DbOf(pipe[i].r)'
               PROVE  \E k \in 1..(i - 1) : IsSelect(pipe'[k].op)
    BY <1>4 DEF Ahead
  <2>1. CASE i \in 1..Len(pipe)
    <3>1. selected # DbOf(pipe[i].r) /\ pipe[i].r \notin overlapped /\ ~IsSelect(pipe[i].op)
      BY <2>1, <1>1, <1>5, <1>6, <1>8
    <3>2. PICK k \in 1..(i - 1) : IsSelect(pipe[k].op)
      BY <2>1, <3>1 DEF Isolated, Ahead
    <3>3. k \in 1..Len(pipe)
      BY <2>1, <1>1
    <3>4. pipe'[k] = pipe[k]
      BY <3>3, <1>1
    <3> QED  BY <3>2, <3>4
  <2>2. CASE i \in Len(pipe)+1..Len(pipe')
    <3>1. i # Len(pipe) + 1
      BY <1>11
    <3>2. Len(pipe) + 1 \in 1..(i - 1)
      BY <3>1, <2>2, <1>1
    <3> QED  BY <3>2, <1>11
  <2> QED  BY <2>1, <2>2, <1>1
<1>14. SharedConnectionIsolation'
  BY <1>4, <1>8 DEF Isolated, SharedConnectionIsolation
<1> QED  BY <1>9, <1>10, <1>12, <1>13, <1>14 DEF Isolated

\* Executing a command keeps the pipe well formed and the requests isolated;
\* a command executed in the wrong database belongs to an overlapped request.
LEMMA ExecKeeps ==
    ASSUME IInv, Exec
    PROVE  WellFormed' /\ Isolated'
<1> USE DEF IInv, Base
<1> DEFINE head == pipe[1]
<1>1. /\ pipe \in Seq(Command) /\ pipe # <<>>
      /\ pc \in [Request -> Pc] /\ selected \in Dbs
  BY DEF TypeOK, Exec
<1>2. /\ Len(pipe) \in Nat /\ Len(pipe) > 0
      /\ Head(pipe) = head
      /\ Len(pipe') = Len(pipe) - 1
      /\ \A i \in 1..Len(pipe') : pipe'[i] = pipe[i + 1]
  BY <1>1, HeadTailProperties, LenProperties, EmptySeq DEF Exec
<1>3. \A i \in 1..Len(pipe) : pipe[i].r \in Live
  <2>1. \A i \in 1..Len(pipe) : pipe[i] \in Command
    BY <1>1, ElementOfSeq
  <2> QED  BY <2>1 DEF Live, Command
<1>4. /\ pc' = pc /\ job' = job /\ overlapped' = overlapped
      /\ selected' = IF IsSelect(head.op) THEN SelectedBy(head.op) ELSE selected
      /\ misplaced' = IF ~IsSelect(head.op) /\ selected # DbOf(head.r)
                      THEN misplaced \cup {head.r} ELSE misplaced
  BY <1>2 DEF Exec, DbOf
<1>5. Live' \subseteq Live
  <2> SUFFICES ASSUME NEW s \in Live' PROVE s \in Live
    OBVIOUS
  <2>1. s \in Request
    BY DEF Live
  <2>2. CASE pc'[s] \in Waiting
    BY <2>1, <2>2, <1>4 DEF Live
  <2>3. CASE \E i \in 1..Len(pipe') : pipe'[i].r = s
    <3>1. PICK i \in 1..Len(pipe') : pipe'[i].r = s
      BY <2>3
    <3>2. i + 1 \in 1..Len(pipe) /\ pipe[i + 1].r = s
      BY <3>1, <1>2
    <3> QED  BY <2>1, <3>2 DEF Live
  <2> QED  BY <2>2, <2>3 DEF Live
<1>6. WellFormed'
  <2>1. ASSUME NEW i \in 1..Len(pipe') PROVE Sound(pipe[i])'
    <3>1. i + 1 \in 1..Len(pipe) /\ pipe'[i] = pipe[i + 1]
      BY <1>2
    <3>2. Sound(pipe[i + 1])
      BY <3>1 DEF WellFormed
    <3> QED  BY <3>1, <3>2, <1>4 DEF Sound, DbOf
  <2>2. ASSUME NEW s \in Request PROVE Ready(s)'
    BY <1>4 DEF WellFormed, Ready, DbOf
  <2> QED  BY <2>1, <2>2 DEF WellFormed
<1>7. Peers'
  BY <1>4, <1>5 DEF Isolated, Peers, DbOf
<1>8. ASSUME NEW s \in Live, s \notin overlapped, IsSelect(head.op)
      PROVE  selected' = DbOf(s)
  <2>1. SelectedBy(head.op) = DbOf(head.r) /\ head.r \in Live
    BY <1>2, <1>3, <1>8 DEF WellFormed, Sound
  <2>2. DbOf(s) = DbOf(head.r)
    BY <2>1, <1>8 DEF Isolated, Peers
  <2> QED  BY <2>1, <2>2, <1>4, <1>8
<1>9. OnItsWay'
  <2> SUFFICES ASSUME NEW s \in Live, s \notin overlapped, selected' # DbOf(s)
               PROVE  \E i \in 1..Len(pipe') : IsSelect(pipe'[i].op)
    BY <1>4, <1>5 DEF OnItsWay, DbOf
  <2>1. ~IsSelect(head.op)
    BY <1>8
  <2>2. PICK i \in 1..Len(pipe) : IsSelect(pipe[i].op)
    BY <2>1, <1>4 DEF Isolated, OnItsWay
  <2>3. i - 1 \in 1..Len(pipe') /\ pipe'[i - 1] = pipe[i]
    BY <2>1, <2>2, <1>2
  <2> QED  BY <2>2, <2>3
<1>10. Ahead'
  <2> SUFFICES ASSUME NEW i \in 1..Len(pipe'), ~IsSelect(pipe'[i].op),
                      pipe'[i].r \notin overlapped, selected' # DbOf(pipe'[i].r)
               PROVE  \E j \in 1..(i - 1) : IsSelect(pipe'[j].op)
    BY <1>4 DEF Ahead, DbOf
  <2>1. i + 1 \in 1..Len(pipe) /\ pipe'[i] = pipe[i + 1]
    BY <1>2
  <2>2. ~IsSelect(head.op)
    BY <1>3, <1>8, <2>1
  <2>3. PICK j \in 1..i : IsSelect(pipe[j].op)
    BY <2>1, <2>2, <1>4 DEF Isolated, Ahead
  <2>4. j - 1 \in 1..(i - 1) /\ pipe'[j - 1] = pipe[j]
    BY <2>1, <2>2, <2>3, <1>2
  <2> QED  BY <2>3, <2>4
<1>11. SharedConnectionIsolation'
  <2>1. ~IsSelect(head.op) /\ head.r \notin overlapped => selected = DbOf(head.r)
    BY <1>2 DEF Isolated, Ahead
  <2> QED  BY <2>1, <1>4 DEF Isolated, SharedConnectionIsolation
<1> QED  BY <1>6, <1>7, <1>9, <1>10, <1>11 DEF Isolated
-----------------------------------------------------------------------------
(***************************************************************************)
(* Types.                                                                  *)
(***************************************************************************)
\* A command with its arguments leaves a database well typed.
LEMMA EffectType ==
    ASSUME TypeOK, NEW cmd \in Command, Sound(cmd), NEW st \in Store
    PROVE  Effect(cmd.op, cmd.r, st) \in Store
<1> DEFINE r == cmd.r
<1>1. r \in Request /\ job[r] \in Job /\ got[r] \in Reply /\ r \in Client
  BY DEF TypeOK, Command, Client
<1>2. /\ job[r].csp \in Csp \cup {None} /\ job[r].client \in Client \cup {None}
      /\ job[r].quota \in QuotaValue \cup {None} /\ got[r].csp \in CspKey
  BY <1>1 DEF Job, Reply
<1> HIDE DEF r
<1>3. SetUser(st, r) \in Store
  BY <1>1, <1>2 DEF SetUser, Store
<1>4. ExpireUser(st, r) \in Store
  BY <1>1 DEF ExpireUser, Store
<1>5. HsetnxProv(st, r) \in Store
  BY <1>2 DEF HsetnxProv, Store
<1>6. HsetnxConso(st, r) \in Store
  BY <1>2 DEF HsetnxConso, Store, Amount
<1>7. RenameConso(st, job[r].csp) \in Store
  BY <1>2 DEF RenameConso, Store, Amount, CspKey
<1>8. RenameProv(st, job[r].csp) \in Store
  BY <1>2 DEF RenameProv, Store
<1>9. HmsetProv(st, r) \in Store
  BY <1>2 DEF HmsetProv, Store
<1>10. CASE cmd.op = "SET_KEY"
  <2>1. job[r].client \in Client => SetKey(st, r) \in Store
    BY DEF SetKey, Store
  <2> QED  BY <2>1, <1>10 DEF Effect, Sound, r
<1>11. CASE cmd.op = "HINCRBY"
  <2>1. job[r].bytes \in Nat
    BY <1>11 DEF Sound, r
  <2>2. HincrbyConso(st, r) \in Store
    BY <2>1, <1>2 DEF HincrbyConso, Store, Amount
  <2> QED  BY <2>2, <1>11 DEF Effect, r
<1> QED
  BY <1>3, <1>4, <1>5, <1>6, <1>7, <1>8, <1>9, <1>10, <1>11 DEF Effect, r

\* A command with its arguments is answered by a well-typed reply.
LEMMA ReplyType ==
    ASSUME TypeOK, NEW cmd \in Command, Sound(cmd), NEW st \in Store
    PROVE  ReplyTo(cmd.op, cmd.r, st) \in Reply
<1> DEFINE r == cmd.r
<1>1. r \in Request /\ got[r] \in Reply
  BY DEF TypeOK, Command
<1> HIDE DEF r
<1>2. CASE cmd.op = "HGETALL_PROV"
  BY <1>1, <1>2 DEF ReplyTo, Reply, Store, Sound, r
<1>3. CASE cmd.op = "HGETALL_CONSO"
  BY <1>1, <1>3 DEF ReplyTo, Reply, Store, Sound, CspKey, r
<1>4. CASE cmd.op = "KEYS_TURN"
  BY <1>1, <1>4 DEF ReplyTo, Reply, Store, r
<1>5. CASE cmd.op = "GET_USER"
  <2>1. st.users[job[r].client] \in Csp \cup {None}
    BY <1>5 DEF Store, Sound, r
  <2>2. KeyName(st.users[job[r].client]) \in CspKey
    BY <2>1 DEF KeyName, CspKey
  <2> QED  BY <1>1, <1>5, <2>2 DEF ReplyTo, Reply, r
<1>6. CASE cmd.op = "RENAME_PROV"
  BY <1>1, <1>6 DEF ReplyTo, Reply, r
<1>7. CASE cmd.op = "KEYS_PROV"
  BY <1>1, <1>7 DEF ReplyTo, Reply, r
<1>8. CASE cmd.op = "HGETALL_EACH"
  BY <1>1, <1>8 DEF ReplyTo, Reply, FoundEach, r
<1>9. CASE cmd.op \notin {"HGETALL_PROV", "HGETALL_CONSO", "KEYS_TURN", "GET_USER",
                          "RENAME_PROV", "KEYS_PROV", "HGETALL_EACH"}
  BY <1>1, <1>9 DEF ReplyTo, r
<1> QED  BY <1>2, <1>3, <1>4, <1>5, <1>6, <1>7, <1>8, <1>9

Moment == {"absent", "over", "within", "noturn"} \cup Turn

\* What is recorded about the moments of a request is well typed.
LEMMA WitnessType ==
    ASSUME TypeOK, NEW st \in Store
    PROVE  /\ \A c : Facts(c, st) \subseteq Moment
           /\ Witnessed(st) \in [Request -> SUBSET Moment]
<1>1. \A c : Facts(c, st) \subseteq Moment
  BY DEF Facts, Store, Moment
<1>2. witness \in [Request -> SUBSET Moment]
  BY DEF TypeOK, Moment
<1> QED  BY <1>1, <1>2 DEF Witnessed

\* Executing a command preserves the types.
LEMMA ExecType ==
    ASSUME IInv, Exec
    PROVE  TypeOK'
<1> USE DEF IInv, Base
<1> DEFINE cmd == Head(pipe)
<1>1. cmd \in Command /\ Tail(pipe) \in Seq(Command) /\ Sound(cmd)
  <2>1. pipe \in Seq(Command) /\ pipe # <<>>
    BY DEF TypeOK, Exec
  <2>2. cmd \in Command /\ Tail(pipe) \in Seq(Command)
    BY <2>1, HeadTailProperties
  <2>3. cmd = pipe[1] /\ 1 \in 1..Len(pipe)
    BY <2>1, EmptySeq
  <2> QED  BY <2>2, <2>3 DEF WellFormed
<1> HIDE DEF cmd
<1>2. cmd.r \in Request /\ cmd.op \in Ops
  BY <1>1 DEF Command
<1>3. selected \in Dbs /\ db[selected] \in Store /\ db \in [Dbs -> Store]
  BY DEF TypeOK
<1>4. /\ Effect(cmd.op, cmd.r, db[selected]) \in Store
      /\ ReplyTo(cmd.op, cmd.r, db[selected]) \in Reply
  BY <1>1, <1>3, EffectType, ReplyType
<1>5. /\ pipe' = Tail(pipe)
      /\ inbox' = IF cmd.cb THEN Append(inbox, cmd.r) ELSE inbox
      /\ selected' = IF IsSelect(cmd.op) THEN SelectedBy(cmd.op) ELSE selected
      /\ db' = [db EXCEPT ![selected] = Effect(cmd.op, cmd.r, db[selected])]
      /\ got' = [got EXCEPT ![cmd.r] = ReplyTo(cmd.op, cmd.r, db[selected])]
      /\ misplaced' \in {misplaced, misplaced \cup {cmd.r}}
      /\ witness' = Witnessed(db'[2])
  BY DEF Exec, cmd
<1>6. db' \in [Dbs -> Store]
  BY <1>3, <1>4, <1>5
<1>7. witness' \in [Request -> SUBSET Moment]
  <2>1. db'[2] \in Store
    BY <1>6 DEF Dbs
  <2> QED  BY <2>1, <1>5, WitnessType
<1>8. inbox' \in Seq(Request)
  <2>1. inbox \in Seq(Request)
    BY DEF TypeOK
  <2> QED  BY <2>1, <1>2, <1>5, AppendProperties
<1>9. /\ selected' \in Dbs /\ got' \in [Request -> Reply] /\ misplaced' \subseteq Request
      /\ pulled' \subseteq Request
  <2>1. pulled' \subseteq Request
    BY DEF TypeOK, Exec, Outdated, Polling
  <2> QED  BY <2>1, <1>2, <1>3, <1>4, <1>5 DEF TypeOK, SelectedBy, Dbs
<1> QED  BY <1>1, <1>5, <1>6, <1>7, <1>8, <1>9 DEF TypeOK, Exec, Moment

\* A request that arrives is well typed, and so is what it sends.
LEMMA StartType ==
    ASSUME IInv, NEW r \in Request, NEW j \in Job, NEW next \in Waiting,
           NEW cmds \in Seq(Command), Start(r, j, cmds, next)
    PROVE  /\ pipe' \in Seq(Command) /\ pc' \in [Request -> Pc] /\ job' \in [Request -> Job]
           /\ overlapped' \subseteq Request
           /\ UNCHANGED <<db, selected, selected_db, inbox, tasks, got, chosen, up, misplaced,
                          lapsed, cut, pulled>>
<1>1. pipe' \in Seq(Command)
  BY PipeExtends DEF IInv, Base, TypeOK, Start, Send
<1>2. overlapped' \subseteq Request
  BY DEF IInv, Base, TypeOK, Start, Live
<1> QED  BY <1>1, <1>2 DEF IInv, Base, TypeOK, Start, redis, Pc

\* What remains of the replies and the continuations is what was there.
LEMMA QueueRest ==
    ASSUME NEW q \in Seq(Request), q # <<>>
    PROVE  \A i \in 1..Len(Tail(q)) : \E k \in 1..Len(q) : Tail(q)[i] = q[k]
<1>1. /\ Len(q) \in Nat /\ Len(Tail(q)) = Len(q) - 1
      /\ \A i \in 1..Len(Tail(q)) : Tail(q)[i] = q[i + 1]
  BY HeadTailProperties, LenProperties, EmptySeq
<1> SUFFICES ASSUME NEW i \in 1..Len(Tail(q))
             PROVE  \E k \in 1..Len(q) : Tail(q)[i] = q[k]
  OBVIOUS
<1>2. i + 1 \in 1..Len(q) /\ Tail(q)[i] = q[i + 1]
  BY <1>1
<1> QED  BY <1>2

\* A new request waits for a SELECT; the others are where they were.
LEMMA StartRestores ==
    ASSUME IInv, NEW r \in Request, NEW j \in Job, NEW next \in Selecting, NEW cmds,
           Start(r, j, cmds, next)
    PROVE  Restored' /\ Started'
<1>1. /\ pc \in [Request -> Pc] /\ job \in [Request -> Job] /\ tasks \in Seq(Request)
      /\ inbox \in Seq(Request)
      /\ pc[r] = "idle" /\ pc' = [pc EXCEPT ![r] = next] /\ job' = [job EXCEPT ![r] = j]
      /\ inbox' = inbox /\ tasks' = tasks /\ selected_db' = selected_db
      /\ overlapped \subseteq overlapped'
  BY DEF IInv, Base, TypeOK, Start
<1>2. next \in Waiting /\ next # "idle"
  BY DEF Selecting, Waiting
<1>3. /\ \A i \in 1..Len(tasks) : tasks[i] \in Request /\ tasks[i] # r
      /\ \A i \in 1..Len(inbox) : inbox[i] \in Request
  BY <1>1, ElementOfSeq DEF IInv, Started
<1>4. Started'
  BY <1>1, <1>2, <1>3 DEF IInv, Started
<1>5. Restored'
  <2> SUFFICES ASSUME NEW s \in Request, s \notin overlapped', pc'[s] \in Waiting,
                      pc'[s] \in Selecting => \E i \in 1..Len(tasks) : tasks[i] = s
               PROVE  selected_db = DbOf(s)'
    BY <1>1 DEF Restored
  <2>1. s # r
    BY <1>1, <1>3
  <2>2. pc'[s] = pc[s] /\ DbOf(s)' = DbOf(s) /\ s \notin overlapped
    BY <1>1, <2>1 DEF DbOf
  <2> QED  BY <2>2 DEF IInv, Restored
<1> QED  BY <1>4, <1>5

\* A request that is set aside at once, with nothing sent, disturbs no other.
LEMMA AsideKeeps ==
    ASSUME IInv, NEW r \in Request, NEW j \in Job, pc[r] = "idle",
           pc' = [pc EXCEPT ![r] = "hung"], job' = [job EXCEPT ![r] = j],
           UNCHANGED <<selected, selected_db, pipe, inbox, tasks, overlapped, misplaced>>
    PROVE  WellFormed' /\ Isolated' /\ Restored' /\ Started'
<1>1. /\ pc \in [Request -> Pc] /\ job \in [Request -> Job] /\ pipe \in Seq(Command)
      /\ tasks \in Seq(Request) /\ inbox \in Seq(Request)
  BY DEF IInv, Base, TypeOK
<1>2. pc'[r] = "hung" /\ \A s \in Request : s # r => pc'[s] = pc[s] /\ job'[s] = job[s]
  BY <1>1
<1>3. \A i \in 1..Len(pipe) : pipe[i].r \in Request /\ pipe[i].r # r
  <2>1. \A i \in 1..Len(pipe) : pipe[i] \in Command
    BY <1>1, ElementOfSeq
  <2> QED  BY <2>1 DEF IInv, Base, WellFormed, Sound, Command
<1>4. Live' = Live /\ r \notin Live
  BY <1>2, <1>3 DEF Live, Waiting
<1>5. \A s \in Request : s # r => DbOf(s)' = DbOf(s)
  BY <1>2 DEF DbOf
<1>6. WellFormed'
  <2>1. ASSUME NEW i \in 1..Len(pipe) PROVE Sound(pipe[i])'
    <3>1. Sound(pipe[i]) /\ pipe'[i] = pipe[i]
      BY DEF IInv, Base, WellFormed
    <3> QED  BY <3>1, <1>2, <1>3, <1>5 DEF Sound
  <2>2. ASSUME NEW s \in Request PROVE Ready(s)'
    BY <1>2, <1>5 DEF IInv, Base, WellFormed, Ready
  <2> QED  BY <2>1, <2>2 DEF WellFormed
<1>7. Peers' /\ OnItsWay'
  <2>1. Live \subseteq Request
    BY DEF Live
  <2> QED  BY <2>1, <1>4, <1>5 DEF IInv, Base, Isolated, Peers, OnItsWay
<1>8. Ahead' /\ SharedConnectionIsolation'
  <2>1. SharedConnectionIsolation'
    BY DEF IInv, Base, Isolated, SharedConnectionIsolation
  <2>2. ASSUME NEW i \in 1..Len(pipe) PROVE DbOf(pipe[i].r)' = DbOf(pipe[i].r)
    BY <1>3, <1>5
  <2> QED  BY <2>1, <2>2 DEF IInv, Base, Isolated, Ahead
<1>9. /\ \A i \in 1..Len(tasks) : tasks[i] \in Request
      /\ \A i \in 1..Len(inbox) : inbox[i] \in Request
  BY <1>1, ElementOfSeq
<1>10. Started'
  BY <1>2, <1>9 DEF IInv, Started
<1>11. Restored'
  <2> SUFFICES ASSUME NEW s \in Request, s \notin overlapped, pc'[s] \in Waiting,
                      pc'[s] \in Selecting => \E i \in 1..Len(tasks) : tasks[i] = s
               PROVE  selected_db = DbOf(s)'
    BY DEF Restored
  <2>1. s # r
    BY <1>2 DEF Waiting
  <2> QED  BY <1>2, <1>5, <2>1 DEF IInv, Restored
<1> QED  BY <1>6, <1>7, <1>8, <1>10, <1>11 DEF Isolated

\* The reply that node_redis reads, or the continuation it has scheduled, is that
\* of a request whose database it knows to be selected afterwards.
LEMMA TurnRestores ==
    ASSUME IInv, NEW r \in Request, NEW at \in Waiting, Resume(r, at) \/ Callback(r, at),
           pc'[r] # "idle", \A s \in Request : s # r => pc'[s] = pc[s]
    PROVE  Restored' /\ Started'
<1>1. /\ inbox \in Seq(Request) /\ tasks \in Seq(Request)
      /\ pc[r] = at /\ job' = job /\ overlapped' = overlapped
  BY DEF IInv, Base, TypeOK, Resume, Callback, history
<1>2. /\ \A i \in 1..Len(tasks') : \E k \in 1..Len(tasks) : tasks'[i] = tasks[k]
      /\ \A i \in 1..Len(inbox') : \E k \in 1..Len(inbox) : inbox'[i] = inbox[k]
  <2>1. CASE Resume(r, at)
    <3>1. tasks # <<>> /\ tasks' = Tail(tasks) /\ inbox' = inbox
      BY <2>1 DEF Resume
    <3> QED  BY <1>1, <3>1, QueueRest
  <2>2. CASE Callback(r, at)
    <3>1. inbox # <<>> /\ inbox' = Tail(inbox) /\ tasks' = tasks
      BY <2>2 DEF Callback
    <3> QED  BY <1>1, <3>1, QueueRest
  <2> QED  BY <2>1, <2>2
<1>3. /\ \A i \in 1..Len(tasks) : tasks[i] \in Request
      /\ \A i \in 1..Len(inbox) : inbox[i] \in Request
  BY <1>1, ElementOfSeq
<1>4. Started'
  <2>1. \A s \in Request : pc[s] # "idle" => pc'[s] # "idle"
    OBVIOUS
  <2>2. ASSUME NEW i \in 1..Len(tasks') PROVE pc'[tasks'[i]] # "idle"
    <3>1. PICK k \in 1..Len(tasks) : tasks'[i] = tasks[k]
      BY <1>2
    <3> QED  BY <3>1, <2>1, <1>3 DEF IInv, Started
  <2>3. ASSUME NEW i \in 1..Len(inbox') PROVE pc'[inbox'[i]] # "idle"
    <3>1. PICK k \in 1..Len(inbox) : inbox'[i] = inbox[k]
      BY <1>2
    <3> QED  BY <3>1, <2>1, <1>3 DEF IInv, Started
  <2> QED  BY <2>2, <2>3 DEF Started
<1>5. \A s \in Request \ overlapped : pc[s] \in Waiting => DbOf(r) = DbOf(s)
  <2> SUFFICES ASSUME NEW s \in Request, s \notin overlapped, pc[s] \in Waiting
               PROVE  DbOf(r) = DbOf(s)
    OBVIOUS
  <2>1. r \in Live /\ s \in Live
    BY <1>1 DEF Live
  <2> QED  BY <2>1 DEF IInv, Base, Isolated, Peers
<1>6. selected_db' \in {selected_db, DbOf(r)}
  BY DEF Resume, Callback, Reads, DbOf
<1>7. r \notin overlapped => selected_db' = DbOf(r)
  <2>1. CASE Resume(r, at)
    <3>1. tasks # <<>> /\ r = Head(tasks) /\ selected_db' = selected_db
      BY <2>1 DEF Resume
    <3>2. 1 \in 1..Len(tasks) /\ tasks[1] = r
      BY <1>1, <3>1, EmptySeq
    <3> QED  BY <1>1, <3>1, <3>2 DEF IInv, Restored
  <2>2. CASE Callback(r, at)
    <3>1. selected_db' = IF pc[r] \in Selecting THEN DbOf(r) ELSE selected_db
      BY <2>2 DEF Callback, Reads, DbOf
    <3> QED  BY <1>1, <3>1 DEF IInv, Restored
  <2> QED  BY <2>1, <2>2
<1>8. Restored'
  <2> SUFFICES ASSUME NEW s \in Request, s \notin overlapped, pc'[s] \in Waiting,
                      pc'[s] \in Selecting => \E i \in 1..Len(tasks') : tasks'[i] = s
               PROVE  selected_db' = DbOf(s)
    BY <1>1 DEF Restored, DbOf
  <2>1. CASE s = r
    BY <1>7, <2>1
  <2>2. CASE s # r
    <3>1. pc[s] \in Waiting /\ (pc[s] \in Selecting => \E i \in 1..Len(tasks) : tasks[i] = s)
      BY <2>2, <1>2
    <3>2. selected_db = DbOf(s)
      BY <3>1 DEF IInv, Restored
    <3> QED  BY <3>1, <3>2, <1>5, <1>6
  <2> QED  BY <2>1, <2>2
<1> QED  BY <1>4, <1>8

\* So is a step that changes nothing of this.
LEMMA FrameRestores ==
    ASSUME IInv, UNCHANGED <<selected_db, inbox, tasks, pc, job, overlapped>>
    PROVE  Restored' /\ Started'
BY DEF IInv, Restored, Started, DbOf

\* The requests that may arrive preserve the invariant.
LEMMA ArriveKeeps ==
    ASSUME IInv, NEW r \in Request, Arrive(r)
    PROVE  IInv'
<1> DEFINE Outcome(j, cmds, next) ==
             /\ j \in Job /\ cmds \in Seq(Command) /\ cmds # <<>> /\ next \in Selecting
             /\ Start(r, j, cmds, next) /\ IsSelect(cmds[1].op)
             /\ Appends(r, cmds)' /\ Ready(r)'
<1>1. ASSUME NEW j, NEW cmds, NEW next, Outcome(j, cmds, next),
             answer' \in [Request -> Answers], witness' \in [Request -> SUBSET Moment],
             carried' \in [Csp -> Nat]
      PROVE  IInv'
  <2>1. next \in Waiting
    BY <1>1 DEF Selecting, Waiting
  <2>2. WellFormed' /\ Isolated'
    BY <1>1, <2>1, StartKeeps
  <2>3. TypeOK'
    BY <1>1, <2>1, StartType DEF IInv, Base, TypeOK, Moment
  <2>4. Restored' /\ Started'
    BY <1>1, StartRestores
  <2> QED  BY <2>2, <2>3, <2>4 DEF IInv, Base
<1>2. ASSUME NEW j \in Job, NEW cmds, NEW next, Start(r, j, cmds, next)
      PROVE  job'[r] = j /\ pc'[r] = next /\ DbOf(r)' = Target(j.kind)
  BY <1>2 DEF IInv, Base, TypeOK, Start, DbOf
<1>3. ASSUME NEW c \in Csp, NEW q \in QuotaValue, ProvRequest(r, c, q)
      PROVE  IInv'
  <2> DEFINE j == [NoJob EXCEPT !.kind = "provRequest", !.csp = c, !.quota = q]
             cmds == <<Await("SELECT_2", r)>>
  <2>1. j \in Job /\ Target(j.kind) = 2
    BY <1>3 DEF Job, NoJob, AllKinds, Target
  <2>2. Start(r, j, cmds, "provSelected")
    BY <1>3 DEF ProvRequest
  <2>3. job'[r] = j /\ pc'[r] = "provSelected" /\ DbOf(r)' = 2
    BY <2>1, <2>2, <1>2
  <2> HIDE DEF j
  <2>4. /\ cmds \in Seq(Command) /\ cmds # <<>> /\ IsSelect(cmds[1].op)
        /\ Appends(r, cmds)' /\ Ready(r)'
    BY <2>1, <2>3 DEF Appends, Ready, Await, Command, Ops, IsSelect, SelectedBy
  <2>5. /\ answer' \in [Request -> Answers] /\ witness' \in [Request -> SUBSET Moment]
        /\ carried' \in [Csp -> Nat]
    BY <1>3 DEF ProvRequest, IInv, Base, TypeOK, Answers, Moment
  <2> HIDE DEF cmds
  <2> QED  BY <2>1, <2>2, <2>4, <2>5, <1>1 DEF Selecting
<1>4. ASSUME NEW c \in Csp, GetAppropriateTurn(r, c)
      PROVE  IInv'
  <2> DEFINE j == [NoJob EXCEPT !.kind = "getAppropriateTurn", !.csp = c, !.client = r]
             cmds == <<Cmd("SELECT_2", r), Cmd("SET_USER", r), Cmd("EXPIRE_USER", r)>> \o <<Await("SELECT_2", r)>>
  <2>1. j \in Job /\ Target(j.kind) = 2 /\ j.csp \in Csp
    BY <1>4 DEF Job, NoJob, AllKinds, Target, Client
  <2>2. Start(r, j, cmds, "infosSelected")
    BY <1>4 DEF GetAppropriateTurn, RegisterUserCmds
  <2>3. job'[r] = j /\ pc'[r] = "infosSelected" /\ DbOf(r)' = 2
    BY <2>1, <2>2, <1>2
  <2> HIDE DEF j
  <2>4. /\ cmds \in Seq(Command) /\ cmds # <<>> /\ IsSelect(cmds[1].op)
        /\ Appends(r, cmds)' /\ Ready(r)'
    BY <2>1, <2>3 DEF Appends, Ready, Cmd, Await, Command, Ops, IsSelect, SelectedBy
  <2>5. witness' \in [Request -> SUBSET Moment]
    <3>1. db[2] \in Store /\ witness \in [Request -> SUBSET Moment]
      BY DEF IInv, Base, TypeOK, Dbs, Moment
    <3> QED  BY <3>1, <1>4, WitnessType DEF GetAppropriateTurn, IInv, Base
  <2>6. answer' \in [Request -> Answers] /\ carried' \in [Csp -> Nat]
    BY <1>4 DEF GetAppropriateTurn, IInv, Base, TypeOK
  <2> HIDE DEF cmds
  <2> QED  BY <2>1, <2>2, <2>4, <2>5, <2>6, <1>1 DEF Selecting
<1>5. ASSUME NEW u \in Client, GetCredentials(r, u)
      PROVE  IInv'
  <2> DEFINE j == [NoJob EXCEPT !.kind = "getCredentials", !.client = u]
             cmds == <<Await("SELECT_0", r)>>
  <2>1. j \in Job /\ Target(j.kind) = 0 /\ j.client \in Client
    BY <1>5 DEF Job, NoJob, AllKinds, Target
  <2>2. Start(r, j, cmds, "credSelected")
    BY <1>5 DEF GetCredentials
  <2>3. job'[r] = j /\ pc'[r] = "credSelected" /\ DbOf(r)' = 0
    BY <2>1, <2>2, <1>2
  <2> HIDE DEF j
  <2>4. /\ cmds \in Seq(Command) /\ cmds # <<>> /\ IsSelect(cmds[1].op)
        /\ Appends(r, cmds)' /\ Ready(r)'
    BY <2>1, <2>3 DEF Appends, Ready, Await, Command, Ops, IsSelect, SelectedBy
  <2>5. /\ answer' \in [Request -> Answers] /\ witness' \in [Request -> SUBSET Moment]
        /\ carried' \in [Csp -> Nat]
    BY <1>5 DEF GetCredentials, IInv, Base, TypeOK, Answers, Moment
  <2> HIDE DEF cmds
  <2> QED  BY <2>1, <2>2, <2>4, <2>5, <1>1 DEF Selecting
<1>6. ASSUME NEW c \in Csp, DeleteCSP(r, c)
      PROVE  IInv'
  <2> DEFINE j == [NoJob EXCEPT !.kind = "deleteCSP", !.csp = c]
             cmds == <<Cmd("SELECT_2", r), Cmd("RENAME_CONSO", r), Await("RENAME_PROV", r)>>
  <2>1. j \in Job /\ Target(j.kind) = 2 /\ j.csp \in Csp
    BY <1>6 DEF Job, NoJob, AllKinds, Target
  <2>2. Start(r, j, cmds, "renamed")
    BY <1>6 DEF DeleteCSP
  <2>3. job'[r] = j /\ pc'[r] = "renamed" /\ DbOf(r)' = 2
    BY <2>1, <2>2, <1>2
  <2> HIDE DEF j
  <2>4. /\ cmds \in Seq(Command) /\ cmds # <<>> /\ IsSelect(cmds[1].op)
        /\ Appends(r, cmds)' /\ Ready(r)'
    BY <2>1, <2>3 DEF Appends, Ready, Cmd, Await, Command, Ops, IsSelect, SelectedBy
  <2>5. /\ answer' \in [Request -> Answers] /\ witness' \in [Request -> SUBSET Moment]
        /\ carried' \in [Csp -> Nat]
    BY <1>6 DEF DeleteCSP, IInv, Base, TypeOK, Answers, Moment
  <2> HIDE DEF cmds
  <2> QED  BY <2>1, <2>2, <2>4, <2>5, <1>1 DEF Selecting
<1>7. ASSUME NEW c \in Csp, NEW q \in QuotaValue, ChangeQuotas(r, c, q)
      PROVE  IInv'
  <2> DEFINE j == [NoJob EXCEPT !.kind = "changeQuotas", !.csp = c, !.quota = q]
             cmds == <<Await("SELECT_2", r)>>
  <2>1. j \in Job /\ Target(j.kind) = 2
    BY <1>7 DEF Job, NoJob, AllKinds, Target
  <2>2. Start(r, j, cmds, "quotaSelected")
    BY <1>7 DEF ChangeQuotas
  <2>3. job'[r] = j /\ pc'[r] = "quotaSelected" /\ DbOf(r)' = 2
    BY <2>1, <2>2, <1>2
  <2> HIDE DEF j
  <2>4. /\ cmds \in Seq(Command) /\ cmds # <<>> /\ IsSelect(cmds[1].op)
        /\ Appends(r, cmds)' /\ Ready(r)'
    BY <2>1, <2>3 DEF Appends, Ready, Await, Command, Ops, IsSelect, SelectedBy
  <2>5. /\ answer' \in [Request -> Answers] /\ witness' \in [Request -> SUBSET Moment]
        /\ carried' \in [Csp -> Nat]
    BY <1>7 DEF ChangeQuotas, IInv, Base, TypeOK, Answers, Moment
  <2> HIDE DEF cmds
  <2> QED  BY <2>1, <2>2, <2>4, <2>5, <1>1 DEF Selecting
<1>8. ASSUME GetAllCspInfo(r)
      PROVE  IInv'
  <2> DEFINE j == [NoJob EXCEPT !.kind = "getAllCspInfo"]
             cmds == <<Cmd("SELECT_2", r), Await("KEYS_PROV", r)>>
  <2>1. j \in Job /\ Target(j.kind) = 2
    BY <1>8 DEF Job, NoJob, AllKinds, Target
  <2>2. Start(r, j, cmds, "allKeys")
    BY <1>8 DEF GetAllCspInfo
  <2>3. job'[r] = j /\ pc'[r] = "allKeys" /\ DbOf(r)' = 2
    BY <2>1, <2>2, <1>2
  <2> HIDE DEF j
  <2>4. /\ cmds \in Seq(Command) /\ cmds # <<>> /\ IsSelect(cmds[1].op)
        /\ Appends(r, cmds)' /\ Ready(r)'
    BY <2>1, <2>3 DEF Appends, Ready, Cmd, Await, Command, Ops, IsSelect, SelectedBy
  <2>5. /\ answer' \in [Request -> Answers] /\ witness' \in [Request -> SUBSET Moment]
        /\ carried' \in [Csp -> Nat]
    BY <1>8 DEF GetAllCspInfo, IInv, Base, TypeOK, Answers, Moment
  <2> HIDE DEF cmds
  <2> QED  BY <2>1, <2>2, <2>4, <2>5, <1>1 DEF Selecting
<1>9. ASSUME NEW c \in Csp, GetCspConso(r, c)
      PROVE  IInv'
  <2> DEFINE j == [NoJob EXCEPT !.kind = "getCspConso", !.csp = c]
             cmds == <<Await("SELECT_2", r)>>
  <2>1. j \in Job /\ Target(j.kind) = 2 /\ j.csp \in Csp
    BY <1>9 DEF Job, NoJob, AllKinds, Target
  <2>2. Start(r, j, cmds, "consoSelected")
    BY <1>9 DEF GetCspConso
  <2>3. job'[r] = j /\ pc'[r] = "consoSelected" /\ DbOf(r)' = 2
    BY <2>1, <2>2, <1>2
  <2> HIDE DEF j
  <2>4. /\ cmds \in Seq(Command) /\ cmds # <<>> /\ IsSelect(cmds[1].op)
        /\ Appends(r, cmds)' /\ Ready(r)'
    BY <2>1, <2>3 DEF Appends, Ready, Await, Command, Ops, IsSelect, SelectedBy
  <2>5. /\ answer' \in [Request -> Answers] /\ witness' \in [Request -> SUBSET Moment]
        /\ carried' \in [Csp -> Nat]
    BY <1>9 DEF GetCspConso, IInv, Base, TypeOK, Answers, Moment
  <2> HIDE DEF cmds
  <2> QED  BY <2>1, <2>2, <2>4, <2>5, <1>1 DEF Selecting
<1>10. ASSUME NEW u \in Client, NEW n \in Bytes, AddCSPConso(r, u, n)
      PROVE  IInv'
  <2> DEFINE j == [NoJob EXCEPT !.kind = "addCSPConso", !.client = u, !.bytes = n]
             cmds == <<Await("SELECT_2", r)>>
  <2>1. j \in Job /\ Target(j.kind) = 2 /\ j.client \in Client /\ j.bytes \in Nat
    BY <1>10, NumbersAssumption DEF Job, NoJob, AllKinds, Target
  <2>2. Start(r, j, cmds, "userSelected")
    BY <1>10 DEF AddCSPConso
  <2>3. job'[r] = j /\ pc'[r] = "userSelected" /\ DbOf(r)' = 2
    BY <2>1, <2>2, <1>2
  <2> HIDE DEF j
  <2>4. /\ cmds \in Seq(Command) /\ cmds # <<>> /\ IsSelect(cmds[1].op)
        /\ Appends(r, cmds)' /\ Ready(r)'
    BY <2>1, <2>3 DEF Appends, Ready, Await, Command, Ops, IsSelect, SelectedBy
  <2>5. /\ answer' \in [Request -> Answers] /\ witness' \in [Request -> SUBSET Moment]
        /\ carried' \in [Csp -> Nat]
    <3>1. n \in Nat /\ carried \in [Csp -> Nat]
      BY NumbersAssumption DEF IInv, Base, TypeOK
    <3>2. carried' = IF OwnerOf(u) = None THEN carried
                     ELSE [carried EXCEPT ![OwnerOf(u)] = carried[OwnerOf(u)] + n]
      BY <1>10 DEF AddCSPConso
    <3>3. carried' \in [Csp -> Nat]
      <4>1. CASE OwnerOf(u) \in Csp
        <5>1. carried[OwnerOf(u)] + n \in Nat
          BY <4>1, <3>1
        <5> QED  BY <5>1, <3>1, <3>2
      <4>2. CASE OwnerOf(u) \notin Csp
        BY <4>2, <3>1, <3>2
      <4> QED  BY <4>1, <4>2
    <3> QED  BY <3>3, <1>10 DEF AddCSPConso, IInv, Base, TypeOK, Moment
  <2> HIDE DEF cmds
  <2> QED  BY <2>1, <2>2, <2>4, <2>5, <1>1 DEF Selecting
<1>11. CASE DeleteWithoutKey(r)
  <2> DEFINE j == [NoJob EXCEPT !.kind = "deleteCSP"]
  <2>1. j \in Job
    BY DEF Job, NoJob, AllKinds
  <2> HIDE DEF j
  <2>2. /\ pc[r] = "idle" /\ pc' = [pc EXCEPT ![r] = "hung"] /\ job' = [job EXCEPT ![r] = j]
        /\ UNCHANGED <<selected, selected_db, pipe, inbox, tasks, overlapped, misplaced>>
        /\ UNCHANGED <<redis, got, answer, chosen, up, history>>
    BY <1>11 DEF DeleteWithoutKey, redis, history, j
  <2>3. TypeOK'
    <3>1. pc' \in [Request -> Pc] /\ job' \in [Request -> Job]
      BY <2>1, <2>2 DEF IInv, Base, TypeOK, Pc
    <3> QED  BY <2>2, <3>1 DEF IInv, Base, TypeOK, redis, history
  <2>4. WellFormed' /\ Isolated' /\ Restored' /\ Started'
    BY <2>1, <2>2, AsideKeeps
  <2> QED  BY <2>3, <2>4 DEF IInv, Base
<1> QED
  BY <1>3, <1>4, <1>5, <1>6, <1>7, <1>8, <1>9, <1>10, <1>11 DEF Arrive

\* A step that leaves the pipe, the places of the requests and what they
\* share as they are keeps the pipe well formed and the requests isolated.
LEMMA FrameKeeps ==
    ASSUME IInv, UNCHANGED <<pipe, pc, job, selected, overlapped, misplaced>>
    PROVE  WellFormed' /\ Isolated'
<1>1. WellFormed'
  BY DEF IInv, Base, WellFormed, Sound, Ready, DbOf
<1>2. Live' = Live
  BY DEF Live
<1>3. Peers' /\ OnItsWay' /\ Ahead' /\ SharedConnectionIsolation'
  BY <1>2 DEF IInv, Base, Isolated, Peers, OnItsWay, Ahead, SharedConnectionIsolation, DbOf
<1> QED  BY <1>1, <1>3 DEF Isolated

\* What remains of the replies and the continuations when one is taken.
LEMMA QueueType ==
    ASSUME NEW q \in Seq(Request), q # <<>>
    PROVE  Head(q) \in Request /\ Tail(q) \in Seq(Request)
BY HeadTailProperties

\* A continuation that sends commands keeps the types, the pipe and the isolation.
LEMMA SendKeeps ==
    ASSUME IInv, NEW r \in Request, pc[r] \in Waiting, NEW next \in Pc, next # "idle",
           NEW cmds \in Seq(Command), Appends(r, cmds), Continue(r, cmds, next),
           Ready(r)', UNCHANGED <<redis, job, got, history>>,
           selected_db' \in Dbs, inbox' \in Seq(Request), tasks' \in Seq(Request)
    PROVE  Base'
<1>1. WellFormed' /\ Isolated'
  BY ContinueKeeps DEF Continue, Send, redis, history
<1>2. pipe' \in Seq(Command)
  BY PipeExtends DEF IInv, Base, TypeOK, Continue, Send
<1>3. TypeOK'
  BY <1>2 DEF IInv, Base, TypeOK, Continue, redis, history
<1> QED  BY <1>1, <1>3 DEF IInv, Base

\* A continuation that answers the request keeps the types, the pipe and the isolation.
LEMMA FinishKeeps ==
    ASSUME IInv, NEW r \in Request, pc[r] \in Waiting, NEW a \in Answers, Finish(r, a),
           UNCHANGED <<redis, job, got, history>>,
           selected_db' \in Dbs, inbox' \in Seq(Request), tasks' \in Seq(Request),
           chosen' \in [Request -> Turn \cup {None}]
    PROVE  Base'
<1>1. pipe' = pipe \o <<>> /\ <<>> \in Seq(Command)
  BY ConcatEmptySeq, EmptySeq DEF IInv, Base, TypeOK, Finish
<1>2. Appends(r, <<>>)
  BY EmptySeq DEF Appends
<1>3. pc' = [pc EXCEPT ![r] = "done"] /\ pc'[r] = "done"
  BY DEF Finish, IInv, Base, TypeOK
<1>4. Ready(r)'
  BY <1>3 DEF Ready
<1>5. WellFormed' /\ Isolated'
  <2>1. "done" \in Pc
    BY DEF Pc
  <2>2. UNCHANGED <<selected, job, overlapped, misplaced>>
    BY DEF redis, history
  <2> QED  BY <1>1, <1>2, <1>3, <1>4, <2>1, <2>2, ContinueKeeps
<1>6. TypeOK'
  BY DEF IInv, Base, TypeOK, Finish, redis, history, Pc
<1> QED  BY <1>5, <1>6 DEF IInv, Base

\* What a continuation or a callback may assume about its place.
LEMMA ResumeFrame ==
    ASSUME IInv, NEW r \in Request, NEW at \in Waiting, Resume(r, at) \/ Callback(r, at)
    PROVE  /\ pc[r] = at /\ UNCHANGED <<redis, job, got, history>>
           /\ inbox' \in Seq(Request) /\ tasks' \in Seq(Request) /\ selected_db' \in Dbs
<1>1. inbox \in Seq(Request) /\ tasks \in Seq(Request) /\ selected_db \in Dbs
  BY DEF IInv, Base, TypeOK
<1>2. CASE Resume(r, at)
  BY <1>1, <1>2, QueueType DEF Resume
<1>3. CASE Callback(r, at)
  <2>1. selected_db' \in Dbs
    BY <1>1, <1>3 DEF Callback, Reads, Target, Dbs
  <2> QED  BY <1>1, <1>3, <2>1, QueueType DEF Callback
<1> QED  BY <1>2, <1>3

\* The continuations of promises preserve the invariant.
LEMMA TaskKeeps ==
    ASSUME IInv, NEW r \in Request, Task(r)
    PROVE  IInv'
<1>1. Ready(r) /\ pc \in [Request -> Pc] /\ chosen \in [Request -> Turn \cup {None}]
  BY DEF IInv, Base, WellFormed, TypeOK
<1>2. ASSUME NEW at \in Waiting, Resume(r, at), NEW cmds \in Seq(Command),
             NEW next \in Pc \ {"idle"}, Continue(r, cmds, next), Appends(r, cmds),
             next \in {"infos", "consoSelected", "conso"} => job[r].csp \in Csp /\ DbOf(r) = 2,
             next = "user" => job[r].client \in Client /\ job[r].bytes \in Nat,
             next \notin {"infosSelected", "userSelected", "credSelected", "renamed", "allKeys"}
      PROVE  IInv'
  <2>1. /\ pc[r] = at /\ UNCHANGED <<redis, job, got, history>>
        /\ inbox' \in Seq(Request) /\ tasks' \in Seq(Request) /\ selected_db' \in Dbs
    BY <1>2, ResumeFrame
  <2>2. pc'[r] = next /\ job'[r] = job[r]
    BY <1>1, <1>2, <2>1 DEF Continue
  <2>3. Ready(r)'
    BY <1>2, <2>2 DEF Ready, DbOf
  <2>4. Base'
    BY <1>2, <2>1, <2>3, SendKeeps
  <2>5. Restored' /\ Started'
    BY <1>1, <1>2, <2>2, TurnRestores DEF Continue
  <2> QED  BY <2>4, <2>5 DEF IInv
<1>3. ASSUME NEW at \in Waiting, Resume(r, at), NEW a \in Answers, Finish(r, a),
             chosen' \in [Request -> Turn \cup {None}]
      PROVE  IInv'
  <2>1. /\ pc[r] = at /\ UNCHANGED <<redis, job, got, history>>
        /\ inbox' \in Seq(Request) /\ tasks' \in Seq(Request) /\ selected_db' \in Dbs
    BY <1>3, ResumeFrame
  <2>2. Base'
    BY <1>3, <2>1, FinishKeeps
  <2>3. Restored' /\ Started'
    BY <1>1, <1>3, TurnRestores DEF Finish
  <2> QED  BY <2>2, <2>3 DEF IInv
<1>4. CASE InfosSelected(r)
  <2> DEFINE cmds == <<Await("HGETALL_PROV", r)>>
  <2>1. pc[r] = "infosSelected"
    BY <1>4 DEF InfosSelected, Resume
  <2>2. cmds \in Seq(Command) /\ Appends(r, cmds)
    BY <1>1, <2>1 DEF Ready, Appends, Cmd, Await, Command, Ops, IsSelect
  <2> HIDE DEF cmds
  <2>3. Resume(r, "infosSelected") /\ Continue(r, cmds, "infos")
    BY <1>4 DEF InfosSelected, cmds
  <2> QED  BY <1>1, <1>2, <2>1, <2>2, <2>3 DEF Ready, Waiting, Pc
<1>5. CASE ConsoSelected(r)
  <2> DEFINE cmds == <<Await("HGETALL_CONSO", r)>>
  <2>1. pc[r] = "consoSelected"
    BY <1>5 DEF ConsoSelected, Resume
  <2>2. cmds \in Seq(Command) /\ Appends(r, cmds)
    BY <1>1, <2>1 DEF Ready, Appends, Cmd, Await, Command, Ops, IsSelect
  <2> HIDE DEF cmds
  <2>3. Resume(r, "consoSelected") /\ Continue(r, cmds, "conso")
    BY <1>5 DEF ConsoSelected, cmds
  <2> QED  BY <1>1, <1>2, <2>1, <2>2, <2>3 DEF Ready, Waiting, Pc
<1>6. CASE TurnsSelected(r)
  <2> DEFINE cmds == <<Await("KEYS_TURN", r)>>
  <2>1. pc[r] = "turnsSelected"
    BY <1>6 DEF TurnsSelected, Resume
  <2>2. cmds \in Seq(Command) /\ Appends(r, cmds)
    BY <1>1, <2>1 DEF Ready, Appends, Cmd, Await, Command, Ops, IsSelect
  <2> HIDE DEF cmds
  <2>3. Resume(r, "turnsSelected") /\ Continue(r, cmds, "turnKeys")
    BY <1>6 DEF TurnsSelected, cmds
  <2> QED  BY <1>1, <1>2, <2>1, <2>2, <2>3 DEF Ready, Waiting, Pc
<1>7. CASE CredSelected(r)
  <2> DEFINE cmds == <<Await("SET_KEY", r)>>
  <2>1. pc[r] = "credSelected"
    BY <1>7 DEF CredSelected, Resume
  <2>2. cmds \in Seq(Command) /\ Appends(r, cmds)
    BY <1>1, <2>1 DEF Ready, Appends, Cmd, Await, Command, Ops, IsSelect
  <2> HIDE DEF cmds
  <2>3. Resume(r, "credSelected") /\ Continue(r, cmds, "cred")
    BY <1>7 DEF CredSelected, cmds
  <2> QED  BY <1>1, <1>2, <2>1, <2>2, <2>3 DEF Ready, Waiting, Pc
<1>8. CASE ProvSelected(r)
  <2> DEFINE cmds == <<Cmd("HSETNX_PROV", r), Cmd("HSETNX_CONSO", r)>>
  <2>1. pc[r] = "provSelected"
    BY <1>8 DEF ProvSelected, Resume
  <2>2. cmds \in Seq(Command) /\ Appends(r, cmds)
    BY <1>1, <2>1 DEF Ready, Appends, Cmd, Await, Command, Ops, IsSelect
  <2> HIDE DEF cmds
  <2>3. Resume(r, "provSelected") /\ Continue(r, cmds, "done")
    BY <1>8 DEF ProvSelected, cmds
  <2> QED  BY <1>1, <1>2, <2>1, <2>2, <2>3 DEF Ready, Waiting, Pc
<1>9. CASE QuotaSelected(r)
  <2> DEFINE cmds == <<Await("HMSET_PROV", r)>>
  <2>1. pc[r] = "quotaSelected"
    BY <1>9 DEF QuotaSelected, Resume
  <2>2. cmds \in Seq(Command) /\ Appends(r, cmds)
    BY <1>1, <2>1 DEF Ready, Appends, Cmd, Await, Command, Ops, IsSelect
  <2> HIDE DEF cmds
  <2>3. Resume(r, "quotaSelected") /\ Continue(r, cmds, "quota")
    BY <1>9 DEF QuotaSelected, cmds
  <2> QED  BY <1>1, <1>2, <2>1, <2>2, <2>3 DEF Ready, Waiting, Pc
<1>10. CASE UserSelected(r)
  <2> DEFINE cmds == <<Await("GET_USER", r)>>
  <2>1. pc[r] = "userSelected"
    BY <1>10 DEF UserSelected, Resume
  <2>2. cmds \in Seq(Command) /\ Appends(r, cmds)
    BY <1>1, <2>1 DEF Ready, Appends, Cmd, Await, Command, Ops, IsSelect
  <2> HIDE DEF cmds
  <2>3. Resume(r, "userSelected") /\ Continue(r, cmds, "user")
    BY <1>10 DEF UserSelected, cmds
  <2> QED  BY <1>1, <1>2, <2>1, <2>2, <2>3 DEF Ready, Waiting, Pc
<1>11. CASE UserFound(r)
  <2> DEFINE cmds == <<Await("HINCRBY", r)>>
  <2>1. pc[r] = "user"
    BY <1>11 DEF UserFound, Resume
  <2>2. cmds \in Seq(Command) /\ Appends(r, cmds)
    BY <1>1, <2>1 DEF Ready, Appends, Cmd, Await, Command, Ops, IsSelect
  <2> HIDE DEF cmds
  <2>3. Resume(r, "user") /\ Continue(r, cmds, "incr")
    BY <1>11 DEF UserFound, cmds
  <2> QED  BY <1>1, <1>2, <2>1, <2>2, <2>3 DEF Ready, Waiting, Pc
<1>12. CASE Incremented(r)
  <2> DEFINE cmds == <<>>
  <2>1. pc[r] = "incr"
    BY <1>12 DEF Incremented, Resume
  <2>2. cmds \in Seq(Command) /\ Appends(r, cmds)
    BY <1>1, <2>1 DEF Ready, Appends, Cmd, Await, Command, Ops, IsSelect
  <2> HIDE DEF cmds
  <2>3. Resume(r, "incr") /\ Continue(r, cmds, "done")
    BY <1>12 DEF Incremented, cmds
  <2> QED  BY <1>1, <1>2, <2>1, <2>2, <2>3 DEF Ready, Waiting, Pc
<1>13. CASE Infos(r)
  <2> DEFINE cmds == <<Await("SELECT_2", r)>>
  <2>1. pc[r] = "infos" /\ DbOf(r) = 2 /\ job[r].csp \in Csp
    BY <1>1, <1>13 DEF Infos, Resume, Ready
  <2>2. cmds \in Seq(Command) /\ Appends(r, cmds)
    BY <2>1 DEF Appends, Await, Command, Ops, IsSelect, SelectedBy
  <2> HIDE DEF cmds
  <2>3. CASE Resume(r, "infos") /\ Continue(r, cmds, "consoSelected")
    BY <1>2, <2>1, <2>2, <2>3 DEF Waiting, Pc
  <2>4. ASSUME NEW a \in {"notfound", "overquota"}, Resume(r, "infos"), Finish(r, a), UNCHANGED chosen
        PROVE  IInv'
    BY <1>1, <1>3, <2>4 DEF Waiting, Answers
  <2> QED  BY <1>13, <2>3, <2>4 DEF Infos, cmds
<1>14. CASE CheckQuota(r)
  <2> DEFINE cmds == <<Await("SELECT_2", r)>>
  <2>1. pc[r] = "conso" /\ DbOf(r) = 2 /\ job[r].csp \in Csp
    BY <1>1, <1>14 DEF CheckQuota, Resume, Ready
  <2>2. cmds \in Seq(Command) /\ Appends(r, cmds)
    BY <2>1 DEF Appends, Await, Command, Ops, IsSelect, SelectedBy
  <2> HIDE DEF cmds
  <2>3. CASE Resume(r, "conso") /\ Continue(r, cmds, "turnsSelected")
    BY <1>2, <2>1, <2>2, <2>3 DEF Waiting, Pc
  <2>4. ASSUME NEW a \in {"notfound", "overquota"}, Resume(r, "conso"), Finish(r, a), UNCHANGED chosen
        PROVE  IInv'
    BY <1>1, <1>3, <2>4 DEF Waiting, Answers
  <2> QED  BY <1>14, <2>3, <2>4 DEF CheckQuota, cmds
<1>15. CASE ConsoAnswered(r)
  BY <1>1, <1>3, <1>15 DEF ConsoAnswered, Waiting, Answers
<1>16. CASE CredStored(r)
  BY <1>1, <1>3, <1>16 DEF CredStored, Waiting, Answers
<1>17. CASE QuotaSet(r)
  BY <1>1, <1>3, <1>17 DEF QuotaSet, Waiting, Answers
<1>18. CASE ChooseTurn(r)
  <2>1. chosen' \in [Request -> Turn \cup {None}]
    <3>1. got[r].turns \subseteq Turn
      BY DEF IInv, Base, TypeOK, Reply
    <3> QED  BY <1>1, <1>18, <3>1 DEF ChooseTurn
  <2> QED  BY <1>3, <1>18, <2>1 DEF ChooseTurn, Waiting, Answers
<1> QED
  BY <1>4, <1>5, <1>6, <1>7, <1>8, <1>9, <1>10, <1>11, <1>12, <1>13, <1>14, <1>15, <1>16, <1>17, <1>18 DEF Task

\* The callbacks that run inside the delivery of a reply preserve the
\* invariant, the one that throws included.
LEMMA PlainTaskKeeps ==
    ASSUME IInv, NEW r \in Request, PlainTask(r)
    PROVE  IInv'
<1>1. pc \in [Request -> Pc] /\ chosen \in [Request -> Turn \cup {None}]
  BY DEF IInv, Base, TypeOK
<1>2. ASSUME NEW at \in Waiting, Callback(r, at), NEW cmds \in Seq(Command),
             NEW next \in {"hung", "turns", "allInfos"}, Continue(r, cmds, next),
             Appends(r, cmds)
      PROVE  IInv'
  <2>1. /\ pc[r] = at /\ UNCHANGED <<redis, job, got, history>>
        /\ inbox' \in Seq(Request) /\ tasks' \in Seq(Request) /\ selected_db' \in Dbs
    BY <1>2, ResumeFrame
  <2>2. pc'[r] = next
    BY <1>1, <1>2 DEF Continue
  <2>3. Ready(r)'
    BY <2>2 DEF Ready
  <2>4. next \in Pc /\ next # "idle"
    BY DEF Pc, Waiting
  <2>5. Base'
    BY <1>2, <2>1, <2>3, <2>4, SendKeeps
  <2>6. Restored' /\ Started'
    BY <1>1, <1>2, <2>2, <2>4, TurnRestores DEF Continue
  <2> QED  BY <2>5, <2>6 DEF IInv
<1>3. ASSUME NEW at \in Waiting, Callback(r, at), NEW a \in Answers, Finish(r, a),
             UNCHANGED chosen
      PROVE  IInv'
  <2>1. /\ pc[r] = at /\ UNCHANGED <<redis, job, got, history>>
        /\ inbox' \in Seq(Request) /\ tasks' \in Seq(Request) /\ selected_db' \in Dbs
    BY <1>3, ResumeFrame
  <2>2. Base'
    BY <1>1, <1>3, <2>1, FinishKeeps
  <2>3. Restored' /\ Started'
    BY <1>1, <1>3, TurnRestores DEF Finish
  <2> QED  BY <2>2, <2>3 DEF IInv
<1>4. <<>> \in Seq(Command) /\ Appends(r, <<>>)
  BY EmptySeq DEF Appends
<1>5. CASE TurnKeys(r)
  <2> DEFINE cmds == <<Await("GET_TURNS", r)>>
  <2>1. cmds \in Seq(Command) /\ Appends(r, cmds)
    BY DEF Appends, Await, Command, Ops, IsSelect
  <2> HIDE DEF cmds
  <2>2. CASE Callback(r, "turnKeys") /\ Continue(r, cmds, "turns")
    BY <2>1, <2>2, <1>2 DEF Waiting
  <2>3. CASE Callback(r, "turnKeys") /\ Finish(r, "noturn") /\ UNCHANGED chosen
    BY <2>3, <1>3 DEF Waiting, Answers
  <2> QED  BY <1>5, <2>2, <2>3 DEF TurnKeys, cmds
<1>6. CASE Renamed(r)
  <2>1. CASE Callback(r, "renamed") /\ Continue(r, <<>>, "hung")
    BY <2>1, <1>2, <1>4 DEF Waiting
  <2>2. CASE Callback(r, "renamed") /\ Finish(r, "ok") /\ UNCHANGED chosen
    BY <2>2, <1>3 DEF Waiting, Answers
  <2> QED  BY <1>6, <2>1, <2>2 DEF Renamed
<1>7. CASE AllKeys(r)
  <2> DEFINE cmds == <<Await("HGETALL_EACH", r)>>
  <2>1. cmds \in Seq(Command) /\ Appends(r, cmds)
    BY DEF Appends, Await, Command, Ops, IsSelect
  <2> HIDE DEF cmds
  <2>2. CASE Callback(r, "allKeys") /\ Continue(r, cmds, "allInfos")
    BY <2>1, <2>2, <1>2 DEF Waiting
  <2>3. CASE Callback(r, "allKeys") /\ Continue(r, <<>>, "hung")
    BY <2>3, <1>2, <1>4 DEF Waiting
  <2> QED  BY <1>7, <2>2, <2>3 DEF AllKeys, cmds
<1>8. CASE AllInfos(r)
  <2>1. CASE Callback(r, "allInfos") /\ Finish(r, "ok") /\ UNCHANGED chosen
    BY <2>1, <1>3 DEF Waiting, Answers
  <2>2. CASE Callback(r, "allInfos") /\ up' = FALSE /\ UNCHANGED <<pipe, pc, answer, chosen>>
    <3>1. /\ UNCHANGED <<redis, job, got, history>>
          /\ inbox' \in Seq(Request) /\ tasks' \in Seq(Request) /\ selected_db' \in Dbs
      BY <2>2, ResumeFrame DEF Waiting
    <3>2. WellFormed' /\ Isolated'
      BY <2>2, <3>1, FrameKeeps DEF redis, history
    <3>3. TypeOK'
      BY <2>2, <3>1 DEF IInv, Base, TypeOK, redis, history
    <3>4. Restored' /\ Started'
      <4>1. pc'[r] = "allInfos" /\ pc' = pc
        BY <2>2 DEF Callback
      <4> QED  BY <2>2, <4>1, TurnRestores DEF Waiting
    <3> QED  BY <3>2, <3>3, <3>4 DEF IInv, Base
  <2> QED  BY <1>8, <2>1, <2>2 DEF AllInfos
<1> QED  BY <1>5, <1>6, <1>7, <1>8 DEF PlainTask

\* The initial states satisfy the invariant.
LEMMA InitKeeps == ASSUME Init PROVE IInv
<1>1. TypeOK
  <2>1. EmptyStore \in Store
    BY DEF EmptyStore, Store, Amount
  <2>2. db \in [Dbs -> Store] /\ carried \in [Csp -> Nat]
    <3>1. PICK prov \in [Csp -> QuotaValue \cup {None}], spent \in [Csp -> Bytes \cup {0}],
               turn \in SUBSET Turn, cred \in SUBSET OldClient :
             LET conso == [c \in CspKey |-> IF c = NullCsp \/ (c # NullCsp /\ prov[c] = None)
                                            THEN None ELSE spent[c]]
             IN  /\ db = [d \in Dbs |->
                       IF d = 0 THEN [EmptyStore EXCEPT !.cred = cred]
                       ELSE [EmptyStore EXCEPT
                               !.prov = prov, !.conso = conso, !.turn = turn,
                               !.users = [u \in Client |-> IF u \in OldClient THEN OldOwner[u]
                                                           ELSE None],
                               !.ttl = {u \in OldClient : OldOwner[u] # None}]]
                 /\ carried = spent
      BY DEF Init
    <3> DEFINE conso == [c \in CspKey |-> IF c = NullCsp \/ (c # NullCsp /\ prov[c] = None)
                                          THEN None ELSE spent[c]]
               users == [u \in Client |-> IF u \in OldClient THEN OldOwner[u] ELSE None]
               ttl == {u \in OldClient : OldOwner[u] # None}
    <3>2. spent \in [Csp -> Nat]
      <4>1. Bytes \cup {0} \subseteq Nat
        BY NumbersAssumption
      <4> QED  BY <4>1
    <3>3. conso \in [CspKey -> Amount]
      BY <3>2 DEF CspKey, Amount
    <3>4. users \in [Client -> Csp \cup {None}]
      BY OwnerAssumption DEF Client
    <3>5. cred \subseteq Client /\ ttl \subseteq Client
      BY DEF Client
    <3>6. db = [d \in Dbs |->
                  IF d = 0 THEN [EmptyStore EXCEPT !.cred = cred]
                  ELSE [EmptyStore EXCEPT !.prov = prov, !.conso = conso, !.turn = turn,
                                          !.users = users, !.ttl = ttl]]
      BY <3>1
    <3> HIDE DEF conso, users, ttl
    <3>7. [EmptyStore EXCEPT !.cred = cred] \in Store
      BY <2>1, <3>5 DEF Store
    <3>8. [EmptyStore EXCEPT !.prov = prov, !.conso = conso, !.turn = turn,
                             !.users = users, !.ttl = ttl] \in Store
      BY <2>1, <3>3, <3>4, <3>5 DEF Store
    <3>9. db \in [Dbs -> Store]
      BY <3>6, <3>7, <3>8
    <3> QED  BY <3>9, <3>1, <3>2
  <2>3. NoJob \in Job /\ NoReply \in Reply
    BY DEF NoJob, Job, NoReply, Reply, Amount, CspKey
  <2>4. <<>> \in Seq(Command) /\ <<>> \in Seq(Request)
    BY EmptySeq
  <2> QED  BY <2>2, <2>3, <2>4 DEF Init, TypeOK, Dbs, Pc, Answers
<1>2. /\ pc = [r \in Request |-> "idle"]
      /\ misplaced = {}
      /\ 1..Len(pipe) = {}
  <2>1. Len(pipe) = 0
    BY EmptySeq DEF Init
  <2>2. pc = [r \in Request |-> "idle"] /\ misplaced = {}
    BY Zenon DEF Init
  <2> QED  BY <2>1, <2>2
<1>3. WellFormed
  BY <1>2 DEF WellFormed, Ready
<1>4. Live = {}
  BY <1>2 DEF Live, Waiting
<1>5. Isolated
  BY <1>2, <1>4 DEF Isolated, Peers, OnItsWay, Ahead, SharedConnectionIsolation
<1>6. Restored /\ Started
  <2>1. Len(inbox) = 0 /\ Len(tasks) = 0
    BY EmptySeq DEF Init
  <2> QED  BY <1>2, <2>1 DEF Restored, Started, Waiting
<1> QED  BY <1>1, <1>3, <1>5, <1>6 DEF IInv, Base

\* A command that is executed belongs to a request that has arrived.
LEMMA ExecRestores == ASSUME IInv, Exec PROVE Restored' /\ Started'
<1>1. /\ UNCHANGED <<selected_db, tasks, pc, job, overlapped>>
      /\ inbox' = inbox \/ inbox' = Append(inbox, Head(pipe).r)
  BY DEF Exec
<1>2. Restored'
  BY <1>1 DEF IInv, Restored, DbOf
<1>3. /\ pipe \in Seq(Command) /\ pipe # <<>> /\ inbox \in Seq(Request)
  BY DEF IInv, Base, TypeOK, Exec
<1>4. Head(pipe).r \in Request /\ pc[Head(pipe).r] # "idle"
  <2>1. Head(pipe) = pipe[1] /\ 1 \in 1..Len(pipe) /\ Head(pipe) \in Command
    BY <1>3, EmptySeq, HeadTailProperties
  <2> QED  BY <2>1 DEF IInv, Base, WellFormed, Sound, Command
<1>5. Started'
  <2>1. CASE inbox' = inbox
    BY <1>1, <2>1 DEF IInv, Started
  <2>2. CASE inbox' = Append(inbox, Head(pipe).r)
    <3>1. /\ Len(inbox) \in Nat /\ Len(inbox') = Len(inbox) + 1
          /\ inbox'[Len(inbox) + 1] = Head(pipe).r
          /\ \A i \in 1..Len(inbox) : inbox'[i] = inbox[i]
      BY <1>3, <1>4, <2>2, AppendProperties, LenProperties
    <3>2. ASSUME NEW i \in 1..Len(inbox') PROVE i = Len(inbox) + 1 \/ i \in 1..Len(inbox)
      BY <3>1
    <3> QED  BY <1>1, <1>4, <3>1, <3>2 DEF IInv, Started
  <2> QED  BY <1>1, <2>1, <2>2
<1> QED  BY <1>2, <1>5

\* node_redis reads the reply of a SELECT, or one that comes after it.
LEMMA DeliverRestores == ASSUME IInv, Deliver PROVE Restored' /\ Started'
<1> DEFINE r == Head(inbox)
<1>1. /\ inbox \in Seq(Request) /\ tasks \in Seq(Request) /\ inbox # <<>>
      /\ UNCHANGED <<pc, job, overlapped>>
      /\ inbox' = Tail(inbox) /\ tasks' = Append(tasks, r)
      /\ selected_db' = IF pc[r] \in Selecting THEN DbOf(r) ELSE selected_db
  BY DEF IInv, Base, TypeOK, Deliver, Reads, DbOf, history
<1>2. r \in Request /\ r = inbox[1] /\ 1 \in 1..Len(inbox)
  BY <1>1, EmptySeq, HeadTailProperties
<1>3. pc[r] # "idle"
  BY <1>2 DEF IInv, Started
<1> HIDE DEF r
<1>4. /\ Len(tasks) \in Nat /\ Len(tasks') = Len(tasks) + 1 /\ tasks'[Len(tasks) + 1] = r
      /\ \A i \in 1..Len(tasks) : tasks'[i] = tasks[i]
  BY <1>1, <1>2, AppendProperties, LenProperties
<1>5. ASSUME NEW i \in 1..Len(tasks') PROVE i = Len(tasks) + 1 \/ i \in 1..Len(tasks)
  BY <1>4
<1>6. Started'
  <2>1. \A i \in 1..Len(inbox') : \E k \in 1..Len(inbox) : inbox'[i] = inbox[k]
    BY <1>1, QueueRest
  <2> QED  BY <1>1, <1>3, <1>4, <1>5, <2>1 DEF IInv, Started
<1>7. Restored'
  <2> SUFFICES ASSUME NEW s \in Request, s \notin overlapped, pc[s] \in Waiting,
                      pc[s] \in Selecting => \E i \in 1..Len(tasks') : tasks'[i] = s
               PROVE  selected_db' = DbOf(s)
    BY <1>1 DEF Restored, DbOf
  <2>1. CASE s = r
    BY <1>1, <2>1 DEF IInv, Restored
  <2>2. CASE s # r
    <3>1. selected_db = DbOf(s)
      BY <2>2, <1>4, <1>5 DEF IInv, Restored
    <3>2. pc[r] \in Selecting => r \in Live /\ s \in Live
      BY <1>2 DEF Live, Selecting, Waiting
    <3>3. pc[r] \in Selecting => DbOf(r) = DbOf(s)
      BY <3>2 DEF IInv, Base, Isolated, Peers
    <3> QED  BY <1>1, <3>1, <3>3
  <2> QED  BY <2>1, <2>2
<1> QED  BY <1>6, <1>7

\* When the connection breaks, the requests that go on find their own database
\* selected on the new one; nothing of the others is left.
LEMMA LostKeeps == ASSUME IInv, ConnectionLost PROVE IInv'
<1>1. /\ pc \in [Request -> Pc] /\ job \in [Request -> Job] /\ answer \in [Request -> Answers]
      /\ tasks \in Seq(Request) /\ inbox \in Seq(Request) /\ pipe \in Seq(Command)
      /\ selected_db \in Dbs
  BY DEF IInv, Base, TypeOK
<1>2. /\ pipe' = <<>> /\ inbox' = <<>>
      /\ pipe # <<>> \/ inbox # <<>>
      /\ selected' \in Reselected /\ selected_db' = selected'
      /\ pc' = [r \in Request |-> IF r \in CutOff THEN EndsAt(r) ELSE pc[r]]
      /\ UNCHANGED <<db, tasks, job, got, overlapped, misplaced>>
  BY DEF ConnectionLost
<1>3. \A r \in Request : EndsAt(r) \in {"done", "hung"}
  BY DEF EndsAt
<1>4. \A r \in Request : IF r \in CutOff THEN pc'[r] \in {"done", "hung"} ELSE pc'[r] = pc[r]
  BY <1>2, <1>3
<1>5. ASSUME NEW r \in Request, pc'[r] \in Waiting
      PROVE  pc[r] = pc'[r] /\ r \in Live /\ \E i \in 1..Len(tasks) : tasks[i] = r
  BY <1>4, <1>5 DEF CutOff, Live, Waiting
<1>6. Len(pipe') = 0 /\ Len(inbox') = 0
  BY <1>2, EmptySeq
<1>7. Live' \subseteq Live
  BY <1>5, <1>6 DEF Live
<1>8. selected' \in Dbs /\ \A r \in Live' \ overlapped : selected' = DbOf(r)
  <2> DEFINE q == IF inbox = <<>> THEN Head(pipe).r ELSE Head(inbox)
  <2>1. q \in Request
    <3>1. CASE inbox # <<>>
      BY <3>1, <1>1, QueueType
    <3>2. CASE inbox = <<>>
      <4>1. Head(pipe) \in Command
        BY <3>2, <1>1, <1>2, HeadTailProperties
      <4> QED  BY <3>2, <4>1 DEF Command
    <3> QED  BY <3>1, <3>2
  <2>2. selected' = selected_db \/ (selected' = 2 /\ pc[q] \in SelectedBefore)
    BY <1>2 DEF Reselected
  <2> HIDE DEF q
  <2>3. pc[q] \in SelectedBefore => q \in Live /\ DbOf(q) = 2
    BY <2>1 DEF IInv, Base, WellFormed, Ready, SelectedBefore, Live, Waiting
  <2>4. ASSUME NEW r \in Live', r \notin overlapped PROVE selected' = DbOf(r)
    <3>1. r \in Request /\ pc'[r] \in Waiting
      BY <2>4, <1>6 DEF Live
    <3>2. pc[r] \in Waiting /\ r \in Live /\ \E i \in 1..Len(tasks) : tasks[i] = r
      BY <1>5, <3>1
    <3>3. selected_db = DbOf(r)
      BY <2>4, <3>1, <3>2 DEF IInv, Restored
    <3>4. pc[q] \in SelectedBefore => DbOf(r) = DbOf(q)
      BY <2>3, <2>4, <3>2 DEF IInv, Base, Isolated, Peers
    <3> QED  BY <2>2, <2>3, <3>3, <3>4
  <2> QED  BY <2>2, <2>4, <1>1 DEF Dbs
<1>9. TypeOK'
  <2>1. pc' \in [Request -> Pc]
    BY <1>1, <1>2, <1>3 DEF Pc
  <2>2. \A r \in Request : AnswerToError(r) \in Answers
    BY <1>1 DEF AnswerToError, Answers
  <2>3. answer' \in [Request -> Answers]
    BY <1>1, <2>2 DEF ConnectionLost
  <2>4. up' \in BOOLEAN /\ cut' \subseteq Request
    BY DEF ConnectionLost, PollFails, CutOff, IInv, Base, TypeOK
  <2>5. pipe' \in Seq(Command) /\ inbox' \in Seq(Request)
    BY <1>2, EmptySeq
  <2> QED  BY <2>1, <2>3, <2>4, <2>5, <1>2, <1>8 DEF IInv, Base, TypeOK, ConnectionLost
<1>10. WellFormed'
  <2>1. ASSUME NEW r \in Request PROVE Ready(r)'
    <3>1. Ready(r) /\ job'[r] = job[r] /\ DbOf(r)' = DbOf(r)
      BY <1>2 DEF IInv, Base, WellFormed, DbOf
    <3>2. pc'[r] = pc[r] \/ pc'[r] \in {"done", "hung"}
      BY <1>4
    <3> QED  BY <3>1, <3>2 DEF Ready
  <2> QED  BY <2>1, <1>6 DEF WellFormed
<1>11. Isolated'
  <2>1. Peers'
    BY <1>2, <1>7 DEF IInv, Base, Isolated, Peers, DbOf
  <2>2. OnItsWay'
    BY <1>2, <1>8 DEF OnItsWay, DbOf
  <2>3. Ahead' /\ SharedConnectionIsolation'
    BY <1>2, <1>6 DEF IInv, Base, Isolated, Ahead, SharedConnectionIsolation
  <2> QED  BY <2>1, <2>2, <2>3 DEF Isolated
<1>12. Restored'
  <2> SUFFICES ASSUME NEW r \in Request, r \notin overlapped, pc'[r] \in Waiting
               PROVE  selected_db' = DbOf(r)
    BY <1>2 DEF Restored, DbOf
  <2>1. r \in Live'
    BY DEF Live
  <2> QED  BY <2>1, <1>2, <1>8
<1>13. Started'
  <2>1. \A i \in 1..Len(tasks) : tasks[i] \in Request
    BY <1>1, ElementOfSeq
  <2> QED  BY <2>1, <1>2, <1>4, <1>6 DEF IInv, Started
<1> QED  BY <1>9, <1>10, <1>11, <1>12, <1>13 DEF IInv, Base

\* Every step preserves the invariant.
LEMMA NextKeeps == ASSUME IInv, [Next]_vars PROVE IInv'
<1>1. ASSUME NEW r \in Request, Arrive(r) \/ Task(r) \/ PlainTask(r) PROVE IInv'
  BY <1>1, ArriveKeeps, TaskKeeps, PlainTaskKeeps
<1>2. CASE Exec
  <2>1. Base'
    BY <1>2, ExecKeeps, ExecType DEF Base
  <2>2. Restored' /\ Started'
    BY <1>2, ExecRestores
  <2> QED  BY <2>1, <2>2 DEF IInv
<1>3. CASE Deliver
  <2>1. WellFormed' /\ Isolated'
    BY <1>3, FrameKeeps DEF Deliver, redis, history
  <2>2. inbox' \in Seq(Request) /\ tasks' \in Seq(Request)
    <3>1. inbox \in Seq(Request) /\ tasks \in Seq(Request)
      BY DEF IInv, Base, TypeOK
    <3>2. Head(inbox) \in Request /\ Tail(inbox) \in Seq(Request)
      BY <1>3, <3>1, QueueType DEF Deliver
    <3> QED  BY <1>3, <3>1, <3>2, AppendProperties DEF Deliver
  <2>3. TypeOK'
    BY <1>3, <2>2 DEF Deliver, Reads, Target, Dbs, IInv, Base, TypeOK, redis, history
  <2>4. Restored' /\ Started'
    BY <1>3, DeliverRestores
  <2> QED  BY <2>1, <2>3, <2>4 DEF IInv, Base
<1>4. ASSUME NEW u \in Client, UserExpires(u) PROVE IInv'
  <2>1. WellFormed' /\ Isolated'
    BY <1>4, FrameKeeps DEF UserExpires
  <2>2. db' \in [Dbs -> Store]
    <3>1. db \in [Dbs -> Store] /\ 2 \in Dbs /\ db[2] \in Store
      BY DEF IInv, Base, TypeOK, Dbs
    <3>2. [db[2] EXCEPT !.users[u] = None, !.ttl = @ \ {u}] \in Store
      BY <3>1 DEF Store
    <3>3. db' = [db EXCEPT ![2] = [db[2] EXCEPT !.users[u] = None, !.ttl = @ \ {u}]]
      BY <1>4, <3>1 DEF UserExpires, Store
    <3> QED  BY <3>1, <3>2, <3>3
  <2>3. TypeOK'
    BY <1>4, <2>2 DEF UserExpires, IInv, Base, TypeOK
  <2>4. Restored' /\ Started'
    BY <1>4, FrameRestores DEF UserExpires
  <2> QED  BY <2>1, <2>3, <2>4 DEF IInv, Base
<1>5. ASSUME NEW t \in Turn, TurnChanges(t) PROVE IInv'
  <2>1. WellFormed' /\ Isolated'
    BY <1>5, FrameKeeps DEF TurnChanges
  <2>2. db' \in [Dbs -> Store]
    <3>1. db \in [Dbs -> Store] /\ 2 \in Dbs /\ db[2] \in Store
      BY DEF IInv, Base, TypeOK, Dbs
    <3> DEFINE turn == IF t \in db[2].turn THEN db[2].turn \ {t} ELSE db[2].turn \cup {t}
    <3>2. [db[2] EXCEPT !.turn = turn] \in Store
      BY <3>1 DEF Store
    <3>3. db' = [db EXCEPT ![2] = [db[2] EXCEPT !.turn = turn]]
      BY <1>5, <3>1 DEF TurnChanges, Store
    <3> HIDE DEF turn
    <3> QED  BY <3>1, <3>2, <3>3
  <2>3. witness' \in [Request -> SUBSET Moment]
    <3>1. db'[2] \in Store
      BY <2>2 DEF Dbs
    <3> QED  BY <1>5, <3>1, WitnessType DEF TurnChanges, IInv, Base
  <2>4. TypeOK'
    BY <1>5, <2>2, <2>3 DEF TurnChanges, IInv, Base, TypeOK, Moment
  <2>5. Restored' /\ Started'
    BY <1>5, FrameRestores DEF TurnChanges
  <2> QED  BY <2>1, <2>4, <2>5 DEF IInv, Base
<1>6. CASE UNCHANGED vars
  <2>1. WellFormed' /\ Isolated' /\ Restored' /\ Started'
    BY <1>6, FrameKeeps, FrameRestores DEF vars
  <2> QED  BY <1>6, <2>1 DEF vars, IInv, Base, TypeOK
<1>7. CASE ConnectionLost
  BY <1>7, LostKeeps
<1> QED  BY <1>1, <1>2, <1>3, <1>4, <1>5, <1>6, <1>7 DEF Next
-----------------------------------------------------------------------------
\* The invariant holds in every behaviour of the DAO.
THEOREM Invariance == Spec => []IInv
<1>1. Init => IInv
  BY InitKeeps
<1>2. IInv /\ [Next]_vars => IInv'
  BY NextKeeps
<1> QED  BY <1>1, <1>2, PTL DEF Spec

\* What Redis holds, what is on the connection and what the requests know
\* keep their types: no continuation of dao.js meets an argument it lacks.
THEOREM TypeCorrectness == Spec => []TypeOK
<1>1. IInv => TypeOK
  BY DEF IInv, Base
<1> QED  BY <1>1, Invariance, PTL

\* On the one connection all requests of dao.js share, a request that never
\* runs beside a request for the other database has every command executed
\* in the database it is written for.
THEOREM Isolation == Spec => []SharedConnectionIsolation
<1>1. IInv => SharedConnectionIsolation
  BY DEF IInv, Base, Isolated
<1> QED  BY <1>1, Invariance, PTL
-----------------------------------------------------------------------------
(* The flow of a request. *)
\* The command whose reply a request at p awaits.
Op(p) ==
    CASE p = "credSelected" -> "SELECT_0"   [] p = "cred"     -> "SET_KEY"
      [] p = "infos"        -> "HGETALL_PROV" [] p = "conso"  -> "HGETALL_CONSO"
      [] p = "turnKeys"     -> "KEYS_TURN"  [] p = "turns"    -> "GET_TURNS"
      [] p = "renamed"      -> "RENAME_PROV" [] p = "quota"   -> "HMSET_PROV"
      [] p = "allKeys"      -> "KEYS_PROV"  [] p = "allInfos" -> "HGETALL_EACH"
      [] p = "user"         -> "GET_USER"   [] p = "incr"     -> "HINCRBY"
      [] OTHER              -> "SELECT_2"

\* The kinds of request that pass through p.
KindsAt(p) ==
    CASE p \in {"infosSelected", "infos", "turnsSelected", "turnKeys", "turns"} -> {"getAppropriateTurn"}
      [] p \in {"consoSelected", "conso"}         -> {"getAppropriateTurn", "getCspConso"}
      [] p \in {"credSelected", "cred"}           -> {"getCredentials"}
      [] p = "provSelected"                       -> {"provRequest"}
      [] p = "renamed"                            -> {"deleteCSP"}
      [] p \in {"quotaSelected", "quota"}         -> {"changeQuotas"}
      [] p \in {"allKeys", "allInfos"}            -> {"getAllCspInfo"}
      [] p \in {"userSelected", "user", "incr"}   -> {"addCSPConso"}
      [] p = "idle"                               -> {"none"}
      [] OTHER                                    -> AllKinds

\* The kinds of request that send a command nobody waits for.
KindsOf(op) ==
    CASE op \in {"SET_USER", "EXPIRE_USER"}        -> {"getAppropriateTurn"}
      [] op \in {"HSETNX_PROV", "HSETNX_CONSO"}    -> {"provRequest"}
      [] op = "RENAME_CONSO"                       -> {"deleteCSP"}
      [] op = "SELECT_2"                           -> {"getAppropriateTurn", "deleteCSP", "getAllCspInfo"}
      [] OTHER                                     -> {}

\* A client id that getCredentials may have been called with.
Known(u) == u \in OldClient \/ (u \in Request /\ answer[u] = "granted")

\* Each request is one of those the routes make, with its arguments.
Argued ==
    \A r \in Request :
        /\ job[r].kind \in KindsAt(pc[r])
        /\ job[r].kind \in {"provRequest", "changeQuotas", "getAppropriateTurn", "getCspConso"}
              => job[r].csp \in Csp
        /\ job[r].kind = "deleteCSP" => job[r].csp \in Csp \/ (job[r].csp = None /\ pc[r] = "hung")
        /\ job[r].kind \in {"provRequest", "changeQuotas"} => job[r].quota \in QuotaValue
        /\ job[r].kind \in {"getCredentials", "addCSPConso"} => Known(job[r].client)
        /\ job[r].kind = "addCSPConso" => job[r].bytes \in Bytes
        /\ answer[r] = "granted" => job[r].kind = "getAppropriateTurn" /\ pc[r] = "done"

\* Only clients that are known have a TURN key.
Keyed == \A d \in Dbs : \A u \in db[d].cred : Known(u)

\* A command of the pipe is the one its request awaits, or one of those it does
\* not wait for.
Placed ==
    \A i \in 1..Len(pipe) :
        IF pipe[i].cb
        THEN pc[pipe[i].r] \in Waiting /\ pipe[i].op = Op(pc[pipe[i].r])
        ELSE job[pipe[i].r].kind \in KindsOf(pipe[i].op)

\* A request awaits one reply: a command is in the pipe, its reply on the way
\* back, or its continuation ready, once.
Once ==
    /\ \A i, j \in 1..Len(pipe) : pipe[i].cb /\ pipe[j].cb /\ pipe[i].r = pipe[j].r => i = j
    /\ \A i \in 1..Len(pipe) : pipe[i].cb =>
          /\ \A j \in 1..Len(inbox) : inbox[j] # pipe[i].r
          /\ \A j \in 1..Len(tasks) : tasks[j] # pipe[i].r
    /\ \A i, j \in 1..Len(inbox) : inbox[i] = inbox[j] => i = j
    /\ \A i, j \in 1..Len(tasks) : tasks[i] = tasks[j] => i = j
    /\ \A i \in 1..Len(inbox) : \A j \in 1..Len(tasks) : inbox[i] # tasks[j]
    /\ \A i \in 1..Len(inbox) : pc[inbox[i]] \in Waiting
    /\ \A i \in 1..Len(tasks) : pc[tasks[i]] \in Waiting

Flow == Argued /\ Keyed /\ Placed /\ Once
-----------------------------------------------------------------------------
\* The commands of registerUser are in the pipe one after the other, behind their
\* SELECT and ahead of the reply the request waits for, until they have run.
Registering ==
    \A i \in 1..Len(pipe) :
        LET r == pipe[i].r
            Next2 == \/ i = 1 /\ selected = 2
                     \/ i > 1 /\ pipe[i - 1].op = "SELECT_2"
        IN  /\ pipe[i].op = "SET_USER" =>
                  /\ Next2
                  /\ i < Len(pipe) /\ pipe[i + 1].op = "EXPIRE_USER" /\ pipe[i + 1].r = r
            /\ pipe[i].op = "EXPIRE_USER" =>
                  /\ \/ i = 1 /\ selected = 2 /\ db[2].users[r] = job[r].csp /\ r \notin db[2].ttl
                     \/ i > 1 /\ pipe[i - 1].op = "SET_USER" /\ pipe[i - 1].r = r
                  /\ pc[r] = "infosSelected"
                  /\ \E j \in (i + 1)..Len(pipe) : pipe[j].r = r /\ pipe[j].cb
                  /\ \A j \in 1..Len(pipe) : pipe[j].op = "EXPIRE_USER" /\ pipe[j].r = r => i = j

\* A client whose registerUser has run leads to its CSP in database 2 until it
\* expires, an old one that was handed out too.
Billable ==
    /\ \A r \in Request : job[r].kind = "getAppropriateTurn" =>
          \/ \E i \in 1..Len(pipe) : pipe[i].op = "EXPIRE_USER" /\ pipe[i].r = r
          \/ r \in lapsed \cup cut
          \/ db[2].users[r] = job[r].csp /\ r \in db[2].ttl
    /\ \A u \in OldClient :
          \/ u \in lapsed
          \/ OldOwner[u] = None
          \/ db[2].users[u] = OldOwner[u] /\ u \in db[2].ttl
-----------------------------------------------------------------------------
\* A request that has not arrived has been told nothing.
Fresh == \A r \in Request : pc[r] = "idle" => got[r] = NoReply

\* A request whose reply was lost has come to its end, and was given no server.
Severed == \A r \in cut : pc[r] \in {"done", "hung"} /\ answer[r] # "granted"

\* As long as no deletion comes between, what the poll's KEYS found is still there
\* when its HGETALL is executed; all else that brings the broker down is known.
Polled ==
    /\ \A r \in Request : job[r].kind = "getAllCspInfo" /\ r \notin misplaced \cup pulled =>
          /\ got[r].ok
          /\ r \in Polling => \A c \in got[r].provs : db[2].prov[c] # None
    /\ CrashOnlyInPoll

\* Something has happened to the notification of request r.
Astray(r) ==
    \/ job[r].client \in lapsed
    \/ OwnerOf(job[r].client) = None
    \/ r \in misplaced

\* All else being well, a notification has found its client's CSP when it
\* increments.
Resolved ==
    \A r \in Request : job[r].kind = "addCSPConso" =>
        \/ Astray(r) \/ r \in cut
        \/ got[r].csp # NullCsp
        \/ pc[r] = "userSelected"
        \/ pc[r] = "user" /\ \E i \in 1..Len(pipe) : pipe[i].cb /\ pipe[i].r = r

\* A notification that has booked, or is about to book, on the null CSP.
Unresolved(r) ==
    /\ job[r].kind = "addCSPConso" /\ got[r].csp = NullCsp
    /\ pc[r] \in {"incr", "done", "hung"} /\ Astray(r)

Booked == (\E d \in Dbs : db[d].conso[NullCsp] # None) => \E r \in Request : Unresolved(r)

FInv == Flow /\ Fresh /\ Severed /\ Registering /\ Billable /\ Polled /\ Resolved /\ Booked
-----------------------------------------------------------------------------
(***************************************************************************)
(* The steps, by their shape.                                              *)
(***************************************************************************)
\* What a piece of code of request r that goes on to next may send.
Sends(r, kind, next, cmds) ==
    \/ next \in Waiting /\ cmds = <<Await(Op(next), r)>>
    \/ next \in {"done", "hung"} /\ cmds = <<>>
    \/ /\ kind = "provRequest" /\ next = "done"
       /\ cmds = <<Cmd("HSETNX_PROV", r), Cmd("HSETNX_CONSO", r)>>
    \/ /\ kind = "deleteCSP" /\ next = "renamed"
       /\ cmds = <<Cmd("SELECT_2", r), Cmd("RENAME_CONSO", r), Await("RENAME_PROV", r)>>
    \/ /\ kind = "getAllCspInfo" /\ next = "allKeys"
       /\ cmds = <<Cmd("SELECT_2", r), Await("KEYS_PROV", r)>>
    \/ /\ kind = "getAppropriateTurn" /\ next = "infosSelected"
       /\ cmds = <<Cmd("SELECT_2", r), Cmd("SET_USER", r), Cmd("EXPIRE_USER", r)>> \o <<Await("SELECT_2", r)>>

\* The handler of a request that arrives.
Arrives(r, j, cmds, next) ==
    /\ pc[r] = "idle" /\ j \in Job /\ j.kind \in KindsAt(next)
    /\ next \in Waiting \/ (next = "hung" /\ j.kind = "deleteCSP")
    /\ j.kind \in {"provRequest", "changeQuotas", "getAppropriateTurn", "getCspConso"}
          => j.csp \in Csp
    /\ j.kind \in {"provRequest", "changeQuotas"} => j.quota \in QuotaValue
    /\ j.kind \in {"getCredentials", "addCSPConso"} => Known(j.client)
    /\ j.kind = "addCSPConso" => j.bytes \in Bytes /\ next = "userSelected"
    /\ j.kind = "getAppropriateTurn" => Len(cmds) = 4 /\ j.client = r
    /\ j.kind = "deleteCSP" => IF next = "hung" THEN j.csp = None /\ cmds = <<>>
                               ELSE j.csp \in Csp /\ Len(cmds) = 3
    /\ Sends(r, j.kind, next, cmds)
    /\ pipe' = pipe \o cmds
    /\ pc' = [pc EXCEPT ![r] = next]
    /\ job' = [job EXCEPT ![r] = j]
    /\ overlapped \subseteq overlapped'
    /\ answer' = answer \/ answer' = [answer EXCEPT ![r] = "redirect"]
    /\ carried' = IF j.kind = "addCSPConso" /\ OwnerOf(j.client) # None
                  THEN [carried EXCEPT ![OwnerOf(j.client)] = @ + j.bytes] ELSE carried
    /\ UNCHANGED <<db, selected, inbox, tasks, got, up, misplaced, lapsed, cut, pulled>>

\* A continuation or a callback takes its turn.
Turns(r) ==
    \/ tasks # <<>> /\ r = Head(tasks) /\ tasks' = Tail(tasks) /\ UNCHANGED inbox
    \/ inbox # <<>> /\ r = Head(inbox) /\ inbox' = Tail(inbox) /\ UNCHANGED tasks

\* It goes on to next.
Continues(r, cmds, next) ==
    /\ pc[r] \in Waiting /\ next \in Pc \ {"idle", "infosSelected", "userSelected"}
    /\ job[r].kind \in KindsAt(next) /\ Sends(r, job[r].kind, next, cmds)
    /\ next = "user" <=> pc[r] = "userSelected"
    /\ next = "incr" <=> pc[r] = "user"
    /\ next = "renamed" => Len(cmds) = 1
    /\ next # "allKeys" /\ (next = "allInfos" => pc[r] = "allKeys")
    /\ Turns(r)
    /\ pipe' = pipe \o cmds
    /\ pc' = [pc EXCEPT ![r] = next]
    /\ \/ answer' = answer
       \/ \E a \in Answers : /\ answer' = [answer EXCEPT ![r] = a]
                             /\ a = "granted" => pc[r] = "turns" /\ next = "done"
    /\ UNCHANGED <<db, selected, job, got, up, overlapped, misplaced, carried, lapsed, cut, pulled>>

\* An exception escapes to the event loop.
Crashes(r) ==
    /\ pc[r] = "allInfos" /\ ~got[r].ok
    /\ Turns(r)
    /\ UNCHANGED <<db, selected, pipe, pc, job, got, answer, overlapped, misplaced, carried,
                   lapsed, cut, pulled>>

\* The kinds of request that await a reply at some place, and what they send.
LEMMA PlaceFacts ==
    /\ \A p \in Waiting : Op(p) \in Ops /\ KindsAt(p) \subseteq AllKinds
    /\ KindsAt("idle") = {"none"} /\ KindsAt("done") = AllKinds /\ KindsAt("hung") = AllKinds
    /\ "none" \notin AllKinds /\ "idle" \notin Waiting /\ "done" \notin Waiting /\ "hung" \notin Waiting
BY DEF Op, KindsAt, Waiting, Ops, AllKinds

\* Commands of the request: first those nobody waits for, then the one whose reply
\* it goes on with, if it does.
SentBy(r, kind, next, cmds) ==
    /\ cmds \in Seq(Command) /\ Len(cmds) \in 0..4
    /\ \A k \in 1..Len(cmds) :
          /\ cmds[k].r = r
          /\ cmds[k].cb => k = Len(cmds) /\ next \in Waiting /\ cmds[k].op = Op(next)
          /\ ~cmds[k].cb => kind \in KindsOf(cmds[k].op)
    /\ next \in Waiting => Len(cmds) > 0 /\ cmds[Len(cmds)].cb

\* That is what is sent.
LEMMA SendsFacts ==
    ASSUME NEW r \in Request, NEW kind, NEW next \in Pc, NEW cmds, Sends(r, kind, next, cmds)
    PROVE  SentBy(r, kind, next, cmds)
<1> SUFFICES /\ cmds \in Seq(Command) /\ Len(cmds) \in 0..4
             /\ \A k \in 1..Len(cmds) :
                   /\ cmds[k].r = r
                   /\ cmds[k].cb => k = Len(cmds) /\ next \in Waiting /\ cmds[k].op = Op(next)
                   /\ ~cmds[k].cb => kind \in KindsOf(cmds[k].op)
             /\ next \in Waiting => Len(cmds) > 0 /\ cmds[Len(cmds)].cb
  BY DEF SentBy
<1> USE DEF Cmd, Await
<1>1. CASE next \in Waiting /\ cmds = <<Await(Op(next), r)>>
  <2>1. Op(next) \in Ops
    BY <1>1, PlaceFacts
  <2>2. Await(Op(next), r) \in Command
    BY <2>1 DEF Command
  <2>3. Len(cmds) = 1 /\ cmds[1] = [op |-> Op(next), r |-> r, cb |-> TRUE]
    BY <1>1
  <2> QED  BY <1>1, <2>2, <2>3
<1>2. CASE next \in {"done", "hung"} /\ cmds = <<>>
  BY <1>2 DEF Waiting
<1>3. CASE /\ kind = "provRequest" /\ next = "done"
           /\ cmds = <<Cmd("HSETNX_PROV", r), Cmd("HSETNX_CONSO", r)>>
  BY <1>3 DEF Waiting, KindsOf, Command, Ops
<1>4. CASE /\ kind = "deleteCSP" /\ next = "renamed"
           /\ cmds = <<Cmd("SELECT_2", r), Cmd("RENAME_CONSO", r), Await("RENAME_PROV", r)>>
  BY <1>4 DEF Waiting, KindsOf, Command, Ops, Op
<1>5. CASE /\ kind = "getAllCspInfo" /\ next = "allKeys"
           /\ cmds = <<Cmd("SELECT_2", r), Await("KEYS_PROV", r)>>
  BY <1>5 DEF Waiting, KindsOf, Command, Ops, Op
<1>6. CASE /\ kind = "getAppropriateTurn" /\ next = "infosSelected"
           /\ cmds = <<Cmd("SELECT_2", r), Cmd("SET_USER", r), Cmd("EXPIRE_USER", r)>> \o <<Await("SELECT_2", r)>>
  BY <1>6 DEF Waiting, KindsOf, Command, Ops, Op
<1> QED  BY <1>1, <1>2, <1>3, <1>4, <1>5, <1>6 DEF Sends

\* Every handler has the shape of an arrival.
LEMMA ArriveShape ==
    ASSUME IInv, Flow, NEW r \in Request, Arrive(r)
    PROVE  \E j, cmds, next : Arrives(r, j, cmds, next)
<1> DEFINE Common(j, cmds, next) ==
             /\ next \in Waiting /\ j.kind \in KindsAt(next)
             /\ j.kind \in {"provRequest", "changeQuotas", "getAppropriateTurn", "getCspConso"}
                   => j.csp \in Csp
             /\ j.kind \in {"provRequest", "changeQuotas"} => j.quota \in QuotaValue
             /\ j.kind \in {"getCredentials", "addCSPConso"} => Known(j.client)
             /\ j.kind = "addCSPConso" => j.bytes \in Bytes /\ next = "userSelected"
             /\ j.kind = "getAppropriateTurn" => Len(cmds) = 4 /\ j.client = r
             /\ j.kind = "deleteCSP" => j.csp \in Csp /\ Len(cmds) = 3
<1>1. ASSUME NEW j \in Job, NEW cmds, NEW next, Start(r, j, cmds, next),
             Common(j, cmds, next), Sends(r, j.kind, next, cmds),
             answer' = answer \/ answer' = [answer EXCEPT ![r] = "redirect"],
             carried' = IF j.kind = "addCSPConso" /\ OwnerOf(j.client) # None
                        THEN [carried EXCEPT ![OwnerOf(j.client)] = @ + j.bytes] ELSE carried
      PROVE  \E jj, cc, nn : Arrives(r, jj, cc, nn)
  <2>1. /\ pc[r] = "idle" /\ pipe' = pipe \o cmds /\ pc' = [pc EXCEPT ![r] = next]
        /\ job' = [job EXCEPT ![r] = j] /\ overlapped \subseteq overlapped'
        /\ UNCHANGED <<db, selected, inbox, tasks, got, up, misplaced, lapsed, cut, pulled>>
    BY <1>1 DEF Start, Send, redis
  <2>2. next # "hung"
    BY <1>1, PlaceFacts
  <2>3. Arrives(r, j, cmds, next)
    BY <1>1, <2>1, <2>2 DEF Arrives
  <2> QED  BY <2>3
<1>2. ASSUME NEW c \in Csp, NEW q \in QuotaValue, ProvRequest(r, c, q)
      PROVE  \E j, cmds, next : Arrives(r, j, cmds, next)
  <2> DEFINE j == [NoJob EXCEPT !.kind = "provRequest", !.csp = c, !.quota = q]
             cmds == <<Await("SELECT_2", r)>>
  <2>1. Start(r, j, cmds, "provSelected")
    BY <1>2 DEF ProvRequest
  <2>2. /\ j \in Job /\ Common(j, cmds, "provSelected")
        /\ Sends(r, j.kind, "provSelected", cmds)
    BY <1>2 DEF ProvRequest, Job, NoJob, AllKinds, Waiting, KindsAt, Sends, Op, Client, QuotaValue, Known, Cmd, Await
  <2>3. /\ answer' = answer \/ answer' = [answer EXCEPT ![r] = "redirect"]
        /\ carried' = IF j.kind = "addCSPConso" /\ OwnerOf(j.client) # None
                      THEN [carried EXCEPT ![OwnerOf(j.client)] = @ + j.bytes] ELSE carried
    BY <1>2 DEF ProvRequest, NoJob
  <2> HIDE DEF j, cmds
  <2> HIDE DEF Common
  <2> QED  BY <2>1, <2>2, <2>3, <1>1
<1>3. ASSUME NEW c \in Csp, GetAppropriateTurn(r, c)
      PROVE  \E j, cmds, next : Arrives(r, j, cmds, next)
  <2> DEFINE j == [NoJob EXCEPT !.kind = "getAppropriateTurn", !.csp = c, !.client = r]
             cmds == <<Cmd("SELECT_2", r), Cmd("SET_USER", r), Cmd("EXPIRE_USER", r)>> \o <<Await("SELECT_2", r)>>
  <2>1. Start(r, j, cmds, "infosSelected")
    BY <1>3 DEF GetAppropriateTurn, RegisterUserCmds
  <2>2. /\ j \in Job /\ Common(j, cmds, "infosSelected")
        /\ Sends(r, j.kind, "infosSelected", cmds)
    <3>1. j \in Job /\ j.kind = "getAppropriateTurn" /\ j.csp \in Csp /\ j.client = r
      BY DEF Job, NoJob, AllKinds, Client
    <3>2. Len(cmds) = 4
      BY DEF Cmd, Await
    <3>3. "infosSelected" \in Waiting /\ "getAppropriateTurn" \in KindsAt("infosSelected")
      BY DEF Waiting, KindsAt
    <3>4. Sends(r, "getAppropriateTurn", "infosSelected", cmds)
      BY DEF Sends
    <3> HIDE DEF j, cmds
    <3> QED  BY <3>1, <3>2, <3>3, <3>4
  <2>3. /\ answer' = answer \/ answer' = [answer EXCEPT ![r] = "redirect"]
        /\ carried' = IF j.kind = "addCSPConso" /\ OwnerOf(j.client) # None
                      THEN [carried EXCEPT ![OwnerOf(j.client)] = @ + j.bytes] ELSE carried
    BY <1>3 DEF GetAppropriateTurn, NoJob
  <2> HIDE DEF j, cmds
  <2> HIDE DEF Common
  <2> QED  BY <2>1, <2>2, <2>3, <1>1
<1>4. ASSUME NEW u \in Client, GetCredentials(r, u)
      PROVE  \E j, cmds, next : Arrives(r, j, cmds, next)
  <2> DEFINE j == [NoJob EXCEPT !.kind = "getCredentials", !.client = u]
             cmds == <<Await("SELECT_0", r)>>
  <2>1. Start(r, j, cmds, "credSelected")
    BY <1>4 DEF GetCredentials
  <2>2. /\ j \in Job /\ Common(j, cmds, "credSelected")
        /\ Sends(r, j.kind, "credSelected", cmds)
    BY <1>4 DEF GetCredentials, Job, NoJob, AllKinds, Waiting, KindsAt, Sends, Op, Client, QuotaValue, Known, Cmd, Await
  <2>3. /\ answer' = answer \/ answer' = [answer EXCEPT ![r] = "redirect"]
        /\ carried' = IF j.kind = "addCSPConso" /\ OwnerOf(j.client) # None
                      THEN [carried EXCEPT ![OwnerOf(j.client)] = @ + j.bytes] ELSE carried
    BY <1>4 DEF GetCredentials, NoJob
  <2> HIDE DEF j, cmds
  <2> HIDE DEF Common
  <2> QED  BY <2>1, <2>2, <2>3, <1>1
<1>5. ASSUME NEW c \in Csp, DeleteCSP(r, c)
      PROVE  \E j, cmds, next : Arrives(r, j, cmds, next)
  <2> DEFINE j == [NoJob EXCEPT !.kind = "deleteCSP", !.csp = c]
             cmds == <<Cmd("SELECT_2", r), Cmd("RENAME_CONSO", r), Await("RENAME_PROV", r)>>
  <2>1. Start(r, j, cmds, "renamed")
    BY <1>5 DEF DeleteCSP
  <2>2. /\ j \in Job /\ Common(j, cmds, "renamed")
        /\ Sends(r, j.kind, "renamed", cmds)
    BY <1>5 DEF DeleteCSP, Job, NoJob, AllKinds, Waiting, KindsAt, Sends, Op, Client, QuotaValue, Known, Cmd, Await
  <2>3. /\ answer' = answer \/ answer' = [answer EXCEPT ![r] = "redirect"]
        /\ carried' = IF j.kind = "addCSPConso" /\ OwnerOf(j.client) # None
                      THEN [carried EXCEPT ![OwnerOf(j.client)] = @ + j.bytes] ELSE carried
    BY <1>5 DEF DeleteCSP, NoJob
  <2> HIDE DEF j, cmds
  <2> HIDE DEF Common
  <2> QED  BY <2>1, <2>2, <2>3, <1>1
<1>6. ASSUME NEW c \in Csp, NEW q \in QuotaValue, ChangeQuotas(r, c, q)
      PROVE  \E j, cmds, next : Arrives(r, j, cmds, next)
  <2> DEFINE j == [NoJob EXCEPT !.kind = "changeQuotas", !.csp = c, !.quota = q]
             cmds == <<Await("SELECT_2", r)>>
  <2>1. Start(r, j, cmds, "quotaSelected")
    BY <1>6 DEF ChangeQuotas
  <2>2. /\ j \in Job /\ Common(j, cmds, "quotaSelected")
        /\ Sends(r, j.kind, "quotaSelected", cmds)
    BY <1>6 DEF ChangeQuotas, Job, NoJob, AllKinds, Waiting, KindsAt, Sends, Op, Client, QuotaValue, Known, Cmd, Await
  <2>3. /\ answer' = answer \/ answer' = [answer EXCEPT ![r] = "redirect"]
        /\ carried' = IF j.kind = "addCSPConso" /\ OwnerOf(j.client) # None
                      THEN [carried EXCEPT ![OwnerOf(j.client)] = @ + j.bytes] ELSE carried
    BY <1>6 DEF ChangeQuotas, NoJob
  <2> HIDE DEF j, cmds
  <2> HIDE DEF Common
  <2> QED  BY <2>1, <2>2, <2>3, <1>1
<1>7. ASSUME GetAllCspInfo(r)
      PROVE  \E j, cmds, next : Arrives(r, j, cmds, next)
  <2> DEFINE j == [NoJob EXCEPT !.kind = "getAllCspInfo"]
             cmds == <<Cmd("SELECT_2", r), Await("KEYS_PROV", r)>>
  <2>1. Start(r, j, cmds, "allKeys")
    BY <1>7 DEF GetAllCspInfo
  <2>2. /\ j \in Job /\ Common(j, cmds, "allKeys")
        /\ Sends(r, j.kind, "allKeys", cmds)
    BY <1>7 DEF GetAllCspInfo, Job, NoJob, AllKinds, Waiting, KindsAt, Sends, Op, Client, QuotaValue, Known, Cmd, Await
  <2>3. /\ answer' = answer \/ answer' = [answer EXCEPT ![r] = "redirect"]
        /\ carried' = IF j.kind = "addCSPConso" /\ OwnerOf(j.client) # None
                      THEN [carried EXCEPT ![OwnerOf(j.client)] = @ + j.bytes] ELSE carried
    BY <1>7 DEF GetAllCspInfo, NoJob
  <2> HIDE DEF j, cmds
  <2> HIDE DEF Common
  <2> QED  BY <2>1, <2>2, <2>3, <1>1
<1>8. ASSUME NEW c \in Csp, GetCspConso(r, c)
      PROVE  \E j, cmds, next : Arrives(r, j, cmds, next)
  <2> DEFINE j == [NoJob EXCEPT !.kind = "getCspConso", !.csp = c]
             cmds == <<Await("SELECT_2", r)>>
  <2>1. Start(r, j, cmds, "consoSelected")
    BY <1>8 DEF GetCspConso
  <2>2. /\ j \in Job /\ Common(j, cmds, "consoSelected")
        /\ Sends(r, j.kind, "consoSelected", cmds)
    BY <1>8 DEF GetCspConso, Job, NoJob, AllKinds, Waiting, KindsAt, Sends, Op, Client, QuotaValue, Known, Cmd, Await
  <2>3. /\ answer' = answer \/ answer' = [answer EXCEPT ![r] = "redirect"]
        /\ carried' = IF j.kind = "addCSPConso" /\ OwnerOf(j.client) # None
                      THEN [carried EXCEPT ![OwnerOf(j.client)] = @ + j.bytes] ELSE carried
    BY <1>8 DEF GetCspConso, NoJob
  <2> HIDE DEF j, cmds
  <2> HIDE DEF Common
  <2> QED  BY <2>1, <2>2, <2>3, <1>1
<1>9. ASSUME NEW u \in Client, NEW n \in Bytes, AddCSPConso(r, u, n)
      PROVE  \E j, cmds, next : Arrives(r, j, cmds, next)
  <2> DEFINE j == [NoJob EXCEPT !.kind = "addCSPConso", !.client = u, !.bytes = n]
             cmds == <<Await("SELECT_2", r)>>
  <2>0. Known(u)
    BY <1>9 DEF AddCSPConso, Flow, Keyed, Dbs
  <2>1. Start(r, j, cmds, "userSelected")
    BY <1>9 DEF AddCSPConso
  <2>2. /\ j \in Job /\ Common(j, cmds, "userSelected")
        /\ Sends(r, j.kind, "userSelected", cmds)
    BY <1>9, <2>0 DEF AddCSPConso, Job, NoJob, AllKinds, Waiting, KindsAt, Sends, Op, Client, QuotaValue, Known, Cmd, Await
  <2>3. /\ answer' = answer \/ answer' = [answer EXCEPT ![r] = "redirect"]
        /\ carried' = IF j.kind = "addCSPConso" /\ OwnerOf(j.client) # None
                      THEN [carried EXCEPT ![OwnerOf(j.client)] = @ + j.bytes] ELSE carried
    BY <1>9 DEF AddCSPConso, NoJob
  <2> HIDE DEF j, cmds
  <2> HIDE DEF Common
  <2> QED  BY <2>1, <2>2, <2>3, <1>1
<1>10. CASE DeleteWithoutKey(r)
  <2> DEFINE j == [NoJob EXCEPT !.kind = "deleteCSP"]
  <2>1. j \in Job /\ j.kind = "deleteCSP" /\ j.csp = None
    BY DEF Job, NoJob, AllKinds
  <2> HIDE DEF j
  <2>2. /\ pc[r] = "idle" /\ pc' = [pc EXCEPT ![r] = "hung"] /\ job' = [job EXCEPT ![r] = j]
        /\ pipe' = pipe
        /\ UNCHANGED <<db, selected, inbox, tasks, got, answer, up, misplaced, carried, lapsed,
                       overlapped, cut, pulled>>
    BY <1>10 DEF DeleteWithoutKey, redis, history, j
  <2>3. pipe' = pipe \o <<>>
    BY <2>2, ConcatEmptySeq DEF IInv, Base, TypeOK
  <2>4. "deleteCSP" \in KindsAt("hung") /\ Sends(r, "deleteCSP", "hung", <<>>)
    BY PlaceFacts DEF Sends, AllKinds
  <2>5. Arrives(r, j, <<>>, "hung")
    BY <2>1, <2>2, <2>3, <2>4 DEF Arrives
  <2> QED  BY <2>5
<1> QED  BY <1>2, <1>3, <1>4, <1>5, <1>6, <1>7, <1>8, <1>9, <1>10 DEF Arrive

\* A continuation that sends, or answers, has the shape of one.
LEMMA SendShape ==
    ASSUME IInv, Flow, NEW r \in Request, NEW at \in Waiting, Resume(r, at) \/ Callback(r, at),
           NEW cmds, NEW next \in Pc \ {"idle", "infosSelected", "userSelected"},
           Continue(r, cmds, next), Sends(r, job[r].kind, next, cmds), job[r].kind \in KindsAt(next),
           next = "user" <=> at = "userSelected", next = "incr" <=> at = "user",
           next = "renamed" => Len(cmds) = 1, next # "allKeys", next = "allInfos" => at = "allKeys"
    PROVE  \E cc, nn : Continues(r, cc, nn)
<1>1. /\ pc[r] = at /\ Turns(r)
      /\ UNCHANGED <<db, selected, job, got, overlapped, misplaced, carried, lapsed, cut, pulled>>
  BY DEF Resume, Callback, Turns, redis, history
<1>2. Continues(r, cmds, next)
  BY <1>1 DEF Continues, Continue, Send
<1> QED  BY <1>2

\* The same for one that answers.
LEMMA FinishShape ==
    ASSUME IInv, Flow, NEW r \in Request, NEW at \in Waiting \ {"userSelected", "user"},
           Resume(r, at) \/ Callback(r, at),
           NEW a \in Answers, Finish(r, a), a = "granted" => at = "turns"
    PROVE  \E cc, nn : Continues(r, cc, nn)
<1>1. /\ pc[r] = at /\ Turns(r)
      /\ UNCHANGED <<db, selected, job, got, overlapped, misplaced, carried, lapsed, cut, pulled>>
  BY DEF Resume, Callback, Turns, redis, history
<1>2. pipe' = pipe \o <<>>
  BY ConcatEmptySeq DEF IInv, Base, TypeOK, Finish
<1>3. job[r].kind \in AllKinds
  BY <1>1, PlaceFacts DEF Flow, Argued
<1>4. "done" \in Pc \ {"idle", "infosSelected", "userSelected"} /\ Sends(r, job[r].kind, "done", <<>>)
  BY DEF Pc, Sends
<1>5. Continues(r, <<>>, "done")
  BY <1>1, <1>2, <1>3, <1>4, PlaceFacts DEF Continues, Finish
<1> QED  BY <1>5

\* Every continuation of a promise has that shape.
LEMMA TaskShape ==
    ASSUME IInv, Flow, NEW r \in Request, Task(r)
    PROVE  \E cc, nn : Continues(r, cc, nn)
<1>1. job[r].kind \in KindsAt(pc[r])
  BY DEF Flow, Argued
<1>2. ASSUME NEW at \in Waiting, Resume(r, at),
             NEW next \in Waiting \ {"infosSelected", "userSelected", "renamed", "allKeys", "allInfos"},
             NEW op, op = Op(next), Continue(r, <<Await(op, r)>>, next), job[r].kind \in KindsAt(next),
             next = "user" <=> at = "userSelected", next = "incr" <=> at = "user"
      PROVE  \E cc, nn : Continues(r, cc, nn)
  <2>1. Sends(r, job[r].kind, next, <<Await(op, r)>>)
    BY <1>2 DEF Sends
  <2>2. next \in Pc \ {"idle", "infosSelected", "userSelected"}
    BY <1>2 DEF Pc, Waiting
  <2> QED  BY <1>2, <2>1, <2>2, SendShape
<1>3. \A at : Resume(r, at) => pc[r] = at
  BY DEF Resume
<1>4. CASE InfosSelected(r)
  <2>1. Resume(r, "infosSelected") /\ Continue(r, <<Await("HGETALL_PROV", r)>>, "infos")
    BY <1>4 DEF InfosSelected
  <2>2. /\ "infosSelected" \in Waiting /\ "infos" \in Waiting \ {"infosSelected", "userSelected", "renamed", "allKeys", "allInfos"}
        /\ Op("infos") = "HGETALL_PROV" /\ KindsAt("infosSelected") \subseteq KindsAt("infos")
    BY DEF Waiting, Op, KindsAt
  <2> QED  BY <1>1, <1>2, <1>3, <2>1, <2>2
<1>5. CASE Infos(r)
  <2>1. CASE Resume(r, "infos") /\ Finish(r, "notfound")
    BY <2>1, FinishShape DEF Waiting, Answers
  <2>2. CASE Resume(r, "infos") /\ Continue(r, <<Await("SELECT_2", r)>>, "consoSelected")
    <3>1. /\ "infos" \in Waiting /\ "consoSelected" \in Waiting \ {"infosSelected", "userSelected", "renamed", "allKeys", "allInfos"}
          /\ Op("consoSelected") = "SELECT_2" /\ KindsAt("infos") \subseteq KindsAt("consoSelected")
      BY DEF Waiting, Op, KindsAt
    <3> QED  BY <1>1, <1>2, <1>3, <2>2, <3>1
  <2> QED  BY <1>5, <2>1, <2>2 DEF Infos
<1>6. CASE ConsoSelected(r)
  <2>1. Resume(r, "consoSelected") /\ Continue(r, <<Await("HGETALL_CONSO", r)>>, "conso")
    BY <1>6 DEF ConsoSelected
  <2>2. /\ "consoSelected" \in Waiting /\ "conso" \in Waiting \ {"infosSelected", "userSelected", "renamed", "allKeys", "allInfos"}
        /\ Op("conso") = "HGETALL_CONSO" /\ KindsAt("consoSelected") \subseteq KindsAt("conso")
    BY DEF Waiting, Op, KindsAt
  <2> QED  BY <1>1, <1>2, <1>3, <2>1, <2>2
<1>7. CASE ConsoAnswered(r)
  <2>1. Resume(r, "conso") /\ Finish(r, "ok")
    BY <1>7 DEF ConsoAnswered
  <2> QED  BY <2>1, FinishShape DEF Waiting, Answers
<1>8. CASE CheckQuota(r)
  <2>1. CASE Resume(r, "conso") /\ Finish(r, "notfound")
    BY <2>1, FinishShape DEF Waiting, Answers
  <2>2. CASE Resume(r, "conso") /\ Finish(r, "overquota")
    BY <2>2, FinishShape DEF Waiting, Answers
  <2>3. CASE Resume(r, "conso") /\ Continue(r, <<Await("SELECT_2", r)>>, "turnsSelected")
    <3>1. /\ "conso" \in Waiting /\ "turnsSelected" \in Waiting \ {"infosSelected", "userSelected", "renamed", "allKeys", "allInfos"}
          /\ Op("turnsSelected") = "SELECT_2" /\ "getAppropriateTurn" \in KindsAt("turnsSelected")
      BY DEF Waiting, Op, KindsAt
    <3>2. job[r].kind = "getAppropriateTurn"
      BY <1>8 DEF CheckQuota
    <3> QED  BY <1>2, <1>3, <2>3, <3>1, <3>2
  <2> QED  BY <1>8, <2>1, <2>2, <2>3 DEF CheckQuota
<1>9. CASE TurnsSelected(r)
  <2>1. Resume(r, "turnsSelected") /\ Continue(r, <<Await("KEYS_TURN", r)>>, "turnKeys")
    BY <1>9 DEF TurnsSelected
  <2>2. /\ "turnsSelected" \in Waiting /\ "turnKeys" \in Waiting \ {"infosSelected", "userSelected", "renamed", "allKeys", "allInfos"}
        /\ Op("turnKeys") = "KEYS_TURN" /\ KindsAt("turnsSelected") \subseteq KindsAt("turnKeys")
    BY DEF Waiting, Op, KindsAt
  <2> QED  BY <1>1, <1>2, <1>3, <2>1, <2>2
<1>10. CASE ChooseTurn(r)
  <2>1. Resume(r, "turns") /\ Finish(r, "granted")
    BY <1>10 DEF ChooseTurn
  <2> QED  BY <2>1, FinishShape DEF Waiting, Answers
<1>11. CASE CredSelected(r)
  <2>1. Resume(r, "credSelected") /\ Continue(r, <<Await("SET_KEY", r)>>, "cred")
    BY <1>11 DEF CredSelected
  <2>2. /\ "credSelected" \in Waiting /\ "cred" \in Waiting \ {"infosSelected", "userSelected", "renamed", "allKeys", "allInfos"}
        /\ Op("cred") = "SET_KEY" /\ KindsAt("credSelected") \subseteq KindsAt("cred")
    BY DEF Waiting, Op, KindsAt
  <2> QED  BY <1>1, <1>2, <1>3, <2>1, <2>2
<1>12. CASE CredStored(r)
  <2>1. Resume(r, "cred") /\ Finish(r, "ok")
    BY <1>12 DEF CredStored
  <2> QED  BY <2>1, FinishShape DEF Waiting, Answers
<1>13. CASE ProvSelected(r)
  <2>1. /\ Resume(r, "provSelected")
        /\ Continue(r, <<Cmd("HSETNX_PROV", r), Cmd("HSETNX_CONSO", r)>>, "done")
    BY <1>13 DEF ProvSelected
  <2>2. job[r].kind = "provRequest"
    BY <1>1, <1>3, <2>1 DEF KindsAt
  <2>3. Sends(r, job[r].kind, "done", <<Cmd("HSETNX_PROV", r), Cmd("HSETNX_CONSO", r)>>)
    BY <2>2 DEF Sends
  <2>4. "done" \in Pc \ {"idle", "infosSelected", "userSelected"} /\ job[r].kind \in KindsAt("done")
        /\ "provSelected" \in Waiting
    BY <2>2, PlaceFacts DEF Pc, AllKinds, Waiting
  <2> QED  BY <2>1, <2>3, <2>4, SendShape
<1>14. CASE QuotaSelected(r)
  <2>1. Resume(r, "quotaSelected") /\ Continue(r, <<Await("HMSET_PROV", r)>>, "quota")
    BY <1>14 DEF QuotaSelected
  <2>2. /\ "quotaSelected" \in Waiting /\ "quota" \in Waiting \ {"infosSelected", "userSelected", "renamed", "allKeys", "allInfos"}
        /\ Op("quota") = "HMSET_PROV" /\ KindsAt("quotaSelected") \subseteq KindsAt("quota")
    BY DEF Waiting, Op, KindsAt
  <2> QED  BY <1>1, <1>2, <1>3, <2>1, <2>2
<1>15. CASE QuotaSet(r)
  <2>1. Resume(r, "quota") /\ Finish(r, "ok")
    BY <1>15 DEF QuotaSet
  <2> QED  BY <2>1, FinishShape DEF Waiting, Answers
<1>16. CASE UserSelected(r)
  <2>1. Resume(r, "userSelected") /\ Continue(r, <<Await("GET_USER", r)>>, "user")
    BY <1>16 DEF UserSelected
  <2>2. /\ "userSelected" \in Waiting /\ "user" \in Waiting \ {"infosSelected", "userSelected", "renamed", "allKeys", "allInfos"}
        /\ Op("user") = "GET_USER" /\ KindsAt("userSelected") \subseteq KindsAt("user")
    BY DEF Waiting, Op, KindsAt
  <2> QED  BY <1>1, <1>2, <1>3, <2>1, <2>2
<1>17. CASE UserFound(r)
  <2>1. Resume(r, "user") /\ Continue(r, <<Await("HINCRBY", r)>>, "incr")
    BY <1>17 DEF UserFound
  <2>2. /\ "user" \in Waiting /\ "incr" \in Waiting \ {"infosSelected", "userSelected", "renamed", "allKeys", "allInfos"}
        /\ Op("incr") = "HINCRBY" /\ KindsAt("user") \subseteq KindsAt("incr")
    BY DEF Waiting, Op, KindsAt
  <2> QED  BY <1>1, <1>2, <1>3, <2>1, <2>2
<1>18. CASE Incremented(r)
  <2>1. Resume(r, "incr") /\ Continue(r, <<>>, "done") /\ "incr" \in Waiting
    BY <1>18 DEF Incremented, Waiting
  <2>2. Sends(r, job[r].kind, "done", <<>>)
    BY DEF Sends
  <2>3. "done" \in Pc \ {"idle", "infosSelected", "userSelected"} /\ job[r].kind \in KindsAt("done")
    BY <1>1, <1>3, <2>1, PlaceFacts DEF Pc
  <2> QED  BY <2>1, <2>2, <2>3, SendShape
<1> QED
  BY <1>4, <1>5, <1>6, <1>7, <1>8, <1>9, <1>10, <1>11, <1>12, <1>13, <1>14, <1>15, <1>16, <1>17, <1>18 DEF Task

\* So has every callback, unless it throws.
LEMMA PlainShape ==
    ASSUME IInv, Flow, NEW r \in Request, PlainTask(r)
    PROVE  (\E cc, nn : Continues(r, cc, nn)) \/ Crashes(r)
<1>1. job[r].kind \in KindsAt(pc[r]) /\ \A at : Callback(r, at) => pc[r] = at
  BY DEF Flow, Argued, Callback
<1>2. ASSUME NEW at \in Waiting, Callback(r, at), Continue(r, <<>>, "hung"), at \notin {"userSelected", "user"}
      PROVE  \E cc, nn : Continues(r, cc, nn)
  <2>1. Sends(r, job[r].kind, "hung", <<>>)
    BY DEF Sends
  <2>2. "hung" \in Pc \ {"idle", "infosSelected", "userSelected"} /\ job[r].kind \in KindsAt("hung")
    BY <1>1, <1>2, PlaceFacts DEF Pc
  <2> QED  BY <1>2, <2>1, <2>2, SendShape
<1>3. CASE TurnKeys(r)
  <2>1. CASE Callback(r, "turnKeys") /\ Finish(r, "noturn")
    BY <2>1, FinishShape DEF Waiting, Answers
  <2>2. CASE Callback(r, "turnKeys") /\ Continue(r, <<Await("GET_TURNS", r)>>, "turns")
    <3>1. /\ "turnKeys" \in Waiting /\ "turns" \in Waiting
          /\ "turns" \in Pc \ {"idle", "infosSelected", "userSelected"}
          /\ Op("turns") = "GET_TURNS" /\ KindsAt("turnKeys") \subseteq KindsAt("turns")
      BY DEF Waiting, Op, KindsAt, Pc
    <3>2. Sends(r, job[r].kind, "turns", <<Await("GET_TURNS", r)>>) /\ job[r].kind \in KindsAt("turns")
      BY <1>1, <2>2, <3>1 DEF Sends
    <3> QED  BY <2>2, <3>1, <3>2, SendShape
  <2> QED  BY <1>3, <2>1, <2>2 DEF TurnKeys
<1>4. CASE Renamed(r)
  <2>1. CASE Callback(r, "renamed") /\ Finish(r, "ok")
    BY <2>1, FinishShape DEF Waiting, Answers
  <2>2. CASE Callback(r, "renamed") /\ Continue(r, <<>>, "hung")
    BY <1>2, <2>2 DEF Waiting
  <2> QED  BY <1>4, <2>1, <2>2 DEF Renamed
<1>5. CASE AllKeys(r)
  <2>1. CASE Callback(r, "allKeys") /\ Continue(r, <<>>, "hung")
    BY <1>2, <2>1 DEF Waiting
  <2>2. CASE Callback(r, "allKeys") /\ Continue(r, <<Await("HGETALL_EACH", r)>>, "allInfos")
    <3>1. /\ "allKeys" \in Waiting /\ "allInfos" \in Waiting
          /\ "allInfos" \in Pc \ {"idle", "infosSelected", "userSelected"}
          /\ Op("allInfos") = "HGETALL_EACH" /\ KindsAt("allKeys") \subseteq KindsAt("allInfos")
      BY DEF Waiting, Op, KindsAt, Pc
    <3>2. Sends(r, job[r].kind, "allInfos", <<Await("HGETALL_EACH", r)>>) /\ job[r].kind \in KindsAt("allInfos")
      BY <1>1, <2>2, <3>1 DEF Sends
    <3> QED  BY <2>2, <3>1, <3>2, SendShape
  <2> QED  BY <1>5, <2>1, <2>2 DEF AllKeys
<1>6. CASE AllInfos(r)
  <2>1. CASE Callback(r, "allInfos") /\ Finish(r, "ok")
    BY <2>1, FinishShape DEF Waiting, Answers
  <2>2. CASE Callback(r, "allInfos") /\ ~got[r].ok /\ UNCHANGED <<pipe, pc, answer, chosen>>
    BY <2>2 DEF Crashes, Callback, Turns, redis, history
  <2> QED  BY <1>6, <2>1, <2>2 DEF AllInfos
<1> QED  BY <1>3, <1>4, <1>5, <1>6 DEF PlainTask
-----------------------------------------------------------------------------
(***************************************************************************)
(* A request awaits one reply at a time.                                   *)
(***************************************************************************)
\* What is left of a queue when its head is taken.
LEMMA TailFacts ==
    ASSUME NEW S, NEW q \in Seq(S), q # <<>>
    PROVE  /\ Len(q) \in Nat /\ Len(q) > 0 /\ Head(q) = q[1] /\ Head(q) \in S
           /\ Tail(q) \in Seq(S) /\ Len(Tail(q)) = Len(q) - 1
           /\ \A i \in 1..Len(Tail(q)) : Tail(q)[i] = q[i + 1] /\ i + 1 \in 2..Len(q)
<1>1. Len(q) \in Nat /\ Len(q) > 0
  BY LenProperties, EmptySeq
<1>2. Head(q) = q[1] /\ Head(q) \in S
  BY HeadTailProperties
<1>3. Tail(q) \in Seq(S) /\ Len(Tail(q)) = Len(q) - 1 /\ \A i \in 1..Len(Tail(q)) : Tail(q)[i] = q[i + 1]
  BY HeadTailProperties
<1> QED  BY <1>1, <1>2, <1>3

\* A queue that is appended to.
LEMMA AppendFacts ==
    ASSUME NEW S, NEW q \in Seq(S), NEW x \in S
    PROVE  /\ Len(q) \in Nat /\ Len(Append(q, x)) = Len(q) + 1 /\ Append(q, x) \in Seq(S)
           /\ \A i \in 1..Len(q) : Append(q, x)[i] = q[i]
           /\ Append(q, x)[Len(q) + 1] = x
BY AppendProperties, LenProperties

\* Nobody awaits anything in r's name: no command, no reply and no continuation.
Free(r) ==
    /\ \A i \in 1..Len(pipe) : pipe[i].r = r => ~pipe[i].cb
    /\ \A i \in 1..Len(inbox') : inbox'[i] # r /\ \E j \in 1..Len(inbox) : inbox'[i] = inbox[j]
    /\ \A i \in 1..Len(tasks') : tasks'[i] # r /\ \E j \in 1..Len(tasks) : tasks'[i] = tasks[j]
    /\ \A i, j \in 1..Len(inbox') : inbox'[i] = inbox'[j] => i = j
    /\ \A i, j \in 1..Len(tasks') : tasks'[i] = tasks'[j] => i = j
    /\ \A i \in 1..Len(inbox') : \A j \in 1..Len(tasks') : inbox'[i] # tasks'[j]

\* A request whose turn it is awaits nothing else.
LEMMA TurnFrees ==
    ASSUME IInv, Flow, NEW r \in Request, Turns(r)
    PROVE  Free(r)
<1>1. inbox \in Seq(Request) /\ tasks \in Seq(Request)
  BY DEF IInv, Base, TypeOK
<1>2. CASE tasks # <<>> /\ r = Head(tasks) /\ tasks' = Tail(tasks) /\ UNCHANGED inbox
  <2>1. /\ Len(tasks) \in Nat /\ Len(tasks) > 0 /\ r = tasks[1] /\ Len(tasks') = Len(tasks) - 1
        /\ \A i \in 1..Len(tasks') : tasks'[i] = tasks[i + 1] /\ i + 1 \in 2..Len(tasks)
    BY <1>1, <1>2, TailFacts
  <2>2. 1 \in 1..Len(tasks) /\ \A i \in 1..Len(tasks') : i \in Nat /\ i + 1 \in 1..Len(tasks) /\ i + 1 # 1
    BY <2>1
  <2>3. \A i \in 1..Len(pipe) : pipe[i].r = r => ~pipe[i].cb
    BY <2>1, <2>2 DEF Flow, Once
  <2>4. \A i \in 1..Len(tasks') : tasks'[i] # r /\ \E j \in 1..Len(tasks) : tasks'[i] = tasks[j]
    BY <2>1, <2>2 DEF Flow, Once
  <2>5. \A i \in 1..Len(inbox') : inbox'[i] # r /\ \E j \in 1..Len(inbox) : inbox'[i] = inbox[j]
    BY <1>2, <2>1, <2>2 DEF Flow, Once
  <2>6. \A i, j \in 1..Len(tasks') : tasks'[i] = tasks'[j] => i = j
    <3> SUFFICES ASSUME NEW i \in 1..Len(tasks'), NEW j \in 1..Len(tasks'), tasks'[i] = tasks'[j]
                 PROVE  i = j
      OBVIOUS
    <3>1. tasks[i + 1] = tasks[j + 1] /\ i + 1 \in 1..Len(tasks) /\ j + 1 \in 1..Len(tasks)
      BY <2>1, <2>2
    <3>2. i + 1 = j + 1
      BY <3>1 DEF Flow, Once
    <3> QED  BY <3>2, <2>2
  <2>7. \A i \in 1..Len(inbox') : \A j \in 1..Len(tasks') : inbox'[i] # tasks'[j]
    BY <1>2, <2>1, <2>2 DEF Flow, Once
  <2>8. \A i, j \in 1..Len(inbox') : inbox'[i] = inbox'[j] => i = j
    BY <1>2 DEF Flow, Once
  <2> QED  BY <2>3, <2>4, <2>5, <2>6, <2>7, <2>8 DEF Free
<1>3. CASE inbox # <<>> /\ r = Head(inbox) /\ inbox' = Tail(inbox) /\ UNCHANGED tasks
  <2>1. /\ Len(inbox) \in Nat /\ Len(inbox) > 0 /\ r = inbox[1] /\ Len(inbox') = Len(inbox) - 1
        /\ \A i \in 1..Len(inbox') : inbox'[i] = inbox[i + 1] /\ i + 1 \in 2..Len(inbox)
    BY <1>1, <1>3, TailFacts
  <2>2. 1 \in 1..Len(inbox) /\ \A i \in 1..Len(inbox') : i \in Nat /\ i + 1 \in 1..Len(inbox) /\ i + 1 # 1
    BY <2>1
  <2>3. \A i \in 1..Len(pipe) : pipe[i].r = r => ~pipe[i].cb
    BY <2>1, <2>2 DEF Flow, Once
  <2>4. \A i \in 1..Len(inbox') : inbox'[i] # r /\ \E j \in 1..Len(inbox) : inbox'[i] = inbox[j]
    BY <2>1, <2>2 DEF Flow, Once
  <2>5. \A i \in 1..Len(tasks') : tasks'[i] # r /\ \E j \in 1..Len(tasks) : tasks'[i] = tasks[j]
    BY <1>3, <2>1, <2>2 DEF Flow, Once
  <2>6. \A i, j \in 1..Len(inbox') : inbox'[i] = inbox'[j] => i = j
    <3> SUFFICES ASSUME NEW i \in 1..Len(inbox'), NEW j \in 1..Len(inbox'), inbox'[i] = inbox'[j]
                 PROVE  i = j
      OBVIOUS
    <3>1. inbox[i + 1] = inbox[j + 1] /\ i + 1 \in 1..Len(inbox) /\ j + 1 \in 1..Len(inbox)
      BY <2>1, <2>2
    <3>2. i + 1 = j + 1
      BY <3>1 DEF Flow, Once
    <3> QED  BY <3>2, <2>2
  <2>7. \A i \in 1..Len(inbox') : \A j \in 1..Len(tasks') : inbox'[i] # tasks'[j]
    BY <1>3, <2>1, <2>2 DEF Flow, Once
  <2>8. \A i, j \in 1..Len(tasks') : tasks'[i] = tasks'[j] => i = j
    BY <1>3 DEF Flow, Once
  <2> QED  BY <2>3, <2>4, <2>5, <2>6, <2>7, <2>8 DEF Free
<1> QED  BY <1>2, <1>3 DEF Turns

\* Nor does one that has not arrived.
LEMMA IdleFree ==
    ASSUME IInv, Flow, NEW r \in Request, pc[r] = "idle", UNCHANGED <<inbox, tasks>>
    PROVE  Free(r) /\ \A i \in 1..Len(pipe) : pipe[i].r # r
<1>1. \A i \in 1..Len(pipe) : pipe[i].r # r
  BY DEF IInv, Base, WellFormed, Sound
<1>2. \A i \in 1..Len(inbox) : inbox[i] # r
  BY PlaceFacts DEF Flow, Once
<1>3. \A i \in 1..Len(tasks) : tasks[i] # r
  BY PlaceFacts DEF Flow, Once
<1> QED  BY <1>1, <1>2, <1>3 DEF Free, Flow, Once

\* What a free request sends keeps every command in its place, and one awaited.
LEMMA GrowKeeps ==
    ASSUME IInv, Flow, NEW r \in Request, NEW kind, NEW next \in Pc, NEW cmds,
           Sends(r, kind, next, cmds), pipe' = pipe \o cmds, pc' = [pc EXCEPT ![r] = next],
           Free(r), job'[r].kind = kind, \A s \in Request : s # r => job'[s] = job[s],
           \A i \in 1..Len(pipe) : pipe[i].r = r => job'[r] = job[r]
    PROVE  Placed' /\ Once'
<1>1. /\ pipe \in Seq(Command) /\ pc \in [Request -> Pc] /\ cmds \in Seq(Command)
      /\ inbox \in Seq(Request) /\ tasks \in Seq(Request)
  <2>1. SentBy(r, kind, next, cmds)
    BY SendsFacts
  <2> QED  BY <2>1 DEF SentBy, IInv, Base, TypeOK
<1>2. /\ Len(pipe') = Len(pipe) + Len(cmds) /\ Len(pipe) \in Nat /\ Len(cmds) \in Nat
      /\ \A i \in 1..Len(pipe) : pipe'[i] = pipe[i]
      /\ \A i \in Len(pipe)+1..Len(pipe)+Len(cmds) :
            i - Len(pipe) \in 1..Len(cmds) /\ pipe'[i] = cmds[i - Len(pipe)]
  BY <1>1, PipeExtends
<1>3. \A i \in 1..Len(pipe) : pipe[i] \in Command /\ pipe[i].r \in Request
  <2>1. \A i \in 1..Len(pipe) : pipe[i] \in Command
    BY <1>1, ElementOfSeq
  <2> QED  BY <2>1 DEF Command
<1>4. \A i \in Len(pipe)+1..Len(pipe') :
        /\ pipe'[i].r = r
        /\ pipe'[i].cb => i = Len(pipe') /\ next \in Waiting /\ pipe'[i].op = Op(next)
        /\ ~pipe'[i].cb => kind \in KindsOf(pipe'[i].op)
  <2> SUFFICES ASSUME NEW i \in Len(pipe)+1..Len(pipe')
               PROVE  /\ pipe'[i].r = r
                      /\ pipe'[i].cb => i = Len(pipe') /\ next \in Waiting /\ pipe'[i].op = Op(next)
                      /\ ~pipe'[i].cb => kind \in KindsOf(pipe'[i].op)
    OBVIOUS
  <2>1. PICK k \in 1..Len(cmds) : k = i - Len(pipe) /\ pipe'[i] = cmds[k]
    BY <1>2
  <2>2. /\ cmds[k].r = r
        /\ cmds[k].cb => k = Len(cmds) /\ next \in Waiting /\ cmds[k].op = Op(next)
        /\ ~cmds[k].cb => kind \in KindsOf(cmds[k].op)
    <3>1. SentBy(r, kind, next, cmds)
      BY SendsFacts
    <3> QED  BY <3>1 DEF SentBy
  <2> QED  BY <1>2, <2>1, <2>2
<1>5. pc'[r] = next /\ \A s \in Request : s # r => pc'[s] = pc[s]
  BY <1>1
<1>6. Placed'
  <2> SUFFICES ASSUME NEW i \in 1..Len(pipe')
               PROVE  IF pipe'[i].cb
                      THEN pc'[pipe'[i].r] \in Waiting /\ pipe'[i].op = Op(pc'[pipe'[i].r])
                      ELSE job'[pipe'[i].r].kind \in KindsOf(pipe'[i].op)
    BY DEF Placed
  <2>1. CASE i \in 1..Len(pipe)
    BY <2>1, <1>2, <1>3, <1>5 DEF Flow, Placed, Free
  <2>2. CASE i \in Len(pipe)+1..Len(pipe')
    BY <2>2, <1>4, <1>5
  <2> QED  BY <2>1, <2>2, <1>2
<1>7. Once'
  <2>1. ASSUME NEW i \in 1..Len(pipe'), pipe'[i].cb
        PROVE  \/ i \in 1..Len(pipe) /\ pipe[i].cb /\ pipe'[i] = pipe[i] /\ pipe[i].r # r
               \/ i = Len(pipe') /\ i \notin 1..Len(pipe) /\ pipe'[i].r = r
    BY <2>1, <1>2, <1>4 DEF Free
  <2>2. \A i, j \in 1..Len(pipe') : pipe'[i].cb /\ pipe'[j].cb /\ pipe'[i].r = pipe'[j].r => i = j
    BY <2>1 DEF Flow, Once
  <2>3. \A i \in 1..Len(pipe') : pipe'[i].cb =>
          /\ \A j \in 1..Len(inbox') : inbox'[j] # pipe'[i].r
          /\ \A j \in 1..Len(tasks') : tasks'[j] # pipe'[i].r
    BY <2>1 DEF Flow, Once, Free
  <2>4. \A i \in 1..Len(inbox) : inbox[i] \in Request
    BY <1>1, ElementOfSeq
  <2>5. \A i \in 1..Len(tasks) : tasks[i] \in Request
    BY <1>1, ElementOfSeq
  <2>6. /\ \A i \in 1..Len(inbox') : pc'[inbox'[i]] \in Waiting
        /\ \A i \in 1..Len(tasks') : pc'[tasks'[i]] \in Waiting
    <3>1. /\ \A i \in 1..Len(inbox') : inbox'[i] # r /\ \E j \in 1..Len(inbox) : inbox'[i] = inbox[j]
          /\ \A i \in 1..Len(tasks') : tasks'[i] # r /\ \E j \in 1..Len(tasks) : tasks'[i] = tasks[j]
      BY DEF Free
    <3>2. /\ \A j \in 1..Len(inbox) : pc[inbox[j]] \in Waiting
          /\ \A j \in 1..Len(tasks) : pc[tasks[j]] \in Waiting
      BY DEF Flow, Once
    <3>3. \A i \in 1..Len(inbox') : pc'[inbox'[i]] \in Waiting
      BY <1>5, <2>4, <3>1, <3>2
    <3>4. \A i \in 1..Len(tasks') : pc'[tasks'[i]] \in Waiting
      BY <1>5, <2>5, <3>1, <3>2
    <3> QED  BY <3>3, <3>4
  <2> QED  BY <2>2, <2>3, <2>6 DEF Once, Free
<1> QED  BY <1>6, <1>7

\* A request that arrives awaits the reply to what it sends.
LEMMA ArrivesFlow ==
    ASSUME IInv, Flow, NEW r \in Request, NEW j, NEW cmds, NEW next, Arrives(r, j, cmds, next)
    PROVE  Flow'
<1>1. /\ pc \in [Request -> Pc] /\ job \in [Request -> Job] /\ answer \in [Request -> Answers]
      /\ next \in Pc
  BY DEF IInv, Base, TypeOK, Arrives, Pc
<1>2. /\ job'[r] = j /\ \A s \in Request : s # r => job'[s] = job[s]
      /\ pc'[r] = next /\ \A s \in Request : s # r => pc'[s] = pc[s]
  BY <1>1 DEF Arrives
<1>3. Free(r) /\ \A i \in 1..Len(pipe) : pipe[i].r # r
  BY IdleFree DEF Arrives
<1>4. Placed' /\ Once'
  <2>1. /\ Sends(r, j.kind, next, cmds) /\ pipe' = pipe \o cmds /\ pc' = [pc EXCEPT ![r] = next]
    BY DEF Arrives
  <2> QED  BY <1>1, <1>2, <1>3, <2>1, GrowKeeps
<1>5. answer[r] # "granted" /\ answer'[r] # "granted"
  BY <1>1 DEF Arrives, Flow, Argued
<1>6. \A s \in Request : s # r => answer'[s] = answer[s]
  BY <1>1 DEF Arrives
<1>7. \A u : Known(u) => Known(u)'
  BY <1>5, <1>6 DEF Known
<1>8. Argued'
  <2> SUFFICES ASSUME NEW s \in Request
               PROVE  /\ job'[s].kind \in KindsAt(pc'[s])
                      /\ job'[s].kind \in {"provRequest", "changeQuotas", "getAppropriateTurn", "getCspConso"}
                            => job'[s].csp \in Csp
                      /\ job'[s].kind = "deleteCSP" =>
                            job'[s].csp \in Csp \/ (job'[s].csp = None /\ pc'[s] = "hung")
                      /\ job'[s].kind \in {"provRequest", "changeQuotas"} => job'[s].quota \in QuotaValue
                      /\ job'[s].kind \in {"getCredentials", "addCSPConso"} => Known(job[s].client)'
                      /\ job'[s].kind = "addCSPConso" => job'[s].bytes \in Bytes
                      /\ answer'[s] = "granted" => job'[s].kind = "getAppropriateTurn" /\ pc'[s] = "done"
    BY DEF Argued
  <2>1. CASE s = r
    <3>1. j.kind \in {"getCredentials", "addCSPConso"} => Known(j.client)'
      BY <1>7 DEF Arrives
    <3>2. Known(job[s].client)' <=> Known(j.client)'
      BY <1>2, <2>1 DEF Known
    <3> QED  BY <1>2, <1>5, <2>1, <3>1, <3>2 DEF Arrives
  <2>2. CASE s # r
    <3>1. Known(job[s].client) => Known(job[s].client)'
      BY <1>2, <1>5, <1>6, <2>2 DEF Known
    <3> QED  BY <1>2, <1>6, <2>2, <3>1 DEF Flow, Argued
  <2> QED  BY <2>1, <2>2
<1>9. Keyed'
  BY <1>5, <1>6 DEF Arrives, Flow, Keyed, Known
<1> QED  BY <1>4, <1>8, <1>9 DEF Flow

\* A continuation awaits the reply to what it sends, or nothing more.
LEMMA ContinuesFlow ==
    ASSUME IInv, Flow, NEW r \in Request, NEW cmds, NEW next, Continues(r, cmds, next)
    PROVE  Flow'
<1>1. /\ pc \in [Request -> Pc] /\ job \in [Request -> Job] /\ answer \in [Request -> Answers]
      /\ next \in Pc /\ job' = job /\ UNCHANGED db
  BY DEF IInv, Base, TypeOK, Continues
<1>2. pc'[r] = next /\ \A s \in Request : s # r => pc'[s] = pc[s]
  BY <1>1 DEF Continues
<1>3. Free(r)
  BY TurnFrees DEF Continues
<1>4. Placed' /\ Once'
  <2>1. /\ Sends(r, job[r].kind, next, cmds) /\ pipe' = pipe \o cmds /\ pc' = [pc EXCEPT ![r] = next]
    BY DEF Continues
  <2> QED  BY <1>1, <1>3, <2>1, GrowKeeps
<1>5. answer[r] # "granted"
  BY PlaceFacts DEF Continues, Flow, Argued
<1>6. \A s \in Request : s # r => answer'[s] = answer[s]
  BY <1>1 DEF Continues
<1>7. answer'[r] = "granted" => pc[r] = "turns" /\ next = "done"
  BY <1>1, <1>5 DEF Continues
<1>8. \A s \in Request : Known(job[s].client) => Known(job[s].client)'
  BY <1>1, <1>5, <1>6 DEF Known
<1>9. Argued'
  <2> SUFFICES ASSUME NEW s \in Request
               PROVE  /\ job[s].kind \in KindsAt(pc'[s])
                      /\ job[s].kind = "deleteCSP" =>
                            job[s].csp \in Csp \/ (job[s].csp = None /\ pc'[s] = "hung")
                      /\ answer'[s] = "granted" => job[s].kind = "getAppropriateTurn" /\ pc'[s] = "done"
    BY <1>1, <1>8 DEF Flow, Argued
  <2>1. CASE s = r
    <3>1. pc[r] # "hung"
      BY PlaceFacts DEF Continues
    <3> QED  BY <1>2, <1>7, <2>1, <3>1 DEF Continues, Flow, Argued, KindsAt
  <2>2. CASE s # r
    BY <1>2, <1>6, <2>2 DEF Flow, Argued
  <2> QED  BY <2>1, <2>2
<1>10. Keyed'
  BY <1>1, <1>5, <1>6 DEF Flow, Keyed, Known
<1> QED  BY <1>4, <1>9, <1>10 DEF Flow

\* So does a callback that throws.
LEMMA CrashesFlow == ASSUME IInv, Flow, NEW r \in Request, Crashes(r) PROVE Flow'
<1>1. Free(r) /\ UNCHANGED <<db, pipe, pc, job, answer>>
  BY TurnFrees DEF Crashes
<1>2. Argued' /\ Keyed' /\ Placed'
  BY <1>1 DEF Flow, Argued, Keyed, Placed, Known
<1>3. \A i, j \in 1..Len(pipe') : pipe'[i].cb /\ pipe'[j].cb /\ pipe'[i].r = pipe'[j].r => i = j
  BY <1>1 DEF Flow, Once
<1>4. \A i \in 1..Len(pipe') : pipe'[i].cb =>
        /\ \A j \in 1..Len(inbox') : inbox'[j] # pipe'[i].r
        /\ \A j \in 1..Len(tasks') : tasks'[j] # pipe'[i].r
  <2> SUFFICES ASSUME NEW i \in 1..Len(pipe), pipe[i].cb
               PROVE  /\ \A j \in 1..Len(inbox') : inbox'[j] # pipe[i].r
                      /\ \A j \in 1..Len(tasks') : tasks'[j] # pipe[i].r
    BY <1>1
  <2>1. /\ \A j \in 1..Len(inbox) : inbox[j] # pipe[i].r
        /\ \A j \in 1..Len(tasks) : tasks[j] # pipe[i].r
    BY DEF Flow, Once
  <2> QED  BY <1>1, <2>1 DEF Free
<1>5. /\ \A i \in 1..Len(inbox') : pc'[inbox'[i]] \in Waiting
      /\ \A i \in 1..Len(tasks') : pc'[tasks'[i]] \in Waiting
  BY <1>1 DEF Flow, Once, Free
<1>6. Once'
  BY <1>1, <1>3, <1>4, <1>5 DEF Once, Free
<1> QED  BY <1>2, <1>6 DEF Flow

\* A reply that settles a promise moves from the replies to the continuations.
LEMMA DeliverFlow == ASSUME IInv, Flow, Deliver PROVE Flow'
<1>1. /\ inbox \in Seq(Request) /\ tasks \in Seq(Request) /\ inbox # <<>>
      /\ inbox' = Tail(inbox) /\ tasks' = Append(tasks, Head(inbox))
      /\ UNCHANGED <<db, pipe, pc, job, answer>>
  BY DEF IInv, Base, TypeOK, Deliver, redis
<1>2. /\ Len(inbox) \in Nat /\ Len(inbox) > 0 /\ Head(inbox) = inbox[1] /\ Head(inbox) \in Request
      /\ Len(inbox') = Len(inbox) - 1
      /\ \A i \in 1..Len(inbox') : inbox'[i] = inbox[i + 1] /\ i + 1 \in 2..Len(inbox)
  BY <1>1, TailFacts
<1>3. /\ Len(tasks) \in Nat /\ Len(tasks') = Len(tasks) + 1
      /\ \A i \in 1..Len(tasks) : tasks'[i] = tasks[i]
      /\ tasks'[Len(tasks) + 1] = inbox[1]
  BY <1>1, <1>2, AppendFacts
<1>4. \A i \in 1..Len(inbox') : i \in Nat /\ i + 1 \in 1..Len(inbox) /\ i + 1 # 1
  BY <1>2
<1>5. 1 \in 1..Len(inbox) /\ \A i \in 1..Len(tasks') : i \in 1..Len(tasks) \/ i = Len(tasks) + 1
  BY <1>2, <1>3
<1>6. Argued' /\ Keyed' /\ Placed'
  BY <1>1 DEF Flow, Argued, Keyed, Placed, Known
<1>7. \A i \in 1..Len(pipe) : pipe[i].cb =>
        /\ \A j \in 1..Len(inbox') : inbox'[j] # pipe[i].r
        /\ \A j \in 1..Len(tasks') : tasks'[j] # pipe[i].r
  <2> SUFFICES ASSUME NEW i \in 1..Len(pipe), pipe[i].cb
               PROVE  /\ \A j \in 1..Len(inbox') : inbox'[j] # pipe[i].r
                      /\ \A j \in 1..Len(tasks') : tasks'[j] # pipe[i].r
    OBVIOUS
  <2>1. /\ \A j \in 1..Len(inbox) : inbox[j] # pipe[i].r
        /\ \A j \in 1..Len(tasks) : tasks[j] # pipe[i].r
    BY DEF Flow, Once
  <2>2. \A j \in 1..Len(inbox') : inbox'[j] # pipe[i].r
    BY <1>2, <1>4, <2>1
  <2>3. \A j \in 1..Len(tasks') : tasks'[j] # pipe[i].r
    BY <1>3, <1>5, <2>1
  <2> QED  BY <2>2, <2>3
<1>8. \A i, j \in 1..Len(inbox') : inbox'[i] = inbox'[j] => i = j
  <2> SUFFICES ASSUME NEW i \in 1..Len(inbox'), NEW j \in 1..Len(inbox'), inbox'[i] = inbox'[j]
               PROVE  i = j
    OBVIOUS
  <2>1. i + 1 = j + 1
    BY <1>2, <1>4 DEF Flow, Once
  <2> QED  BY <2>1, <1>4
<1>9. \A i, j \in 1..Len(tasks') : tasks'[i] = tasks'[j] => i = j
  BY <1>3, <1>5 DEF Flow, Once
<1>10. \A i \in 1..Len(inbox') : \A j \in 1..Len(tasks') : inbox'[i] # tasks'[j]
  BY <1>2, <1>3, <1>4, <1>5 DEF Flow, Once
<1>11. /\ \A i \in 1..Len(inbox') : pc[inbox'[i]] \in Waiting
       /\ \A i \in 1..Len(tasks') : pc[tasks'[i]] \in Waiting
  BY <1>2, <1>3, <1>4, <1>5 DEF Flow, Once
<1>12. Once'
  BY <1>1, <1>7, <1>8, <1>9, <1>10, <1>11 DEF Flow, Once
<1> QED  BY <1>6, <1>12 DEF Flow

\* Whose command it is.
LEMMA CmdKind ==
    ASSUME IInv, Flow, NEW i \in 1..Len(pipe)
    PROVE  LET c == pipe[i]
               k == job[pipe[i].r].kind
           IN  /\ c \in Command /\ c.r \in Request /\ c.op \in Ops /\ Sound(c)
               /\ c.op = "SET_KEY" => k = "getCredentials"
               /\ c.op = "GET_USER" => k = "addCSPConso" /\ pc[c.r] = "user" /\ c.cb
               /\ c.op = "HINCRBY" => k = "addCSPConso" /\ pc[c.r] = "incr" /\ c.cb
               /\ c.op \in {"KEYS_PROV", "HGETALL_EACH"} => k = "getAllCspInfo"
               /\ c.op \in {"RENAME_PROV", "RENAME_CONSO"} => k = "deleteCSP"
               /\ c.op = "HMSET_PROV" => k = "changeQuotas"
               /\ c.op \in {"HSETNX_PROV", "HSETNX_CONSO"} => k = "provRequest"
               /\ c.op \in {"SET_USER", "EXPIRE_USER"} => k = "getAppropriateTurn" /\ ~c.cb
<1>1. pipe[i] \in Command /\ Sound(pipe[i])
  BY ElementOfSeq DEF IInv, Base, TypeOK, WellFormed
<1>2. pipe[i].r \in Request /\ pipe[i].op \in Ops /\ pipe[i].cb \in BOOLEAN
  BY <1>1 DEF Command
<1>3. CASE pipe[i].cb
  <2>1. /\ pc[pipe[i].r] \in Waiting /\ pipe[i].op = Op(pc[pipe[i].r])
        /\ job[pipe[i].r].kind \in KindsAt(pc[pipe[i].r])
    BY <1>2, <1>3 DEF Flow, Placed, Argued
  <2> QED  BY <1>1, <1>2, <1>3, <2>1 DEF Op, KindsAt, Waiting
<1>4. CASE ~pipe[i].cb
  <2>1. job[pipe[i].r].kind \in KindsOf(pipe[i].op)
    BY <1>4 DEF Flow, Placed
  <2> QED  BY <1>1, <1>2, <1>4, <2>1 DEF KindsOf
<1> QED  BY <1>2, <1>3, <1>4

\* What Exec does, with its command.
LEMMA ExecFacts ==
    ASSUME IInv, Exec
    PROVE  /\ 1 \in 1..Len(pipe) /\ Head(pipe) = pipe[1] /\ Len(pipe) \in Nat
           /\ Len(pipe') = Len(pipe) - 1
           /\ \A i \in 1..Len(pipe') : pipe'[i] = pipe[i + 1] /\ i + 1 \in 1..Len(pipe) /\ i + 1 # 1
           /\ inbox' = IF pipe[1].cb THEN Append(inbox, pipe[1].r) ELSE inbox
           /\ selected' = IF IsSelect(pipe[1].op) THEN SelectedBy(pipe[1].op) ELSE selected
           /\ db' = [db EXCEPT ![selected] = Effect(pipe[1].op, pipe[1].r, db[selected])]
           /\ got' = [got EXCEPT ![pipe[1].r] = ReplyTo(pipe[1].op, pipe[1].r, db[selected])]
           /\ db[selected] \in Store /\ db \in [Dbs -> Store] /\ selected \in Dbs /\ got \in [Request -> Reply]
           /\ misplaced' = IF ~IsSelect(pipe[1].op) /\ selected # DbOf(pipe[1].r)
                           THEN misplaced \cup {pipe[1].r} ELSE misplaced
           /\ pulled' = pulled \cup Outdated(pipe[1].r)
           /\ UNCHANGED <<tasks, pc, job, answer, chosen, up, overlapped, carried, lapsed, cut>>
<1>1. pipe \in Seq(Command) /\ pipe # <<>> /\ pipe' = Tail(pipe)
  BY DEF IInv, Base, TypeOK, Exec
<1>2. /\ Len(pipe) \in Nat /\ Len(pipe) > 0 /\ Head(pipe) = pipe[1]
      /\ Len(pipe') = Len(pipe) - 1
      /\ \A i \in 1..Len(pipe') : pipe'[i] = pipe[i + 1] /\ i + 1 \in 2..Len(pipe)
  BY <1>1, TailFacts
<1>3. 1 \in 1..Len(pipe) /\ \A i \in 1..Len(pipe') : i + 1 \in 1..Len(pipe) /\ i + 1 # 1
  BY <1>2
<1>4. db[selected] \in Store /\ db \in [Dbs -> Store] /\ selected \in Dbs /\ got \in [Request -> Reply]
  BY DEF IInv, Base, TypeOK
<1>5. /\ inbox' = IF Head(pipe).cb THEN Append(inbox, Head(pipe).r) ELSE inbox
      /\ selected' = IF IsSelect(Head(pipe).op) THEN SelectedBy(Head(pipe).op) ELSE selected
      /\ db' = [db EXCEPT ![selected] = Effect(Head(pipe).op, Head(pipe).r, db[selected])]
      /\ got' = [got EXCEPT ![Head(pipe).r] = ReplyTo(Head(pipe).op, Head(pipe).r, db[selected])]
      /\ misplaced' = IF ~IsSelect(Head(pipe).op) /\ selected # DbOf(Head(pipe).r)
                      THEN misplaced \cup {Head(pipe).r} ELSE misplaced
      /\ pulled' = pulled \cup Outdated(Head(pipe).r)
      /\ UNCHANGED <<tasks, pc, job, answer, chosen, up, overlapped, carried, lapsed, cut>>
  BY DEF Exec, DbOf
<1> QED  BY <1>2, <1>3, <1>4, <1>5

\* What a command changes in the database it runs in: s before, t after.
EffectOf(op, r, s, t) ==
    /\ t.users = IF op = "SET_USER" THEN [s.users EXCEPT ![r] = job[r].csp] ELSE s.users
    /\ t.ttl = CASE op = "SET_USER" -> s.ttl \ {r}
                 [] op = "EXPIRE_USER" /\ s.users[r] # None -> s.ttl \cup {r}
                 [] OTHER -> s.ttl
    /\ t.cred = IF op = "SET_KEY" THEN s.cred \cup {job[r].client} ELSE s.cred
    /\ t.prov = CASE op = "HSETNX_PROV" -> [s.prov EXCEPT ![job[r].csp] = IF @ = None THEN job[r].quota ELSE @]
                  [] op = "RENAME_PROV" -> [s.prov EXCEPT ![job[r].csp] = None]
                  [] op = "HMSET_PROV"  -> [s.prov EXCEPT ![job[r].csp] = job[r].quota]
                  [] OTHER -> s.prov
    /\ t.conso = CASE op = "HSETNX_CONSO" -> [s.conso EXCEPT ![job[r].csp] = IF @ = None THEN 0 ELSE @]
                   [] op = "RENAME_CONSO" /\ s.conso[job[r].csp] # None -> [s.conso EXCEPT ![job[r].csp] = None]
                   [] op = "HINCRBY" -> [s.conso EXCEPT ![got[r].csp] = OrZero(@) + job[r].bytes]
                   [] OTHER -> s.conso
    /\ t.histo = IF op = "RENAME_CONSO" /\ s.conso[job[r].csp] # None
                 THEN [s.histo EXCEPT ![job[r].csp] = s.conso[job[r].csp]] ELSE s.histo

\* Effect changes that and nothing else.
LEMMA EffectFacts ==
    ASSUME IInv, NEW op \in Ops, NEW r \in Request, NEW s \in Store,
           op = "HINCRBY" => job[r].bytes \in Nat
    PROVE  EffectOf(op, r, s, Effect(op, r, s))
<1> USE DEF EffectOf
<1>1. CASE op = "SET_USER"
  BY <1>1 DEF Effect, SetUser, Store
<1>2. CASE op = "EXPIRE_USER"
  BY <1>2 DEF Effect, ExpireUser, Store
<1>3. CASE op = "HSETNX_PROV"
  BY <1>3 DEF Effect, HsetnxProv, Store
<1>4. CASE op = "HSETNX_CONSO"
  BY <1>4 DEF Effect, HsetnxConso, Store
<1>5. CASE op = "RENAME_CONSO"
  <2>1. CASE s.conso[job[r].csp] = None
    BY <1>5, <2>1 DEF Effect, RenameConso, Store
  <2>2. CASE s.conso[job[r].csp] # None
    BY <1>5, <2>2 DEF Effect, RenameConso, Store
  <2> QED  BY <2>1, <2>2
<1>6. CASE op = "RENAME_PROV"
  BY <1>6 DEF Effect, RenameProv, Store
<1>7. CASE op = "HMSET_PROV"
  BY <1>7 DEF Effect, HmsetProv, Store
<1>8. CASE op = "SET_KEY"
  BY <1>8 DEF Effect, SetKey, Store
<1>9. CASE op = "HINCRBY"
  BY <1>9 DEF Effect, HincrbyConso, OrZero, Store
<1>10. CASE op \notin {"SET_USER", "EXPIRE_USER", "HSETNX_PROV", "HSETNX_CONSO", "RENAME_CONSO",
                       "RENAME_PROV", "HMSET_PROV", "SET_KEY", "HINCRBY"}
  BY <1>10 DEF Effect, Store
<1> QED  BY <1>1, <1>2, <1>3, <1>4, <1>5, <1>6, <1>7, <1>8, <1>9, <1>10

\* What the command at the head of the pipe changes in the databases.
LEMMA ExecDb ==
    ASSUME IInv, Flow, Exec, NEW op, NEW r, NEW s, NEW t,
           op = pipe[1].op, r = pipe[1].r, s = db[selected], t = db'[selected]
    PROVE  /\ \A d \in Dbs : d # selected => db'[d] = db[d]
           /\ 1 \in 1..Len(pipe) /\ op \in Ops /\ r \in Request /\ s \in Store /\ t \in Store /\ selected \in Dbs
           /\ EffectOf(op, r, s, t)
<1>1. /\ 1 \in 1..Len(pipe) /\ s \in Store /\ db \in [Dbs -> Store] /\ selected \in Dbs
      /\ db' = [db EXCEPT ![selected] = Effect(op, r, s)]
  BY ExecFacts
<1>2. op \in Ops /\ r \in Request /\ (op = "HINCRBY" => job[r].bytes \in Nat)
  BY <1>1, CmdKind DEF Sound
<1>3. t = Effect(op, r, s) /\ \A d \in Dbs : d # selected => db'[d] = db[d]
  BY <1>1
<1>4. t \in Store
  <2>1. TypeOK'
    BY NextKeeps DEF Next, IInv, Base
  <2> QED  BY <1>1, <2>1 DEF TypeOK
<1>5. EffectOf(op, r, s, t)
  <2>1. EffectOf(op, r, s, Effect(op, r, s))
    BY <1>1, <1>2, EffectFacts
  <2> QED  BY <2>1, <1>3
<1> QED  BY <1>1, <1>2, <1>3, <1>4, <1>5

\* An awaited reply leaves the pipe for the replies on their way back.
LEMMA ExecFlow == ASSUME IInv, Flow, Exec PROVE Flow'
<1>1. /\ 1 \in 1..Len(pipe) /\ Len(pipe) \in Nat /\ Len(pipe') = Len(pipe) - 1
      /\ \A i \in 1..Len(pipe') : pipe'[i] = pipe[i + 1] /\ i + 1 \in 1..Len(pipe) /\ i + 1 # 1
      /\ inbox' = IF pipe[1].cb THEN Append(inbox, pipe[1].r) ELSE inbox
      /\ db' = [db EXCEPT ![selected] = Effect(pipe[1].op, pipe[1].r, db[selected])]
      /\ db[selected] \in Store /\ db \in [Dbs -> Store] /\ selected \in Dbs
      /\ UNCHANGED <<tasks, pc, job, answer>>
  BY ExecFacts
<1>2. /\ pipe[1] \in Command /\ pipe[1].r \in Request /\ pipe[1].op \in Ops /\ Sound(pipe[1])
      /\ pipe[1].op = "SET_KEY" => job[pipe[1].r].kind = "getCredentials"
  BY <1>1, CmdKind
<1>3. inbox \in Seq(Request) /\ tasks \in Seq(Request)
  BY DEF IInv, Base, TypeOK
<1>4. Argued'
  BY <1>1 DEF Flow, Argued, Known
<1>5. Keyed'
  <2>1. \A d \in Dbs : d # selected => db'[d] = db[d]
    BY <1>1
  <2>2. EffectOf(pipe[1].op, pipe[1].r, db[selected], db'[selected])
    BY ExecDb
  <2>3. db'[selected].cred = IF pipe[1].op = "SET_KEY" THEN db[selected].cred \cup {job[pipe[1].r].client}
                             ELSE db[selected].cred
    BY <2>2 DEF EffectOf
  <2>4. pipe[1].op = "SET_KEY" => Known(job[pipe[1].r].client)
    BY <1>2 DEF Flow, Argued
  <2>5. \A d \in Dbs : \A u \in db'[d].cred : Known(u)
    BY <1>1, <2>1, <2>3, <2>4 DEF Flow, Keyed
  <2> QED  BY <1>1, <2>5 DEF Keyed, Known
<1>6. Placed'
  BY <1>1 DEF Flow, Placed
<1>7. \A i, j \in 1..Len(pipe') : pipe'[i].cb /\ pipe'[j].cb /\ pipe'[i].r = pipe'[j].r => i = j
  <2> SUFFICES ASSUME NEW i \in 1..Len(pipe'), NEW j \in 1..Len(pipe'),
                      pipe'[i].cb, pipe'[j].cb, pipe'[i].r = pipe'[j].r
               PROVE  i = j
    OBVIOUS
  <2>1. i + 1 = j + 1
    BY <1>1 DEF Flow, Once
  <2>2. i \in Nat /\ j \in Nat
    BY <1>1
  <2> QED  BY <2>1, <2>2
<1>8. CASE ~pipe[1].cb
  <2>1. inbox' = inbox
    BY <1>1, <1>8
  <2>2. \A i \in 1..Len(pipe') : pipe'[i].cb =>
          /\ \A j \in 1..Len(inbox') : inbox'[j] # pipe'[i].r
          /\ \A j \in 1..Len(tasks') : tasks'[j] # pipe'[i].r
    BY <1>1, <2>1 DEF Flow, Once
  <2>3. Once'
    BY <1>1, <1>7, <2>1, <2>2 DEF Flow, Once
  <2> QED  BY <2>3, <1>4, <1>5, <1>6 DEF Flow
<1>9. CASE pipe[1].cb
  <2>1. /\ Len(inbox) \in Nat /\ Len(inbox') = Len(inbox) + 1
        /\ \A i \in 1..Len(inbox) : inbox'[i] = inbox[i]
        /\ inbox'[Len(inbox) + 1] = pipe[1].r
    BY <1>1, <1>2, <1>3, <1>9, AppendFacts
  <2>2. \A i \in 1..Len(inbox') : i \in 1..Len(inbox) \/ i = Len(inbox) + 1
    BY <2>1
  <2>3. /\ \A i \in 2..Len(pipe) : pipe[i].cb => pipe[i].r # pipe[1].r
        /\ \A j \in 1..Len(inbox) : inbox[j] # pipe[1].r
        /\ \A j \in 1..Len(tasks) : tasks[j] # pipe[1].r
        /\ pc[pipe[1].r] \in Waiting
    BY <1>1, <1>9 DEF Flow, Once, Placed
  <2>4. \A i \in 1..Len(pipe') : pipe'[i].cb =>
          /\ \A j \in 1..Len(inbox') : inbox'[j] # pipe'[i].r
          /\ \A j \in 1..Len(tasks') : tasks'[j] # pipe'[i].r
    <3> SUFFICES ASSUME NEW i \in 1..Len(pipe'), pipe'[i].cb
                 PROVE  /\ \A j \in 1..Len(inbox') : inbox'[j] # pipe'[i].r
                        /\ \A j \in 1..Len(tasks') : tasks'[j] # pipe'[i].r
      OBVIOUS
    <3>1. pipe'[i] = pipe[i + 1] /\ i + 1 \in 2..Len(pipe) /\ i + 1 \in 1..Len(pipe)
      BY <1>1
    <3>2. /\ \A j \in 1..Len(inbox) : inbox[j] # pipe'[i].r
          /\ \A j \in 1..Len(tasks) : tasks[j] # pipe'[i].r
      BY <3>1 DEF Flow, Once
    <3>3. pipe'[i].r # pipe[1].r
      BY <3>1, <2>3
    <3> QED  BY <1>1, <2>1, <2>2, <3>2, <3>3
  <2>5. \A i, j \in 1..Len(inbox') : inbox'[i] = inbox'[j] => i = j
    BY <2>1, <2>2, <2>3 DEF Flow, Once
  <2>6. \A i \in 1..Len(inbox') : \A j \in 1..Len(tasks') : inbox'[i] # tasks'[j]
    BY <1>1, <2>1, <2>2, <2>3 DEF Flow, Once
  <2>7. \A i \in 1..Len(inbox') : pc'[inbox'[i]] \in Waiting
    BY <1>1, <2>1, <2>2, <2>3 DEF Flow, Once
  <2>8. Once'
    BY <1>1, <1>7, <2>4, <2>5, <2>6, <2>7 DEF Flow, Once
  <2> QED  BY <2>8, <1>4, <1>5, <1>6 DEF Flow
<1> QED  BY <1>2, <1>8, <1>9

\* What a break of the connection does to the requests.
Breaks ==
    /\ Len(pipe') = 0 /\ Len(inbox') = 0 /\ up
    /\ \A r \in Request : pc'[r] \in Waiting => \E i \in 1..Len(tasks) : tasks[i] = r
    /\ \A i \in 1..Len(tasks) : tasks[i] \in Request \ CutOff
    /\ \A r \in CutOff : /\ r \in Request /\ pc[r] \in Waiting /\ pc'[r] \in {"done", "hung"}
                         /\ answer'[r] \in {answer[r], "notfound", "error"}
    /\ \A r \in CutOff : answer'[r] = "notfound" =>
          answer[r] = "notfound" \/ pc[r] = "infos" \/ job[r].kind = "getAppropriateTurn"
    /\ \A r \in Request \ CutOff : pc'[r] = pc[r] /\ answer'[r] = answer[r]
    /\ cut' = cut \cup CutOff
    /\ ~up' => \E r \in CutOff : job[r].kind = "getAllCspInfo"
    /\ UNCHANGED <<db, tasks, job, got, chosen, overlapped, misplaced, witness, carried, lapsed, pulled>>

\* That is what it does.
LEMMA LostBreaks == ASSUME IInv, ConnectionLost PROVE Breaks
<1>1. /\ pc \in [Request -> Pc] /\ answer \in [Request -> Answers] /\ tasks \in Seq(Request)
  BY DEF IInv, Base, TypeOK
<1>2. /\ pc' = [r \in Request |-> IF r \in CutOff THEN EndsAt(r) ELSE pc[r]]
      /\ answer' = [r \in Request |-> IF r \in CutOff /\ ~PollFails THEN AnswerToError(r)
                                       ELSE answer[r]]
      /\ UNCHANGED <<db, tasks, job, got, chosen, overlapped, misplaced, witness, carried, lapsed, pulled>>
      /\ up /\ up' = ~PollFails /\ cut' = cut \cup CutOff
  BY DEF ConnectionLost
<1>3. Len(pipe') = 0 /\ Len(inbox') = 0
  BY EmptySeq DEF ConnectionLost
<1>4. \A r \in CutOff : r \in Request /\ pc[r] \in Waiting /\ \A i \in 1..Len(tasks) : tasks[i] # r
  BY DEF CutOff
<1>5. \A i \in 1..Len(tasks) : tasks[i] \in Request \ CutOff
  <2>1. \A i \in 1..Len(tasks) : tasks[i] \in Request
    BY <1>1, ElementOfSeq
  <2> QED  BY <1>4, <2>1
<1>6. ASSUME NEW r \in CutOff
      PROVE  pc'[r] \in {"done", "hung"} /\ answer'[r] \in {answer[r], "notfound", "error"}
  <2>1. EndsAt(r) \in {"done", "hung"}
    BY DEF EndsAt
  <2>2. AnswerToError(r) \in {answer[r], "notfound", "error"}
    BY DEF AnswerToError
  <2> QED  BY <1>2, <1>4, <1>6, <2>1, <2>2
<1>7. \A r \in Request \ CutOff : pc'[r] = pc[r] /\ answer'[r] = answer[r]
  BY <1>2
<1>8. ASSUME NEW r \in Request, pc'[r] \in Waiting PROVE \E i \in 1..Len(tasks) : tasks[i] = r
  <2>1. r \notin CutOff
    BY <1>6, <1>8, PlaceFacts
  <2> QED  BY <1>7, <1>8, <2>1 DEF CutOff
<1>9. ~up' => \E r \in CutOff : job[r].kind = "getAllCspInfo"
  BY <1>2 DEF PollFails
<1>10. ASSUME NEW r \in CutOff, answer'[r] = "notfound"
       PROVE  answer[r] = "notfound" \/ pc[r] = "infos" \/ job[r].kind = "getAppropriateTurn"
  <2>1. answer'[r] = answer[r] \/ answer'[r] = AnswerToError(r)
    BY <1>2, <1>4, <1>10
  <2>2. AnswerToError(r) = "notfound" =>
           answer[r] = "notfound" \/ pc[r] = "infos" \/ job[r].kind = "getAppropriateTurn"
    BY DEF AnswerToError
  <2> QED  BY <1>10, <2>1, <2>2
<1> QED  BY <1>2, <1>3, <1>4, <1>5, <1>6, <1>7, <1>8, <1>9, <1>10 DEF Breaks

\* After a break nothing is awaited but the continuations.
LEMMA BreaksFlow == ASSUME IInv, Flow, Breaks PROVE Flow'
<1>1. \A r \in CutOff : r \in Request /\ pc[r] \in Waiting /\ answer[r] # "granted" /\ answer'[r] # "granted"
  BY PlaceFacts DEF Breaks, Flow, Argued
<1>2. \A r \in Request \ CutOff : pc'[r] = pc[r] /\ answer'[r] = answer[r]
  BY DEF Breaks
<1>3. job' = job /\ db' = db /\ tasks' = tasks
  BY DEF Breaks
<1>4. \A u : Known(u)' <=> Known(u)
  BY <1>1, <1>2 DEF Known
<1>5. ASSUME NEW s \in Request
      PROVE  /\ job[s].kind \in KindsAt(pc'[s])
             /\ job[s].kind = "deleteCSP" =>
                            job[s].csp \in Csp \/ (job[s].csp = None /\ pc'[s] = "hung")
             /\ answer'[s] = "granted" => job[s].kind = "getAppropriateTurn" /\ pc'[s] = "done"
  <2>1. CASE s \in CutOff
    <3>1. /\ job[s].kind \in KindsAt(pc[s]) /\ pc[s] # "hung"
          /\ pc'[s] \in {"done", "hung"}
      BY <1>1, <2>1, PlaceFacts DEF Breaks, Flow, Argued
    <3>2. job[s].kind \in AllKinds
      BY <1>1, <2>1, <3>1, PlaceFacts
    <3> QED  BY <1>1, <2>1, <3>1, <3>2, PlaceFacts DEF Flow, Argued
  <2>2. CASE s \notin CutOff
    BY <1>2, <2>2 DEF Flow, Argued
  <2> QED  BY <2>1, <2>2
<1>6. Argued'
  <2>1. \A s \in Request : Known(job[s].client) => Known(job[s].client)'
    BY <1>1, <1>2, <1>3 DEF Known
  <2> QED  BY <1>3, <1>5, <2>1 DEF Flow, Argued
<1>7. Keyed'
  BY <1>1, <1>2, <1>3 DEF Flow, Keyed, Known
<1>8. 1..Len(pipe') = {} /\ 1..Len(inbox') = {}
  BY DEF Breaks
<1>9. Placed'
  BY <1>8 DEF Placed
<1>10. \A i \in 1..Len(tasks') : pc'[tasks'[i]] \in Waiting
  BY <1>2, <1>3 DEF Breaks, Flow, Once
<1>11. Once'
  BY <1>3, <1>8, <1>10 DEF Flow, Once
<1> QED  BY <1>6, <1>7, <1>9, <1>11 DEF Flow

\* Nothing moves on the connection when a key expires or a TURN server changes.
LEMMA QuietFlow ==
    ASSUME IInv, Flow, UNCHANGED <<pipe, inbox, tasks, pc, job, answer>>,
           \A d \in Dbs : db'[d].cred = db[d].cred
    PROVE  Flow'
<1>1. Argued' /\ Keyed'
  BY DEF Flow, Argued, Keyed, Known
<1>2. Placed' /\ Once'
  BY DEF Flow, Placed, Once
<1> QED  BY <1>1, <1>2 DEF Flow
-----------------------------------------------------------------------------
(***************************************************************************)
(* registerUser.                                                           *)
(***************************************************************************)
\* The commands that are sent follow those of the pipe.
Grown(cmds) ==
    /\ Len(pipe) \in Nat /\ Len(cmds) \in Nat /\ Len(pipe') = Len(pipe) + Len(cmds)
    /\ \A i \in 1..Len(pipe) : i \in 1..Len(pipe') /\ pipe'[i] = pipe[i] /\ pipe[i].r \in Request
    /\ \A i \in 1..Len(pipe') :
          i \in 1..Len(pipe) \/ \E k \in 1..Len(cmds) : i = Len(pipe) + k /\ pipe'[i] = cmds[k]
    /\ \A k \in 1..Len(cmds) : Len(pipe) + k \in 1..Len(pipe') /\ pipe'[Len(pipe) + k] = cmds[k]

\* That is what sending does.
LEMMA GrowPipe ==
    ASSUME IInv, NEW r \in Request, NEW kind, NEW next \in Pc, NEW cmds,
           Sends(r, kind, next, cmds), pipe' = pipe \o cmds
    PROVE  Grown(cmds)
<1>1. pipe \in Seq(Command) /\ cmds \in Seq(Command)
  <2>1. SentBy(r, kind, next, cmds)
    BY SendsFacts
  <2> QED  BY <2>1 DEF SentBy, IInv, Base, TypeOK
<1>2. /\ Len(pipe') = Len(pipe) + Len(cmds) /\ Len(pipe) \in Nat /\ Len(cmds) \in Nat
      /\ \A i \in 1..Len(pipe) : pipe'[i] = pipe[i]
      /\ \A i \in Len(pipe)+1..Len(pipe)+Len(cmds) :
            i - Len(pipe) \in 1..Len(cmds) /\ pipe'[i] = cmds[i - Len(pipe)]
  BY <1>1, PipeExtends
<1>3. \A i \in 1..Len(pipe) : pipe[i].r \in Request
  <2>1. \A i \in 1..Len(pipe) : pipe[i] \in Command
    BY <1>1, ElementOfSeq
  <2> QED  BY <2>1 DEF Command
<1>4. ASSUME NEW i \in 1..Len(pipe'), i \notin 1..Len(pipe)
      PROVE  \E k \in 1..Len(cmds) : i = Len(pipe) + k /\ pipe'[i] = cmds[k]
  <2>1. i \in Len(pipe)+1..Len(pipe)+Len(cmds)
    BY <1>2, <1>4
  <2>2. i - Len(pipe) \in 1..Len(cmds) /\ pipe'[i] = cmds[i - Len(pipe)] /\ i = Len(pipe) + (i - Len(pipe))
    BY <1>2, <2>1
  <2> QED  BY <2>2
<1>5. ASSUME NEW k \in 1..Len(cmds)
      PROVE  Len(pipe) + k \in 1..Len(pipe') /\ pipe'[Len(pipe) + k] = cmds[k]
  <2>1. Len(pipe) + k \in Len(pipe)+1..Len(pipe)+Len(cmds) /\ (Len(pipe) + k) - Len(pipe) = k
    BY <1>2
  <2> QED  BY <1>2, <2>1
<1>6. \A i \in 1..Len(pipe) : i \in 1..Len(pipe')
  BY <1>2
<1> QED  BY <1>2, <1>3, <1>4, <1>5, <1>6 DEF Grown

\* The commands of registerUser are sent together, by getAppropriateTurn alone.
LEMMA SendsUser ==
    ASSUME NEW r \in Request, NEW kind, NEW next \in Pc, NEW cmds, Sends(r, kind, next, cmds)
    PROVE  LET together ==
                 /\ kind = "getAppropriateTurn" /\ next = "infosSelected" /\ Len(cmds) = 4
                 /\ cmds[1].op = "SELECT_2" /\ cmds[1].r = r
                 /\ cmds[2].op = "SET_USER" /\ cmds[2].r = r
                 /\ cmds[3].op = "EXPIRE_USER" /\ cmds[3].r = r
                 /\ cmds[4].op = "SELECT_2" /\ cmds[4].r = r /\ cmds[4].cb
           IN  /\ Len(cmds) = 4 => together
               /\ \A k \in 1..Len(cmds) :
                     /\ cmds[k].op = "SET_USER" => together /\ k = 2
                     /\ cmds[k].op = "EXPIRE_USER" => together /\ k = 3
<1> USE DEF Cmd, Await
<1>1. CASE next \in Waiting /\ cmds = <<Await(Op(next), r)>>
  <2>1. Op(next) \notin {"SET_USER", "EXPIRE_USER"}
    BY <1>1 DEF Op
  <2>2. Len(cmds) = 1 /\ cmds[1].op = Op(next)
    BY <1>1
  <2> QED  BY <2>1, <2>2
<1>2. CASE next \in {"done", "hung"} /\ cmds = <<>>
  BY <1>2
<1>3. CASE /\ kind = "provRequest" /\ next = "done"
           /\ cmds = <<Cmd("HSETNX_PROV", r), Cmd("HSETNX_CONSO", r)>>
  BY <1>3
<1>4. CASE /\ kind = "deleteCSP" /\ next = "renamed"
           /\ cmds = <<Cmd("SELECT_2", r), Cmd("RENAME_CONSO", r), Await("RENAME_PROV", r)>>
  BY <1>4
<1>5. CASE /\ kind = "getAllCspInfo" /\ next = "allKeys"
           /\ cmds = <<Cmd("SELECT_2", r), Await("KEYS_PROV", r)>>
  BY <1>5
<1>6. CASE /\ kind = "getAppropriateTurn" /\ next = "infosSelected"
           /\ cmds = <<Cmd("SELECT_2", r), Cmd("SET_USER", r), Cmd("EXPIRE_USER", r)>> \o <<Await("SELECT_2", r)>>
  <2>1. /\ Len(cmds) = 4
        /\ cmds[1].op = "SELECT_2" /\ cmds[1].r = r /\ cmds[2].op = "SET_USER" /\ cmds[2].r = r
        /\ cmds[3].op = "EXPIRE_USER" /\ cmds[3].r = r
        /\ cmds[4].op = "SELECT_2" /\ cmds[4].r = r /\ cmds[4].cb
    BY <1>6
  <2> QED  BY <1>6, <2>1
<1> QED  BY <1>1, <1>2, <1>3, <1>4, <1>5, <1>6 DEF Sends

\* A request for which registerUser has not run still awaits a reply.
LEMMA ExpireAwaits ==
    ASSUME IInv, Registering, NEW r, NEW i \in 1..Len(pipe), pipe[i].op = "EXPIRE_USER", pipe[i].r = r
    PROVE  pc[r] = "infosSelected" /\ \E j \in 1..Len(pipe) : pipe[j].r = r /\ pipe[j].cb
<1>1. pc[r] = "infosSelected" /\ \E j \in (i + 1)..Len(pipe) : pipe[j].r = r /\ pipe[j].cb
  BY DEF Registering
<1> QED  BY <1>1

\* The commands of registerUser stay together when others are sent.
LEMMA GrowRegistering ==
    ASSUME IInv, Flow, Registering, NEW r \in Request, NEW kind, NEW next \in Pc, NEW cmds,
           Sends(r, kind, next, cmds), pipe' = pipe \o cmds, pc' = [pc EXCEPT ![r] = next], Free(r),
           \A s \in Request : s # r => job'[s] = job[s], UNCHANGED <<db, selected>>
    PROVE  Registering'
<1>1. /\ Len(pipe) \in Nat /\ Len(cmds) \in Nat /\ Len(pipe') = Len(pipe) + Len(cmds)
      /\ \A i \in 1..Len(pipe) : i \in 1..Len(pipe') /\ pipe'[i] = pipe[i] /\ pipe[i].r \in Request
      /\ \A i \in 1..Len(pipe') :
            i \in 1..Len(pipe) \/ \E k \in 1..Len(cmds) : i = Len(pipe) + k /\ pipe'[i] = cmds[k]
      /\ \A k \in 1..Len(cmds) : Len(pipe) + k \in 1..Len(pipe') /\ pipe'[Len(pipe) + k] = cmds[k]
  <2>1. Grown(cmds)
    BY GrowPipe
  <2> QED  BY <2>1 DEF Grown
<1>2. pc'[r] = next /\ \A s \in Request : s # r => pc'[s] = pc[s]
  BY DEF IInv, Base, TypeOK
<1>3. \A i \in 1..Len(pipe) : pipe[i].op = "EXPIRE_USER" => pipe[i].r # r
  BY ExpireAwaits DEF Free
<1>4. \A k \in 1..Len(cmds) : cmds[k].op \in {"SET_USER", "EXPIRE_USER"} => cmds[k].r = r
  <2>1. SentBy(r, kind, next, cmds)
    BY SendsFacts
  <2> QED  BY <2>1 DEF SentBy
<1>5. ASSUME NEW i \in 1..Len(pipe')
      PROVE  LET q == pipe'[i].r
                 Next2 == \/ i = 1 /\ selected' = 2
                          \/ i > 1 /\ pipe'[i - 1].op = "SELECT_2"
             IN  /\ pipe'[i].op = "SET_USER" =>
                       /\ Next2
                       /\ i < Len(pipe') /\ pipe'[i + 1].op = "EXPIRE_USER" /\ pipe'[i + 1].r = q
                 /\ pipe'[i].op = "EXPIRE_USER" =>
                       /\ \/ i = 1 /\ selected' = 2 /\ db'[2].users[q] = job'[q].csp /\ q \notin db'[2].ttl
                          \/ i > 1 /\ pipe'[i - 1].op = "SET_USER" /\ pipe'[i - 1].r = q
                       /\ pc'[q] = "infosSelected"
                       /\ \E j \in (i + 1)..Len(pipe') : pipe'[j].r = q /\ pipe'[j].cb
                       /\ \A j \in 1..Len(pipe') : pipe'[j].op = "EXPIRE_USER" /\ pipe'[j].r = q => i = j
  <2>1. CASE i \in 1..Len(pipe)
    <3>1. pipe'[i] = pipe[i] /\ (i > 1 => i - 1 \in 1..Len(pipe) /\ pipe'[i - 1] = pipe[i - 1])
      BY <1>1, <2>1
    <3>2. CASE pipe[i].op = "SET_USER"
      <4>1. /\ (i = 1 /\ selected = 2) \/ (i > 1 /\ pipe[i - 1].op = "SELECT_2")
            /\ i < Len(pipe) /\ pipe[i + 1].op = "EXPIRE_USER" /\ pipe[i + 1].r = pipe[i].r
        BY <2>1, <3>2 DEF Registering
      <4>2. i + 1 \in 1..Len(pipe) /\ i < Len(pipe')
        BY <1>1, <2>1, <4>1
      <4> QED  BY <1>1, <3>1, <3>2, <4>1, <4>2
    <3>3. CASE pipe[i].op = "EXPIRE_USER"
      <4>1. /\ \/ i = 1 /\ selected = 2 /\ db[2].users[pipe[i].r] = job[pipe[i].r].csp
                  /\ pipe[i].r \notin db[2].ttl
               \/ i > 1 /\ pipe[i - 1].op = "SET_USER" /\ pipe[i - 1].r = pipe[i].r
            /\ pc[pipe[i].r] = "infosSelected"
            /\ \A j \in 1..Len(pipe) : pipe[j].op = "EXPIRE_USER" /\ pipe[j].r = pipe[i].r => i = j
        BY <2>1, <3>3 DEF Registering
      <4>2. PICK j \in (i + 1)..Len(pipe) : pipe[j].r = pipe[i].r /\ pipe[j].cb
        BY <2>1, <3>3 DEF Registering
      <4>3. j \in (i + 1)..Len(pipe') /\ pipe'[j] = pipe[j]
        BY <1>1, <2>1, <4>2
      <4>4. pipe[i].r # r /\ pipe[i].r \in Request
        BY <1>1, <1>3, <2>1, <3>3
      <4>5. \A k \in 1..Len(pipe') : pipe'[k].op = "EXPIRE_USER" /\ pipe'[k].r = pipe[i].r => i = k
        <5> SUFFICES ASSUME NEW k \in 1..Len(pipe'), pipe'[k].op = "EXPIRE_USER", pipe'[k].r = pipe[i].r
                     PROVE  i = k
          OBVIOUS
        <5>1. CASE k \in 1..Len(pipe)
          <6>1. pipe'[k] = pipe[k]
            BY <1>1, <5>1
          <6> QED  BY <4>1, <5>1, <6>1
        <5>2. CASE \E l \in 1..Len(cmds) : pipe'[k] = cmds[l]
          <6>1. PICK l \in 1..Len(cmds) : pipe'[k] = cmds[l]
            BY <5>2
          <6>2. pipe'[k].r = r
            BY <1>4, <6>1
          <6> QED  BY <4>4, <6>2
        <5> QED  BY <1>1, <5>1, <5>2
      <4>6. pc'[pipe[i].r] = "infosSelected" /\ job'[pipe[i].r] = job[pipe[i].r]
        BY <1>2, <4>1, <4>4
      <4> QED  BY <3>1, <3>3, <4>1, <4>2, <4>3, <4>5, <4>6
    <3> QED  BY <3>1, <3>2, <3>3
  <2>2. CASE \E k \in 1..Len(cmds) : i = Len(pipe) + k /\ pipe'[i] = cmds[k]
    <3>1. PICK k \in 1..Len(cmds) : i = Len(pipe) + k /\ pipe'[i] = cmds[k]
      BY <2>2
    <3>2. CASE pipe'[i].op \in {"SET_USER", "EXPIRE_USER"}
      <4>1. /\ Len(cmds) = 4 /\ next = "infosSelected"
            /\ cmds[1].op = "SELECT_2" /\ cmds[1].r = r
            /\ cmds[2].op = "SET_USER" /\ cmds[2].r = r
            /\ cmds[3].op = "EXPIRE_USER" /\ cmds[3].r = r
            /\ cmds[4].op = "SELECT_2" /\ cmds[4].r = r /\ cmds[4].cb
            /\ cmds[k].op = "SET_USER" => k = 2
            /\ cmds[k].op = "EXPIRE_USER" => k = 3
        BY <3>1, <3>2, SendsUser
      <4>2. /\ pipe'[Len(pipe) + 1] = cmds[1] /\ pipe'[Len(pipe) + 2] = cmds[2]
            /\ pipe'[Len(pipe) + 3] = cmds[3] /\ pipe'[Len(pipe) + 4] = cmds[4]
            /\ Len(pipe') = Len(pipe) + 4
        BY <1>1, <4>1
      <4>3. \A j \in 1..Len(cmds) : cmds[j].op = "EXPIRE_USER" => j = 3
        BY SendsUser
      <4>4. CASE cmds[k].op = "SET_USER"
        <5>1. i = Len(pipe) + 2 /\ i - 1 = Len(pipe) + 1 /\ i + 1 = Len(pipe) + 3 /\ i > 1
          BY <1>1, <3>1, <4>1, <4>4
        <5> QED  BY <3>1, <4>1, <4>2, <4>4, <5>1
      <4>5. CASE cmds[k].op = "EXPIRE_USER"
        <5>1. i = Len(pipe) + 3 /\ i - 1 = Len(pipe) + 2 /\ i + 1 = Len(pipe) + 4 /\ i > 1
          BY <1>1, <3>1, <4>1, <4>5
        <5>2. Len(pipe) + 4 \in (i + 1)..Len(pipe')
          BY <1>1, <4>2, <5>1
        <5>3. \A j \in 1..Len(pipe') : pipe'[j].op = "EXPIRE_USER" /\ pipe'[j].r = r => i = j
          BY <1>1, <1>3, <4>3, <5>1
        <5>4. \E j \in (i + 1)..Len(pipe') : pipe'[j].r = r /\ pipe'[j].cb
          BY <4>1, <4>2, <5>2
        <5>5. pipe'[i].r = r /\ pipe'[i].op = "EXPIRE_USER"
          BY <3>1, <4>1, <4>5
        <5> QED  BY <1>2, <4>1, <4>2, <5>1, <5>3, <5>4, <5>5
      <4> QED  BY <3>1, <3>2, <4>4, <4>5
    <3> QED  BY <3>2
  <2> QED  BY <1>1, <2>1, <2>2
<1> QED  BY <1>5 DEF Registering

\* Once SELECT 2 has run, SET runs in database 2, and EXPIRE right after it.
LEMMA ExecRegistering == ASSUME IInv, Flow, Registering, Exec PROVE Registering'
<1>1. /\ 1 \in 1..Len(pipe) /\ Len(pipe) \in Nat /\ Len(pipe') = Len(pipe) - 1
      /\ \A i \in 1..Len(pipe') : pipe'[i] = pipe[i + 1] /\ i + 1 \in 1..Len(pipe) /\ i + 1 # 1
      /\ selected' = IF IsSelect(pipe[1].op) THEN SelectedBy(pipe[1].op) ELSE selected
      /\ UNCHANGED <<pc, job>>
  BY ExecFacts
<1>2. EffectOf(pipe[1].op, pipe[1].r, db[selected], db'[selected]) /\ db[selected] \in Store
  BY ExecDb
<1>3. ASSUME NEW i \in 1..Len(pipe')
      PROVE  LET q == pipe'[i].r
                 Next2 == \/ i = 1 /\ selected' = 2
                          \/ i > 1 /\ pipe'[i - 1].op = "SELECT_2"
             IN  /\ pipe'[i].op = "SET_USER" =>
                       /\ Next2
                       /\ i < Len(pipe') /\ pipe'[i + 1].op = "EXPIRE_USER" /\ pipe'[i + 1].r = q
                 /\ pipe'[i].op = "EXPIRE_USER" =>
                       /\ \/ i = 1 /\ selected' = 2 /\ db'[2].users[q] = job'[q].csp /\ q \notin db'[2].ttl
                          \/ i > 1 /\ pipe'[i - 1].op = "SET_USER" /\ pipe'[i - 1].r = q
                       /\ pc'[q] = "infosSelected"
                       /\ \E j \in (i + 1)..Len(pipe') : pipe'[j].r = q /\ pipe'[j].cb
                       /\ \A j \in 1..Len(pipe') : pipe'[j].op = "EXPIRE_USER" /\ pipe'[j].r = q => i = j
  <2>1. /\ pipe'[i] = pipe[i + 1] /\ i + 1 \in 1..Len(pipe) /\ i + 1 > 1 /\ (i + 1) - 1 = i /\ i \in 1..Len(pipe)
        /\ i > 1 => pipe'[i - 1] = pipe[i] /\ i - 1 \in 1..Len(pipe')
    <3>1. /\ i \in Nat /\ i + 1 > 1 /\ (i + 1) - 1 = i /\ i \in 1..Len(pipe)
          /\ i > 1 => i - 1 \in 1..Len(pipe') /\ (i - 1) + 1 = i
      BY <1>1
    <3> QED  BY <1>1, <3>1
  <2>2. CASE pipe[i + 1].op = "SET_USER"
    <3>1. /\ pipe[i].op = "SELECT_2" /\ i + 1 < Len(pipe)
          /\ pipe[(i + 1) + 1].op = "EXPIRE_USER" /\ pipe[(i + 1) + 1].r = pipe[i + 1].r
      BY <2>1, <2>2 DEF Registering
    <3>2. i + 1 \in 1..Len(pipe') /\ i < Len(pipe')
      BY <1>1, <2>1, <3>1
    <3>3. i = 1 => selected' = 2
      BY <1>1, <3>1 DEF IsSelect, SelectedBy
    <3> QED  BY <1>1, <2>1, <2>2, <3>1, <3>2, <3>3
  <2>3. CASE pipe[i + 1].op = "EXPIRE_USER"
    <3> DEFINE q == pipe[i + 1].r
    <3>1. /\ pipe[i].op = "SET_USER" /\ pipe[i].r = q
          /\ pc[q] = "infosSelected"
          /\ \A j \in 1..Len(pipe) : pipe[j].op = "EXPIRE_USER" /\ pipe[j].r = q => i + 1 = j
      BY <2>1, <2>3 DEF Registering
    <3>2. PICK j \in ((i + 1) + 1)..Len(pipe) : pipe[j].r = q /\ pipe[j].cb
      BY <2>1, <2>3 DEF Registering
    <3>3. j - 1 \in (i + 1)..Len(pipe') /\ (j - 1) + 1 = j /\ j - 1 \in 1..Len(pipe')
      BY <1>1, <2>1, <3>2
    <3>4. \E k \in (i + 1)..Len(pipe') : pipe'[k].r = q /\ pipe'[k].cb
      BY <1>1, <3>2, <3>3
    <3>5. \A k \in 1..Len(pipe') : pipe'[k].op = "EXPIRE_USER" /\ pipe'[k].r = q => i = k
      <4> SUFFICES ASSUME NEW k \in 1..Len(pipe'), pipe'[k].op = "EXPIRE_USER", pipe'[k].r = q
                   PROVE  i = k
        OBVIOUS
      <4>1. i + 1 = k + 1
        BY <1>1, <3>1
      <4>2. i \in Nat /\ k \in Nat
        BY <1>1
      <4> QED  BY <4>1, <4>2
    <3>6. i = 1 => selected' = 2 /\ db'[2].users[q] = job'[q].csp /\ q \notin db'[2].ttl
      <4> SUFFICES ASSUME i = 1 PROVE selected' = 2 /\ db'[2].users[q] = job'[q].csp /\ q \notin db'[2].ttl
        OBVIOUS
      <4>1. pipe[1].op = "SET_USER" /\ pipe[1].r = q
        BY <3>1
      <4>2. selected = 2
        BY <1>1, <4>1 DEF Registering
      <4>3. selected' = 2
        BY <1>1, <4>1, <4>2 DEF IsSelect
      <4>4. db'[2].users = [db[2].users EXCEPT ![q] = job[q].csp] /\ db'[2].ttl = db[2].ttl \ {q}
        BY <1>2, <4>1, <4>2 DEF EffectOf
      <4>5. q \in DOMAIN db[2].users
        <5>1. q \in Request
          BY <1>1, <4>1, CmdKind
        <5> QED  BY <1>2, <4>2, <5>1 DEF Store, Client
      <4> QED  BY <1>1, <4>3, <4>4, <4>5
    <3>7. i > 1 => pipe'[i - 1].op = "SET_USER" /\ pipe'[i - 1].r = q
      BY <2>1, <3>1
    <3> QED  BY <1>1, <2>1, <2>3, <3>1, <3>4, <3>5, <3>6, <3>7
  <2> QED  BY <2>1, <2>2, <2>3
<1> QED  BY <1>3 DEF Registering
-----------------------------------------------------------------------------
(***************************************************************************)
(* Each step keeps what its commands found and left in the databases.      *)
(***************************************************************************)
\* The condition under which notifications find their client.
Calm == lapsed = {} /\ \A r \in overlapped \cup cut : job[r].kind # "addCSPConso"

\* A client that was handed out, and whose entry is still there, leads to its CSP.
LEMMA KnownClient ==
    ASSUME IInv, FInv, NEW u, Known(u), u \notin lapsed, OwnerOf(u) # None
    PROVE  u \in Client /\ db[2].users[u] \in Csp
<1>1. CASE u \in OldClient
  <2>1. OwnerOf(u) = OldOwner[u]
    BY <1>1, NoneAssumption DEF OwnerOf
  <2> QED  BY <1>1, <2>1, OwnerAssumption DEF FInv, Billable, Client
<1>2. CASE u \in Request /\ answer[u] = "granted"
  <2>1. job[u].kind = "getAppropriateTurn" /\ pc[u] = "done" /\ job[u].csp \in Csp
    BY <1>2 DEF FInv, Flow, Argued
  <2>2. \A i \in 1..Len(pipe) : ~(pipe[i].op = "EXPIRE_USER" /\ pipe[i].r = u)
    BY <2>1, ExpireAwaits DEF FInv
  <2>3. u \notin cut
    BY <1>2 DEF FInv, Severed
  <2> QED  BY <1>2, <2>1, <2>2, <2>3 DEF FInv, Billable, Client
<1> QED  BY <1>1, <1>2 DEF Known

\* What has happened to a notification has happened.
LEMMA AstrayStays ==
    ASSUME FInv, NEW s \in Request, job[s].kind = "addCSPConso", Astray(s), job'[s] = job[s],
           lapsed \subseteq lapsed', misplaced \subseteq misplaced'
    PROVE  Astray(s)'
<1>1. CASE job[s].client \in lapsed \/ s \in misplaced
  BY <1>1 DEF Astray
<1>2. CASE OwnerOf(job[s].client) = None
  <2>1. Known(job[s].client)
    BY DEF FInv, Flow, Argued
  <2>2. ~(job[s].client \in Request /\ answer[job[s].client] = "granted")
    BY <1>2, NoneAssumption DEF FInv, Flow, Argued, OwnerOf
  <2>3. job[s].client \in OldClient /\ job[s].client \notin Request
    BY <2>1, <2>2, NoneAssumption DEF Known
  <2>4. OldOwner[job[s].client] = None
    BY <1>2, <2>3 DEF OwnerOf
  <2> QED  BY <2>3, <2>4 DEF Astray, OwnerOf
<1> QED  BY <1>1, <1>2 DEF Astray

\* A notification that has not found its CSP stays one.
LEMMA UnresolvedStays ==
    ASSUME FInv, NEW s \in Request, Unresolved(s), job'[s] = job[s], got'[s].csp = got[s].csp,
           pc'[s] \in {"incr", "done", "hung"},
           lapsed \subseteq lapsed', misplaced \subseteq misplaced'
    PROVE  Unresolved(s)'
<1>1. Astray(s)'
  BY AstrayStays DEF Unresolved
<1> QED  BY <1>1 DEF Unresolved

\* So what is on the null CSP stays accounted for.
LEMMA BookedStays ==
    ASSUME FInv, \A d \in Dbs : db'[d].conso[NullCsp] = db[d].conso[NullCsp],
           \A s \in Request : job[s].kind = "addCSPConso" /\ pc[s] \in {"incr", "done", "hung"} =>
              job'[s] = job[s] /\ got'[s].csp = got[s].csp /\ pc'[s] \in {"incr", "done", "hung"},
           lapsed \subseteq lapsed', misplaced \subseteq misplaced'
    PROVE  Booked'
<1> SUFFICES ASSUME NEW d \in Dbs, db'[d].conso[NullCsp] # None PROVE \E s \in Request : Unresolved(s)'
  BY DEF Booked
<1>1. PICK s \in Request : Unresolved(s)
  BY DEF FInv, Booked
<1>2. job'[s] = job[s] /\ got'[s].csp = got[s].csp /\ pc'[s] \in {"incr", "done", "hung"}
  BY <1>1 DEF Unresolved
<1> QED  BY <1>1, <1>2, UnresolvedStays

\* What is known of a poll stays so while no command runs.
LEMMA PolledStays ==
    ASSUME FInv, db'[2].prov = db[2].prov, got' = got,
           misplaced \subseteq misplaced', pulled \subseteq pulled', cut \subseteq cut',
           \A p \in Request : job[p].kind = "getAllCspInfo" => job'[p] = job[p],
           \A p \in Request : job'[p].kind = "getAllCspInfo" =>
              \/ got[p] = NoReply
              \/ /\ job[p].kind = "getAllCspInfo"
                 /\ p \in Polling' => p \in Polling \cup misplaced' \cup pulled',
           ~up' => ~up \/ \E p \in Request : job'[p].kind = "getAllCspInfo" /\ p \in pulled' \cup misplaced' \cup cut'
    PROVE  Polled'
<1>1. ASSUME NEW p \in Request, job'[p].kind = "getAllCspInfo", p \notin misplaced' \cup pulled'
      PROVE  got'[p].ok /\ (p \in Polling' => \A c \in got'[p].provs : db'[2].prov[c] # None)
  <2>1. CASE got[p] = NoReply
    BY <2>1 DEF NoReply
  <2>2. CASE job[p].kind = "getAllCspInfo" /\ (p \in Polling' => p \in Polling)
    <3>1. p \notin misplaced \cup pulled
      BY <1>1
    <3>2. got[p].ok /\ (p \in Polling => \A c \in got[p].provs : db[2].prov[c] # None)
      BY <2>2, <3>1 DEF FInv, Polled
    <3> QED  BY <2>2, <3>2
  <2> QED  BY <1>1, <2>1, <2>2
<1>2. CrashOnlyInPoll'
  <2>1. CASE ~up
    <3>1. PICK p \in Request : job[p].kind = "getAllCspInfo" /\ p \in pulled \cup misplaced \cup cut
      BY <2>1 DEF FInv, Polled, CrashOnlyInPoll
    <3>2. job'[p].kind = "getAllCspInfo" /\ p \in pulled' \cup misplaced' \cup cut'
      BY <3>1
    <3> QED  BY <3>2 DEF CrashOnlyInPoll
  <2>2. CASE up
    BY <2>2 DEF CrashOnlyInPoll
  <2> QED  BY <2>1, <2>2
<1> QED  BY <1>1, <1>2 DEF Polled

\* A request that arrives changes nothing of what the others rely on.
LEMMA ArrivesRest ==
    ASSUME IInv, FInv, NEW r \in Request, NEW j, NEW cmds, NEW next, Arrives(r, j, cmds, next)
    PROVE  FInv'
<1>1. /\ pc \in [Request -> Pc] /\ job \in [Request -> Job] /\ next \in Pc /\ overlapped \subseteq Request
  BY DEF IInv, Base, TypeOK, Arrives, Pc
<1>2. /\ job'[r] = j /\ \A s \in Request : s # r => job'[s] = job[s]
      /\ pc'[r] = next /\ \A s \in Request : s # r => pc'[s] = pc[s]
      /\ next # "idle" /\ pc[r] = "idle"
      /\ UNCHANGED <<db, selected, got, up, misplaced, lapsed, cut, pulled>>
      /\ Sends(r, j.kind, next, cmds) /\ pipe' = pipe \o cmds /\ pc' = [pc EXCEPT ![r] = next]
      /\ overlapped \subseteq overlapped' /\ UNCHANGED <<inbox, tasks>>
  BY <1>1, PlaceFacts DEF Arrives
<1>3. job[r].kind = "none"
  BY <1>2, PlaceFacts DEF FInv, Flow, Argued
<1>14. \A s \in Request : s # r => answer'[s] = answer[s]
  BY DEF Arrives, IInv, Base, TypeOK
<1>4. Free(r) /\ \A i \in 1..Len(pipe) : pipe[i].r # r
  BY <1>2, IdleFree DEF FInv
<1>5. Flow'
  BY ArrivesFlow DEF FInv
<1>6. Registering'
  BY <1>1, <1>2, <1>4, GrowRegistering DEF FInv
<1>7. Fresh'
  BY <1>2, PlaceFacts DEF FInv, Fresh
<1>8. Grown(cmds)
  BY <1>1, <1>2, GrowPipe
<1>9. Billable'
  <2>1. ASSUME NEW s \in Request, job'[s].kind = "getAppropriateTurn"
        PROVE  \/ \E i \in 1..Len(pipe') : pipe'[i].op = "EXPIRE_USER" /\ pipe'[i].r = s
               \/ s \in lapsed' \cup cut'
               \/ db'[2].users[s] = job'[s].csp /\ s \in db'[2].ttl
    <3>1. CASE s = r
      <4>1. Len(cmds) = 4
        BY <1>2, <2>1, <3>1 DEF Arrives
      <4>2. cmds[3].op = "EXPIRE_USER" /\ cmds[3].r = r
        BY <1>1, <1>2, <4>1, SendsUser
      <4>3. 3 \in 1..Len(cmds)
        BY <4>1
      <4> QED  BY <1>8, <3>1, <4>2, <4>3 DEF Grown
    <3>2. CASE s # r
      BY <1>2, <1>8, <2>1, <3>2 DEF FInv, Billable, Grown
    <3> QED  BY <3>1, <3>2
  <2>2. \A u \in OldClient :
            \/ u \in lapsed'
            \/ OldOwner[u] = None
            \/ db'[2].users[u] = OldOwner[u] /\ u \in db'[2].ttl
    BY <1>2 DEF FInv, Billable
  <2> QED  BY <2>1, <2>2 DEF Billable
<1>10. Severed'
  <2>1. \A s \in cut : s \in Request /\ s # r
    BY <1>2 DEF FInv, Severed, IInv, Base, TypeOK
  <2> QED  BY <1>2, <1>14, <2>1 DEF FInv, Severed
<1>11. Polled'
  <2>1. got[r] = NoReply
    BY <1>2 DEF FInv, Fresh
  <2>2. \A p \in Request : job[p].kind = "getAllCspInfo" => job'[p] = job[p]
    BY <1>2, <1>3
  <2>3. ASSUME NEW p \in Request, p # r
        PROVE  job'[p] = job[p] /\ (p \in Polling' => p \in Polling)
    BY <1>2, <2>3 DEF Polling
  <2>4. \A p \in Request : job'[p].kind = "getAllCspInfo" =>
            \/ got[p] = NoReply
            \/ /\ job[p].kind = "getAllCspInfo"
               /\ p \in Polling' => p \in Polling \cup misplaced' \cup pulled'
    BY <2>1, <2>3
  <2> QED  BY <1>2, <2>2, <2>4, PolledStays
<1>12. Resolved'
  <2>1. ASSUME NEW s \in Request, job'[s].kind = "addCSPConso"
        PROVE  \/ Astray(s)' \/ s \in cut'
               \/ got'[s].csp # NullCsp
               \/ pc'[s] = "userSelected"
               \/ pc'[s] = "user" /\ \E i \in 1..Len(pipe') : pipe'[i].cb /\ pipe'[i].r = s
    <3>1. CASE s = r
      BY <1>2, <2>1, <3>1 DEF Arrives
    <3>2. CASE s # r
      <4>1. job'[s] = job[s] /\ job[s].kind = "addCSPConso"
        BY <1>2, <2>1, <3>2
      <4>2. Astray(s) => Astray(s)'
        BY <1>2, <4>1, AstrayStays
      <4> QED  BY <1>2, <1>8, <3>2, <4>1, <4>2 DEF FInv, Resolved, Grown
    <3> QED  BY <3>1, <3>2
  <2> QED  BY <2>1 DEF Resolved
<1>13. Booked'
  <2>1. \A s \in Request : job[s].kind = "addCSPConso" /\ pc[s] \in {"incr", "done", "hung"} =>
          job'[s] = job[s] /\ got'[s].csp = got[s].csp /\ pc'[s] \in {"incr", "done", "hung"}
    BY <1>2
  <2> QED  BY <1>2, <2>1, BookedStays
<1> QED  BY <1>5, <1>6, <1>7, <1>9, <1>10, <1>11, <1>12, <1>13 DEF FInv

\* What is not in the tail of a sequence, and not its head, is not in it.
LEMMA TailLacks ==
    ASSUME NEW S, NEW q \in Seq(S), q # <<>>, NEW x, x # Head(q),
           \A i \in 1..Len(Tail(q)) : Tail(q)[i] # x
    PROVE  \A i \in 1..Len(q) : q[i] # x
<1>1. /\ Len(q) \in Nat /\ Len(q) > 0 /\ Head(q) = q[1] /\ Len(Tail(q)) = Len(q) - 1
      /\ \A i \in 1..Len(Tail(q)) : Tail(q)[i] = q[i + 1]
  BY TailFacts
<1> SUFFICES ASSUME NEW i \in 1..Len(q), i # 1 PROVE q[i] # x
  BY <1>1
<1>2. i - 1 \in 1..Len(Tail(q)) /\ (i - 1) + 1 = i
  BY <1>1
<1> QED  BY <1>1, <1>2

\* Only the reply whose turn it is leaves.
LEMMA TurnPolls ==
    ASSUME IInv, NEW r \in Request, Turns(r), NEW p \in Request, p # r,
           \A i \in 1..Len(inbox') : inbox'[i] # p
    PROVE  \A i \in 1..Len(inbox) : inbox[i] # p
<1>1. inbox \in Seq(Request)
  BY DEF IInv, Base, TypeOK
<1>2. CASE UNCHANGED inbox
  BY <1>2
<1>3. CASE inbox # <<>> /\ r = Head(inbox) /\ inbox' = Tail(inbox)
  BY <1>1, <1>3, TailLacks
<1> QED  BY <1>2, <1>3 DEF Turns

\* Nor does a continuation: addCSPConso has its GET answered when it increments.
LEMMA ContinuesRest ==
    ASSUME IInv, FInv, NEW r \in Request, NEW cmds, NEW next, Continues(r, cmds, next)
    PROVE  FInv'
<1>1. pc \in [Request -> Pc] /\ next \in Pc
  BY DEF IInv, Base, TypeOK, Continues
<1>2. /\ pc'[r] = next /\ \A s \in Request : s # r => pc'[s] = pc[s]
      /\ pc[r] \in Waiting /\ next # "idle" /\ UNCHANGED <<db, selected, job, got, up, misplaced, lapsed, cut, pulled>>
      /\ Sends(r, job[r].kind, next, cmds) /\ pipe' = pipe \o cmds /\ pc' = [pc EXCEPT ![r] = next]
      /\ next = "user" <=> pc[r] = "userSelected"
      /\ next = "incr" <=> pc[r] = "user"
      /\ next # "allKeys" /\ (next = "allInfos" => pc[r] = "allKeys")
      /\ Turns(r)
  BY <1>1 DEF Continues
<1>14. \A s \in Request : s # r => answer'[s] = answer[s]
  BY DEF Continues, IInv, Base, TypeOK
<1>4. Free(r)
  BY TurnFrees DEF Continues, FInv
<1>5. Flow'
  BY ContinuesFlow DEF FInv
<1>6. Registering'
  BY <1>1, <1>2, <1>4, GrowRegistering DEF FInv
<1>7. Fresh'
  BY <1>2, PlaceFacts DEF FInv, Fresh
<1>8. Grown(cmds)
  BY <1>1, <1>2, GrowPipe
<1>9. Billable'
  BY <1>2, <1>8 DEF FInv, Billable, Grown
<1>10. Severed'
  <2>1. \A s \in cut : s \in Request /\ s # r
    BY <1>2, PlaceFacts DEF FInv, Severed, IInv, Base, TypeOK
  <2> QED  BY <1>2, <1>14, <2>1 DEF FInv, Severed
<1>11. Polled'
  <2>1. \A p \in Request : p \in Polling' => p \in Polling
    BY <1>2, TurnPolls DEF FInv, Polling
  <2> QED  BY <1>2, <2>1, PolledStays
<1>12. Resolved'
  <2>1. ASSUME NEW s \in Request, job[s].kind = "addCSPConso"
        PROVE  \/ Astray(s)' \/ s \in cut
               \/ got[s].csp # NullCsp
               \/ pc'[s] = "userSelected"
               \/ pc'[s] = "user" /\ \E i \in 1..Len(pipe') : pipe'[i].cb /\ pipe'[i].r = s
    <3>1. CASE s = r /\ pc[r] = "userSelected"
      <4>1. next = "user" /\ next \in Waiting
        BY <1>2, <3>1 DEF Waiting
      <4>2. Len(cmds) > 0 /\ cmds[Len(cmds)].cb /\ \A k \in 1..Len(cmds) : cmds[k].r = r
        <5>1. SentBy(r, job[r].kind, next, cmds)
          BY <1>1, <1>2, SendsFacts
        <5> QED  BY <4>1, <5>1 DEF SentBy
      <4>3. Len(cmds) \in 1..Len(cmds)
        BY <1>8, <4>2 DEF Grown
      <4>4. PICK k \in 1..Len(cmds) : cmds[k].cb /\ cmds[k].r = r
        BY <4>2, <4>3
      <4>5. Len(pipe) + k \in 1..Len(pipe') /\ pipe'[Len(pipe) + k] = cmds[k]
        BY <1>8 DEF Grown
      <4>6. \E i \in 1..Len(pipe') : pipe'[i].cb /\ pipe'[i].r = r
        BY <4>4, <4>5
      <4> QED  BY <1>2, <3>1, <4>1, <4>6
    <3>4. Astray(s) => Astray(s)'
      BY <1>2, <2>1, AstrayStays
    <3>2. CASE s = r /\ pc[r] # "userSelected"
      <4>1. \A i \in 1..Len(pipe) : ~(pipe[i].cb /\ pipe[i].r = r)
        BY <1>4 DEF Free
      <4> QED  BY <2>1, <3>2, <3>4, <4>1 DEF FInv, Resolved
    <3>3. CASE s # r
      BY <1>2, <1>8, <2>1, <3>3, <3>4 DEF FInv, Resolved, Grown
    <3> QED  BY <3>1, <3>2, <3>3
  <2> QED  BY <1>2, <2>1 DEF Resolved
<1>13. Booked'
  <2>1. job[r].kind = "addCSPConso" /\ pc[r] = "incr" => next \in {"incr", "done", "hung"}
    BY <1>2 DEF Continues, KindsAt, Pc, Waiting
  <2>2. pc[r] \notin {"done", "hung"}
    BY <1>2, PlaceFacts
  <2>3. \A s \in Request : job[s].kind = "addCSPConso" /\ pc[s] \in {"incr", "done", "hung"} =>
          job'[s] = job[s] /\ got'[s].csp = got[s].csp /\ pc'[s] \in {"incr", "done", "hung"}
    BY <1>2, <2>1, <2>2
  <2> QED  BY <1>2, <2>3, BookedStays
<1> QED  BY <1>5, <1>6, <1>7, <1>9, <1>10, <1>11, <1>12, <1>13 DEF FInv

\* The broker falls only where Polled allows it.
LEMMA CrashesRest == ASSUME IInv, FInv, NEW r \in Request, Crashes(r) PROVE FInv'
<1>1. UNCHANGED <<db, selected, pipe, pc, job, got, answer, misplaced, lapsed, cut, pulled>>
  BY DEF Crashes
<1>2. job[r].kind = "getAllCspInfo" /\ ~got[r].ok /\ Turns(r)
  BY DEF Crashes, FInv, Flow, Argued, KindsAt
<1>3. Flow'
  BY CrashesFlow DEF FInv
<1>4. Fresh' /\ Severed' /\ Registering' /\ Billable'
  BY <1>1 DEF FInv, Fresh, Severed, Registering, Billable
<1>5. Resolved' /\ Booked'
  BY <1>1 DEF FInv, Resolved, Booked, Unresolved, Astray, OwnerOf
<1>6. r \in misplaced \cup pulled
  BY <1>2 DEF FInv, Polled
<1>7. \A p \in Request : p # r => (p \in Polling' => p \in Polling)
  BY <1>1, <1>2, TurnPolls DEF Polling
<1>8. Polled'
  BY <1>1, <1>2, <1>6, <1>7, PolledStays
<1> QED  BY <1>3, <1>4, <1>5, <1>8 DEF FInv

\* A reply that settles a promise changes none of it.
LEMMA DeliverRest == ASSUME IInv, FInv, Deliver PROVE FInv'
<1>1. UNCHANGED <<db, selected, pipe, pc, job, got, answer, up, misplaced, lapsed, cut, pulled>>
  BY DEF Deliver, redis, history
<1>2. Flow'
  BY DeliverFlow DEF FInv
<1>3. Fresh' /\ Severed' /\ Registering' /\ Billable'
  BY <1>1 DEF FInv, Fresh, Severed, Registering, Billable
<1>4. Resolved' /\ Booked'
  BY <1>1 DEF FInv, Resolved, Booked, Unresolved, Astray, OwnerOf
<1>5. ASSUME NEW p \in Request, p \in Polling' PROVE p \in Polling
  <2>1. /\ inbox \in Seq(Request) /\ inbox # <<>> /\ inbox' = Tail(inbox)
        /\ pc[Head(inbox)] # "allInfos"
    BY DEF Deliver, PlainCallback, IInv, Base, TypeOK
  <2>2. p # Head(inbox) /\ (\A i \in 1..Len(inbox') : inbox'[i] # p) => \A i \in 1..Len(inbox) : inbox[i] # p
    BY <2>1, TailLacks
  <2> QED  BY <1>1, <1>5, <2>1, <2>2 DEF Polling
<1>6. Polled'
  BY <1>1, <1>5, PolledStays
<1> QED  BY <1>2, <1>3, <1>4, <1>6 DEF FInv

\* After a break the requests that had a reply to come are at their end.
LEMMA BreaksRest == ASSUME IInv, FInv, Breaks PROVE FInv'
<1>1. /\ UNCHANGED <<db, tasks, job, got, overlapped, misplaced, lapsed, pulled>>
      /\ cut' = cut \cup CutOff
      /\ \A s \in Request \ CutOff : pc'[s] = pc[s] /\ answer'[s] = answer[s]
      /\ \A s \in CutOff : /\ s \in Request /\ pc[s] \in Waiting /\ pc'[s] \in {"done", "hung"}
                           /\ answer'[s] \in {answer[s], "notfound", "error"}
  BY DEF Breaks
<1>2. 1..Len(pipe') = {} /\ 1..Len(inbox') = {}
  BY DEF Breaks
<1>3. Flow'
  BY BreaksFlow DEF FInv
<1>4. Fresh'
  BY <1>1, PlaceFacts DEF FInv, Fresh
<1>5. Severed'
  <2>1. \A s \in CutOff : answer'[s] # "granted"
    BY <1>1, PlaceFacts DEF FInv, Flow, Argued
  <2>2. \A s \in cut : s \in Request
    BY DEF IInv, Base, TypeOK
  <2> QED  BY <1>1, <2>1, <2>2 DEF FInv, Severed
<1>6. Registering'
  BY <1>2 DEF Registering
<1>7. ASSUME NEW i \in 1..Len(pipe), pipe[i].cb PROVE pipe[i].r \in CutOff
  <2>1. pipe[i].r \in Request
    BY CmdKind DEF FInv
  <2>2. pc[pipe[i].r] \in Waiting /\ \A j \in 1..Len(tasks) : tasks[j] # pipe[i].r
    BY <1>7 DEF FInv, Flow, Once, Placed
  <2> QED  BY <2>1, <2>2 DEF CutOff
<1>8. Billable'
  <2>1. \A i \in 1..Len(pipe) : pipe[i].op = "EXPIRE_USER" => pipe[i].r \in cut'
    BY <1>1, <1>7, ExpireAwaits DEF FInv
  <2> QED  BY <1>1, <2>1 DEF FInv, Billable
<1>9. Polled'
  <2>1. ASSUME NEW p \in Request, p \in Polling' PROVE p \in Polling
    <3>1. pc'[p] \in {"allKeys", "allInfos"}
      BY <2>1 DEF Polling
    <3>2. p \notin CutOff /\ pc'[p] = pc[p]
      BY <1>1, <3>1
    <3>3. \E i \in 1..Len(tasks) : tasks[i] = p
      BY <3>1 DEF Breaks, Waiting
    <3>4. \A i \in 1..Len(inbox) : inbox[i] # p
      BY <3>3 DEF FInv, Flow, Once
    <3> QED  BY <3>1, <3>2, <3>4 DEF Polling
  <2>2. ~up' => \E p \in Request : job'[p].kind = "getAllCspInfo" /\ p \in pulled' \cup misplaced' \cup cut'
    BY <1>1 DEF Breaks
  <2> QED  BY <1>1, <2>1, <2>2, PolledStays
<1>10. Resolved'
  <2>1. ASSUME NEW s \in Request, job[s].kind = "addCSPConso"
        PROVE  \/ Astray(s)' \/ s \in cut'
               \/ got[s].csp # NullCsp
               \/ pc'[s] = "userSelected"
    <3>1. Astray(s) => Astray(s)'
      BY <1>1, <2>1, AstrayStays
    <3>2. CASE s \in CutOff
      BY <1>1, <3>2
    <3>3. CASE s \notin CutOff
      <4>1. \A i \in 1..Len(pipe) : ~(pipe[i].cb /\ pipe[i].r = s)
        BY <1>7, <3>3
      <4> QED  BY <1>1, <2>1, <3>1, <3>3, <4>1 DEF FInv, Resolved
    <3> QED  BY <3>2, <3>3
  <2> QED  BY <1>1, <2>1 DEF Resolved
<1>11. Booked'
  <2>1. \A s \in Request : job[s].kind = "addCSPConso" /\ pc[s] \in {"incr", "done", "hung"} =>
          job'[s] = job[s] /\ got'[s].csp = got[s].csp /\ pc'[s] \in {"incr", "done", "hung"}
    BY <1>1
  <2> QED  BY <1>1, <2>1, BookedStays
<1> QED  BY <1>3, <1>4, <1>5, <1>6, <1>8, <1>9, <1>10, <1>11 DEF FInv

\* A key that expires is one whose registerUser is complete.
LEMMA ExpiresRest == ASSUME IInv, FInv, NEW u \in Client, UserExpires(u) PROVE FInv'
<1>1. /\ u \in db[2].ttl /\ lapsed' = lapsed \cup {u}
      /\ db' = [db EXCEPT ![2].users[u] = None, ![2].ttl = @ \ {u}]
      /\ UNCHANGED <<selected, pipe, inbox, tasks, pc, job, got, answer, up, misplaced, cut, pulled>>
  BY DEF UserExpires
<1>2. db \in [Dbs -> Store] /\ 2 \in Dbs
  BY DEF IInv, Base, TypeOK, Dbs
<1>3. /\ db'[2].ttl = db[2].ttl \ {u} /\ db'[2].prov = db[2].prov /\ db'[2].cred = db[2].cred
      /\ \A v \in Client : v # u => db'[2].users[v] = db[2].users[v]
      /\ \A d \in Dbs : d # 2 => db'[d] = db[d]
  BY <1>1, <1>2 DEF Store
<1>4. Flow'
  <2>1. \A d \in Dbs : db'[d].cred = db[d].cred
    BY <1>3
  <2> QED  BY <1>1, <2>1, QuietFlow DEF FInv
<1>5. Fresh' /\ Severed'
  BY <1>1 DEF FInv, Fresh, Severed
<1>6. Registering'
  <2>1. \A i \in 1..Len(pipe) : pipe[i].r \in Client
    BY CmdKind DEF FInv, Client
  <2>2. ASSUME NEW r \in Client, db[2].users[r] = job[r].csp, r \notin db[2].ttl
        PROVE  db'[2].users[r] = job[r].csp /\ r \notin db'[2].ttl
    BY <1>1, <1>3, <2>2
  <2>3. ASSUME NEW i \in 1..Len(pipe), pipe[i].op = "EXPIRE_USER"
        PROVE  \/ i = 1 /\ selected = 2 /\ db'[2].users[pipe[i].r] = job[pipe[i].r].csp /\ pipe[i].r \notin db'[2].ttl
               \/ i > 1 /\ pipe[i - 1].op = "SET_USER" /\ pipe[i - 1].r = pipe[i].r
    <3>1. \/ i = 1 /\ selected = 2 /\ db[2].users[pipe[i].r] = job[pipe[i].r].csp /\ pipe[i].r \notin db[2].ttl
          \/ i > 1 /\ pipe[i - 1].op = "SET_USER" /\ pipe[i - 1].r = pipe[i].r
      BY <2>3 DEF FInv, Registering
    <3> QED  BY <2>1, <2>2, <3>1
  <2>4. ASSUME NEW i \in 1..Len(pipe)
        PROVE  LET q == pipe[i].r
                   Next2 == \/ i = 1 /\ selected = 2
                            \/ i > 1 /\ pipe[i - 1].op = "SELECT_2"
               IN  /\ pipe[i].op = "SET_USER" =>
                         /\ Next2
                         /\ i < Len(pipe) /\ pipe[i + 1].op = "EXPIRE_USER" /\ pipe[i + 1].r = q
                   /\ pipe[i].op = "EXPIRE_USER" =>
                         /\ pc[q] = "infosSelected"
                         /\ \E j \in (i + 1)..Len(pipe) : pipe[j].r = q /\ pipe[j].cb
                         /\ \A j \in 1..Len(pipe) : pipe[j].op = "EXPIRE_USER" /\ pipe[j].r = q => i = j
    BY DEF FInv, Registering
  <2>5. pipe' = pipe /\ pc' = pc /\ job' = job /\ selected' = selected
    BY <1>1
  <2> QED  BY <2>3, <2>4, <2>5 DEF Registering
<1>7. Billable'
  <2>1. ASSUME NEW v \in Client, NEW c, db[2].users[v] = c, v \in db[2].ttl
        PROVE  v \in lapsed' \/ (db'[2].users[v] = c /\ v \in db'[2].ttl)
    BY <1>1, <1>3, <2>1
  <2>2. lapsed \subseteq lapsed' /\ pipe' = pipe /\ job' = job /\ cut' = cut
    BY <1>1
  <2>3. ASSUME NEW s \in Request, job[s].kind = "getAppropriateTurn"
        PROVE  \/ \E i \in 1..Len(pipe) : pipe[i].op = "EXPIRE_USER" /\ pipe[i].r = s
               \/ s \in lapsed' \cup cut
               \/ db'[2].users[s] = job[s].csp /\ s \in db'[2].ttl
    <3>1. \/ \E i \in 1..Len(pipe) : pipe[i].op = "EXPIRE_USER" /\ pipe[i].r = s
          \/ s \in lapsed \cup cut
          \/ db[2].users[s] = job[s].csp /\ s \in db[2].ttl
      BY <2>3 DEF FInv, Billable
    <3> QED  BY <2>1, <2>2, <3>1 DEF Client
  <2>4. ASSUME NEW v \in OldClient
        PROVE  \/ v \in lapsed' \/ OldOwner[v] = None
               \/ db'[2].users[v] = OldOwner[v] /\ v \in db'[2].ttl
    <3>1. \/ v \in lapsed \/ OldOwner[v] = None
          \/ db[2].users[v] = OldOwner[v] /\ v \in db[2].ttl
      BY DEF FInv, Billable
    <3> QED  BY <2>1, <2>2, <3>1 DEF Client
  <2> QED  BY <2>2, <2>3, <2>4 DEF Billable
<1>8. Polled'
  <2>1. \A p \in Request : p \in Polling' => p \in Polling
    BY <1>1 DEF Polling
  <2> QED  BY <1>1, <1>3, <2>1, PolledStays
<1>9. Resolved'
  <2>1. \A s \in Request : job[s].kind = "addCSPConso" /\ Astray(s) => Astray(s)'
    BY <1>1, AstrayStays
  <2> QED  BY <1>1, <2>1 DEF FInv, Resolved
<1>10. Booked'
  <2>1. \A d \in Dbs : db'[d].conso = db[d].conso
    BY <1>1, <1>2 DEF Store
  <2> QED  BY <1>1, <2>1, BookedStays
<1> QED  BY <1>4, <1>5, <1>6, <1>7, <1>8, <1>9, <1>10 DEF FInv

\* The TURN servers touch none of the keys.
LEMMA TurnChangesRest == ASSUME IInv, FInv, NEW t \in Turn, TurnChanges(t) PROVE FInv'
<1>1. /\ db' = [db EXCEPT ![2].turn = IF t \in @ THEN @ \ {t} ELSE @ \cup {t}]
      /\ UNCHANGED <<selected, pipe, inbox, tasks, pc, job, got, answer, up, misplaced, lapsed, cut, pulled>>
  BY DEF TurnChanges
<1>2. db \in [Dbs -> Store] /\ 2 \in Dbs
  BY DEF IInv, Base, TypeOK, Dbs
<1>3. \A d \in Dbs : /\ db'[d].ttl = db[d].ttl /\ db'[d].prov = db[d].prov /\ db'[d].cred = db[d].cred
                      /\ db'[d].users = db[d].users /\ db'[d].conso = db[d].conso
  BY <1>1, <1>2 DEF Store
<1>4. Flow'
  BY <1>1, <1>3, QuietFlow DEF FInv
<1>5. Fresh' /\ Severed' /\ Registering' /\ Billable'
  BY <1>1, <1>2, <1>3 DEF FInv, Fresh, Severed, Registering, Billable
<1>6. Polled'
  <2>1. \A p \in Request : p \in Polling' => p \in Polling
    BY <1>1 DEF Polling
  <2> QED  BY <1>1, <1>2, <1>3, <2>1, PolledStays
<1>7. Resolved'
  BY <1>1 DEF FInv, Resolved, Astray, OwnerOf
<1>8. Booked'
  BY <1>1, <1>3, BookedStays
<1> QED  BY <1>4, <1>5, <1>6, <1>7, <1>8 DEF FInv

\* What a reply tells of the CSP of a client, the CSPs there are, and success:
\* t is what the request knows after it.
ReplyOf(op, r, s, t) ==
    /\ t.csp = IF op = "GET_USER" THEN KeyName(s.users[job[r].client]) ELSE got[r].csp
    /\ t.provs = IF op = "KEYS_PROV" THEN {c \in Csp : s.prov[c] # None} ELSE got[r].provs
    /\ t.ok = CASE op = "RENAME_PROV"  -> s.prov[job[r].csp] # None
                [] op = "HGETALL_EACH" -> \A c \in got[r].provs : s.prov[c] # None
                [] OTHER -> got[r].ok

\* ReplyTo tells that and nothing else.
LEMMA ReplyFacts ==
    ASSUME NEW op, NEW r \in Request, NEW s, got \in [Request -> Reply]
    PROVE  ReplyOf(op, r, s, ReplyTo(op, r, s))
<1> USE DEF ReplyOf
<1>1. got[r] \in Reply
  OBVIOUS
<1>2. CASE op = "HGETALL_PROV"
  BY <1>1, <1>2 DEF ReplyTo, Reply
<1>3. CASE op = "HGETALL_CONSO"
  BY <1>1, <1>3 DEF ReplyTo, Reply
<1>4. CASE op = "KEYS_TURN"
  BY <1>1, <1>4 DEF ReplyTo, Reply
<1>5. CASE op = "GET_USER"
  BY <1>1, <1>5 DEF ReplyTo, Reply
<1>6. CASE op = "RENAME_PROV"
  BY <1>1, <1>6 DEF ReplyTo, Reply
<1>7. CASE op = "KEYS_PROV"
  BY <1>1, <1>7 DEF ReplyTo, Reply
<1>8. CASE op = "HGETALL_EACH"
  BY <1>1, <1>8 DEF ReplyTo, Reply, FoundEach
<1>9. CASE op \notin {"HGETALL_PROV", "HGETALL_CONSO", "KEYS_TURN", "GET_USER", "RENAME_PROV", "KEYS_PROV",
                      "HGETALL_EACH"}
  BY <1>1, <1>9 DEF ReplyTo, Reply
<1> QED  BY <1>2, <1>3, <1>4, <1>5, <1>6, <1>7, <1>8, <1>9

\* What the request of the command at the head of the pipe learns.
LEMMA ExecReply ==
    ASSUME IInv, Flow, Exec
    PROVE  /\ ReplyOf(pipe[1].op, pipe[1].r, db[selected], got'[pipe[1].r])
           /\ \A s \in Request : s # pipe[1].r => got'[s] = got[s]
<1>1. /\ 1 \in 1..Len(pipe) /\ got \in [Request -> Reply]
      /\ got' = [got EXCEPT ![pipe[1].r] = ReplyTo(pipe[1].op, pipe[1].r, db[selected])]
  BY ExecFacts
<1>2. pipe[1].r \in Request
  BY <1>1, CmdKind
<1>3. got'[pipe[1].r] = ReplyTo(pipe[1].op, pipe[1].r, db[selected])
  BY <1>1, <1>2
<1>4. ReplyOf(pipe[1].op, pipe[1].r, db[selected], ReplyTo(pipe[1].op, pipe[1].r, db[selected]))
  BY <1>1, <1>2, ReplyFacts
<1>5. \A s \in Request : s # pipe[1].r => got'[s] = got[s]
  BY <1>1
<1> QED  BY <1>3, <1>4, <1>5

\* A command that runs next runs in its database, unless its request is overlapped.
LEMMA HeadPlaced ==
    ASSUME IInv, 1 \in 1..Len(pipe), ~IsSelect(pipe[1].op), pipe[1].r \notin overlapped
    PROVE  selected = DbOf(pipe[1].r)
<1>1. selected = DbOf(pipe[1].r) \/ \E j \in 1..(1 - 1) : IsSelect(pipe[j].op)
  BY DEF IInv, Base, Isolated, Ahead
<1> QED  BY <1>1

\* registerUser has run when EXPIRE has.
LEMMA ExecBillable == ASSUME IInv, FInv, Exec PROVE Billable'
<1>1. /\ 1 \in 1..Len(pipe) /\ Len(pipe) \in Nat /\ Len(pipe') = Len(pipe) - 1
      /\ \A i \in 1..Len(pipe') : pipe'[i] = pipe[i + 1] /\ i + 1 \in 1..Len(pipe) /\ i + 1 # 1
      /\ UNCHANGED <<pc, job, lapsed, cut>>
  BY ExecFacts
<1> DEFINE op == pipe[1].op
           r == pipe[1].r
<1>2. /\ \A d \in Dbs : d # selected => db'[d] = db[d]
      /\ op \in Ops /\ r \in Request /\ db[selected] \in Store /\ selected \in Dbs
      /\ EffectOf(op, r, db[selected], db'[selected])
  BY ExecDb DEF FInv
<1> HIDE DEF op, r
<1>3. /\ db'[2].users = IF op = "SET_USER" /\ selected = 2 THEN [db[2].users EXCEPT ![r] = job[r].csp] ELSE db[2].users
      /\ \A u : u # r => (u \in db'[2].ttl <=> u \in db[2].ttl)
      /\ op # "SET_USER" => (r \in db[2].ttl => r \in db'[2].ttl)
      /\ op = "EXPIRE_USER" /\ selected = 2 /\ db[2].users[r] # None => r \in db'[2].ttl
  <2>1. CASE selected = 2
    BY <1>2, <2>1 DEF EffectOf
  <2>2. CASE selected # 2
    <3>1. db'[2] = db[2]
      BY <1>2, <2>2 DEF Dbs
    <3> QED  BY <2>2, <3>1
  <2> QED  BY <2>1, <2>2
<1>4. \A u \in Client : u # r => db'[2].users[u] = db[2].users[u]
  BY <1>3
<1>5. ASSUME NEW s \in Request, job[s].kind = "getAppropriateTurn"
      PROVE  \/ \E i \in 1..Len(pipe') : pipe'[i].op = "EXPIRE_USER" /\ pipe'[i].r = s
             \/ s \in lapsed \cup cut
             \/ db'[2].users[s] = job[s].csp /\ s \in db'[2].ttl
  <2>1. ASSUME NEW i \in 1..Len(pipe), i # 1, pipe[i].op = "EXPIRE_USER", pipe[i].r = s
        PROVE  \E k \in 1..Len(pipe') : pipe'[k].op = "EXPIRE_USER" /\ pipe'[k].r = s
    <3>1. i - 1 \in 1..Len(pipe') /\ (i - 1) + 1 = i
      BY <1>1, <2>1
    <3> QED  BY <1>1, <2>1, <3>1
  <2>2. CASE s = r /\ op = "SET_USER"
    <3>1. 1 < Len(pipe) /\ pipe[1 + 1].op = "EXPIRE_USER" /\ pipe[1 + 1].r = r
      BY <1>1, <2>2 DEF FInv, Registering, op, r
    <3>2. 1 + 1 \in 1..Len(pipe) /\ 1 + 1 # 1
      BY <1>1, <3>1
    <3> QED  BY <2>1, <2>2, <3>1, <3>2
  <2>3. CASE s = r /\ op = "EXPIRE_USER"
    <3>1. selected = 2 /\ db[2].users[r] = job[r].csp
      BY <1>1, <2>3 DEF FInv, Registering, op, r
    <3>2. job[r].csp # None
      BY <1>5, <2>3, NoneAssumption DEF FInv, Flow, Argued
    <3> QED  BY <1>3, <2>3, <3>1, <3>2
  <2>4. CASE s = r /\ op \notin {"SET_USER", "EXPIRE_USER"}
    <3>1. db'[2].users = db[2].users /\ (r \in db[2].ttl => r \in db'[2].ttl)
      BY <1>3, <2>4
    <3>2. \A i \in 1..Len(pipe) : pipe[i].op = "EXPIRE_USER" /\ pipe[i].r = s => i # 1
      BY <2>4 DEF op
    <3> QED  BY <1>5, <2>1, <2>4, <3>1, <3>2 DEF FInv, Billable
  <2>5. CASE s # r
    <3>1. \A i \in 1..Len(pipe) : pipe[i].op = "EXPIRE_USER" /\ pipe[i].r = s => i # 1
      BY <2>5 DEF r
    <3>2. db'[2].users[s] = db[2].users[s] /\ (s \in db'[2].ttl <=> s \in db[2].ttl)
      BY <1>3, <1>4, <2>5 DEF Client
    <3> QED  BY <1>5, <2>1, <3>1, <3>2 DEF FInv, Billable
  <2> QED  BY <2>2, <2>3, <2>4, <2>5
<1>6. ASSUME NEW u \in OldClient
      PROVE  \/ u \in lapsed \/ OldOwner[u] = None
             \/ db'[2].users[u] = OldOwner[u] /\ u \in db'[2].ttl
  <2>1. u # r /\ u \in Client
    BY <1>2, NoneAssumption DEF Client
  <2> QED  BY <1>3, <1>4, <2>1 DEF FInv, Billable
<1> QED  BY <1>1, <1>5, <1>6 DEF Billable

\* A command takes a CSP away from a poll that has listed it only for a deletion.
LEMMA ExecPolled == ASSUME IInv, FInv, Exec PROVE Polled'
<1> DEFINE op == pipe[1].op
           r == pipe[1].r
<1>1. /\ 1 \in 1..Len(pipe) /\ got \in [Request -> Reply]
      /\ got' = [got EXCEPT ![r] = ReplyTo(op, r, db[selected])]
      /\ inbox' = IF pipe[1].cb THEN Append(inbox, pipe[1].r) ELSE inbox
      /\ misplaced' = IF ~IsSelect(op) /\ selected # DbOf(r) THEN misplaced \cup {r} ELSE misplaced
      /\ pulled' = pulled \cup Outdated(r)
      /\ UNCHANGED <<pc, job, up, cut>>
  BY ExecFacts
<1>2. /\ \A d \in Dbs : d # selected => db'[d] = db[d]
      /\ op \in Ops /\ r \in Request /\ db[selected] \in Store /\ selected \in Dbs
      /\ EffectOf(op, r, db[selected], db'[selected])
  BY ExecDb DEF FInv
<1>3. /\ op = "RENAME_PROV" => job[r].kind = "deleteCSP"
      /\ op = "HMSET_PROV" => job[r].kind = "changeQuotas"
      /\ op = "HSETNX_PROV" => job[r].kind = "provRequest"
  BY <1>1, CmdKind DEF FInv
<1>4. ASSUME op = "HGETALL_EACH" PROVE r \in Polling
  <2>1. pipe[1].cb
    BY <1>1, <1>4 DEF FInv, Flow, Placed, KindsOf
  <2>2. pc[r] \in Waiting /\ op = Op(pc[r]) /\ \A i \in 1..Len(inbox) : inbox[i] # r
    BY <1>1, <2>1 DEF FInv, Flow, Placed, Once
  <2>3. pc[r] = "allInfos"
    BY <1>4, <2>2 DEF Op, Waiting
  <2> QED  BY <1>2, <2>2, <2>3 DEF Polling
<1>5. \A p \in Request : p \in Polling' => p \in Polling
  <2>1. inbox \in Seq(Request)
    BY DEF IInv, Base, TypeOK
  <2>2. \A i \in 1..Len(inbox) : i \in 1..Len(inbox') /\ inbox'[i] = inbox[i]
    <3>1. CASE pipe[1].cb
      <4>1. /\ Len(inbox) \in Nat /\ Len(inbox') = Len(inbox) + 1
            /\ \A i \in 1..Len(inbox) : inbox'[i] = inbox[i]
        BY <1>1, <1>2, <2>1, <3>1, AppendFacts
      <4> QED  BY <4>1
    <3>2. CASE ~pipe[1].cb
      BY <1>1, <3>2
    <3> QED  BY <3>1, <3>2
  <2> QED  BY <1>1, <2>2 DEF Polling
<1>6. ReplyOf(op, r, db[selected], got'[r])
  BY ExecReply DEF FInv
<1> HIDE DEF op, r
<1>7. ASSUME NEW c \in Csp, db[2].prov[c] # None, db'[2].prov[c] = None
      PROVE  job[r].kind = "deleteCSP"
  <2>1. selected = 2
    BY <1>2, <1>7 DEF Dbs
  <2>2. db[2].prov \in [Csp -> QuotaValue \cup {None}]
    BY <1>2, <2>1 DEF Store
  <2>3. db'[2].prov = CASE op = "HSETNX_PROV" -> [db[2].prov EXCEPT ![job[r].csp] = IF @ = None THEN job[r].quota ELSE @]
                        [] op = "RENAME_PROV" -> [db[2].prov EXCEPT ![job[r].csp] = None]
                        [] op = "HMSET_PROV"  -> [db[2].prov EXCEPT ![job[r].csp] = job[r].quota]
                        [] OTHER -> db[2].prov
    BY <1>2, <2>1 DEF EffectOf
  <2>4. op \in {"HMSET_PROV", "HSETNX_PROV"} => job[r].csp \in Csp /\ job[r].quota # None
    BY <1>2, <1>3, NoneAssumption, NumbersAssumption DEF FInv, Flow, Argued, QuotaValue
  <2>5. CASE op = "HSETNX_PROV"
    BY <1>7, <2>2, <2>3, <2>4, <2>5
  <2>6. CASE op = "HMSET_PROV"
    BY <1>7, <2>2, <2>3, <2>4, <2>6
  <2>7. CASE op = "RENAME_PROV"
    BY <1>3, <2>7
  <2>8. CASE op \notin {"HSETNX_PROV", "HMSET_PROV", "RENAME_PROV"}
    BY <1>7, <2>3, <2>8
  <2> QED  BY <2>5, <2>6, <2>7, <2>8
<1>8. ASSUME NEW p \in Request, job[p].kind = "getAllCspInfo", p \notin misplaced' \cup pulled'
      PROVE  got'[p].ok /\ (p \in Polling' => \A c \in got'[p].provs : db'[2].prov[c] # None)
  <2>1. p \notin misplaced \cup pulled /\ got[p].provs \subseteq Csp
    BY <1>1, <1>8 DEF Reply
  <2>2. got[p].ok /\ (p \in Polling => \A c \in got[p].provs : db[2].prov[c] # None)
    BY <1>8, <2>1 DEF FInv, Polled
  <2>3. CASE p # r
    <3>1. got'[p] = got[p]
      BY <1>1, <2>3
    <3>2. ASSUME p \in Polling, NEW c \in got[p].provs, db'[2].prov[c] = None PROVE FALSE
      <4>1. db[2].prov[c] # None /\ c \in Csp
        BY <2>1, <2>2, <3>2
      <4>2. p \in Outdated(r)
        BY <1>7, <3>2, <4>1 DEF Outdated
      <4> QED  BY <1>1, <1>8, <4>2
    <3> QED  BY <1>5, <2>2, <3>1, <3>2
  <2>4. CASE p = r
    <3>1. /\ got'[r].provs = IF op = "KEYS_PROV" THEN {c \in Csp : db[selected].prov[c] # None} ELSE got[r].provs
          /\ got'[r].ok = IF op = "HGETALL_EACH" THEN \A c \in got[r].provs : db[selected].prov[c] # None ELSE got[r].ok
      BY <1>3, <1>6, <1>8, <2>4 DEF ReplyOf
    <3>2. op \in {"KEYS_PROV", "HGETALL_EACH"} => selected = 2
      BY <1>1, <1>8, <2>4 DEF IsSelect, DbOf, Target
    <3>3. \A c \in Csp : db[2].prov[c] # None => db'[2].prov[c] # None
      BY <1>7, <1>8, <2>4
    <3>4. got'[r].ok
      BY <1>4, <2>2, <2>4, <3>1, <3>2
    <3>5. ASSUME p \in Polling', NEW c \in got'[r].provs PROVE db'[2].prov[c] # None
      <4>1. c \in Csp /\ db[2].prov[c] # None
        BY <1>5, <2>1, <2>2, <2>4, <3>1, <3>2, <3>5
      <4> QED  BY <3>3, <4>1
    <3> QED  BY <2>4, <3>4, <3>5
  <2> QED  BY <2>3, <2>4
<1>9. CrashOnlyInPoll'
  <2>1. misplaced \subseteq misplaced' /\ pulled \subseteq pulled'
    BY <1>1
  <2> QED  BY <1>1, <2>1 DEF FInv, Polled, CrashOnlyInPoll
<1> QED  BY <1>1, <1>8, <1>9 DEF Polled

\* All else being well, the GET of addCSPConso finds a CSP.
LEMMA ExecFound == ASSUME IInv, FInv, Exec PROVE Resolved' /\ Booked'
<1>0. PICK op, r : op = pipe[1].op /\ r = pipe[1].r
  OBVIOUS
<1>1. /\ 1 \in 1..Len(pipe) /\ Len(pipe) \in Nat /\ got \in [Request -> Reply] /\ Len(pipe') = Len(pipe) - 1
      /\ \A i \in 1..Len(pipe') : pipe'[i] = pipe[i + 1] /\ i + 1 \in 1..Len(pipe) /\ i + 1 # 1
      /\ got' = [got EXCEPT ![r] = ReplyTo(op, r, db[selected])]
      /\ misplaced' = IF ~IsSelect(op) /\ selected # DbOf(r) THEN misplaced \cup {r} ELSE misplaced
      /\ UNCHANGED <<pc, job, lapsed, cut>>
  BY <1>0, ExecFacts
<1>2. /\ \A d \in Dbs : d # selected => db'[d] = db[d]
      /\ op \in Ops /\ r \in Request /\ db[selected] \in Store /\ selected \in Dbs
      /\ EffectOf(op, r, db[selected], db'[selected])
  BY <1>0, ExecDb DEF FInv
<1>3. /\ op = "GET_USER" => job[r].kind = "addCSPConso" /\ pc[r] = "user"
      /\ op = "HINCRBY" => job[r].kind = "addCSPConso" /\ pc[r] = "incr"
      /\ op = "RENAME_CONSO" => job[r].kind = "deleteCSP" /\ job[r].csp \in Csp
      /\ op = "HSETNX_CONSO" => job[r].kind = "provRequest"
  BY <1>0, <1>1, CmdKind DEF FInv, Sound
<1>5. pipe[1].cb /\ pc[r] = "user" => op = "GET_USER"
  BY <1>0, <1>1 DEF FInv, Flow, Placed, Op
<1>6. \A s \in Request : job[s].kind = "addCSPConso" /\ Astray(s) => Astray(s)'
  <2>1. lapsed \subseteq lapsed' /\ misplaced \subseteq misplaced' /\ job' = job
    BY <1>1
  <2> QED  BY <2>1, AstrayStays
<1>11. ReplyOf(op, r, db[selected], got'[r])
  BY <1>0, ExecReply DEF FInv
<1>7. ASSUME op = "GET_USER", got'[r].csp = NullCsp PROVE Astray(r)'
  <2>1. Known(job[r].client)
    BY <1>2, <1>3, <1>7 DEF FInv, Flow, Argued
  <2>2. CASE job[r].client \in lapsed \/ OwnerOf(job[r].client) = None
    <3>1. Astray(r)
      BY <2>2 DEF Astray
    <3> QED  BY <1>2, <1>3, <1>6, <1>7, <3>1
  <2>3. CASE selected # 2
    <3>1. r \in misplaced'
      BY <1>1, <1>3, <1>7, <2>3 DEF IsSelect, DbOf, Target
    <3> QED  BY <3>1 DEF Astray
  <2>4. CASE job[r].client \notin lapsed /\ OwnerOf(job[r].client) # None /\ selected = 2
    <3>1. got'[r].csp = KeyName(db[2].users[job[r].client])
      BY <1>7, <1>11, <2>4 DEF ReplyOf
    <3>2. db[2].users[job[r].client] \in Csp
      BY <2>1, <2>4, KnownClient
    <3> QED  BY <1>7, <3>1, <3>2, NoneAssumption DEF KeyName
  <2> QED  BY <2>2, <2>3, <2>4
<1>8. op # "GET_USER" => got'[r].csp = got[r].csp
  BY <1>11 DEF ReplyOf
<1>9. ASSUME NEW s \in Request, job[s].kind = "addCSPConso"
      PROVE  \/ Astray(s)' \/ s \in cut
             \/ got'[s].csp # NullCsp
             \/ pc[s] = "userSelected"
             \/ pc[s] = "user" /\ \E i \in 1..Len(pipe') : pipe'[i].cb /\ pipe'[i].r = s
  <2>1. ASSUME NEW i \in 1..Len(pipe), i # 1, pipe[i].cb, pipe[i].r = s
        PROVE  \E k \in 1..Len(pipe') : pipe'[k].cb /\ pipe'[k].r = s
    <3>1. i - 1 \in 1..Len(pipe') /\ (i - 1) + 1 = i
      BY <1>1, <2>1
    <3> QED  BY <1>1, <2>1, <3>1
  <2>5. \/ Astray(s)' \/ s \in cut
        \/ got[s].csp # NullCsp
        \/ pc[s] = "userSelected"
        \/ pc[s] = "user" /\ \E i \in 1..Len(pipe) : pipe[i].cb /\ pipe[i].r = s
    BY <1>6, <1>9 DEF FInv, Resolved
  <2>2. CASE s = r /\ op = "GET_USER"
    BY <1>7, <2>2
  <2>3. CASE s = r /\ op # "GET_USER"
    <3>1. \A i \in 1..Len(pipe) : pc[s] = "user" /\ pipe[i].cb /\ pipe[i].r = s => i # 1
      BY <1>0, <1>5, <2>3
    <3> QED  BY <1>8, <2>1, <2>3, <2>5, <3>1
  <2>4. CASE s # r
    <3>1. \A i \in 1..Len(pipe) : pipe[i].cb /\ pipe[i].r = s => i # 1
      BY <1>0, <2>4
    <3>2. got'[s] = got[s]
      BY <1>1, <2>4
    <3> QED  BY <2>1, <2>5, <3>1, <3>2
  <2> QED  BY <2>2, <2>3, <2>4
<1>10. Resolved'
  BY <1>1, <1>9 DEF Resolved
<1>12. CASE op = "HINCRBY" /\ got[r].csp = NullCsp
  <2>1. job[r].kind = "addCSPConso" /\ pc[r] = "incr" /\ r \notin cut
    BY <1>3, <1>12 DEF FInv, Severed
  <2>2. Astray(r)
    BY <1>2, <1>12, <2>1 DEF FInv, Resolved
  <2>3. Astray(r)'
    BY <1>2, <1>6, <2>1, <2>2
  <2>4. Unresolved(r)'
    BY <1>1, <1>8, <1>12, <2>1, <2>3 DEF Unresolved
  <2> QED  BY <1>2, <1>10, <2>4 DEF Booked
<1>13. CASE ~(op = "HINCRBY" /\ got[r].csp = NullCsp)
  <2>1. ASSUME NEW d \in Dbs PROVE db'[d].conso[NullCsp] = db[d].conso[NullCsp]
    <3>2. CASE d # selected
      BY <1>2, <3>2
    <3>3. CASE d = selected
      <4>1. /\ op = "HINCRBY" => got[r].csp # NullCsp
            /\ op \in {"HSETNX_CONSO", "RENAME_CONSO"} => job[r].csp \in Csp /\ job[r].csp # NullCsp
        BY <1>2, <1>3, <1>13, NoneAssumption DEF FInv, Flow, Argued
      <4>2. db'[d].conso = CASE op = "HSETNX_CONSO" -> [db[d].conso EXCEPT ![job[r].csp] = IF @ = None THEN 0 ELSE @]
                            [] op = "RENAME_CONSO" /\ db[d].conso[job[r].csp] # None -> [db[d].conso EXCEPT ![job[r].csp] = None]
                            [] op = "HINCRBY" -> [db[d].conso EXCEPT ![got[r].csp] = OrZero(@) + job[r].bytes]
                            [] OTHER -> db[d].conso
        BY <1>2, <3>3 DEF EffectOf
      <4> QED  BY <4>1, <4>2
    <3> QED  BY <3>2, <3>3
  <2>2. \A s \in Request : job[s].kind = "addCSPConso" /\ pc[s] \in {"incr", "done", "hung"} =>
          job'[s] = job[s] /\ got'[s].csp = got[s].csp /\ pc'[s] \in {"incr", "done", "hung"}
    BY <1>1, <1>3, <1>8
  <2>3. lapsed \subseteq lapsed' /\ misplaced \subseteq misplaced'
    BY <1>1
  <2>4. Booked'
    BY <2>1, <2>2, <2>3, BookedStays
  <2> QED  BY <1>10, <2>4
<1> QED  BY <1>12, <1>13

\* Redis executes a command.
LEMMA ExecRest == ASSUME IInv, FInv, Exec PROVE FInv'
<1>1. Flow' /\ Registering'
  BY ExecFlow, ExecRegistering DEF FInv
<1>2. Fresh'
  <2>1. 1 \in 1..Len(pipe) /\ UNCHANGED pc
    BY ExecFacts
  <2>2. \A s \in Request : s # pipe[1].r => got'[s] = got[s]
    BY ExecReply DEF FInv
  <2>3. pc[pipe[1].r] # "idle"
    BY <2>1 DEF IInv, Base, WellFormed, Sound
  <2> QED  BY <2>1, <2>2, <2>3 DEF FInv, Fresh
<1>3. Severed'
  BY ExecFacts DEF FInv, Severed
<1> QED  BY <1>1, <1>2, <1>3, ExecBillable, ExecPolled, ExecFound DEF FInv
-----------------------------------------------------------------------------
(***************************************************************************)
(* The invariant and what it is for.                                       *)
(***************************************************************************)
\* What the databases hold at first.
LEMMA InitDb ==
    ASSUME Init
    PROVE  /\ db[2].users = [u \in Client |-> IF u \in OldClient THEN OldOwner[u] ELSE None]
           /\ db[0].users = [u \in Client |-> None]
           /\ db[2].ttl = {u \in OldClient : OldOwner[u] # None}
           /\ db[2].cred = {} /\ db[0].cred \subseteq OldClient
           /\ db[0].conso = [c \in CspKey |-> None] /\ db[2].conso[NullCsp] = None
           /\ db[0].histo = [c \in Csp |-> None] /\ db[2].histo = [c \in Csp |-> None]
           /\ \A c \in Csp : carried[c] = OrZero(db[2].conso[c])
<1>1. PICK prov \in [Csp -> QuotaValue \cup {None}], spent \in [Csp -> Bytes \cup {0}],
           turn \in SUBSET Turn, cred \in SUBSET OldClient :
         LET conso == [c \in CspKey |-> IF c = NullCsp \/ (c # NullCsp /\ prov[c] = None)
                                        THEN None ELSE spent[c]]
         IN  /\ \A c \in Csp : prov[c] = None => spent[c] = 0
             /\ db = [d \in Dbs |->
                   IF d = 0 THEN [EmptyStore EXCEPT !.cred = cred]
                   ELSE [EmptyStore EXCEPT
                           !.prov = prov, !.conso = conso, !.turn = turn,
                           !.users = [u \in Client |-> IF u \in OldClient THEN OldOwner[u]
                                                       ELSE None],
                           !.ttl = {u \in OldClient : OldOwner[u] # None}]]
             /\ carried = spent
  BY DEF Init
<1> DEFINE conso == [c \in CspKey |-> IF c = NullCsp \/ (c # NullCsp /\ prov[c] = None)
                                      THEN None ELSE spent[c]]
           users == [u \in Client |-> IF u \in OldClient THEN OldOwner[u] ELSE None]
           given == {u \in OldClient : OldOwner[u] # None}
<1>2. db = [d \in Dbs |->
              IF d = 0 THEN [EmptyStore EXCEPT !.cred = cred]
              ELSE [EmptyStore EXCEPT !.prov = prov, !.conso = conso, !.turn = turn,
                                      !.users = users, !.ttl = given]]
  BY <1>1
<1>3. conso[NullCsp] = None /\ \A c \in Csp : conso[c] = IF prov[c] = None THEN None ELSE spent[c]
  BY NoneAssumption DEF CspKey
<1>4. \A c \in Csp : spent[c] \in Nat /\ spent[c] # None /\ (prov[c] = None => spent[c] = 0)
  <2>1. Bytes \cup {0} \subseteq Nat
    BY NumbersAssumption
  <2> QED  BY <1>1, <2>1, NoneAssumption
<1>5. carried = spent
  BY <1>1
<1> HIDE DEF conso, users, given
<1>6. \A c \in Csp : carried[c] = OrZero(conso[c])
  BY <1>3, <1>4, <1>5 DEF OrZero
<1>8. db[2] = [EmptyStore EXCEPT !.prov = prov, !.conso = conso, !.turn = turn,
                                 !.users = users, !.ttl = given]
  BY <1>2 DEF Dbs
<1>9. /\ db[2].users = users /\ db[2].ttl = given /\ db[2].conso = conso
      /\ db[2].cred = EmptyStore.cred /\ db[2].histo = EmptyStore.histo
  BY <1>8 DEF EmptyStore
<1>7. /\ db[0].users = [u \in Client |-> None] /\ db[0].cred = cred
      /\ db[0].conso = [c \in CspKey |-> None] /\ db[0].histo = [c \in Csp |-> None]
  BY <1>2 DEF Dbs, EmptyStore
<1>10. EmptyStore.cred = {} /\ EmptyStore.histo = [c \in Csp |-> None]
  BY DEF EmptyStore
<1> QED  BY <1>3, <1>6, <1>7, <1>9, <1>10 DEF users, given

\* At first nothing is asked for.
LEMMA FlowInit == ASSUME Init PROVE FInv
<1>1. /\ Len(pipe) = 0 /\ Len(inbox) = 0 /\ Len(tasks) = 0
      /\ \A r \in Request : /\ pc[r] = "idle" /\ job[r] = NoJob /\ got[r] = NoReply
                            /\ answer[r] = "none"
      /\ up = TRUE /\ cut = {}
  BY EmptySeq DEF Init
<1>2. /\ db[2].users = [u \in Client |-> IF u \in OldClient THEN OldOwner[u] ELSE None]
      /\ db[2].ttl = {u \in OldClient : OldOwner[u] # None}
      /\ db[2].cred = {} /\ db[0].cred \subseteq OldClient
      /\ db[0].conso = [c \in CspKey |-> None] /\ db[2].conso[NullCsp] = None
  BY InitDb
<1>3. \A r \in Request : job[r].kind = "none"
  BY <1>1 DEF NoJob
<1>4. Argued
  BY <1>1, <1>3, PlaceFacts DEF Argued, AllKinds
<1>5. Keyed
  BY <1>2 DEF Keyed, Known, Dbs
<1>6. 1..Len(pipe) = {} /\ 1..Len(inbox) = {} /\ 1..Len(tasks) = {}
  BY <1>1
<1>7. Placed /\ Once /\ Registering
  BY <1>6 DEF Placed, Once, Registering
<1>8. Fresh /\ Severed
  BY <1>1 DEF Fresh, Severed
<1>9. Billable
  BY <1>2, <1>3 DEF Billable, Client
<1>10. Polled
  BY <1>1, <1>3 DEF Polled, CrashOnlyInPoll
<1>11. Resolved /\ Booked
  <2>1. \A d \in Dbs : db[d].conso[NullCsp] = None
    BY <1>2 DEF Dbs, CspKey
  <2> QED  BY <1>3, <2>1 DEF Resolved, Booked
<1> QED  BY <1>4, <1>5, <1>7, <1>8, <1>9, <1>10, <1>11 DEF FInv, Flow

\* Every step keeps it.
LEMMA FlowNext == ASSUME IInv, FInv, [Next]_vars PROVE FInv'
<1>1. ASSUME NEW r \in Request, Arrive(r) PROVE FInv'
  <2>1. PICK j, cmds, next : Arrives(r, j, cmds, next)
    BY <1>1, ArriveShape DEF FInv
  <2> QED  BY <2>1, ArrivesRest
<1>2. ASSUME NEW r \in Request, \E cc, nn : Continues(r, cc, nn) PROVE FInv'
  <2>1. PICK cmds, next : Continues(r, cmds, next)
    BY <1>2
  <2> QED  BY <2>1, ContinuesRest
<1>3. ASSUME NEW r \in Request, Task(r) PROVE FInv'
  BY <1>2, <1>3, TaskShape DEF FInv
<1>4. ASSUME NEW r \in Request, PlainTask(r) PROVE FInv'
  <2>1. (\E cc, nn : Continues(r, cc, nn)) \/ Crashes(r)
    BY <1>4, PlainShape DEF FInv
  <2> QED  BY <1>2, <2>1, CrashesRest
<1>5. CASE Exec
  BY <1>5, ExecRest
<1>6. CASE Deliver
  BY <1>6, DeliverRest
<1>7. ASSUME NEW u \in Client, UserExpires(u) PROVE FInv'
  BY <1>7, ExpiresRest
<1>8. ASSUME NEW t \in Turn, TurnChanges(t) PROVE FInv'
  BY <1>8, TurnChangesRest
<1>10. CASE ConnectionLost
  BY <1>10, LostBreaks, BreaksRest
<1>9. CASE UNCHANGED vars
  <2>1. /\ UNCHANGED <<db, selected, pipe, inbox, tasks, pc, job>>
        /\ UNCHANGED <<got, answer, up, misplaced, lapsed, cut, pulled>>
    BY <1>9 DEF vars
  <2>2. Flow'
    BY <2>1, QuietFlow DEF FInv
  <2>3. Fresh' /\ Severed' /\ Registering' /\ Billable'
    BY <2>1 DEF FInv, Fresh, Severed, Registering, Billable
  <2>4. Polled'
    BY <2>1 DEF FInv, Polled, Polling, CrashOnlyInPoll
  <2>5. Resolved' /\ Booked'
    BY <2>1 DEF FInv, Resolved, Booked, Unresolved, Astray, OwnerOf
  <2> QED  BY <2>2, <2>3, <2>4, <2>5 DEF FInv
<1> QED  BY <1>1, <1>3, <1>4, <1>5, <1>6, <1>7, <1>8, <1>9, <1>10 DEF Next

\* The requests flow as described in every behaviour of the DAO.
THEOREM FlowInvariance == Spec => []FInv
<1>1. Init => FInv
  BY FlowInit
<1>2. IInv /\ FInv /\ [Next]_vars => FInv'
  BY FlowNext
<1> QED  BY <1>1, <1>2, Invariance, PTL DEF Spec

\* A client that was given a TURN server leads to its CSP in database 2, with an
\* expiry, until that expiry: the three commands of registerUser stay together
\* behind their SELECT, whatever else the requests send on the connection.
THEOREM BillableClients == Spec => []GrantedClientIsBillable
<1>1. IInv /\ FInv => GrantedClientIsBillable
  <2> SUFFICES ASSUME IInv, FInv, NEW r \in Request, answer[r] = "granted", r \notin lapsed
               PROVE  db[2].users[r] = job[r].csp /\ r \in db[2].ttl
    BY DEF GrantedClientIsBillable
  <2>1. job[r].kind = "getAppropriateTurn" /\ pc[r] = "done"
    BY DEF FInv, Flow, Argued
  <2>2. \A i \in 1..Len(pipe) : ~(pipe[i].op = "EXPIRE_USER" /\ pipe[i].r = r)
    BY <2>1, ExpireAwaits DEF FInv
  <2>3. r \notin cut
    BY DEF FInv, Severed
  <2> QED  BY <2>1, <2>2, <2>3 DEF FInv, Billable
<1> QED  BY <1>1, Invariance, FlowInvariance, PTL

\* The unguarded callbacks of getAllCspInfo fall only when a deletion took a CSP
\* away between the KEYS and the HGETALL of that very poll, when one of the two
\* ran in the database a getCredentials had selected, or when the connection broke
\* before one of the two was answered; and nothing else makes the broker fall.
THEOREM CrashCauses == Spec => []CrashOnlyInPoll
<1>1. FInv => CrashOnlyInPoll
  BY DEF FInv, Polled
<1> QED  BY <1>1, FlowInvariance, PTL

\* addCSPConso books traffic on the null CSP only for a client whose entry expired
\* or that no CSP was ever given, or when a command of the notification ran in the
\* database a getCredentials had selected.
THEOREM GhostCauses == Spec => []GhostOnlyByExpiry
<1>1. FInv => GhostOnlyByExpiry
  BY DEF FInv, Booked, Unresolved, Astray, GhostOnlyByExpiry
<1> QED  BY <1>1, FlowInvariance, PTL
-----------------------------------------------------------------------------
(***************************************************************************)
(* What RedisDAO bills: no CSP pays more than its clients relayed, and     *)
(* once the broker is at rest, exactly that, where the code can promise    *)
(* it.  And what getAppropriateTurn answers: although the quota, the       *)
(* consumption and the servers are read one after the other on a           *)
(* connection that others use, the answer was true at some moment of the   *)
(* request.                                                                *)
(***************************************************************************)

\* A request that has not arrived asks for nothing.
Unasked == \A r \in Request : pc[r] = "idle" => job[r] = NoJob

\* A client leads to its own CSP or nowhere, in the databases and in what a
\* notification has been told.
Owned ==
    /\ \A d \in Dbs, u \in Client : db[d].users[u] \in {None, OwnerOf(u)}
    /\ \A r \in Request : job[r].kind = "addCSPConso" =>
          got[r].csp \in {NullCsp, OwnerOf(job[r].client)}

DeletedOnce(c) == \A r, s \in Deletions(c) : r = s

\* When a CSP that is deleted once has a history, its RENAME has run.
Deleting ==
    /\ \A i, j \in 1..Len(pipe) :
          pipe[i].op = "RENAME_CONSO" /\ pipe[j].op = "RENAME_CONSO" /\ pipe[i].r = pipe[j].r => i = j
    /\ \A c \in Csp : DeletedOnce(c) /\ db[2].histo[c] # None =>
          /\ Deletions(c) # {}
          /\ \A i \in 1..Len(pipe) : pipe[i].op = "RENAME_CONSO" => job[pipe[i].r].csp # c

\* The notifications for clients of a CSP whose increment has not run yet.
Pending(c) ==
    {r \in Request :
        /\ job[r].kind = "addCSPConso" /\ OwnerOf(job[r].client) = c
        /\ \/ pc[r] \in {"userSelected", "user"}
           \/ \E i \in 1..Len(pipe) : pipe[i].r = r /\ pipe[i].op = "HINCRBY"}

\* The bytes each request reports.
Weights == [r \in Request |-> IF job[r].kind = "addCSPConso" THEN job[r].bytes ELSE 0]

\* F adds the weights w up over sets of requests.
Adds(F, w) ==
    /\ F \in [SUBSET Request -> Nat]
    /\ F[{}] = 0
    /\ \A S \in SUBSET Request : \A q \in Request \ S : F[S \cup {q}] = F[S] + w[q]
    /\ \A S, T \in SUBSET Request : S \subseteq T => F[S] <= F[T]

\* What one database says a CSP has consumed.
Total(s, c) == OrZero(s.conso[c]) + OrZero(s.histo[c])

Exact(c) == Calm /\ DeletedOnce(c)

\* What is billed and what is pending do not exceed what was reported; where
\* nothing can be lost they add up to it.
Covered(F, c) ==
    /\ Total(db[0], c) + Total(db[2], c) + F[Pending(c)] <= carried[c]
    /\ Exact(c) => Total(db[2], c) + F[Pending(c)] = carried[c]

Due == \E F : Adds(F, Weights) /\ \A c \in Csp : Covered(F, c)

BInv == Unasked /\ Owned /\ Deleting /\ Due
-----------------------------------------------------------------------------
\* The amounts are numbers.
LEMMA TotalType ==
    ASSUME NEW s \in Store, NEW c \in Csp
    PROVE  /\ Total(s, c) \in Nat /\ OrZero(s.conso[c]) \in Nat /\ OrZero(s.histo[c]) \in Nat
           /\ s.conso[c] \in Nat \cup {None} /\ s.histo[c] \in Nat \cup {None}
<1>1. s.conso[c] \in Nat \cup {None} /\ s.histo[c] \in Nat \cup {None}
  BY DEF Store, Amount, CspKey
<1>2. OrZero(s.conso[c]) \in Nat /\ OrZero(s.histo[c]) \in Nat
  BY <1>1 DEF OrZero
<1> QED  BY <1>1, <1>2 DEF Total

\* What a command changes of the consumption of a CSP in its database: HINCRBY
\* adds, RENAME loses at most the history it overwrites, the rest nothing.
LEMMA EffectTotal ==
    ASSUME NEW op, NEW r \in Request, NEW s \in Store, NEW t \in Store, EffectOf(op, r, s, t), NEW c \in Csp,
           op = "HINCRBY" => job[r].bytes \in Nat /\ got[r].csp \in CspKey,
           op \in {"HSETNX_CONSO", "RENAME_CONSO"} => job[r].csp \in Csp
    PROVE  /\ op = "HINCRBY" => Total(t, c) = Total(s, c) + (IF got[r].csp = c THEN job[r].bytes ELSE 0)
           /\ op = "RENAME_CONSO" => /\ Total(t, c) <= Total(s, c)
                                     /\ s.histo[c] = None \/ job[r].csp # c => Total(t, c) = Total(s, c)
           /\ op \notin {"HINCRBY", "RENAME_CONSO"} => Total(t, c) = Total(s, c)
<1>1. /\ s.conso \in [CspKey -> Amount] /\ s.histo \in [Csp -> Amount] /\ c \in CspKey
  BY DEF Store, CspKey
<1>2. /\ OrZero(s.conso[c]) \in Nat /\ OrZero(s.histo[c]) \in Nat
      /\ s.conso[c] \in Nat \cup {None} /\ s.histo[c] \in Nat \cup {None}
      /\ None \notin Nat /\ Total(s, c) \in Nat
  BY TotalType, NoneAssumption
<1>3. CASE op = "HINCRBY"
  <2>1. t.histo = s.histo /\ t.conso = [s.conso EXCEPT ![got[r].csp] = OrZero(@) + job[r].bytes]
    BY <1>3 DEF EffectOf
  <2>2. CASE got[r].csp = c
    <3>1. t.conso[c] = OrZero(s.conso[c]) + job[r].bytes
      BY <1>1, <2>1, <2>2
    <3>2. OrZero(t.conso[c]) = OrZero(s.conso[c]) + job[r].bytes
      BY <1>2, <1>3, <3>1 DEF OrZero
    <3> QED  BY <1>2, <1>3, <2>1, <2>2, <3>2 DEF Total
  <2>3. CASE got[r].csp # c
    <3>1. t.conso[c] = s.conso[c]
      BY <1>1, <2>1, <2>3
    <3> QED  BY <1>2, <1>3, <2>1, <2>3, <3>1 DEF Total
  <2> QED  BY <2>2, <2>3
<1>4. CASE op = "RENAME_CONSO" /\ s.conso[job[r].csp] # None
  <2>1. /\ t.conso = [s.conso EXCEPT ![job[r].csp] = None]
        /\ t.histo = [s.histo EXCEPT ![job[r].csp] = s.conso[job[r].csp]]
    BY <1>4 DEF EffectOf
  <2>2. CASE job[r].csp = c
    <3>1. t.conso[c] = None /\ t.histo[c] = s.conso[c]
      BY <1>1, <2>1, <2>2
    <3>2. OrZero(t.conso[c]) = 0 /\ OrZero(t.histo[c]) = OrZero(s.conso[c])
      BY <3>1 DEF OrZero
    <3>3. s.histo[c] = None => OrZero(s.histo[c]) = 0
      BY DEF OrZero
    <3> QED  BY <1>2, <1>4, <2>2, <3>2, <3>3 DEF Total
  <2>3. CASE job[r].csp # c
    <3>1. t.conso[c] = s.conso[c] /\ t.histo[c] = s.histo[c]
      BY <1>1, <2>1, <2>3
    <3> QED  BY <1>2, <1>4, <3>1 DEF Total
  <2> QED  BY <2>2, <2>3
<1>5. CASE op = "RENAME_CONSO" /\ s.conso[job[r].csp] = None
  <2>1. t.conso = s.conso /\ t.histo = s.histo
    BY <1>5 DEF EffectOf
  <2> QED  BY <1>2, <1>5, <2>1 DEF Total
<1>6. CASE op = "HSETNX_CONSO"
  <2>1. t.histo = s.histo /\ t.conso = [s.conso EXCEPT ![job[r].csp] = IF @ = None THEN 0 ELSE @]
    BY <1>6 DEF EffectOf
  <2>2. OrZero(t.conso[c]) = OrZero(s.conso[c])
    BY <1>1, <1>2, <1>6, <2>1 DEF OrZero
  <2> QED  BY <1>6, <2>1, <2>2 DEF Total
<1>7. CASE op \notin {"HINCRBY", "RENAME_CONSO", "HSETNX_CONSO"}
  <2>1. t.conso = s.conso /\ t.histo = s.histo
    BY <1>7 DEF EffectOf
  <2> QED  BY <1>7, <2>1 DEF Total
<1> QED  BY <1>3, <1>4, <1>5, <1>6, <1>7

\* G adds n for r to what F adds for the others.
AddsFor(F, G, r, n) ==
    \A S \in SUBSET Request : r \notin S => G[S] = F[S] /\ G[S \cup {r}] = F[S] + n

\* When one more request reports bytes, the sums with it grow by them.
LEMMA AddsMore ==
    ASSUME NEW F, NEW w \in [Request -> Nat], NEW r \in Request, NEW n \in Nat, Adds(F, w), w[r] = 0,
           NEW u, u = [w EXCEPT ![r] = n]
    PROVE  \E G : Adds(G, u) /\ AddsFor(F, G, r, n)
<1> DEFINE G == [S \in SUBSET Request |-> IF r \in S THEN F[S] + n ELSE F[S]]
           v == [w EXCEPT ![r] = n]
<1>1. F \in [SUBSET Request -> Nat] /\ F[{}] = 0
  BY DEF Adds
<1>2. \A S \in SUBSET Request : \A q \in Request \ S : F[S \cup {q}] = F[S] + w[q]
  BY DEF Adds
<1>3. v \in [Request -> Nat] /\ v[r] = n /\ \A q \in Request : q # r => v[q] = w[q]
  OBVIOUS
<1>4. G \in [SUBSET Request -> Nat]
  <2>1. ASSUME NEW S \in SUBSET Request PROVE (IF r \in S THEN F[S] + n ELSE F[S]) \in Nat
    <3>1. F[S] \in Nat
      BY <1>1, Zenon
    <3>2. F[S] + n \in Nat
      BY <3>1
    <3> QED  BY <3>1, <3>2, Zenon
  <2> QED  BY <2>1, Zenon
<1>5. \A S \in SUBSET Request : G[S] = IF r \in S THEN F[S] + n ELSE F[S]
  OBVIOUS
<1> HIDE DEF G, v
<1>6. G[{}] = 0
  BY <1>1, <1>5
<1>7. ASSUME NEW S \in SUBSET Request, NEW q \in Request \ S
      PROVE  G[S \cup {q}] = G[S] + v[q]
  <2>1. S \cup {q} \in SUBSET Request /\ F[S] \in Nat /\ F[S \cup {q}] = F[S] + w[q] /\ w[q] \in Nat
    BY <1>1, <1>2
  <2>2. CASE q = r
    <3>1. r \in S \cup {q} /\ r \notin S
      BY <2>2
    <3>2. G[S \cup {q}] = F[S \cup {q}] + n /\ G[S] = F[S]
      BY <1>5, <2>1, <3>1
    <3> QED  BY <1>3, <2>1, <2>2, <3>2
  <2>3. CASE q # r /\ r \in S
    <3>1. r \in S \cup {q}
      BY <2>3
    <3>2. G[S \cup {q}] = F[S \cup {q}] + n /\ G[S] = F[S] + n
      BY <1>5, <2>1, <2>3, <3>1
    <3> QED  BY <1>3, <2>1, <2>3, <3>2
  <2>4. CASE q # r /\ r \notin S
    <3>1. r \notin S \cup {q}
      BY <2>4
    <3>2. G[S \cup {q}] = F[S \cup {q}] /\ G[S] = F[S]
      BY <1>5, <2>1, <2>4, <3>1
    <3> QED  BY <1>3, <2>1, <2>4, <3>2
  <2> QED  BY <2>2, <2>3, <2>4
<1>12. ASSUME NEW S \in SUBSET Request, NEW T \in SUBSET Request, S \subseteq T PROVE G[S] <= G[T]
  <2>1. F[S] \in Nat /\ F[T] \in Nat /\ F[S] <= F[T]
    BY <1>1, <1>12 DEF Adds
  <2>2. r \in S => r \in T
    BY <1>12
  <2> QED  BY <1>5, <2>1, <2>2
<1>8. Adds(G, v)
  BY <1>4, <1>6, <1>7, <1>12 DEF Adds
<1>9. ASSUME NEW S \in SUBSET Request, r \notin S PROVE G[S] = F[S] /\ G[S \cup {r}] = F[S] + n
  <2>1. S \cup {r} \in SUBSET Request /\ r \in S \cup {r} /\ F[S] \in Nat
    BY <1>1
  <2>2. F[S \cup {r}] = F[S] + w[r]
    BY <1>2, <1>9
  <2>3. F[S \cup {r}] = F[S]
    BY <2>1, <2>2
  <2> QED  BY <1>5, <1>9, <2>1, <2>3
<1>10. AddsFor(F, G, r, n)
  BY <1>9 DEF AddsFor
<1>11. u = v
  BY DEF v
<1> QED  BY <1>8, <1>10, <1>11

\* RENAME is sent once by a deletion, and by nothing else.
LEMMA SendsRename ==
    ASSUME NEW r \in Request, NEW kind, NEW next \in Pc, NEW cmds, Sends(r, kind, next, cmds),
           NEW k \in 1..Len(cmds), cmds[k].op = "RENAME_CONSO"
    PROVE  kind = "deleteCSP" /\ k = 2 /\ next = "renamed"
<1> USE DEF Cmd, Await
<1>1. CASE next \in Waiting /\ cmds = <<Await(Op(next), r)>>
  <2>1. Op(next) # "RENAME_CONSO"
    BY <1>1 DEF Op
  <2>2. Len(cmds) = 1 /\ cmds[1].op = Op(next)
    BY <1>1
  <2> QED  BY <2>1, <2>2
<1>2. CASE next \in {"done", "hung"} /\ cmds = <<>>
  BY <1>2
<1>3. CASE /\ kind = "provRequest" /\ next = "done"
           /\ cmds = <<Cmd("HSETNX_PROV", r), Cmd("HSETNX_CONSO", r)>>
  BY <1>3
<1>4. CASE /\ kind = "deleteCSP" /\ next = "renamed"
           /\ cmds = <<Cmd("SELECT_2", r), Cmd("RENAME_CONSO", r), Await("RENAME_PROV", r)>>
  BY <1>4
<1>5. CASE /\ kind = "getAllCspInfo" /\ next = "allKeys"
           /\ cmds = <<Cmd("SELECT_2", r), Await("KEYS_PROV", r)>>
  BY <1>5
<1>6. CASE /\ kind = "getAppropriateTurn" /\ next = "infosSelected"
           /\ cmds = <<Cmd("SELECT_2", r), Cmd("SET_USER", r), Cmd("EXPIRE_USER", r)>> \o <<Await("SELECT_2", r)>>
  BY <1>6
<1> QED  BY <1>1, <1>2, <1>3, <1>4, <1>5, <1>6 DEF Sends

\* The weights are numbers; a client that is known has a CSP for its owner,
\* or none.
LEMMA OwnerFacts ==
    ASSUME IInv, FInv
    PROVE  /\ Weights \in [Request -> Nat]
           /\ \A u : Known(u) => u \in Client /\ OwnerOf(u) \in Csp \cup {None} /\ (u \in Request => pc[u] # "idle")
           /\ \A r \in Request : job[r].kind = "addCSPConso" => Known(job[r].client)
           /\ \A c : Pending(c) \in SUBSET Request
<1>1. ASSUME NEW r \in Request
      PROVE  (IF job[r].kind = "addCSPConso" THEN job[r].bytes ELSE 0) \in Nat
  BY NumbersAssumption DEF FInv, Flow, Argued
<1>2. ASSUME NEW u, Known(u) PROVE u \in Client /\ OwnerOf(u) \in Csp \cup {None} /\ (u \in Request => pc[u] # "idle")
  <2>1. CASE u \in OldClient
    BY <2>1, OwnerAssumption, NoneAssumption DEF OwnerOf, Client
  <2>2. CASE u \in Request /\ answer[u] = "granted"
    BY <2>2 DEF FInv, Flow, Argued, OwnerOf, Client
  <2> QED  BY <1>2, <2>1, <2>2 DEF Known
<1>3. \A r \in Request : job[r].kind = "addCSPConso" => Known(job[r].client)
  BY DEF FInv, Flow, Argued
<1>4. \A c : Pending(c) \in SUBSET Request
  BY DEF Pending
<1> QED  BY <1>1, <1>2, <1>3, <1>4 DEF Weights
-----------------------------------------------------------------------------
(***************************************************************************)
(* A request arrives.                                                      *)
(***************************************************************************)
\* What an arrival changes, by request.
Arrived(r, j, cmds, next) ==
    /\ pc[r] = "idle" /\ job[r] = NoJob /\ got[r] = NoReply /\ next # "idle"
    /\ job'[r] = j /\ pc'[r] = next
    /\ \A s \in Request : s # r => job'[s] = job[s] /\ pc'[s] = pc[s]
    /\ UNCHANGED <<db, got, lapsed, cut>> /\ overlapped \subseteq overlapped'
    /\ Grown(cmds) /\ \A i \in 1..Len(pipe) : pipe[i].r # r
    /\ \A k \in 1..Len(cmds) : cmds[k].r = r
    /\ \A u : Known(u) => u # r

\* That is what an arrival does.
LEMMA ArrivesFacts ==
    ASSUME IInv, FInv, BInv, NEW r \in Request, NEW j, NEW cmds, NEW next, Arrives(r, j, cmds, next)
    PROVE  Arrived(r, j, cmds, next)
<1>1. pc \in [Request -> Pc] /\ job \in [Request -> Job] /\ next \in Pc
  BY DEF IInv, Base, TypeOK, Arrives, Pc
<1>2. /\ pc[r] = "idle" /\ next # "idle" /\ job'[r] = j /\ pc'[r] = next
      /\ \A s \in Request : s # r => job'[s] = job[s] /\ pc'[s] = pc[s]
      /\ UNCHANGED <<db, got, lapsed, cut>> /\ overlapped \subseteq overlapped' /\ UNCHANGED <<inbox, tasks>>
      /\ Sends(r, j.kind, next, cmds) /\ pipe' = pipe \o cmds
  BY <1>1, PlaceFacts DEF Arrives
<1>3. job[r] = NoJob /\ got[r] = NoReply
  BY <1>2 DEF BInv, Unasked, FInv, Fresh
<1>4. \A i \in 1..Len(pipe) : pipe[i].r # r
  BY <1>2, IdleFree DEF FInv
<1>5. Grown(cmds)
  BY <1>1, <1>2, GrowPipe
<1>6. \A k \in 1..Len(cmds) : cmds[k].r = r
  <2>1. next \in Pc /\ Sends(r, j.kind, next, cmds)
    BY <1>1, <1>2
  <2>2. SentBy(r, j.kind, next, cmds)
    BY <2>1, SendsFacts
  <2> QED  BY <2>2 DEF SentBy
<1>7. \A u : Known(u) => u # r
  BY <1>2, OwnerFacts
<1> QED  BY <1>2, <1>3, <1>4, <1>5, <1>6, <1>7 DEF Arrived

\* The owners stay, and what may be lost only grows.
LEMMA ArrivesOwners ==
    ASSUME IInv, FInv, BInv, NEW r \in Request, NEW j, NEW cmds, NEW next, Arrived(r, j, cmds, next)
    PROVE  /\ \A u \in Client : u # r => OwnerOf(u)' = OwnerOf(u)
           /\ OwnerOf(r) = None
           /\ \A s \in Request : s # r /\ job[s].kind = "addCSPConso" =>
                 OwnerOf(job[s].client)' = OwnerOf(job[s].client)
           /\ \A c : Deletions(c) \subseteq Deletions(c)' /\ r \notin Deletions(c)
           /\ \A c : DeletedOnce(c)' => DeletedOnce(c)
           /\ Calm' => Calm
<1>1. OwnerOf(r) = None /\ job[r].kind = "none"
  BY DEF OwnerOf, Arrived, NoJob
<1>2. \A u \in Client : u # r => OwnerOf(u)' = OwnerOf(u)
  BY DEF OwnerOf, Arrived
<1>3. ASSUME NEW s \in Request, s # r, job[s].kind = "addCSPConso"
      PROVE  OwnerOf(job[s].client)' = OwnerOf(job[s].client)
  <2>1. Known(job[s].client) /\ job[s].client \in Client /\ job[s].client # r
    BY <1>3, OwnerFacts DEF Arrived
  <2>2. job'[s] = job[s]
    BY <1>3 DEF Arrived
  <2>3. OwnerOf(job[s].client)' = IF job[s].client \in Request THEN job'[job[s].client].csp ELSE OldOwner[job[s].client]
    BY <2>2 DEF OwnerOf
  <2> QED  BY <2>1, <2>3 DEF OwnerOf, Arrived
<1>4. \A c : Deletions(c) \subseteq Deletions(c)' /\ r \notin Deletions(c)
  BY <1>1 DEF Deletions, Arrived
<1>5. \A c : DeletedOnce(c)' => DeletedOnce(c)
  BY <1>4 DEF DeletedOnce
<1>6. ASSUME Calm', NEW s \in overlapped \cup cut, job[s].kind = "addCSPConso" PROVE FALSE
  <2>1. s \in Request /\ s # r
    BY <1>1, <1>6 DEF IInv, Base, TypeOK
  <2> QED  BY <1>6, <2>1 DEF Calm, Arrived
<1>7. Calm' => Calm
  BY <1>6 DEF Calm, Arrived
<1> QED  BY <1>1, <1>2, <1>3, <1>4, <1>5, <1>7

\* Clients keep their owners.
LEMMA ArrivesOwned ==
    ASSUME IInv, FInv, BInv, NEW r \in Request, NEW j, NEW cmds, NEW next, Arrived(r, j, cmds, next)
    PROVE  Unasked' /\ Owned'
<1>1. Unasked'
  BY PlaceFacts DEF BInv, Unasked, Arrived
<1>2. ASSUME NEW d \in Dbs, NEW u \in Client PROVE db'[d].users[u] \in {None, OwnerOf(u)'}
  <2>1. db' = db /\ db[d].users[u] \in {None, OwnerOf(u)}
    BY DEF BInv, Owned, Arrived
  <2>2. CASE u = r
    BY <2>1, <2>2, ArrivesOwners
  <2>3. CASE u # r
    <3>1. OwnerOf(u)' = OwnerOf(u)
      BY <2>3, ArrivesOwners
    <3> QED  BY <2>1, <3>1
  <2> QED  BY <2>2, <2>3
<1>3. ASSUME NEW s \in Request, job'[s].kind = "addCSPConso"
      PROVE  got'[s].csp \in {NullCsp, OwnerOf(job[s].client)'}
  <2>1. CASE s = r
    BY <2>1 DEF Arrived, NoReply
  <2>2. CASE s # r
    <3>1. job'[s] = job[s] /\ got' = got
      BY <2>2 DEF Arrived
    <3>2. got[s].csp \in {NullCsp, OwnerOf(job[s].client)}
      BY <1>3, <3>1 DEF BInv, Owned
    <3>3. OwnerOf(job[s].client)' = OwnerOf(job[s].client)
      BY <1>3, <2>2, <3>1, ArrivesOwners
    <3> QED  BY <3>1, <3>2, <3>3
  <2> QED  BY <2>1, <2>2
<1>4. Owned'
  BY <1>2, <1>3 DEF Owned
<1> QED  BY <1>1, <1>4

\* A CSP that has a history already is deleted anew at the price of DeletedOnce.
LEMMA ArrivesDeleting ==
    ASSUME IInv, FInv, BInv, NEW r \in Request, NEW j, NEW cmds, NEW next, next \in Pc,
           Arrived(r, j, cmds, next), Sends(r, j.kind, next, cmds)
    PROVE  Deleting'
<1>1. Grown(cmds) /\ \A k \in 1..Len(cmds) : cmds[k].r = r
  BY DEF Arrived
<1>2. ASSUME NEW i \in 1..Len(pipe'), pipe'[i].op = "RENAME_CONSO"
      PROVE  \/ i \in 1..Len(pipe) /\ pipe'[i] = pipe[i] /\ pipe[i].r # r /\ pipe[i].r \in Request
             \/ i = Len(pipe) + 2 /\ pipe'[i].r = r /\ j.kind = "deleteCSP"
  <2>1. CASE i \in 1..Len(pipe)
    BY <1>1, <2>1 DEF Grown, Arrived
  <2>2. CASE \E k \in 1..Len(cmds) : i = Len(pipe) + k /\ pipe'[i] = cmds[k]
    <3>1. PICK k \in 1..Len(cmds) : i = Len(pipe) + k /\ pipe'[i] = cmds[k]
      BY <2>2
    <3>2. j.kind = "deleteCSP" /\ k = 2
      BY <1>2, <3>1, SendsRename
    <3> QED  BY <1>1, <3>1, <3>2
  <2> QED  BY <1>1, <2>1, <2>2 DEF Grown
<1>3. \A i, k \in 1..Len(pipe') :
        pipe'[i].op = "RENAME_CONSO" /\ pipe'[k].op = "RENAME_CONSO" /\ pipe'[i].r = pipe'[k].r => i = k
  BY <1>2 DEF BInv, Deleting
<1>4. ASSUME NEW c \in Csp, DeletedOnce(c)', db'[2].histo[c] # None
      PROVE  /\ Deletions(c)' # {}
             /\ \A i \in 1..Len(pipe') : pipe'[i].op = "RENAME_CONSO" => job'[pipe'[i].r].csp # c
  <2>1. /\ Deletions(c) \subseteq Deletions(c)' /\ r \notin Deletions(c) /\ DeletedOnce(c) /\ db[2].histo[c] # None
    BY <1>4, ArrivesOwners DEF Arrived
  <2>2. /\ Deletions(c) # {}
        /\ \A i \in 1..Len(pipe) : pipe[i].op = "RENAME_CONSO" => job[pipe[i].r].csp # c
    BY <2>1 DEF BInv, Deleting
  <2>3. r \notin Deletions(c)'
    BY <1>4, <2>1, <2>2 DEF DeletedOnce
  <2>4. ~(j.kind = "deleteCSP" /\ j.csp = c)
    BY <2>3 DEF Deletions, Arrived
  <2>5. ASSUME NEW i \in 1..Len(pipe'), pipe'[i].op = "RENAME_CONSO" PROVE job'[pipe'[i].r].csp # c
    BY <1>2, <2>2, <2>4, <2>5 DEF Arrived
  <2> QED  BY <2>1, <2>2, <2>5
<1> QED  BY <1>3, <1>4 DEF Deleting

\* What a notification reports is carried and pending at once.
LEMMA ArrivesDue ==
    ASSUME IInv, FInv, BInv, NEW r \in Request, NEW j, NEW cmds, NEW next,
           Arrives(r, j, cmds, next), Arrived(r, j, cmds, next)
    PROVE  Due'
<1>1. PICK F : Adds(F, Weights) /\ \A c \in Csp : Covered(F, c)
  BY DEF BInv, Due
<1>2. /\ Weights \in [Request -> Nat] /\ job[r].kind = "none" /\ Weights[r] = 0
      /\ \A c : Pending(c) \in SUBSET Request /\ r \notin Pending(c)
  BY OwnerFacts DEF Arrived, NoJob, Weights, Pending
<1>3. ASSUME NEW s \in Request, s # r, NEW c PROVE s \in Pending(c)' <=> s \in Pending(c)
  <2>1. job'[s] = job[s] /\ pc'[s] = pc[s]
    BY <1>3 DEF Arrived
  <2>2. job[s].kind = "addCSPConso" => OwnerOf(job[s].client)' = OwnerOf(job[s].client)
    BY <1>3, ArrivesOwners
  <2>3. (\E i \in 1..Len(pipe') : pipe'[i].r = s /\ pipe'[i].op = "HINCRBY")
          <=> (\E i \in 1..Len(pipe) : pipe[i].r = s /\ pipe[i].op = "HINCRBY")
    <3>1. ASSUME NEW i \in 1..Len(pipe'), pipe'[i].r = s PROVE i \in 1..Len(pipe) /\ pipe'[i] = pipe[i]
      <4>1. i \in 1..Len(pipe) \/ \E k \in 1..Len(cmds) : i = Len(pipe) + k /\ pipe'[i] = cmds[k]
        BY DEF Arrived, Grown
      <4>2. \A k \in 1..Len(cmds) : cmds[k].r = r
        BY DEF Arrived
      <4>3. i \in 1..Len(pipe)
        BY <1>3, <3>1, <4>1, <4>2
      <4> QED  BY <4>3 DEF Arrived, Grown
    <3>2. \A i \in 1..Len(pipe) : i \in 1..Len(pipe') /\ pipe'[i] = pipe[i]
      BY DEF Arrived, Grown
    <3> QED  BY <3>1, <3>2
  <2> QED  BY <2>1, <2>2, <2>3 DEF Pending
<1>4. db' = db /\ \A c : Exact(c)' => Exact(c)
  BY ArrivesOwners DEF Exact, Arrived
<1>5. CASE j.kind = "addCSPConso"
  <2>9. PICK owner : owner = OwnerOf(j.client)
    OBVIOUS
  <2>10. PICK n : n = j.bytes
    OBVIOUS
  <2>1. /\ n \in Nat /\ Known(j.client) /\ next = "userSelected"
        /\ carried' = IF owner # None THEN [carried EXCEPT ![owner] = @ + n] ELSE carried
    BY <1>5, <2>9, <2>10, NumbersAssumption DEF Arrives
  <2>2. owner \in Csp \cup {None} /\ None \notin Csp /\ j.client # r /\ j.client \in Client
    BY <2>1, <2>9, OwnerFacts, NoneAssumption DEF Arrived
  <2>3. Weights' = [Weights EXCEPT ![r] = n]
    BY <1>5, <2>10 DEF Weights, Arrived
  <2>4. OwnerOf(job[r].client)' = owner
    <3>1. OwnerOf(job[r].client)' = IF j.client \in Request THEN job'[j.client].csp ELSE OldOwner[j.client]
      BY DEF OwnerOf, Arrived
    <3> QED  BY <2>2, <2>9, <3>1 DEF OwnerOf, Arrived
  <2>5. PICK G : Adds(G, Weights') /\ AddsFor(F, G, r, n)
    <3>1. PICK w : w = Weights
      OBVIOUS
    <3>2. Adds(F, w) /\ w \in [Request -> Nat] /\ w[r] = 0 /\ n \in Nat
      BY <1>1, <1>2, <2>1, <3>1
    <3>3. PICK u : u = [w EXCEPT ![r] = n]
      OBVIOUS
    <3>4. \E G : Adds(G, u) /\ AddsFor(F, G, r, n)
      BY <3>2, <3>3, AddsMore
    <3>5. u = Weights'
      BY <2>3, <3>1, <3>3
    <3> QED  BY <3>4, <3>5
  <2>6. Pending(owner)' = Pending(owner) \cup {r}
    <3>1. r \in Pending(owner)'
      BY <1>5, <2>1, <2>4 DEF Pending, Arrived
    <3>2. Pending(owner)' \subseteq Request
      BY DEF Pending
    <3> QED  BY <1>2, <1>3, <3>1, <3>2
  <2>7. ASSUME NEW c \in Csp, c # owner PROVE Pending(c)' = Pending(c)
    <3>1. r \notin Pending(c)'
      BY <2>4, <2>7 DEF Pending
    <3>2. Pending(c)' \subseteq Request
      BY DEF Pending
    <3> QED  BY <1>2, <1>3, <3>1, <3>2
  <2>8. ASSUME NEW c \in Csp PROVE Covered(G, c)'
    <3>1. F[Pending(c)] \in Nat /\ Covered(F, c) /\ carried \in [Csp -> Nat] /\ carried[c] \in Nat
      BY <1>1, <1>2 DEF Adds, IInv, Base, TypeOK
    <3>2. Total(db[0], c) \in Nat /\ Total(db[2], c) \in Nat
      BY TotalType DEF IInv, Base, TypeOK, Dbs
    <3>3. /\ Total(db[0], c)' = Total(db[0], c) /\ Total(db[2], c)' = Total(db[2], c)
      BY <1>4 DEF Total
    <3>4. CASE c = owner
      <4>1. G[Pending(c)'] = F[Pending(c)] + n
        BY <1>2, <2>5, <2>6, <3>4 DEF AddsFor
      <4>2. carried'[c] = carried[c] + n
        BY <2>1, <2>2, <3>1, <3>4
      <4> QED  BY <1>4, <2>1, <3>1, <3>2, <3>3, <4>1, <4>2 DEF Covered
    <3>5. CASE c # owner
      <4>1. G[Pending(c)'] = F[Pending(c)]
        BY <1>2, <2>5, <2>7, <3>5 DEF AddsFor
      <4>2. carried'[c] = carried[c]
        BY <2>1, <3>1, <3>5
      <4> QED  BY <1>4, <3>1, <3>2, <3>3, <4>1, <4>2 DEF Covered
    <3> QED  BY <3>4, <3>5
  <2> QED  BY <2>5, <2>8 DEF Due
<1>6. CASE j.kind # "addCSPConso"
  <2>1. carried' = carried
    BY <1>6 DEF Arrives
  <2>2. Weights' = Weights
    BY <1>2, <1>6 DEF Weights, Arrived
  <2>3. ASSUME NEW c \in Csp PROVE Pending(c)' = Pending(c)
    <3>1. r \notin Pending(c)'
      BY <1>6 DEF Pending, Arrived
    <3>2. Pending(c)' \subseteq Request
      BY DEF Pending
    <3> QED  BY <1>2, <1>3, <3>1, <3>2
  <2>4. ASSUME NEW c \in Csp PROVE Covered(F, c)'
    <3>1. Covered(F, c) /\ Pending(c)' = Pending(c)
      BY <1>1, <2>3
    <3> QED  BY <1>4, <2>1, <3>1 DEF Covered, Total
  <2> QED  BY <1>1, <2>2, <2>4 DEF Due
<1> QED  BY <1>5, <1>6

\* A request that arrives keeps the accounts.
LEMMA ArrivesBilling ==
    ASSUME IInv, FInv, BInv, NEW r \in Request, NEW j, NEW cmds, NEW next, Arrives(r, j, cmds, next)
    PROVE  BInv'
<1>1. Arrived(r, j, cmds, next) /\ next \in Pc /\ Sends(r, j.kind, next, cmds)
  BY ArrivesFacts DEF Arrives, Pc
<1> QED  BY <1>1, ArrivesOwned, ArrivesDeleting, ArrivesDue DEF BInv
-----------------------------------------------------------------------------
(***************************************************************************)
(* The event loop, and what happens outside the broker.                    *)
(***************************************************************************)
\* Where the accounts, the reports and the pending notifications stay, so does
\* their balance.
LEMMA SameDue ==
    ASSUME IInv, FInv, BInv, UNCHANGED <<job, carried>>,
           \A d \in Dbs : db'[d].conso = db[d].conso /\ db'[d].histo = db[d].histo,
           \A c \in Csp : Pending(c)' = Pending(c), Calm' => Calm
    PROVE  Due'
<1>1. PICK F : Adds(F, Weights) /\ \A c \in Csp : Covered(F, c)
  BY DEF BInv, Due
<1>2. Weights' = Weights
  BY DEF Weights
<1>3. ASSUME NEW c \in Csp PROVE Covered(F, c)'
  <2>1. Total(db[0], c)' = Total(db[0], c) /\ Total(db[2], c)' = Total(db[2], c)
    BY DEF Total, Dbs
  <2>2. Exact(c)' => Exact(c)
    BY DEF Exact, DeletedOnce, Deletions
  <2>3. Covered(F, c) /\ Pending(c)' = Pending(c)
    BY <1>1
  <2> QED  BY <2>1, <2>2, <2>3 DEF Covered
<1> QED  BY <1>1, <1>2, <1>3 DEF Due

\* A key that expires, a TURN server that moves and a reply that is delivered
\* touch no account.
LEMMA QuietBilling ==
    ASSUME IInv, FInv, BInv, UNCHANGED <<pipe, pc, job, got, overlapped, carried, cut>>, lapsed \subseteq lapsed',
           \A d \in Dbs : db'[d].conso = db[d].conso /\ db'[d].histo = db[d].histo,
           \A d \in Dbs, u \in Client : db'[d].users[u] \in {None, db[d].users[u]}
    PROVE  BInv'
<1>1. Unasked'
  BY DEF BInv, Unasked
<1>2. Owned'
  <2>1. \A u : OwnerOf(u)' = OwnerOf(u)
    BY DEF OwnerOf
  <2>2. ASSUME NEW d \in Dbs, NEW u \in Client PROVE db'[d].users[u] \in {None, OwnerOf(u)'}
    <3>1. db[d].users[u] \in {None, OwnerOf(u)} /\ OwnerOf(u)' = OwnerOf(u)
      BY <2>1 DEF BInv, Owned
    <3>2. db'[d].users[u] \in {None, db[d].users[u]}
      OBVIOUS
    <3> QED  BY <3>1, <3>2
  <2>3. \A r \in Request : job'[r].kind = "addCSPConso" =>
           got'[r].csp \in {NullCsp, OwnerOf(job[r].client)'}
    BY DEF BInv, Owned, OwnerOf
  <2> QED  BY <2>2, <2>3 DEF Owned
<1>3. Deleting'
  BY DEF BInv, Deleting, DeletedOnce, Deletions, Dbs
<1>4. Due'
  <2>1. \A c \in Csp : Pending(c)' = Pending(c)
    BY DEF Pending, OwnerOf
  <2>2. Calm' => Calm
    BY DEF Calm
  <2> QED  BY <2>1, <2>2, SameDue
<1> QED  BY <1>1, <1>2, <1>3, <1>4 DEF BInv

\* A break of the connection loses what was to be booked, or leaves it pending.
LEMMA BreaksBilling == ASSUME IInv, FInv, BInv, Breaks PROVE BInv'
<1>1. /\ UNCHANGED <<db, tasks, job, got, overlapped, carried, lapsed>> /\ cut' = cut \cup CutOff
      /\ \A s \in Request \ CutOff : pc'[s] = pc[s]
      /\ \A s \in CutOff : s \in Request /\ pc'[s] \in {"done", "hung"}
  BY DEF Breaks
<1>2. 1..Len(pipe') = {}
  BY DEF Breaks
<1>3. Unasked'
  BY <1>1 DEF BInv, Unasked
<1>4. Owned'
  BY <1>1 DEF BInv, Owned, OwnerOf
<1>5. Deleting'
  BY <1>1, <1>2 DEF BInv, Deleting, DeletedOnce, Deletions
<1>6. Weights' = Weights /\ \A c : Pending(c) \in SUBSET Request /\ Pending(c)' \in SUBSET Request
  BY <1>1 DEF Weights, Pending
<1>7. ASSUME NEW c PROVE Pending(c)' \subseteq Pending(c)
  BY <1>1, <1>2 DEF Pending, OwnerOf
<1>8. ASSUME NEW c, Calm' PROVE Pending(c) \subseteq Pending(c)'
  <2> SUFFICES ASSUME NEW s \in Pending(c) PROVE s \in Pending(c)'
    OBVIOUS
  <2>1. s \in Request /\ job[s].kind = "addCSPConso"
    BY DEF Pending
  <2>2. s \notin CutOff
    BY <1>1, <1>8, <2>1 DEF Calm
  <2>3. ASSUME NEW i \in 1..Len(pipe), pipe[i].r = s, pipe[i].op = "HINCRBY" PROVE FALSE
    <3>1. pipe[i].cb
      BY <2>3, CmdKind DEF FInv
    <3>2. pc[s] \in Waiting /\ \A k \in 1..Len(tasks) : tasks[k] # s
      BY <2>3, <3>1 DEF FInv, Flow, Once, Placed
    <3> QED  BY <2>1, <2>2, <3>2 DEF CutOff
  <2>4. pc'[s] = pc[s] /\ pc[s] \in {"userSelected", "user"}
    BY <1>1, <2>1, <2>2, <2>3 DEF Pending
  <2> QED  BY <1>1, <2>4 DEF Pending, OwnerOf
<1>9. PICK F : Adds(F, Weights) /\ \A c \in Csp : Covered(F, c)
  BY DEF BInv, Due
<1>10. ASSUME NEW c \in Csp PROVE Covered(F, c)'
  <2>1. /\ F[Pending(c)] \in Nat /\ F[Pending(c)'] \in Nat /\ F[Pending(c)'] <= F[Pending(c)]
    <3>1. PICK P, Q : P = Pending(c) /\ Q = Pending(c)'
      OBVIOUS
    <3>2. P \in SUBSET Request /\ Q \in SUBSET Request /\ Q \subseteq P
      BY <1>6, <1>7, <3>1
    <3>3. F[P] \in Nat /\ F[Q] \in Nat /\ F[Q] <= F[P]
      BY <1>9, <3>2 DEF Adds
    <3> QED  BY <3>1, <3>3
  <2>2. Total(db[0], c) \in Nat /\ Total(db[2], c) \in Nat /\ carried[c] \in Nat
    BY TotalType DEF IInv, Base, TypeOK, Dbs
  <2>3. Total(db[0], c)' = Total(db[0], c) /\ Total(db[2], c)' = Total(db[2], c)
    BY <1>1 DEF Total
  <2>4. Total(db[0], c) + Total(db[2], c) + F[Pending(c)'] <= carried[c]
    <3>1. Total(db[0], c) + Total(db[2], c) + F[Pending(c)] <= carried[c]
      BY <1>9 DEF Covered
    <3> QED  BY <2>1, <2>2, <3>1
  <2>5. ASSUME Exact(c)' PROVE Total(db[2], c) + F[Pending(c)'] = carried[c]
    <3>1. Exact(c)
      BY <1>1, <2>5 DEF Exact, Calm, DeletedOnce, Deletions
    <3>2. Pending(c)' = Pending(c)
      BY <1>7, <1>8, <2>5 DEF Exact
    <3> QED  BY <1>9, <3>1, <3>2 DEF Covered
  <2> QED  BY <1>1, <2>3, <2>4, <2>5 DEF Covered
<1>11. Due'
  BY <1>6, <1>9, <1>10 DEF Due
<1> QED  BY <1>3, <1>4, <1>5, <1>11 DEF BInv

\* A notification stays pending from its arrival until its HINCRBY runs.
LEMMA ContinuesPending ==
    ASSUME IInv, FInv, BInv, NEW r \in Request, NEW cmds, NEW next, Continues(r, cmds, next), Grown(cmds),
           NEW c \in Csp
    PROVE  Pending(c)' = Pending(c)
<1>1. /\ pc \in [Request -> Pc] /\ next \in Pc \ {"idle", "infosSelected", "userSelected"} /\ pc[r] \in Waiting
      /\ Sends(r, job[r].kind, next, cmds) /\ job[r].kind \in KindsAt(next)
      /\ next = "user" <=> pc[r] = "userSelected"
      /\ next = "incr" <=> pc[r] = "user"
      /\ job' = job
  BY DEF Continues, IInv, Base, TypeOK
<1>2. pc'[r] = next /\ \A s \in Request : s # r => pc'[s] = pc[s]
  BY <1>1 DEF Continues
<1>3. /\ Len(cmds) \in 0..4
      /\ \A k \in 1..Len(cmds) :
            /\ cmds[k].r = r
            /\ cmds[k].cb => k = Len(cmds) /\ next \in Waiting /\ cmds[k].op = Op(next)
            /\ ~cmds[k].cb => job[r].kind \in KindsOf(cmds[k].op)
      /\ next \in Waiting => Len(cmds) > 0 /\ cmds[Len(cmds)].cb
  <2>1. next \in Pc /\ Sends(r, job[r].kind, next, cmds)
    BY <1>1
  <2>2. SentBy(r, job[r].kind, next, cmds)
    BY <2>1, SendsFacts
  <2> QED  BY <2>2 DEF SentBy
<1>4. \A s \in Request : OwnerOf(job[s].client)' = OwnerOf(job[s].client)
  BY <1>1 DEF OwnerOf
<1>5. \A i \in 1..Len(pipe) : i \in 1..Len(pipe') /\ pipe'[i] = pipe[i]
  BY DEF Grown
<1>6. ASSUME NEW i \in 1..Len(pipe')
      PROVE  i \in 1..Len(pipe) \/ \E k \in 1..Len(cmds) : pipe'[i] = cmds[k]
  BY DEF Grown
<1>7. ASSUME NEW s \in Request, s # r PROVE s \in Pending(c)' <=> s \in Pending(c)
  <2>1. ASSUME NEW i \in 1..Len(pipe'), pipe'[i].r = s PROVE i \in 1..Len(pipe) /\ pipe'[i] = pipe[i]
    <3>1. i \in 1..Len(pipe)
      BY <1>3, <1>6, <1>7, <2>1
    <3> QED  BY <1>5, <3>1
  <2>2. (\E i \in 1..Len(pipe') : pipe'[i].r = s /\ pipe'[i].op = "HINCRBY")
          <=> (\E i \in 1..Len(pipe) : pipe[i].r = s /\ pipe[i].op = "HINCRBY")
    BY <1>5, <2>1
  <2> QED  BY <1>1, <1>2, <1>4, <1>7, <2>2 DEF Pending
<1>8. r \in Pending(c)' <=> r \in Pending(c)
  <2> SUFFICES ASSUME job[r].kind = "addCSPConso", OwnerOf(job[r].client) = c
               PROVE  r \in Pending(c)' <=> r \in Pending(c)
    BY <1>1, <1>4 DEF Pending
  <2>1. pc[r] \in {"userSelected", "user", "incr"}
    BY <1>1 DEF FInv, Flow, Argued, KindsAt, Waiting
  <2>2. CASE pc[r] = "userSelected"
    BY <1>1, <1>2, <1>4, <2>2 DEF Pending
  <2>3. CASE pc[r] = "user"
    <3>1. next = "incr" /\ next \in Waiting /\ Op(next) = "HINCRBY"
      BY <1>1, <2>3 DEF Waiting, Op
    <3>2. PICK k \in 1..Len(cmds) : cmds[k].r = r /\ cmds[k].op = "HINCRBY"
      BY <1>3, <3>1
    <3>3. Len(pipe) + k \in 1..Len(pipe') /\ pipe'[Len(pipe) + k] = cmds[k]
      BY DEF Grown
    <3>4. \E i \in 1..Len(pipe') : pipe'[i].r = r /\ pipe'[i].op = "HINCRBY"
      BY <3>2, <3>3
    <3> QED  BY <1>1, <1>4, <2>3, <3>4 DEF Pending
  <2>4. CASE pc[r] = "incr"
    <3>1. next \notin {"userSelected", "user", "incr"} /\ next \notin Waiting
      BY <1>1, <2>4 DEF KindsAt, Waiting
    <3>2. \A i \in 1..Len(pipe) : ~(pipe[i].r = r /\ pipe[i].op = "HINCRBY")
      <4>1. Free(r)
        BY TurnFrees DEF FInv, Continues
      <4>2. \A i \in 1..Len(pipe) : pipe[i].op = "HINCRBY" => pipe[i].cb
        BY CmdKind DEF FInv
      <4> QED  BY <4>1, <4>2 DEF Free
    <3>3. \A k \in 1..Len(cmds) : cmds[k].op # "HINCRBY"
      BY <1>3, <3>1 DEF KindsOf
    <3>4. \A i \in 1..Len(pipe') : ~(pipe'[i].r = r /\ pipe'[i].op = "HINCRBY")
      BY <1>5, <1>6, <3>2, <3>3
    <3> QED  BY <1>2, <2>4, <3>1, <3>2, <3>4 DEF Pending
  <2> QED  BY <2>1, <2>2, <2>3, <2>4
<1>9. Pending(c) \subseteq Request /\ Pending(c)' \subseteq Request
  BY DEF Pending
<1> QED  BY <1>7, <1>8, <1>9

\* A continuation keeps the accounts.
LEMMA ContinuesBilling ==
    ASSUME IInv, FInv, BInv, NEW r \in Request, NEW cmds, NEW next, Continues(r, cmds, next)
    PROVE  BInv'
<1>1. /\ pc \in [Request -> Pc] /\ next \in Pc /\ next # "idle" /\ pc' = [pc EXCEPT ![r] = next]
      /\ Sends(r, job[r].kind, next, cmds) /\ pipe' = pipe \o cmds
      /\ next = "renamed" => Len(cmds) = 1
      /\ UNCHANGED <<db, job, got, overlapped, carried, lapsed, cut>>
  BY DEF Continues, IInv, Base, TypeOK
<1>2. Grown(cmds)
  BY <1>1, GrowPipe
<1>3. Unasked'
  BY <1>1 DEF BInv, Unasked
<1>4. Owned'
  BY <1>1 DEF BInv, Owned, OwnerOf
<1>5. Deleting'
  <2>1. \A k \in 1..Len(cmds) : cmds[k].op # "RENAME_CONSO"
    <3> SUFFICES ASSUME NEW k \in 1..Len(cmds), cmds[k].op = "RENAME_CONSO" PROVE FALSE
      OBVIOUS
    <3>1. next \in Pc /\ Sends(r, job[r].kind, next, cmds)
      BY <1>1
    <3>2. k = 2 /\ next = "renamed"
      BY <3>1, SendsRename
    <3>3. Len(cmds) = 1
      BY <1>1, <3>2
    <3> QED  BY <3>2, <3>3
  <2>2. \A i \in 1..Len(pipe') : pipe'[i].op = "RENAME_CONSO" => i \in 1..Len(pipe) /\ pipe'[i] = pipe[i]
    BY <1>2, <2>1 DEF Grown
  <2>3. \A c : Deletions(c)' = Deletions(c) /\ (DeletedOnce(c)' <=> DeletedOnce(c))
    BY <1>1 DEF Deletions, DeletedOnce
  <2>4. \A i, k \in 1..Len(pipe') :
          pipe'[i].op = "RENAME_CONSO" /\ pipe'[k].op = "RENAME_CONSO" /\ pipe'[i].r = pipe'[k].r => i = k
    BY <2>2 DEF BInv, Deleting
  <2> QED  BY <1>1, <2>2, <2>3, <2>4 DEF BInv, Deleting
<1>6. Due'
  <2>1. \A c \in Csp : Pending(c)' = Pending(c)
    BY <1>2, ContinuesPending
  <2>2. Calm' => Calm
    BY <1>1 DEF Calm
  <2> QED  BY <1>1, <2>1, <2>2, SameDue
<1> QED  BY <1>3, <1>4, <1>5, <1>6 DEF BInv
-----------------------------------------------------------------------------
(***************************************************************************)
(* Redis executes a command.                                               *)
(***************************************************************************)
\* What the execution of op for r changes, as the accounts see it.
Executed(op, r) ==
    /\ op \in Ops /\ r \in Request /\ op = pipe[1].op /\ r = pipe[1].r
    /\ 1 \in 1..Len(pipe) /\ Len(pipe) \in Nat /\ Len(pipe') = Len(pipe) - 1
    /\ \A i \in 1..Len(pipe') : pipe'[i] = pipe[i + 1] /\ i + 1 \in 1..Len(pipe) /\ i + 1 # 1
    /\ UNCHANGED <<pc, job, overlapped, carried, lapsed, cut>>
    /\ \A d \in Dbs : d # selected => db'[d] = db[d]
    /\ db[selected] \in Store /\ db'[selected] \in Store /\ selected \in Dbs
    /\ EffectOf(op, r, db[selected], db'[selected])
    /\ ReplyOf(op, r, db[selected], got'[r])
    /\ \A s \in Request : s # r => got'[s] = got[s]
    /\ op = "GET_USER" => job[r].kind = "addCSPConso"
    /\ op = "HINCRBY" => /\ job[r].kind = "addCSPConso" /\ pc[r] = "incr" /\ pipe[1].cb
                         /\ job[r].bytes \in Nat /\ got[r].csp \in CspKey
    /\ op = "RENAME_CONSO" => job[r].kind = "deleteCSP"
    /\ op \in {"HSETNX_CONSO", "RENAME_CONSO"} => job[r].csp \in Csp

\* That is what Exec does.
LEMMA ExecExecuted == ASSUME IInv, FInv, Exec PROVE \E op, r : Executed(op, r)
<1>1. PICK op : op = pipe[1].op
  OBVIOUS
<1>2. PICK r : r = pipe[1].r
  OBVIOUS
<1>3. /\ 1 \in 1..Len(pipe) /\ Len(pipe) \in Nat /\ Len(pipe') = Len(pipe) - 1
      /\ \A i \in 1..Len(pipe') : pipe'[i] = pipe[i + 1] /\ i + 1 \in 1..Len(pipe) /\ i + 1 # 1
      /\ UNCHANGED <<pc, job, overlapped, carried, lapsed, cut>>
  BY ExecFacts
<1>4. /\ \A d \in Dbs : d # selected => db'[d] = db[d]
      /\ op \in Ops /\ r \in Request /\ db[selected] \in Store /\ db'[selected] \in Store /\ selected \in Dbs
      /\ EffectOf(op, r, db[selected], db'[selected])
  BY <1>1, <1>2, ExecDb DEF FInv
<1>5. /\ ReplyOf(op, r, db[selected], got'[r])
      /\ \A s \in Request : s # r => got'[s] = got[s]
  BY <1>1, <1>2, ExecReply DEF FInv
<1>6. /\ Sound(pipe[1])
      /\ op = "GET_USER" => job[r].kind = "addCSPConso"
      /\ op = "HINCRBY" => job[r].kind = "addCSPConso" /\ pc[r] = "incr" /\ pipe[1].cb
      /\ op = "RENAME_CONSO" => job[r].kind = "deleteCSP"
      /\ op = "HSETNX_CONSO" => job[r].kind = "provRequest"
  BY <1>1, <1>2, <1>3, CmdKind DEF FInv
<1>7. op = "HINCRBY" => job[r].bytes \in Nat /\ got[r].csp \in CspKey
  <2>1. op = "HINCRBY" => job[r].bytes \in Nat
    BY <1>1, <1>2, <1>6 DEF Sound
  <2>2. got[r] \in Reply
    BY <1>4 DEF IInv, Base, TypeOK
  <2>3. got[r].csp \in CspKey
    BY <2>2 DEF Reply
  <2> QED  BY <2>1, <2>3
<1>8. op \in {"HSETNX_CONSO", "RENAME_CONSO"} => job[r].csp \in Csp
  BY <1>1, <1>2, <1>4, <1>6 DEF FInv, Flow, Argued, Sound
<1>9. Executed(op, r)
  BY <1>1, <1>2, <1>3, <1>4, <1>5, <1>6, <1>7, <1>8 DEF Executed
<1> QED  BY <1>9

\* SET writes the client's own CSP, GET reads it or null.
LEMMA ExecOwned == ASSUME IInv, FInv, BInv, NEW op, NEW r, Executed(op, r) PROVE Unasked' /\ Owned'
<1>1. /\ UNCHANGED <<pc, job>> /\ r \in Request /\ selected \in Dbs /\ db[selected] \in Store
      /\ \A d \in Dbs : d # selected => db'[d] = db[d]
  BY DEF Executed
<1>2. Unasked'
  BY <1>1 DEF BInv, Unasked
<1>3. \A u : OwnerOf(u)' = OwnerOf(u)
  BY <1>1 DEF OwnerOf
<1>4. db'[selected].users = IF op = "SET_USER" THEN [db[selected].users EXCEPT ![r] = job[r].csp]
                            ELSE db[selected].users
  BY DEF Executed, EffectOf
<1>5. OwnerOf(r) = job[r].csp
  BY <1>1 DEF OwnerOf
<1>6. ASSUME NEW d \in Dbs, NEW u \in Client PROVE db'[d].users[u] \in {None, OwnerOf(u)'}
  <2>1. db[d].users[u] \in {None, OwnerOf(u)} /\ OwnerOf(u)' = OwnerOf(u)
    BY <1>3 DEF BInv, Owned
  <2>2. DOMAIN db[selected].users = Client
    BY <1>1 DEF Store
  <2>3. db'[d].users[u] \in {db[d].users[u], OwnerOf(u)}
    BY <1>1, <1>4, <1>5, <2>2
  <2> QED  BY <2>1, <2>3
<1>7. ASSUME NEW s \in Request, job[s].kind = "addCSPConso"
      PROVE  got'[s].csp \in {NullCsp, OwnerOf(job[s].client)}
  <2>1. got[s].csp \in {NullCsp, OwnerOf(job[s].client)}
    BY <1>7 DEF BInv, Owned
  <2>2. CASE s # r
    BY <2>1, <2>2 DEF Executed
  <2>3. CASE s = r
    <3>1. got'[r].csp = IF op = "GET_USER" THEN KeyName(db[selected].users[job[r].client]) ELSE got[r].csp
      BY DEF Executed, ReplyOf
    <3>2. Known(job[s].client) /\ job[s].client \in Client
      BY <1>7, OwnerFacts
    <3>3. db[selected].users[job[s].client] \in {None, OwnerOf(job[s].client)}
      BY <1>1, <3>2 DEF BInv, Owned
    <3> QED  BY <2>1, <2>3, <3>1, <3>3 DEF KeyName
  <2> QED  BY <2>2, <2>3
<1>8. \A s \in Request : job'[s].kind = "addCSPConso" => got'[s].csp \in {NullCsp, OwnerOf(job[s].client)'}
  BY <1>1, <1>3, <1>7
<1>9. Owned'
  BY <1>6, <1>8 DEF Owned
<1> QED  BY <1>2, <1>9

\* The RENAME of a CSP deleted once finds no history and leaves one.
LEMMA ExecDeleting == ASSUME IInv, FInv, BInv, NEW op, NEW r, Executed(op, r) PROVE Deleting'
<1>1. /\ job' = job /\ \A c : Deletions(c)' = Deletions(c) /\ (DeletedOnce(c)' <=> DeletedOnce(c))
  BY DEF Executed, Deletions, DeletedOnce
<1>2. \A i, j \in 1..Len(pipe') :
        pipe'[i].op = "RENAME_CONSO" /\ pipe'[j].op = "RENAME_CONSO" /\ pipe'[i].r = pipe'[j].r => i = j
  <2> SUFFICES ASSUME NEW i \in 1..Len(pipe'), NEW j \in 1..Len(pipe'),
                      pipe'[i].op = "RENAME_CONSO", pipe'[j].op = "RENAME_CONSO", pipe'[i].r = pipe'[j].r
               PROVE  i = j
    OBVIOUS
  <2>1. i + 1 = j + 1
    BY DEF BInv, Deleting, Executed
  <2>2. i \in Nat /\ j \in Nat
    BY DEF Executed
  <2> QED  BY <2>1, <2>2
<1>3. ASSUME NEW c \in Csp, DeletedOnce(c), db'[2].histo[c] # None
      PROVE  /\ Deletions(c) # {}
             /\ \A i \in 1..Len(pipe') : pipe'[i].op = "RENAME_CONSO" => job[pipe'[i].r].csp # c
  <2>1. CASE db[2].histo[c] # None
    <3>1. /\ Deletions(c) # {}
          /\ \A i \in 1..Len(pipe) : pipe[i].op = "RENAME_CONSO" => job[pipe[i].r].csp # c
      BY <1>3, <2>1 DEF BInv, Deleting
    <3> QED  BY <3>1 DEF Executed
  <2>2. CASE db[2].histo[c] = None
    <3>1. selected = 2
      BY <1>3, <2>2 DEF Executed, Dbs
    <3>2. op = "RENAME_CONSO" /\ job[r].csp = c
      <4>1. db'[2].histo = IF op = "RENAME_CONSO" /\ db[2].conso[job[r].csp] # None
                           THEN [db[2].histo EXCEPT ![job[r].csp] = db[2].conso[job[r].csp]] ELSE db[2].histo
        BY <3>1 DEF Executed, EffectOf
      <4> QED  BY <1>3, <2>2, <4>1
    <3>3. r \in Deletions(c)
      BY <3>2 DEF Executed, Deletions
    <3>4. ASSUME NEW i \in 1..Len(pipe'), pipe'[i].op = "RENAME_CONSO", job[pipe'[i].r].csp = c PROVE FALSE
      <4>1. /\ pipe'[i] = pipe[i + 1] /\ i + 1 \in 1..Len(pipe) /\ i + 1 # 1 /\ 1 \in 1..Len(pipe)
            /\ pipe[1].op = "RENAME_CONSO" /\ pipe[1].r = r
        BY <3>2 DEF Executed
      <4>2. pipe[i + 1].r \in Deletions(c)
        <5>1. pipe[i + 1].r \in Request /\ job[pipe[i + 1].r].kind = "deleteCSP"
          BY <3>4, <4>1, CmdKind DEF FInv
        <5> QED  BY <3>4, <4>1, <5>1 DEF Deletions
      <4>3. pipe[i + 1].r = r
        BY <1>3, <3>3, <4>2 DEF DeletedOnce
      <4> QED  BY <3>4, <4>1, <4>3 DEF BInv, Deleting
    <3> QED  BY <3>3, <3>4
  <2> QED  BY <2>1, <2>2
<1> QED  BY <1>1, <1>2, <1>3 DEF Deleting

\* A notification is settled when its HINCRBY runs, and then only.
LEMMA ExecPending ==
    ASSUME IInv, FInv, BInv, NEW op, NEW r, Executed(op, r), NEW c \in Csp
    PROVE  /\ op # "HINCRBY" => Pending(c)' = Pending(c)
           /\ op = "HINCRBY" => /\ Pending(c)' = Pending(c) \ {r}
                                /\ r \in Pending(c) <=> OwnerOf(job[r].client) = c
<1> DEFINE In(s) == \E i \in 1..Len(pipe) : pipe[i].r = s /\ pipe[i].op = "HINCRBY"
           After(s) == \E i \in 1..Len(pipe') : pipe'[i].r = s /\ pipe'[i].op = "HINCRBY"
<1>1. /\ UNCHANGED <<pc, job>> /\ r \in Request /\ op = pipe[1].op /\ r = pipe[1].r
      /\ 1 \in 1..Len(pipe) /\ Len(pipe) \in Nat /\ Len(pipe') = Len(pipe) - 1
      /\ \A i \in 1..Len(pipe') : pipe'[i] = pipe[i + 1] /\ i + 1 \in 1..Len(pipe) /\ i + 1 # 1
  BY DEF Executed
<1>2. \A s : After(s) => In(s)
  BY <1>1
<1>3. ASSUME NEW s, NEW i \in 1..Len(pipe), i # 1, pipe[i].r = s, pipe[i].op = "HINCRBY" PROVE After(s)
  <2>1. i - 1 \in 1..Len(pipe') /\ (i - 1) + 1 = i
    BY <1>1, <1>3
  <2>2. pipe'[i - 1] = pipe[i]
    BY <1>1, <2>1
  <2> QED  BY <1>3, <2>1, <2>2
<1>4. \A s : OwnerOf(s)' = OwnerOf(s)
  BY <1>1 DEF OwnerOf
<1>5. ASSUME op # "HINCRBY" PROVE Pending(c)' = Pending(c)
  <2>1. ASSUME NEW s PROVE In(s) <=> After(s)
    <3>1. ASSUME In(s) PROVE After(s)
      <4>1. PICK i \in 1..Len(pipe) : pipe[i].r = s /\ pipe[i].op = "HINCRBY"
        BY <3>1
      <4>2. i # 1
        BY <1>1, <1>5, <4>1
      <4> QED  BY <1>3, <4>1, <4>2
    <3> QED  BY <1>2, <3>1
  <2>2. ASSUME NEW s \in Request PROVE s \in Pending(c)' <=> s \in Pending(c)
    <3>1. s \in Pending(c)' <=> /\ job'[s].kind = "addCSPConso" /\ OwnerOf(job[s].client)' = c
                                /\ (pc'[s] \in {"userSelected", "user"} \/ After(s))
      BY DEF Pending
    <3>2. s \in Pending(c) <=> /\ job[s].kind = "addCSPConso" /\ OwnerOf(job[s].client) = c
                               /\ (pc[s] \in {"userSelected", "user"} \/ In(s))
      BY DEF Pending
    <3>3. OwnerOf(job[s].client)' = OwnerOf(job[s].client)
      BY <1>1 DEF OwnerOf
    <3> QED  BY <1>1, <2>1, <3>1, <3>2, <3>3
  <2>3. Pending(c)' \subseteq Request /\ Pending(c) \subseteq Request
    BY DEF Pending
  <2> QED  BY <2>2, <2>3
<1>6. ASSUME op = "HINCRBY"
      PROVE  Pending(c)' = Pending(c) \ {r} /\ (r \in Pending(c) <=> OwnerOf(job[r].client) = c)
  <2>1. job[r].kind = "addCSPConso" /\ pc[r] = "incr" /\ pipe[1].cb
    BY <1>6 DEF Executed
  <2>2. In(r)
    BY <1>1, <1>6
  <2>3. ~After(r)
    <3> SUFFICES ASSUME NEW i \in 1..Len(pipe'), pipe'[i].r = r, pipe'[i].op = "HINCRBY" PROVE FALSE
      OBVIOUS
    <3>1. pipe[i + 1].r = r /\ pipe[i + 1].op = "HINCRBY" /\ i + 1 \in 1..Len(pipe) /\ i + 1 # 1
      BY <1>1
    <3>2. pipe[i + 1].cb
      BY <3>1, CmdKind DEF FInv
    <3> QED  BY <1>1, <2>1, <3>1, <3>2 DEF FInv, Flow, Once
  <2>4. \A s : s # r => (In(s) <=> After(s))
    BY <1>1, <1>2, <1>3
  <2>5. r \notin Pending(c)' /\ (r \in Pending(c) <=> OwnerOf(job[r].client) = c)
    BY <1>1, <2>1, <2>2, <2>3 DEF Pending
  <2>6. \A s : s # r => (s \in Pending(c)' <=> s \in Pending(c))
    BY <1>1, <1>4, <2>4 DEF Pending
  <2> QED  BY <2>5, <2>6
<1> QED  BY <1>5, <1>6

\* What a command changes of the accounts, database by database.
LEMMA ExecTotals ==
    ASSUME IInv, FInv, BInv, NEW op, NEW r, Executed(op, r), NEW c \in Csp
    PROVE  /\ \A d \in Dbs : Total(db[d], c) \in Nat /\ Total(db[d], c)' \in Nat
           /\ \A d \in Dbs : d # selected => Total(db[d], c)' = Total(db[d], c)
           /\ op = "HINCRBY" => \A d \in Dbs : d = selected =>
                 Total(db[d], c)' = Total(db[d], c) + (IF got[r].csp = c THEN job[r].bytes ELSE 0)
           /\ op # "HINCRBY" => \A d \in Dbs : Total(db[d], c)' <= Total(db[d], c)
           /\ op # "HINCRBY" /\ DeletedOnce(c) => Total(db[2], c)' = Total(db[2], c)
<1>1. /\ db[selected] \in Store /\ db'[selected] \in Store /\ selected \in Dbs /\ r \in Request
      /\ EffectOf(op, r, db[selected], db'[selected])
      /\ op = "HINCRBY" => job[r].bytes \in Nat /\ got[r].csp \in CspKey
      /\ op \in {"HSETNX_CONSO", "RENAME_CONSO"} => job[r].csp \in Csp
      /\ \A d \in Dbs : d # selected => db'[d] = db[d]
      /\ \A d \in Dbs : db[d] \in Store
  BY DEF Executed, IInv, Base, TypeOK
<1>2. PICK s : s = db[selected]
  OBVIOUS
<1>3. PICK t : t = db'[selected]
  OBVIOUS
<1>4. /\ op = "HINCRBY" => Total(t, c) = Total(s, c) + (IF got[r].csp = c THEN job[r].bytes ELSE 0)
      /\ op = "RENAME_CONSO" => /\ Total(t, c) <= Total(s, c)
                                /\ s.histo[c] = None \/ job[r].csp # c => Total(t, c) = Total(s, c)
      /\ op \notin {"HINCRBY", "RENAME_CONSO"} => Total(t, c) = Total(s, c)
  <2>1. s \in Store /\ t \in Store /\ EffectOf(op, r, s, t)
    BY <1>1, <1>2, <1>3
  <2> QED  BY <1>1, <2>1, EffectTotal
<1>5. Total(t, c) \in Nat /\ Total(s, c) \in Nat /\ \A d \in Dbs : Total(db[d], c) \in Nat
  BY <1>1, <1>2, <1>3, TotalType
<1>6. ASSUME NEW d \in Dbs, d # selected PROVE Total(db[d], c)' = Total(db[d], c)
  BY <1>1, <1>6 DEF Total
<1>7. ASSUME NEW d \in Dbs, d = selected PROVE Total(db[d], c)' = Total(t, c) /\ Total(db[d], c) = Total(s, c)
  BY <1>2, <1>3, <1>7 DEF Total
<1>8. \A d \in Dbs : Total(db[d], c)' \in Nat
  BY <1>5, <1>6, <1>7
<1>9. op # "HINCRBY" => \A d \in Dbs : Total(db[d], c)' <= Total(db[d], c)
  <2>1. op # "HINCRBY" => Total(t, c) <= Total(s, c)
    BY <1>4, <1>5
  <2> QED  BY <1>5, <1>6, <1>7, <1>8, <2>1
<1>10. ASSUME op # "HINCRBY", DeletedOnce(c) PROVE Total(db[2], c)' = Total(db[2], c)
  <2>0. 2 \in Dbs
    BY DEF Dbs
  <2>1. CASE selected # 2
    BY <1>6, <2>0, <2>1
  <2>2. CASE selected = 2 /\ op # "RENAME_CONSO"
    BY <1>4, <1>7, <1>10, <2>0, <2>2
  <2>3. CASE selected = 2 /\ op = "RENAME_CONSO"
    <3>1. job[r].csp = c => db[2].histo[c] = None
      <4>1. 1 \in 1..Len(pipe) /\ pipe[1].op = "RENAME_CONSO" /\ pipe[1].r = r
        BY <2>3 DEF Executed
      <4> QED  BY <1>10, <4>1 DEF BInv, Deleting
    <3>2. Total(t, c) = Total(s, c)
      BY <1>2, <1>4, <2>3, <3>1
    <3> QED  BY <1>7, <2>0, <2>3, <3>2
  <2> QED  BY <2>1, <2>2, <2>3
<1>11. op = "HINCRBY" => \A d \in Dbs : d = selected =>
          Total(db[d], c)' = Total(db[d], c) + (IF got[r].csp = c THEN job[r].bytes ELSE 0)
  BY <1>4, <1>7
<1> QED  BY <1>5, <1>6, <1>8, <1>9, <1>10, <1>11

\* HINCRBY moves what its notification reports from the pending to the billed, the
\* other commands bill nothing.
LEMMA ExecDue == ASSUME IInv, FInv, BInv, NEW op, NEW r, Executed(op, r) PROVE Due'
<1>1. PICK F : Adds(F, Weights) /\ \A c \in Csp : Covered(F, c)
  BY DEF BInv, Due
<1>2. Weights' = Weights /\ carried' = carried /\ r \in Request
  BY DEF Executed, Weights
<1>3. F \in [SUBSET Request -> Nat]
  BY <1>1 DEF Adds
<1>4. ASSUME NEW c \in Csp PROVE Covered(F, c)'
  <2> DEFINE P == Pending(c)  Q == Pending(c)'
             A == Total(db[0], c)  B == Total(db[2], c)  AA == Total(db[0], c)'  BB == Total(db[2], c)'
  <2>1. /\ A \in Nat /\ B \in Nat /\ AA \in Nat /\ BB \in Nat
        /\ selected # 0 => AA = A
        /\ selected # 2 => BB = B
        /\ selected \in {0, 2}
    BY ExecTotals DEF Dbs, Executed
  <2>2. P \in SUBSET Request /\ Q \in SUBSET Request
    BY DEF Pending
  <2>3. F[P] \in Nat /\ F[Q] \in Nat
    BY <1>3, <2>2
  <2>4. A + B + F[P] <= carried[c] /\ (Exact(c) => B + F[P] = carried[c])
    BY <1>1 DEF Covered
  <2>5. (Exact(c)' => Exact(c)) /\ carried[c] \in Nat
    BY DEF Exact, DeletedOnce, Deletions, Calm, Executed, IInv, Base, TypeOK
  <2>6. CASE op # "HINCRBY"
    <3>1. Q = P /\ AA <= A /\ BB <= B /\ (Exact(c) => BB = B)
      BY <2>6, ExecPending, ExecTotals DEF Dbs, Exact
    <3>2. AA + BB + F[Q] <= carried[c] /\ (Exact(c) => BB + F[Q] = carried[c])
      <4> HIDE DEF P, Q, A, B, AA, BB
      <4> QED  BY <2>1, <2>3, <2>4, <2>5, <3>1
    <3> QED  BY <1>2, <2>5, <3>2 DEF Covered
  <2>7. CASE op = "HINCRBY"
    <3>1. /\ Q = P \ {r} /\ (r \in P <=> OwnerOf(job[r].client) = c)
          /\ selected = 0 => AA = A + (IF got[r].csp = c THEN job[r].bytes ELSE 0)
          /\ selected = 2 => BB = B + (IF got[r].csp = c THEN job[r].bytes ELSE 0)
      BY <2>7, ExecPending, ExecTotals DEF Dbs
    <3>2. /\ job[r].kind = "addCSPConso" /\ pc[r] = "incr" /\ job[r].bytes \in Nat
          /\ got[r].csp \in {NullCsp, OwnerOf(job[r].client)} /\ NullCsp # c
      BY <2>7, NoneAssumption DEF Executed, BInv, Owned
    <3>3. CASE OwnerOf(job[r].client) # c
      <4>1. Q = P /\ got[r].csp # c
        BY <3>1, <3>2, <3>3
      <4>2. AA = A /\ BB = B
        BY <2>1, <3>1, <4>1
      <4> QED  BY <1>2, <2>4, <2>5, <4>1, <4>2 DEF Covered
    <3>4. CASE OwnerOf(job[r].client) = c
      <4>1. r \in P /\ r \notin Q /\ P = Q \cup {r}
        BY <3>1, <3>4
      <4>2. F[P] = F[Q] + job[r].bytes
        <5>1. F[Q \cup {r}] = F[Q] + Weights[r]
          BY <1>1, <1>2, <2>2, <4>1 DEF Adds
        <5>2. Weights[r] = job[r].bytes
          BY <1>2, <3>2 DEF Weights
        <5> QED  BY <4>1, <5>1, <5>2
      <4>3. AA + BB + F[Q] <= carried[c]
        <5> HIDE DEF P, Q, A, B, AA, BB
        <5> QED  BY <2>1, <2>3, <2>4, <2>5, <3>1, <3>2, <4>2
      <4>4. ASSUME Exact(c) PROVE BB + F[Q] = carried[c]
        <5>1. selected = 2
          <6>1. r \notin overlapped
            BY <3>2, <4>4 DEF Exact, Calm
          <6>2. 1 \in 1..Len(pipe) /\ pipe[1].op = "HINCRBY" /\ pipe[1].r = r
            BY <2>7 DEF Executed
          <6>3. selected = DbOf(pipe[1].r)
            BY <6>1, <6>2, HeadPlaced DEF IsSelect
          <6> QED  BY <3>2, <6>2, <6>3 DEF DbOf, Target
        <5>2. got[r].csp = c
          <6>1. lapsed = {} /\ r \notin overlapped \cup cut
            BY <3>2, <4>4 DEF Exact, Calm
          <6>2. r \notin misplaced
            BY <6>1 DEF IInv, Base, Isolated, SharedConnectionIsolation
          <6>3. ~Astray(r)
            BY <3>4, <6>1, <6>2, NoneAssumption DEF Astray
          <6>4. got[r].csp # NullCsp
            BY <1>2, <3>2, <6>1, <6>3 DEF FInv, Resolved
          <6> QED  BY <3>2, <3>4, <6>4
        <5>3. BB = B + job[r].bytes
          BY <3>1, <5>1, <5>2
        <5> HIDE DEF P, Q, A, B, AA, BB
        <5> QED  BY <2>1, <2>3, <2>4, <3>2, <4>2, <4>4, <5>3
      <4> QED  BY <1>2, <2>5, <4>3, <4>4 DEF Covered
    <3> QED  BY <3>3, <3>4
  <2> QED  BY <2>6, <2>7
<1> QED  BY <1>1, <1>2, <1>4 DEF Due
-----------------------------------------------------------------------------
(***************************************************************************)
(* All together.                                                           *)
(***************************************************************************)
\* At first a CSP owes what the database says it consumed.
LEMMA BillingInit == ASSUME Init PROVE BInv
<1>1. /\ Len(pipe) = 0 /\ \A r \in Request : pc[r] = "idle" /\ job[r] = NoJob /\ got[r] = NoReply
  BY EmptySeq DEF Init
<1>2. /\ db[2].users = [u \in Client |-> IF u \in OldClient THEN OldOwner[u] ELSE None]
      /\ db[0].users = [u \in Client |-> None]
      /\ db[0].conso = [c \in CspKey |-> None]
      /\ db[0].histo = [c \in Csp |-> None] /\ db[2].histo = [c \in Csp |-> None]
      /\ \A c \in Csp : carried[c] = OrZero(db[2].conso[c])
  BY InitDb
<1>3. \A r \in Request : job[r].kind = "none"
  BY <1>1 DEF NoJob
<1>4. 1..Len(pipe) = {}
  BY <1>1
<1>5. Unasked
  BY <1>1 DEF Unasked
<1>6. Owned
  <2>1. ASSUME NEW d \in Dbs, NEW u \in Client PROVE db[d].users[u] \in {None, OwnerOf(u)}
    <3>1. u \in OldClient => u \notin Request
      BY NoneAssumption
    <3> QED  BY <1>2, <3>1 DEF Dbs, OwnerOf
  <2> QED  BY <1>3, <2>1 DEF Owned
<1>7. Deleting
  BY <1>2, <1>4 DEF Deleting
<1>8. Due
  <2> DEFINE F == [S \in SUBSET Request |-> 0]
  <2>1. Weights = [r \in Request |-> 0]
    BY <1>3 DEF Weights
  <2>2. Adds(F, Weights)
    <3>1. F \in [SUBSET Request -> Nat] /\ F[{}] = 0
      OBVIOUS
    <3>2. ASSUME NEW S \in SUBSET Request, NEW q \in Request \ S PROVE F[S \cup {q}] = F[S] + Weights[q]
      BY <2>1
    <3>3. \A S, T \in SUBSET Request : F[S] <= F[T]
      OBVIOUS
    <3> QED  BY <3>1, <3>2, <3>3 DEF Adds
  <2>3. ASSUME NEW c \in Csp PROVE Covered(F, c)
    <3>1. Pending(c) = {} /\ F[{}] = 0
      BY <1>3 DEF Pending
    <3>2. c \in CspKey /\ OrZero(None) = 0
      BY DEF CspKey, OrZero
    <3>3. db[0].conso[c] = None /\ db[0].histo[c] = None /\ db[2].histo[c] = None
      BY <1>2, <3>2
    <3>4. IInv
      BY InitKeeps
    <3>5. OrZero(db[2].conso[c]) \in Nat
      BY <3>4, TotalType DEF IInv, Base, TypeOK, Dbs
    <3>6. Total(db[0], c) = 0 /\ Total(db[2], c) = carried[c]
      BY <1>2, <3>2, <3>3, <3>5 DEF Total
    <3> HIDE DEF F
    <3> QED  BY <1>2, <3>1, <3>5, <3>6 DEF Covered
  <2> QED  BY <2>2, <2>3 DEF Due
<1> QED  BY <1>5, <1>6, <1>7, <1>8 DEF BInv

\* Every step keeps the accounts.
LEMMA BillingNext == ASSUME IInv, FInv, BInv, [Next]_vars PROVE BInv'
<1>1. ASSUME NEW r \in Request, Arrive(r) PROVE BInv'
  <2>1. PICK j, cmds, next : Arrives(r, j, cmds, next)
    BY <1>1, ArriveShape DEF FInv
  <2> QED  BY <2>1, ArrivesBilling
<1>2. ASSUME NEW r \in Request, \E cc, nn : Continues(r, cc, nn) PROVE BInv'
  <2>1. PICK cmds, next : Continues(r, cmds, next)
    BY <1>2
  <2> QED  BY <2>1, ContinuesBilling
<1>3. ASSUME NEW r \in Request, Task(r) PROVE BInv'
  BY <1>2, <1>3, TaskShape DEF FInv
<1>4. ASSUME UNCHANGED <<db, pipe, pc, job, got, overlapped, carried, lapsed, cut>> PROVE BInv'
  BY <1>4, QuietBilling
<1>5. ASSUME NEW r \in Request, PlainTask(r) PROVE BInv'
  <2>1. (\E cc, nn : Continues(r, cc, nn)) \/ Crashes(r)
    BY <1>5, PlainShape DEF FInv
  <2> QED  BY <1>2, <1>4, <2>1 DEF Crashes
<1>6. CASE Exec
  <2>1. PICK op, r : Executed(op, r)
    BY <1>6, ExecExecuted
  <2> QED  BY <2>1, ExecOwned, ExecDeleting, ExecDue DEF BInv
<1>7. CASE Deliver
  BY <1>4, <1>7 DEF Deliver, redis, history
<1>8. ASSUME NEW u \in Client, UserExpires(u) PROVE BInv'
  <2>1. /\ UNCHANGED <<pipe, pc, job, got, overlapped, carried, cut>> /\ lapsed \subseteq lapsed'
        /\ db' = [db EXCEPT ![2].users[u] = None, ![2].ttl = @ \ {u}] /\ db \in [Dbs -> Store]
    BY <1>8 DEF UserExpires, IInv, Base, TypeOK
  <2>2. ASSUME NEW d \in Dbs
        PROVE  /\ db'[d].conso = db[d].conso /\ db'[d].histo = db[d].histo
               /\ \A v \in Client : db'[d].users[v] \in {None, db[d].users[v]}
    <3>1. db[d] \in Store
      BY <2>1
    <3> QED  BY <2>1, <3>1 DEF Store, Dbs
  <2> QED  BY <2>1, <2>2, QuietBilling
<1>9. ASSUME NEW t \in Turn, TurnChanges(t) PROVE BInv'
  <2>1. /\ UNCHANGED <<pipe, pc, job, got, overlapped, carried, cut>> /\ lapsed \subseteq lapsed'
        /\ db' = [db EXCEPT ![2].turn = IF t \in @ THEN @ \ {t} ELSE @ \cup {t}] /\ db \in [Dbs -> Store]
    BY <1>9 DEF TurnChanges, IInv, Base, TypeOK
  <2>2. ASSUME NEW d \in Dbs
        PROVE  /\ db'[d].conso = db[d].conso /\ db'[d].histo = db[d].histo
               /\ \A v \in Client : db'[d].users[v] \in {None, db[d].users[v]}
    <3>1. db[d] \in Store
      BY <2>1
    <3> QED  BY <2>1, <3>1 DEF Store, Dbs
  <2> QED  BY <2>1, <2>2, QuietBilling
<1>11. CASE ConnectionLost
  BY <1>11, LostBreaks, BreaksBilling
<1>10. CASE UNCHANGED vars
  BY <1>4, <1>10 DEF vars
<1> QED  BY <1>1, <1>3, <1>5, <1>6, <1>7, <1>8, <1>9, <1>10, <1>11 DEF Next

\* The accounts balance in every behaviour of the DAO.
THEOREM BillingInvariance == Spec => []BInv
<1>1. Init => BInv
  BY BillingInit
<1>2. IInv /\ FInv /\ BInv /\ [Next]_vars => BInv'
  BY BillingNext
<1> QED  BY <1>1, <1>2, Invariance, FlowInvariance, PTL DEF Spec

\* No CSP is charged for more than its own clients relayed, for any number of
\* requests: what is still to be booked is part of what was reported, so that
\* addCSPConso may run in any database and around any deletion.
THEOREM NoOverbilling == Spec => []NeverOverbilled
<1>1. IInv /\ FInv /\ BInv => NeverOverbilled
  <2> SUFFICES ASSUME IInv, FInv, BInv, NEW c \in Csp PROVE Billed(c) <= carried[c]
    BY DEF NeverOverbilled
  <2>1. PICK F : Adds(F, Weights) /\ Covered(F, c)
    BY DEF BInv, Due
  <2>2. Total(db[0], c) + Total(db[2], c) + F[Pending(c)] <= carried[c] /\ F[Pending(c)] \in Nat
    BY <2>1, OwnerFacts DEF Covered, Adds
  <2>3. \A d \in Dbs : /\ OrZero(db[d].conso[c]) \in Nat /\ OrZero(db[d].histo[c]) \in Nat
                       /\ Total(db[d], c) = OrZero(db[d].conso[c]) + OrZero(db[d].histo[c])
    BY TotalType DEF IInv, Base, TypeOK, Total
  <2>4. carried[c] \in Nat
    BY DEF IInv, Base, TypeOK
  <2> QED  BY <2>2, <2>3, <2>4 DEF Billed, Dbs
<1> QED  BY <1>1, Invariance, FlowInvariance, BillingInvariance, PTL

\* At rest every reported byte is booked once, in the consumption or the history
\* of its CSP, where the code can promise it: no entry expired, no notification
\* beside a getCredentials or cut off by a break of the connection, no CSP deleted
\* twice.
THEOREM ExactBilling == Spec => []BilledExactly
<1>1. IInv /\ FInv /\ BInv => BilledExactly
  <2> SUFFICES ASSUME IInv, FInv, BInv, Live = {}, lapsed = {},
                      \A r \in overlapped \cup cut : job[r].kind # "addCSPConso",
                      NEW c \in Csp, \A r, s \in Deletions(c) : r = s
               PROVE  OrZero(db[2].conso[c]) + OrZero(db[2].histo[c]) = carried[c]
    BY DEF BilledExactly
  <2>1. PICK F : Adds(F, Weights) /\ Covered(F, c)
    BY DEF BInv, Due
  <2>2. Exact(c)
    BY DEF Exact, Calm, DeletedOnce
  <2>3. Pending(c) = {}
    <3> SUFFICES ASSUME NEW r \in Pending(c) PROVE FALSE
      OBVIOUS
    <3>1. r \in Request /\ (pc[r] \in Waiting \/ \E i \in 1..Len(pipe) : pipe[i].r = r)
      BY DEF Pending, Waiting
    <3> QED  BY <3>1 DEF Live
  <2>4. F[Pending(c)] = 0
    BY <2>1, <2>3 DEF Adds
  <2>5. Total(db[2], c) \in Nat
    BY TotalType DEF IInv, Base, TypeOK, Dbs
  <2>6. Total(db[2], c) + F[Pending(c)] = carried[c]
    BY <2>1, <2>2 DEF Covered
  <2>7. Total(db[2], c) = carried[c]
    BY <2>4, <2>5, <2>6
  <2> QED  BY <2>7 DEF Total
<1> QED  BY <1>1, Invariance, FlowInvariance, BillingInvariance, PTL

\* A consumption counter grows or moves whole to the history, in every step: an
\* HSETNX of registerCSP leaves it alone, HINCRBY adds, RENAME takes it along.
THEOREM CountersNeverReset == Spec => ConsoNeverReset
<1> DEFINE A == \A d \in Dbs, c \in Csp :
                   db[d].conso[c] # None =>
                      \/ db'[d].conso[c] # None /\ db'[d].conso[c] >= db[d].conso[c]
                      \/ db'[d].conso[c] = None /\ db'[d].histo[c] = db[d].conso[c]
<1>1. ASSUME IInv, FInv, [Next]_vars PROVE A
  <2>0. \A d \in Dbs : /\ db[d] \in Store
                       /\ \A c \in Csp : db[d].conso[c] \in Nat \cup {None}
    BY <1>1, TotalType DEF IInv, Base, TypeOK
  <2>1. ASSUME \A d \in Dbs : db'[d].conso = db[d].conso PROVE A
    BY <2>0, <2>1
  <2>2. ASSUME NEW r \in Request, Arrive(r) PROVE A
    <3>1. PICK j, cmds, next : Arrives(r, j, cmds, next)
      BY <1>1, <2>2, ArriveShape DEF FInv
    <3>2. db' = db
      BY <3>1 DEF Arrives
    <3> QED  BY <2>1, <3>2
  <2>3. ASSUME NEW r \in Request, Task(r) \/ PlainTask(r) PROVE A
    <3>1. (\E cc, nn : Continues(r, cc, nn)) \/ Crashes(r)
      BY <1>1, <2>3, TaskShape, PlainShape DEF FInv
    <3>2. db' = db
      BY <3>1 DEF Continues, Crashes
    <3> QED  BY <2>1, <3>2
  <2>4. CASE Exec
    <3>1. PICK op, r : Executed(op, r)
      BY <1>1, <2>4, ExecExecuted
    <3> SUFFICES ASSUME NEW d \in Dbs, NEW c \in Csp, db[d].conso[c] # None
                 PROVE  \/ db'[d].conso[c] # None /\ db'[d].conso[c] >= db[d].conso[c]
                        \/ db'[d].conso[c] = None /\ db'[d].histo[c] = db[d].conso[c]
      OBVIOUS
    <3>2. CASE d # selected
      BY <2>0, <3>1, <3>2 DEF Executed
    <3>3. CASE d = selected
      <4>1. PICK s : s = db[selected]
        OBVIOUS
      <4>2. PICK t : t = db'[selected]
        OBVIOUS
      <4>3. /\ s \in Store /\ EffectOf(op, r, s, t) /\ c \in CspKey
            /\ op = "HINCRBY" => job[r].bytes \in Nat
        BY <3>1, <4>1, <4>2 DEF Executed, CspKey
      <4>4. /\ s.conso \in [CspKey -> Amount] /\ s.histo \in [Csp -> Amount] /\ s.conso[c] \in Nat
            /\ None \notin Nat
        BY <2>0, <3>3, <4>1, <4>3, NoneAssumption DEF Store
      <4>5. \/ t.conso[c] \in Nat /\ t.conso[c] >= s.conso[c]
            \/ t.conso[c] = None /\ t.histo[c] = s.conso[c]
        BY <4>3, <4>4 DEF EffectOf, OrZero
      <4> QED  BY <3>3, <4>1, <4>2, <4>4, <4>5
    <3> QED  BY <3>2, <3>3
  <2>5. CASE Deliver
    BY <2>1, <2>5 DEF Deliver, redis
  <2>6. ASSUME NEW u \in Client, UserExpires(u) PROVE A
    <3>1. db' = [db EXCEPT ![2].users[u] = None, ![2].ttl = @ \ {u}] /\ db \in [Dbs -> Store]
      BY <1>1, <2>6 DEF UserExpires, IInv, Base, TypeOK
    <3>2. \A d \in Dbs : db'[d].conso = db[d].conso
      BY <2>0, <3>1 DEF Store, Dbs
    <3> QED  BY <2>1, <3>2
  <2>7. ASSUME NEW t \in Turn, TurnChanges(t) PROVE A
    <3>1. db' = [db EXCEPT ![2].turn = IF t \in @ THEN @ \ {t} ELSE @ \cup {t}] /\ db \in [Dbs -> Store]
      BY <1>1, <2>7 DEF TurnChanges, IInv, Base, TypeOK
    <3>2. \A d \in Dbs : db'[d].conso = db[d].conso
      BY <2>0, <3>1 DEF Store, Dbs
    <3> QED  BY <2>1, <3>2
  <2>9. CASE ConnectionLost
    BY <2>1, <2>9 DEF ConnectionLost
  <2>8. CASE UNCHANGED vars
    BY <2>1, <2>8 DEF vars
  <2> HIDE DEF A
  <2> QED  BY <1>1, <2>2, <2>3, <2>4, <2>5, <2>6, <2>7, <2>8, <2>9 DEF Next
<1>2. IInv /\ FInv /\ [Next]_vars => [A]_vars
  BY <1>1
<1> QED  BY <1>2, Invariance, FlowInvariance, PTL DEF Spec, ConsoNeverReset
-----------------------------------------------------------------------------
(* What getAppropriateTurn answers. *)
\* The turn requests that ran beside no request for the other database.
Alone == {r \in Request \ overlapped : job[r].kind = "getAppropriateTurn"}

\* The reply request r waits for has not been executed yet.
Asked(r) == \E i \in 1..Len(pipe) : pipe[i].cb /\ pipe[i].r = r

Deleted(r) == Meddled(r, {"deleteCSP"})
Moved(r) == Meddled(r, {"changeQuotas"})

\* What getAppropriateTurn has found out, from where it is in its code; it is
\* answered at the end.
Informed(r) ==
    /\ pc[r] \in Waiting => answer[r] = "none"
    /\ pc[r] \in {"infosSelected", "infos", "consoSelected"} => got[r].conso = None
    /\ pc[r] \in {"consoSelected", "conso", "turnsSelected", "turnKeys", "turns"} => got[r].quota # None
    /\ pc[r] \in {"turnsSelected", "turnKeys", "turns"} =>
          got[r].conso # None /\ ~Exceeds(got[r].conso, got[r].quota)

\* A reply that brought nothing was true when it was given, and so is every
\* server of the list.
Replied(r) ==
    /\ pc[r] = "infos" /\ ~Asked(r) /\ got[r].quota = None => "absent" \in witness[r]
    /\ pc[r] = "conso" /\ ~Asked(r) /\ got[r].conso = None => "absent" \in witness[r]
    /\ pc[r] = "turnKeys" /\ ~Asked(r) /\ got[r].turns = {} => "noturn" \in witness[r]
    /\ got[r].turns \subseteq witness[r]

\* The quota that was read is still there unless the CSP is deleted, the same
\* unless it is moved, and the consumption has only grown since.
QuotaHolds(r) ==
    got[r].quota # None /\ ~Deleted(r) =>
        /\ db[2].prov[job[r].csp] # None
        /\ ~Moved(r) => db[2].prov[job[r].csp] = got[r].quota
        /\ \/ "absent" \in witness[r]
           \/ /\ db[2].conso[job[r].csp] # None
              /\ ~Exceeds(db[2].conso[job[r].csp], got[r].quota) => "within" \in witness[r]

\* What the comparison of the two says was so.
Compared(r) ==
    got[r].quota # None /\ got[r].conso # None =>
        IF Exceeds(got[r].conso, got[r].quota)
        THEN "over" \in witness[r] \/ Deleted(r) \/ Moved(r)
        ELSE "within" \in witness[r] \/ Deleted(r) \/ ("absent" \in witness[r] /\ Moved(r))

\* What the answer says was so.
Justified(r) ==
    /\ answer[r] = "granted" =>
          /\ chosen[r] \in witness[r]
          /\ "within" \in witness[r] \/ Deleted(r) \/ ("absent" \in witness[r] /\ Moved(r))
    /\ answer[r] = "notfound" => "absent" \in witness[r] \/ r \in cut
    /\ answer[r] = "noturn" => "noturn" \in witness[r]
    /\ answer[r] = "overquota" => "over" \in witness[r] \/ Deleted(r) \/ Moved(r)

Verdicts == {"granted", "notfound", "noturn", "overquota"}

\* Only getAppropriateTurn gives these answers, and none is given beforehand.
Verdict(r) ==
    /\ answer[r] \in Verdicts => job[r].kind = "getAppropriateTurn"
    /\ pc[r] = "idle" => answer[r] = "none" /\ job[r].kind = "none"

AInv ==
    /\ \A r \in Request : Verdict(r)
    /\ \A r \in Request : job[r].kind = "getAppropriateTurn" => Informed(r)
    /\ \A r \in Alone : Replied(r) /\ QuotaHolds(r) /\ Compared(r) /\ Justified(r)
-----------------------------------------------------------------------------
\* What an observer of database 2 says, case by case.
LEMMA FactsOf ==
    ASSUME NEW c \in Csp, NEW s \in Store
    PROVE  /\ s.prov[c] = None \/ s.conso[c] = None => "absent" \in Facts(c, s)
           /\ s.prov[c] # None /\ s.conso[c] # None =>
                 IF Exceeds(s.conso[c], s.prov[c]) THEN "over" \in Facts(c, s) ELSE "within" \in Facts(c, s)
           /\ s.turn = {} => "noturn" \in Facts(c, s)
           /\ s.turn \subseteq Facts(c, s)
<1>1. s.prov[c] \in Nat \cup {NaN, None} /\ s.conso[c] \in Nat \cup {None} /\ NaN \notin Nat /\ None \notin Nat
  BY NumbersAssumption, NoneAssumption DEF Store, QuotaValue, Amount, CspKey
<1>2. PICK x : x = CASE s.prov[c] = None \/ s.conso[c] = None -> "absent"
                     [] s.prov[c] \in Nat /\ s.conso[c] \in Nat /\ s.conso[c] > s.prov[c] -> "over"
                     [] OTHER -> "within"
  OBVIOUS
<1>3. Facts(c, s) = {x} \cup (IF s.turn = {} THEN {"noturn"} ELSE s.turn)
  BY <1>2, Zenon DEF Facts
<1>4. s.prov[c] = None \/ s.conso[c] = None => x = "absent"
  BY <1>1, <1>2
<1>5. s.prov[c] # None /\ s.conso[c] # None =>
         IF Exceeds(s.conso[c], s.prov[c]) THEN x = "over" ELSE x = "within"
  BY <1>1, <1>2 DEF Exceeds
<1> QED  BY <1>3, <1>4, <1>5

\* The witness of a pending turn request takes in what is so now.
LEMMA WitnessGrows ==
    ASSUME TypeOK, NEW s, witness' = Witnessed(s), NEW r \in Request
    PROVE  /\ witness[r] \subseteq witness'[r]
           /\ job[r].kind = "getAppropriateTurn" /\ answer[r] = "none" => Facts(job[r].csp, s) \subseteq witness'[r]
BY DEF Witnessed, TypeOK

\* Nothing a turn request has learnt changes; its witness may grow, and it stays
\* where it is.
Same(r) ==
    /\ job'[r] = job[r] /\ got'[r] = got[r] /\ pc'[r] = pc[r] /\ answer'[r] = answer[r] /\ chosen'[r] = chosen[r]
    /\ witness[r] \subseteq witness'[r]
    /\ \A s \in Request : s # r /\ job[s].kind # "none" => job'[s] = job[s]
    /\ Asked(r) => Asked(r)'
    /\ overlapped \subseteq overlapped' /\ cut \subseteq cut'

\* A deletion or a change that was asked for stays asked for.
LEMMA StillMeddled ==
    ASSUME NEW r \in Request, Same(r) PROVE (Deleted(r) => Deleted(r)') /\ (Moved(r) => Moved(r)')
BY DEF Same, Deleted, Moved, Meddled

\* Then all it had seen stands.
LEMMA SameStands ==
    ASSUME NEW r \in Request, Same(r)
    PROVE  /\ r \in Alone' => r \in Alone
           /\ Informed(r) => Informed(r)'
           /\ Replied(r) => Replied(r)'
           /\ Compared(r) => Compared(r)'
           /\ Justified(r) => Justified(r)'
           /\ Verdict(r) => Verdict(r)'
           /\ db'[2].prov = db[2].prov /\ db'[2].conso = db[2].conso /\ QuotaHolds(r) => QuotaHolds(r)'
<1>1. (Deleted(r) => Deleted(r)') /\ (Moved(r) => Moved(r)')
  BY StillMeddled
<1>2. /\ job'[r] = job[r] /\ got'[r] = got[r] /\ pc'[r] = pc[r] /\ answer'[r] = answer[r] /\ chosen'[r] = chosen[r]
      /\ witness[r] \subseteq witness'[r] /\ (Asked(r) => Asked(r)') /\ cut \subseteq cut'
  BY DEF Same
<1>3. r \in Alone' => r \in Alone
  BY DEF Same, Alone
<1>4. Informed(r) => Informed(r)'
  BY <1>2 DEF Informed, Exceeds
<1>5. Replied(r) => Replied(r)'
  BY <1>2 DEF Replied
<1>6. Compared(r) => Compared(r)'
  BY <1>1, <1>2 DEF Compared, Exceeds
<1>7. Justified(r) => Justified(r)'
  BY <1>1, <1>2 DEF Justified
<1>8. Verdict(r) => Verdict(r)'
  BY <1>2 DEF Verdict
<1>9. db'[2].prov = db[2].prov /\ db'[2].conso = db[2].conso /\ QuotaHolds(r) => QuotaHolds(r)'
  BY <1>1, <1>2 DEF QuotaHolds, Exceeds
<1> QED  BY <1>3, <1>4, <1>5, <1>6, <1>7, <1>8, <1>9
-----------------------------------------------------------------------------
(***************************************************************************)
(* A request arrives.                                                      *)
(***************************************************************************)
\* What is awaited stays awaited when commands are added.
LEMMA GrownAsked ==
    ASSUME NEW cmds, Grown(cmds), NEW r, NEW s
    PROVE  /\ Asked(s) => Asked(s)'
           /\ (\E k \in 1..Len(cmds) : cmds[k].cb /\ cmds[k].r = r) => Asked(r)'
<1>1. ASSUME NEW i \in 1..Len(pipe), pipe[i].cb, pipe[i].r = s PROVE Asked(s)'
  <2>1. i \in 1..Len(pipe') /\ pipe'[i] = pipe[i]
    BY DEF Grown
  <2> QED  BY <1>1, <2>1 DEF Asked
<1>2. ASSUME NEW k \in 1..Len(cmds), cmds[k].cb, cmds[k].r = r PROVE Asked(r)'
  <2>1. Len(pipe) + k \in 1..Len(pipe') /\ pipe'[Len(pipe) + k] = cmds[k]
    BY DEF Grown
  <2> QED  BY <1>2, <2>1 DEF Asked
<1> QED  BY <1>1, <1>2 DEF Asked

\* An arrival gives no answer but the redirection of provRequest.
LEMMA ArriveAnswers ==
    ASSUME TypeOK, NEW r \in Request, Arrive(r)
    PROVE  /\ chosen' = chosen
           /\ \A s \in Request : s # r => witness'[s] = witness[s] /\ answer'[s] = answer[s]
           /\ answer'[r] = answer[r] \/ (answer'[r] = "redirect" /\ job'[r].kind = "provRequest")
<1> USE DEF TypeOK
<1>1. ASSUME NEW j, NEW cmds, NEW next, Start(r, j, cmds, next) PROVE chosen' = chosen /\ job'[r] = j
  BY <1>1 DEF Start
<1>2. ASSUME NEW c \in Csp, NEW q \in QuotaValue, ProvRequest(r, c, q)
      PROVE  chosen' = chosen /\ job'[r].kind = "provRequest" /\ answer' = [answer EXCEPT ![r] = "redirect"]
             /\ witness' = witness
  <2>1. PICK j : j = [NoJob EXCEPT !.kind = "provRequest", !.csp = c, !.quota = q]
    OBVIOUS
  <2>2. j.kind = "provRequest"
    BY <2>1 DEF NoJob
  <2>3. Start(r, j, <<Await("SELECT_2", r)>>, "provSelected")
    BY <1>2, <2>1, Zenon DEF ProvRequest
  <2>4. answer' = [answer EXCEPT ![r] = "redirect"] /\ witness' = witness
    BY <1>2 DEF ProvRequest
  <2> QED  BY <1>1, <2>2, <2>3, <2>4
<1>3. ASSUME NEW c \in Csp, GetAppropriateTurn(r, c)
      PROVE  chosen' = chosen /\ answer' = answer /\ \A s \in Request : s # r => witness'[s] = witness[s]
  BY <1>1, <1>3 DEF GetAppropriateTurn
<1>4. ASSUME \/ \E u \in Client : GetCredentials(r, u)
             \/ \E c \in Csp : DeleteCSP(r, c)
             \/ DeleteWithoutKey(r)
             \/ \E c \in Csp, q \in QuotaValue : ChangeQuotas(r, c, q)
             \/ GetAllCspInfo(r)
             \/ \E c \in Csp : GetCspConso(r, c)
             \/ \E u \in Client, n \in Bytes : AddCSPConso(r, u, n)
      PROVE  chosen' = chosen /\ answer' = answer /\ witness' = witness
  BY <1>1, <1>4 DEF GetCredentials, DeleteCSP, DeleteWithoutKey, history, ChangeQuotas, GetAllCspInfo, GetCspConso, AddCSPConso
<1> QED  BY <1>2, <1>3, <1>4 DEF Arrive

\* A turn request starts with its reads ahead of it, and another arrival tells it
\* nothing.
LEMMA ArriveKeepsAnswers == ASSUME IInv, FInv, AInv, NEW r \in Request, Arrive(r) PROVE AInv'
<1>1. PICK j, cmds, next : Arrives(r, j, cmds, next)
  BY ArriveShape DEF FInv
<1>2. /\ pc \in [Request -> Pc] /\ job \in [Request -> Job] /\ next \in Pc /\ pc[r] = "idle"
      /\ next \in Waiting \/ (next = "hung" /\ j.kind = "deleteCSP")
      /\ pc' = [pc EXCEPT ![r] = next] /\ job' = [job EXCEPT ![r] = j]
      /\ overlapped \subseteq overlapped' /\ UNCHANGED <<db, got, cut>>
      /\ Sends(r, j.kind, next, cmds) /\ pipe' = pipe \o cmds
      /\ j.kind = "getAppropriateTurn" => Len(cmds) = 4
      /\ j.kind \in KindsAt(next)
  BY <1>1 DEF Arrives, IInv, Base, TypeOK, Pc
<1>3. /\ pc'[r] = next /\ job'[r] = j
      /\ \A s \in Request : s # r => pc'[s] = pc[s] /\ job'[s] = job[s]
  BY <1>2
<1>4. Grown(cmds)
  BY <1>2, GrowPipe
<1>5. /\ chosen' = chosen
      /\ \A s \in Request : s # r => witness'[s] = witness[s] /\ answer'[s] = answer[s]
      /\ answer'[r] = answer[r] \/ (answer'[r] = "redirect" /\ j.kind = "provRequest")
  BY <1>3, ArriveAnswers DEF IInv, Base
<1>6. got[r] = NoReply /\ answer[r] = "none" /\ job[r].kind = "none"
  BY <1>2 DEF AInv, Verdict, FInv, Fresh
<1>7. ASSUME NEW s \in Request, s # r PROVE Same(s)
  <2>1. Asked(s) => Asked(s)'
    BY <1>4, GrownAsked
  <2> QED  BY <1>2, <1>3, <1>5, <1>6, <1>7, <2>1 DEF Same
<1>8. next \in Waiting => Asked(r)'
  <2> SUFFICES ASSUME next \in Waiting PROVE Asked(r)'
    OBVIOUS
  <2>1. next \in Pc /\ Sends(r, j.kind, next, cmds)
    BY <1>2
  <2>2. Len(cmds) \in Nat /\ Len(cmds) > 0 /\ cmds[Len(cmds)].cb /\ cmds[Len(cmds)].r = r
    <3>1. SentBy(r, j.kind, next, cmds)
      BY <2>1, SendsFacts
    <3> QED  BY <3>1 DEF SentBy
  <2>3. \E k \in 1..Len(cmds) : cmds[k].cb /\ cmds[k].r = r
    BY <2>2
  <2> QED  BY <1>4, <2>3, GrownAsked
<1>9. j.kind = "getAppropriateTurn" => next = "infosSelected" /\ answer'[r] = "none"
  <2>1. ASSUME j.kind = "getAppropriateTurn" PROVE next = "infosSelected"
    <3>1. CASE next \in Waiting /\ cmds = <<Await(Op(next), r)>>
      <4>1. Len(cmds) = 1
        BY <3>1
      <4> QED  BY <1>2, <2>1, <4>1
    <3>2. next \notin {"done", "hung"}
      BY <1>2, <2>1, PlaceFacts
    <3> QED  BY <1>2, <2>1, <3>1, <3>2 DEF Sends
  <2> QED  BY <1>5, <1>6, <2>1
<1>10. Verdict(r)'
  BY <1>2, <1>3, <1>5, <1>6, PlaceFacts DEF Verdict, Verdicts
<1>11. j.kind = "getAppropriateTurn" => Informed(r)'
  BY <1>2, <1>3, <1>6, <1>9 DEF Informed, NoReply
<1>12. j.kind = "getAppropriateTurn" => Replied(r)' /\ QuotaHolds(r)' /\ Compared(r)' /\ Justified(r)'
  <2>1. Replied(r)' /\ QuotaHolds(r)' /\ Compared(r)'
    BY <1>2, <1>3, <1>6, <1>8 DEF Replied, QuotaHolds, Compared, NoReply
  <2> QED  BY <1>9, <2>1 DEF Justified
<1>13. ASSUME NEW s \in Request
       PROVE  /\ Verdict(s)' /\ (job'[s].kind = "getAppropriateTurn" => Informed(s)')
              /\ s \in Alone' => Replied(s)' /\ QuotaHolds(s)' /\ Compared(s)' /\ Justified(s)'
  <2>1. CASE s = r
    BY <1>3, <1>10, <1>11, <1>12, <2>1 DEF Alone
  <2>2. CASE s # r
    BY <1>2, <1>3, <1>7, <2>2, SameStands DEF AInv
  <2> QED  BY <2>1, <2>2
<1> QED  BY <1>13 DEF AInv, Alone
-----------------------------------------------------------------------------
(***************************************************************************)
(* A continuation or a callback runs.                                      *)
(***************************************************************************)
\* Where the code of a turn request goes, by what its replies brought.
GoesOn(r) ==
    /\ answer'[r] = answer[r]
    /\ pc'[r] # "idle"
    /\ pc'[r] = "infos" => pc[r] = "infosSelected"
    /\ pc'[r] = "consoSelected" => pc[r] = "infos" /\ got[r].quota # None
    /\ pc'[r] = "conso" => pc[r] = "consoSelected"
    /\ pc'[r] = "turnsSelected" => pc[r] = "conso" /\ got[r].conso # None /\ ~Exceeds(got[r].conso, got[r].quota)
    /\ pc'[r] = "turnKeys" => pc[r] = "turnsSelected"
    /\ pc'[r] = "turns" => pc[r] = "turnKeys"
    /\ pc'[r] # "infosSelected"

\* How it answers.
Concludes(r) ==
    /\ pc'[r] = "done"
    /\ answer'[r] \in Verdicts => job[r].kind = "getAppropriateTurn"
    /\ answer'[r] = "notfound" => \/ pc[r] = "infos" /\ got[r].quota = None
                                  \/ pc[r] = "conso" /\ got[r].conso = None
    /\ answer'[r] = "overquota" => pc[r] = "conso" /\ got[r].conso # None /\ Exceeds(got[r].conso, got[r].quota)
    /\ answer'[r] = "noturn" => pc[r] = "turnKeys" /\ got[r].turns = {}
    /\ answer'[r] = "granted" => pc[r] = "turns" /\ chosen'[r] \in got[r].turns

Judges(r) ==
    /\ witness' = witness
    /\ \A s \in Request : s # r => answer'[s] = answer[s] /\ chosen'[s] = chosen[s]
    /\ (GoesOn(r) /\ chosen'[r] = chosen[r]) \/ Concludes(r)

\* A piece of code that answers nothing goes on.
LEMMA ContinueGoesOn ==
    ASSUME TypeOK, NEW r \in Request, NEW cmds, NEW next \in Pc, Continue(r, cmds, next), UNCHANGED witness,
           next \notin {"idle", "infosSelected"},
           next = "infos" => pc[r] = "infosSelected",
           next = "consoSelected" => pc[r] = "infos" /\ got[r].quota # None,
           next = "conso" => pc[r] = "consoSelected",
           next = "turnsSelected" => pc[r] = "conso" /\ got[r].conso # None /\ ~Exceeds(got[r].conso, got[r].quota),
           next = "turnKeys" => pc[r] = "turnsSelected",
           next = "turns" => pc[r] = "turnKeys"
    PROVE  Judges(r)
<1>1. pc'[r] = next /\ UNCHANGED <<answer, chosen>>
  BY DEF Continue, TypeOK
<1>2. GoesOn(r)
  BY <1>1 DEF GoesOn
<1> QED  BY <1>1, <1>2 DEF Judges

\* A piece of code that answers a concludes.
LEMMA FinishConcludes ==
    ASSUME TypeOK, NEW r \in Request, NEW a, Finish(r, a), UNCHANGED <<witness, chosen>>, a # "granted",
           a \in Verdicts => job[r].kind = "getAppropriateTurn",
           a = "notfound" => (pc[r] = "infos" /\ got[r].quota = None) \/ (pc[r] = "conso" /\ got[r].conso = None),
           a = "overquota" => pc[r] = "conso" /\ got[r].conso # None /\ Exceeds(got[r].conso, got[r].quota),
           a = "noturn" => pc[r] = "turnKeys" /\ got[r].turns = {}
    PROVE  Judges(r)
<1>1. pc'[r] = "done" /\ answer'[r] = a /\ \A s \in Request : s # r => answer'[s] = answer[s]
  BY DEF Finish, TypeOK
<1>2. Concludes(r)
  BY <1>1 DEF Concludes
<1> QED  BY <1>1, <1>2 DEF Judges

\* That is what every continuation does.
LEMMA TaskJudges == ASSUME IInv, FInv, NEW r \in Request, Task(r) PROVE Judges(r)
<1>1. TypeOK /\ job[r].kind \in KindsAt(pc[r])
  BY DEF IInv, Base, FInv, Flow, Argued
<1>2. \A at : Resume(r, at) => pc[r] = at /\ UNCHANGED witness
  BY DEF Resume, history
<1>3. \A p \in Waiting : p \in Pc
  BY DEF Pc
<1> USE DEF Waiting
<1>4. CASE InfosSelected(r)
  BY <1>1, <1>2, <1>3, <1>4, ContinueGoesOn DEF InfosSelected
<1>5. CASE Infos(r)
  <2>1. pc[r] = "infos" /\ UNCHANGED witness /\ job[r].kind = "getAppropriateTurn"
    BY <1>1, <1>2, <1>5 DEF Infos, KindsAt
  <2>2. CASE got[r].quota = None
    <3>1. Finish(r, "notfound") /\ UNCHANGED chosen
      BY <1>5, <2>2 DEF Infos
    <3> QED  BY <1>1, <2>1, <2>2, <3>1, FinishConcludes
  <2>3. CASE got[r].quota # None
    <3>1. Continue(r, <<Await("SELECT_2", r)>>, "consoSelected")
      BY <1>5, <2>3 DEF Infos
    <3> QED  BY <1>1, <1>3, <2>1, <2>3, <3>1, ContinueGoesOn
  <2> QED  BY <2>2, <2>3
<1>6. CASE ConsoSelected(r)
  BY <1>1, <1>2, <1>3, <1>6, ContinueGoesOn DEF ConsoSelected
<1>7. CASE CheckQuota(r)
  <2>1. pc[r] = "conso" /\ UNCHANGED witness /\ job[r].kind = "getAppropriateTurn"
    BY <1>2, <1>7 DEF CheckQuota
  <2>2. CASE got[r].conso = None
    <3>1. Finish(r, "notfound") /\ UNCHANGED chosen
      BY <1>7, <2>2 DEF CheckQuota
    <3> QED  BY <1>1, <2>1, <2>2, <3>1, FinishConcludes
  <2>3. CASE got[r].conso # None /\ Exceeds(got[r].conso, got[r].quota)
    <3>1. Finish(r, "overquota") /\ UNCHANGED chosen
      BY <1>7, <2>3 DEF CheckQuota
    <3> QED  BY <1>1, <2>1, <2>3, <3>1, FinishConcludes
  <2>4. CASE got[r].conso # None /\ ~Exceeds(got[r].conso, got[r].quota)
    <3>1. Continue(r, <<Await("SELECT_2", r)>>, "turnsSelected")
      BY <1>7, <2>4 DEF CheckQuota
    <3> QED  BY <1>1, <1>3, <2>1, <2>4, <3>1, ContinueGoesOn
  <2> QED  BY <2>2, <2>3, <2>4
<1>8. CASE TurnsSelected(r)
  BY <1>1, <1>2, <1>3, <1>8, ContinueGoesOn DEF TurnsSelected
<1>9. CASE ChooseTurn(r)
  <2>1. pc[r] = "turns" /\ UNCHANGED witness /\ job[r].kind = "getAppropriateTurn"
    BY <1>1, <1>2, <1>9 DEF ChooseTurn, KindsAt
  <2>2. PICK t \in got[r].turns : chosen' = [chosen EXCEPT ![r] = t]
    BY <1>9 DEF ChooseTurn
  <2>3. pc'[r] = "done" /\ answer'[r] = "granted" /\ \A s \in Request : s # r => answer'[s] = answer[s]
    BY <1>1, <1>9 DEF ChooseTurn, Finish, TypeOK
  <2>4. chosen'[r] = t /\ \A s \in Request : s # r => chosen'[s] = chosen[s]
    BY <1>1, <2>2 DEF TypeOK
  <2> QED  BY <2>1, <2>3, <2>4 DEF Judges, Concludes
<1>10. CASE ConsoAnswered(r) \/ CredStored(r) \/ QuotaSet(r)
  <2>1. Finish(r, "ok") /\ UNCHANGED <<witness, chosen>>
    BY <1>2, <1>10 DEF ConsoAnswered, CredStored, QuotaSet
  <2> QED  BY <1>1, <2>1, FinishConcludes DEF Verdicts
<1>11. CASE CredSelected(r) \/ ProvSelected(r) \/ QuotaSelected(r) \/ UserSelected(r) \/ UserFound(r) \/ Incremented(r)
  <2>1. PICK cmds, next : /\ Continue(r, cmds, next) /\ UNCHANGED witness
                          /\ next \in {"cred", "done", "quota", "user", "incr"}
    BY <1>2, <1>11 DEF CredSelected, ProvSelected, QuotaSelected, UserSelected, UserFound, Incremented
  <2>2. next \in Pc
    BY <2>1 DEF Pc
  <2> QED  BY <1>1, <2>1, <2>2, ContinueGoesOn
<1> QED  BY <1>4, <1>5, <1>6, <1>7, <1>8, <1>9, <1>10, <1>11 DEF Task

\* And every callback, unless it brings the broker down.
LEMMA PlainJudges == ASSUME IInv, FInv, NEW r \in Request, PlainTask(r), ~Crashes(r) PROVE Judges(r)
<1>1. TypeOK /\ job[r].kind \in KindsAt(pc[r])
  BY DEF IInv, Base, FInv, Flow, Argued
<1>2. \A at : Callback(r, at) => pc[r] = at /\ UNCHANGED witness
  BY DEF Callback, history
<1>3. "turns" \in Pc /\ "allInfos" \in Pc /\ "hung" \in Pc
  BY DEF Pc, Waiting
<1>4. CASE TurnKeys(r)
  <2>1. pc[r] = "turnKeys" /\ UNCHANGED witness /\ job[r].kind = "getAppropriateTurn"
    BY <1>1, <1>2, <1>4 DEF TurnKeys, KindsAt
  <2>2. CASE got[r].turns = {}
    <3>1. Finish(r, "noturn") /\ UNCHANGED chosen
      BY <1>4, <2>2 DEF TurnKeys
    <3> QED  BY <1>1, <2>1, <2>2, <3>1, FinishConcludes
  <2>3. CASE got[r].turns # {}
    <3>1. Continue(r, <<Await("GET_TURNS", r)>>, "turns")
      BY <1>4, <2>3 DEF TurnKeys
    <3> QED  BY <1>1, <1>3, <2>1, <3>1, ContinueGoesOn
  <2> QED  BY <2>2, <2>3
<1>5. ASSUME NEW cmds, NEW next, Continue(r, cmds, next), UNCHANGED witness, next \in {"hung", "allInfos"}
      PROVE  Judges(r)
  BY <1>1, <1>3, <1>5, ContinueGoesOn
<1>6. ASSUME Finish(r, "ok"), UNCHANGED <<witness, chosen>> PROVE Judges(r)
  BY <1>1, <1>6, FinishConcludes DEF Verdicts
<1>7. CASE Renamed(r)
  BY <1>2, <1>5, <1>6, <1>7 DEF Renamed
<1>8. CASE AllKeys(r)
  BY <1>2, <1>5, <1>8 DEF AllKeys
<1>9. CASE AllInfos(r)
  <2>1. got[r].ok
    <3> SUFFICES ASSUME ~got[r].ok PROVE Crashes(r)
      OBVIOUS
    <3>1. Callback(r, "allInfos") /\ UNCHANGED <<pipe, pc, answer, chosen>>
      BY <1>9 DEF AllInfos
    <3>2. /\ inbox # <<>> /\ r = Head(inbox) /\ pc[r] = "allInfos" /\ inbox' = Tail(inbox)
          /\ UNCHANGED <<db, selected, tasks, job, got, overlapped, misplaced, carried, lapsed, cut, pulled>>
      BY <3>1 DEF Callback, redis, history
    <3> QED  BY <3>1, <3>2 DEF Crashes, Turns
  <2>2. Finish(r, "ok") /\ UNCHANGED chosen
    BY <1>9, <2>1 DEF AllInfos
  <2> QED  BY <1>2, <1>6, <1>9, <2>2 DEF AllInfos
<1> QED  BY <1>4, <1>7, <1>8, <1>9 DEF PlainTask

\* The turn request goes on, or answers, with what it has been told.
LEMMA JudgesKeepsAnswers ==
    ASSUME IInv, FInv, AInv, NEW r \in Request, NEW cmds, NEW next, Continues(r, cmds, next), Judges(r)
    PROVE  AInv'
<1>1. /\ pc \in [Request -> Pc] /\ next \in Pc /\ pc' = [pc EXCEPT ![r] = next] /\ pc[r] \in Waiting
      /\ Sends(r, job[r].kind, next, cmds) /\ pipe' = pipe \o cmds
      /\ UNCHANGED <<db, job, got, overlapped, cut>> /\ UNCHANGED witness
      /\ \A s \in Request : s # r => answer'[s] = answer[s] /\ chosen'[s] = chosen[s]
  BY DEF Continues, IInv, Base, TypeOK, Judges
<1>2. pc'[r] = next /\ \A s \in Request : s # r => pc'[s] = pc[s]
  BY <1>1
<1>3. Grown(cmds)
  BY <1>1, GrowPipe
<1>4. ASSUME NEW s \in Request, s # r PROVE Same(s)
  <2>1. Asked(s) => Asked(s)'
    BY <1>3, GrownAsked
  <2> QED  BY <1>1, <1>2, <1>4, <2>1 DEF Same
<1>5. ~Asked(r)
  <2>1. Free(r)
    BY TurnFrees DEF FInv, Continues
  <2> QED  BY <2>1 DEF Free, Asked
<1>6. next \in Waiting => Asked(r)'
  <2> SUFFICES ASSUME next \in Waiting PROVE Asked(r)'
    OBVIOUS
  <2>1. next \in Pc /\ Sends(r, job[r].kind, next, cmds)
    BY <1>1
  <2>2. Len(cmds) \in Nat /\ Len(cmds) > 0 /\ cmds[Len(cmds)].cb /\ cmds[Len(cmds)].r = r
    <3>1. /\ Len(cmds) \in 0..4
          /\ \A k \in 1..Len(cmds) : cmds[k].r = r
          /\ next \in Waiting => Len(cmds) > 0 /\ cmds[Len(cmds)].cb
      <4>1. SentBy(r, job[r].kind, next, cmds)
        BY <2>1, SendsFacts
      <4> QED  BY <4>1 DEF SentBy
    <3> QED  BY <3>1
  <2>3. \E k \in 1..Len(cmds) : cmds[k].cb /\ cmds[k].r = r
    BY <2>2
  <2> QED  BY <1>3, <2>3, GrownAsked
<1>7. "idle" \notin Waiting /\ "done" \notin Waiting /\ {"infos", "conso", "turnKeys"} \subseteq Waiting
  BY PlaceFacts DEF Waiting
<1>8. Verdict(r) /\ (job[r].kind = "getAppropriateTurn" => Informed(r))
  BY DEF AInv
<1>9. r \in Alone' => r \in Alone /\ Replied(r) /\ QuotaHolds(r) /\ Compared(r) /\ Justified(r)
                      /\ job[r].kind = "getAppropriateTurn"
  BY <1>1 DEF AInv, Alone
<1>10. (Deleted(r)' <=> Deleted(r)) /\ (Moved(r)' <=> Moved(r))
  BY <1>1 DEF Deleted, Moved, Meddled
<1>11. r \in Alone' => QuotaHolds(r)' /\ Compared(r)'
  BY <1>1, <1>9, <1>10 DEF QuotaHolds, Compared, Exceeds
<1>12. r \in Alone' => Replied(r)'
  BY <1>1, <1>2, <1>6, <1>7, <1>9 DEF Replied
<1>13. CASE GoesOn(r) /\ chosen'[r] = chosen[r]
  <2>1. Verdict(r)'
    BY <1>1, <1>8, <1>13 DEF Verdict, GoesOn
  <2>2. job[r].kind = "getAppropriateTurn" => Informed(r)'
    BY <1>1, <1>8, <1>13 DEF Informed, GoesOn, Exceeds
  <2>3. r \in Alone' => Justified(r)'
    BY <1>1, <1>9, <1>10, <1>13 DEF Justified, GoesOn
  <2> QED  BY <1>1, <1>2, <1>4, <1>11, <1>12, <2>1, <2>2, <2>3, SameStands DEF AInv, Alone
<1>14. CASE Concludes(r)
  <2>1. Verdict(r)'
    BY <1>1, <1>14 DEF Verdict, Concludes
  <2>2. Informed(r)'
    BY <1>7, <1>14 DEF Informed, Concludes
  <2>3. r \in Alone' => Justified(r)'
    <3> SUFFICES ASSUME r \in Alone' PROVE Justified(r)'
      OBVIOUS
    <3>1. answer'[r] = "granted" =>
            /\ chosen'[r] \in witness[r]
            /\ "within" \in witness[r] \/ Deleted(r) \/ ("absent" \in witness[r] /\ Moved(r))
      BY <1>8, <1>9, <1>14 DEF Concludes, Informed, Replied, Compared
    <3>2. answer'[r] = "notfound" => "absent" \in witness[r]
      BY <1>5, <1>9, <1>14 DEF Concludes, Replied
    <3>3. answer'[r] = "noturn" => "noturn" \in witness[r]
      BY <1>5, <1>9, <1>14 DEF Concludes, Replied
    <3>4. answer'[r] = "overquota" => "over" \in witness[r] \/ Deleted(r) \/ Moved(r)
      BY <1>8, <1>9, <1>14 DEF Concludes, Informed, Compared
    <3> QED  BY <1>1, <1>10, <3>1, <3>2, <3>3, <3>4 DEF Justified
  <2> QED  BY <1>1, <1>2, <1>4, <1>11, <1>12, <2>1, <2>2, <2>3, SameStands DEF AInv, Alone
<1> QED  BY <1>13, <1>14 DEF Judges

\* What happens outside the broker changes what is so, not what was.
LEMMA QuietAnswers ==
    ASSUME AInv, UNCHANGED <<pipe, pc, job, got, answer, chosen, overlapped, cut>>,
           db'[2].prov = db[2].prov, db'[2].conso = db[2].conso,
           \A r \in Request : witness[r] \subseteq witness'[r]
    PROVE  AInv'
<1>1. ASSUME NEW r \in Request PROVE Same(r)
  <2>1. Asked(r) => Asked(r)'
    BY DEF Asked
  <2> QED  BY <2>1 DEF Same
<1> QED  BY <1>1, SameStands DEF AInv, Alone

\* A break of the connection answers "not found", or nothing, and teaches nothing.
LEMMA BreaksAnswers == ASSUME IInv, FInv, AInv, Breaks PROVE AInv'
<1>1. /\ UNCHANGED <<db, job, got, chosen, overlapped, witness>> /\ cut' = cut \cup CutOff
      /\ \A s \in Request \ CutOff : pc'[s] = pc[s] /\ answer'[s] = answer[s]
      /\ \A s \in CutOff : /\ s \in Request /\ pc[s] \in Waiting /\ pc'[s] \in {"done", "hung"}
                           /\ answer'[s] \in {answer[s], "notfound", "error"}
                           /\ answer'[s] = "notfound" =>
                                  answer[s] = "notfound" \/ pc[s] = "infos" \/ job[s].kind = "getAppropriateTurn"
  BY DEF Breaks
<1>2. Alone' = Alone /\ \A s \in Request : (Deleted(s)' <=> Deleted(s)) /\ (Moved(s)' <=> Moved(s))
  BY <1>1 DEF Alone, Deleted, Moved, Meddled
<1>3. ASSUME NEW s \in Request \ CutOff PROVE ~Asked(s)
  <2> SUFFICES ASSUME NEW k \in 1..Len(pipe), pipe[k].cb, pipe[k].r = s PROVE FALSE
    BY DEF Asked
  <2>1. pc[s] \in Waiting
    BY DEF FInv, Flow, Placed
  <2>2. PICK i \in 1..Len(tasks) : tasks[i] = s
    BY <2>1 DEF CutOff
  <2> QED  BY <2>2 DEF FInv, Flow, Once
<1>4. ASSUME NEW s \in Request \ CutOff PROVE Same(s)
  BY <1>1, <1>3, <1>4 DEF Same
<1>5. ASSUME NEW s \in CutOff
      PROVE  /\ Verdict(s)' /\ (job[s].kind = "getAppropriateTurn" => Informed(s)')
             /\ s \in Alone => Replied(s)' /\ QuotaHolds(s)' /\ Compared(s)' /\ Justified(s)'
  <2>1. s \in Request /\ s \in cut' /\ pc'[s] \in {"done", "hung"} /\ pc'[s] \notin Waiting
    BY <1>1, <1>5, PlaceFacts
  <2>2. Verdict(s)'
    <3>1. pc[s] = "infos" => job[s].kind = "getAppropriateTurn"
      BY <2>1 DEF FInv, Flow, Argued, KindsAt
    <3>2. answer[s] \in Verdicts => job[s].kind = "getAppropriateTurn"
      BY <2>1 DEF AInv, Verdict
    <3> QED  BY <1>1, <1>5, <2>1, <3>1, <3>2 DEF Verdict, Verdicts
  <2>3. Informed(s)'
    BY <2>1 DEF Informed, Waiting
  <2>4. ASSUME s \in Alone PROVE Replied(s)' /\ QuotaHolds(s)' /\ Compared(s)' /\ Justified(s)'
    <3>1. Replied(s) /\ QuotaHolds(s) /\ Compared(s) /\ Justified(s)
      BY <2>4 DEF AInv
    <3>2. Replied(s)'
      BY <1>1, <2>1, <3>1 DEF Replied
    <3>3. QuotaHolds(s)' /\ Compared(s)'
      BY <1>1, <1>2, <2>1, <3>1 DEF QuotaHolds, Compared, Exceeds
    <3>4. Justified(s)'
      BY <1>1, <1>2, <1>5, <2>1, <3>1 DEF Justified
    <3> QED  BY <3>2, <3>3, <3>4
  <2> QED  BY <2>2, <2>3, <2>4
<1>6. ASSUME NEW s \in Request \ CutOff
      PROVE  /\ Verdict(s)' /\ (job[s].kind = "getAppropriateTurn" => Informed(s)')
             /\ s \in Alone => Replied(s)' /\ QuotaHolds(s)' /\ Compared(s)' /\ Justified(s)'
  BY <1>1, <1>4, <1>6, SameStands DEF AInv
<1>7. Alone \subseteq Request
  BY DEF Alone
<1> QED  BY <1>1, <1>2, <1>5, <1>6, <1>7 DEF AInv
-----------------------------------------------------------------------------
(***************************************************************************)
(* Redis executes a command.                                               *)
(***************************************************************************)
Lookups == {"HGETALL_PROV", "HGETALL_CONSO", "KEYS_TURN"}

\* What the reply to op adds to what request q knew, s being the database.
Learns(op, q, s) ==
    /\ got'[q].quota = IF op = "HGETALL_PROV" THEN s.prov[job[q].csp] ELSE got[q].quota
    /\ got'[q].conso = IF op = "HGETALL_CONSO" THEN s.conso[job[q].csp] ELSE got[q].conso
    /\ got'[q].turns = IF op = "KEYS_TURN" THEN s.turn ELSE got[q].turns

\* What the execution of op for q is to the turn requests.
Runs(op, q) ==
    /\ op \in Ops /\ q \in Request /\ op = pipe[1].op /\ q = pipe[1].r /\ 1 \in 1..Len(pipe)
    /\ UNCHANGED <<pc, job, answer, chosen, overlapped, cut>>
    /\ \A r \in Request : witness[r] \subseteq witness'[r]
    /\ \A r \in Request : job[r].kind = "getAppropriateTurn" /\ answer[r] = "none" =>
          Facts(job[r].csp, db'[2]) \subseteq witness'[r]
    /\ \A r \in Request : r # q => got'[r] = got[r]
    /\ Learns(op, q, db[selected])
    /\ \A r : Asked(r) /\ ~Asked(r)' => r = q /\ op = Op(pc[q])
    /\ op = "HGETALL_PROV" => pc[q] = "infos"
    /\ op = "HGETALL_CONSO" => pc[q] = "conso"
    /\ op = "KEYS_TURN" => pc[q] = "turnKeys"
    /\ op \in Lookups => db' = db
    /\ db[2] \in Store /\ db'[2] \in Store
    /\ db'[2] = db[2] \/ EffectOf(op, q, db[2], db'[2])

\* That is what Exec does.
LEMMA ExecRuns == ASSUME IInv, FInv, Exec PROVE \E op, q : Runs(op, q)
<1>1. PICK op : op = pipe[1].op
  OBVIOUS
<1>2. PICK q : q = pipe[1].r
  OBVIOUS
<1>3. /\ 1 \in 1..Len(pipe) /\ Len(pipe) \in Nat /\ Len(pipe') = Len(pipe) - 1
      /\ \A i \in 1..Len(pipe') : pipe'[i] = pipe[i + 1] /\ i + 1 \in 1..Len(pipe) /\ i + 1 # 1
      /\ UNCHANGED <<pc, job, overlapped>>
      /\ db \in [Dbs -> Store] /\ selected \in Dbs /\ got \in [Request -> Reply]
      /\ db' = [db EXCEPT ![selected] = Effect(op, q, db[selected])]
      /\ got' = [got EXCEPT ![q] = ReplyTo(op, q, db[selected])]
  BY <1>1, <1>2, ExecFacts
<1>4. witness' = Witnessed(db'[2]) /\ UNCHANGED <<answer, chosen, cut>>
  BY DEF Exec
<1>5. \A r \in Request :
        /\ witness[r] \subseteq witness'[r]
        /\ job[r].kind = "getAppropriateTurn" /\ answer[r] = "none" => Facts(job[r].csp, db'[2]) \subseteq witness'[r]
  BY <1>4, WitnessGrows DEF IInv, Base
<1>6. /\ \A d \in Dbs : d # selected => db'[d] = db[d]
      /\ op \in Ops /\ q \in Request /\ db[selected] \in Store /\ db'[selected] \in Store
      /\ EffectOf(op, q, db[selected], db'[selected])
  BY <1>1, <1>2, ExecDb DEF FInv
<1>7. got'[q] = ReplyTo(op, q, db[selected]) /\ got[q] \in Reply /\ \A r \in Request : r # q => got'[r] = got[r]
  BY <1>3, <1>6
<1>8. Learns(op, q, db[selected])
  <2>1. PICK s : s = db[selected]
    OBVIOUS
  <2>2. PICK t : t = ReplyTo(op, q, s)
    OBVIOUS
  <2>3. /\ t.quota = IF op = "HGETALL_PROV" THEN s.prov[job[q].csp] ELSE got[q].quota
        /\ t.conso = IF op = "HGETALL_CONSO" THEN s.conso[job[q].csp] ELSE got[q].conso
        /\ t.turns = IF op = "KEYS_TURN" THEN s.turn ELSE got[q].turns
    <3>1. CASE op = "HGETALL_PROV"
      BY <1>7, <2>2, <3>1 DEF ReplyTo, Reply
    <3>2. CASE op = "HGETALL_CONSO"
      BY <1>7, <2>2, <3>2 DEF ReplyTo, Reply
    <3>3. CASE op = "KEYS_TURN"
      BY <1>7, <2>2, <3>3 DEF ReplyTo, Reply
    <3>4. CASE op = "GET_USER"
      BY <1>7, <2>2, <3>4 DEF ReplyTo, Reply
    <3>5. CASE op = "RENAME_PROV"
      BY <1>7, <2>2, <3>5 DEF ReplyTo, Reply
    <3>6. CASE op = "KEYS_PROV"
      BY <1>7, <2>2, <3>6 DEF ReplyTo, Reply
    <3>7. CASE op = "HGETALL_EACH"
      BY <1>7, <2>2, <3>7 DEF ReplyTo, Reply
    <3>8. CASE op \notin Lookups \cup {"GET_USER", "RENAME_PROV", "KEYS_PROV", "HGETALL_EACH"}
      BY <1>7, <2>2, <3>8 DEF ReplyTo, Lookups
    <3> QED  BY <3>1, <3>2, <3>3, <3>4, <3>5, <3>6, <3>7, <3>8 DEF Lookups
  <2>4. got'[q] = t
    BY <1>7, <2>1, <2>2
  <2> QED  BY <2>1, <2>3, <2>4 DEF Learns
<1>9. IF pipe[1].cb THEN op = Op(pc[q]) /\ pc[q] \in Waiting ELSE job[q].kind \in KindsOf(op)
  BY <1>1, <1>2, <1>3 DEF FInv, Flow, Placed
<1>10. ASSUME NEW r, Asked(r), ~Asked(r)' PROVE r = q /\ op = Op(pc[q])
  <2>1. PICK i \in 1..Len(pipe) : pipe[i].cb /\ pipe[i].r = r
    BY <1>10 DEF Asked
  <2>2. CASE i # 1
    <3>1. i - 1 \in 1..Len(pipe') /\ (i - 1) + 1 = i
      BY <1>3, <2>2
    <3>2. pipe'[i - 1] = pipe[i]
      BY <1>3, <3>1
    <3> QED  BY <1>10, <2>1, <3>1, <3>2 DEF Asked
  <2>3. CASE i = 1
    BY <1>2, <1>9, <2>1, <2>3
  <2> QED  BY <2>2, <2>3
<1>11. /\ op = "HGETALL_PROV" => pc[q] = "infos"
       /\ op = "HGETALL_CONSO" => pc[q] = "conso"
       /\ op = "KEYS_TURN" => pc[q] = "turnKeys"
  BY <1>9 DEF KindsOf, Op, Waiting
<1>12. op \in Lookups => db' = db
  <2>1. op \in Lookups => Effect(op, q, db[selected]) = db[selected]
    BY DEF Lookups, Effect
  <2> QED  BY <1>3, <2>1
<1>13. /\ db[2] \in Store /\ db'[2] \in Store
       /\ db'[2] = db[2] \/ EffectOf(op, q, db[2], db'[2])
  BY <1>3, <1>6 DEF Dbs
<1>14. Runs(op, q)
  BY <1>1, <1>2, <1>3, <1>4, <1>5, <1>6, <1>7, <1>8, <1>10, <1>11, <1>12, <1>13 DEF Runs
<1> QED  BY <1>14

\* A quota that was read stays, and the consumption beside it grows.
LEMMA RunsQuota ==
    ASSUME IInv, FInv, NEW op, NEW q, Runs(op, q), NEW r \in Request, job[r].csp \in Csp, ~Deleted(r),
           NEW c, c = job[r].csp
    PROVE  /\ db[2].prov[c] # None => /\ db'[2].prov[c] # None
                                      /\ ~Moved(r) => db'[2].prov[c] = db[2].prov[c]
           /\ db[2].conso[c] # None => /\ db'[2].conso[c] # None
                                       /\ db[2].conso[c] \in Nat /\ db'[2].conso[c] \in Nat
                                       /\ db'[2].conso[c] >= db[2].conso[c]
<1>1. PICK s : s = db[2]
  OBVIOUS
<1>2. PICK t : t = db'[2]
  OBVIOUS
<1>3. /\ s \in Store /\ q \in Request /\ (t = s \/ EffectOf(op, q, s, t)) /\ c \in Csp
      /\ 1 \in 1..Len(pipe) /\ op = pipe[1].op /\ q = pipe[1].r
  BY <1>1, <1>2 DEF Runs
<1>4. /\ s.prov \in [Csp -> QuotaValue \cup {None}] /\ s.conso \in [CspKey -> Amount]
      /\ s.conso[c] \in Nat \cup {None} /\ c \in CspKey
  BY <1>3 DEF Store, Amount, CspKey
<1>5. /\ op \in {"RENAME_PROV", "RENAME_CONSO"} => job[q].kind = "deleteCSP"
      /\ op = "HMSET_PROV" => job[q].kind = "changeQuotas"
      /\ op = "HINCRBY" => job[q].bytes \in Nat
  BY <1>3, CmdKind DEF FInv, Sound
<1>6. op \in {"RENAME_PROV", "RENAME_CONSO"} => job[q].csp # c
  BY <1>3, <1>5 DEF Deleted, Meddled
<1>7. op = "HMSET_PROV" => job[q].quota \in QuotaValue /\ (job[q].csp = c => Moved(r))
  BY <1>3, <1>5 DEF Moved, Meddled, FInv, Flow, Argued
<1>8. None \notin QuotaValue /\ None \notin Nat
  BY NumbersAssumption, NoneAssumption DEF QuotaValue
<1>9. s.prov[c] # None => t.prov[c] # None /\ (~Moved(r) => t.prov[c] = s.prov[c])
  BY <1>3, <1>4, <1>6, <1>7, <1>8 DEF EffectOf
<1>10. s.conso[c] # None => t.conso[c] \in Nat /\ t.conso[c] >= s.conso[c]
  <2> SUFFICES ASSUME s.conso[c] # None, t # s PROVE t.conso[c] \in Nat /\ t.conso[c] >= s.conso[c]
    BY <1>4
  <2>1. CASE op = "HINCRBY"
    <3>1. t.conso = [s.conso EXCEPT ![got[q].csp] = OrZero(@) + job[q].bytes]
      BY <1>3, <2>1 DEF EffectOf
    <3> QED  BY <1>4, <1>5, <2>1, <3>1 DEF OrZero
  <2>2. CASE op # "HINCRBY"
    <3>1. t.conso[c] = s.conso[c]
      BY <1>3, <1>4, <1>6, <2>2 DEF EffectOf
    <3> QED  BY <1>4, <3>1
  <2> QED  BY <2>1, <2>2
<1> QED  BY <1>1, <1>2, <1>4, <1>8, <1>9, <1>10

\* A command that tells a turn request nothing leaves it justified.
LEMMA RunsOthers ==
    ASSUME IInv, FInv, AInv, NEW op, NEW q, Runs(op, q), NEW r \in Alone, r # q \/ op \notin Lookups
    PROVE  Replied(r)' /\ QuotaHolds(r)' /\ Compared(r)' /\ Justified(r)'
<1>1. /\ UNCHANGED <<pc, job, answer, chosen, cut>> /\ r \in Request /\ witness[r] \subseteq witness'[r]
      /\ got'[r].quota = got[r].quota /\ got'[r].conso = got[r].conso /\ got'[r].turns = got[r].turns
      /\ job[r].kind = "getAppropriateTurn"
  BY DEF Runs, Learns, Lookups, Alone
<1>2. Replied(r) /\ QuotaHolds(r) /\ Compared(r) /\ Justified(r) /\ Informed(r) /\ job[r].csp \in Csp
  BY <1>1 DEF AInv, FInv, Flow, Argued
<1>3. (Deleted(r)' <=> Deleted(r)) /\ (Moved(r)' <=> Moved(r))
  BY <1>1 DEF Deleted, Moved, Meddled
<1>4. Replied(r)'
  <2>1. pc[r] \in {"infos", "conso", "turnKeys"} /\ Asked(r) => Asked(r)'
    BY DEF Runs, Op, Lookups
  <2> QED  BY <1>1, <1>2, <2>1 DEF Replied
<1>5. QuotaHolds(r)'
  <2> SUFFICES ASSUME got[r].quota # None, ~Deleted(r)
               PROVE  /\ db'[2].prov[job[r].csp] # None
                      /\ ~Moved(r) => db'[2].prov[job[r].csp] = got[r].quota
                      /\ \/ "absent" \in witness'[r]
                         \/ /\ db'[2].conso[job[r].csp] # None
                            /\ ~Exceeds(db'[2].conso[job[r].csp], got[r].quota) => "within" \in witness'[r]
    BY <1>1, <1>3 DEF QuotaHolds, Exceeds
  <2>1. PICK c : c = job[r].csp
    OBVIOUS
  <2>2. /\ db[2].prov[c] # None => /\ db'[2].prov[c] # None
                                   /\ ~Moved(r) => db'[2].prov[c] = db[2].prov[c]
        /\ db[2].conso[c] # None => /\ db'[2].conso[c] # None
                                    /\ db[2].conso[c] \in Nat /\ db'[2].conso[c] \in Nat
                                    /\ db'[2].conso[c] >= db[2].conso[c]
    BY <1>1, <1>2, <2>1, RunsQuota
  <2>3. /\ db[2].prov[c] # None
        /\ ~Moved(r) => db[2].prov[c] = got[r].quota
        /\ \/ "absent" \in witness[r]
           \/ /\ db[2].conso[c] # None
              /\ ~Exceeds(db[2].conso[c], got[r].quota) => "within" \in witness[r]
    BY <1>2, <2>1 DEF QuotaHolds
  <2>4. got[r].quota \in Nat \cup {NaN}
    BY <1>1, NumbersAssumption DEF IInv, Base, TypeOK, Reply, QuotaValue
  <2>5. db[2].conso[c] # None /\ ~Exceeds(db'[2].conso[c], got[r].quota) => ~Exceeds(db[2].conso[c], got[r].quota)
    BY <2>2, <2>4 DEF Exceeds
  <2> QED  BY <1>1, <2>1, <2>2, <2>3, <2>5
<1>6. Compared(r)'
  BY <1>1, <1>2, <1>3 DEF Compared, Exceeds
<1>7. Justified(r)'
  BY <1>1, <1>2, <1>3 DEF Justified
<1> QED  BY <1>4, <1>5, <1>6, <1>7

\* A reply tells a turn request what is so at that moment.
LEMMA RunsReads ==
    ASSUME IInv, FInv, AInv, NEW op, NEW q, Runs(op, q), q \in Alone, op \in Lookups
    PROVE  Replied(q)' /\ QuotaHolds(q)' /\ Compared(q)' /\ Justified(q)'
<1>1. /\ UNCHANGED <<pc, job, answer, chosen, cut>> /\ q \in Request /\ q \notin overlapped
      /\ witness[q] \subseteq witness'[q] /\ job[q].kind = "getAppropriateTurn" /\ db' = db /\ db[2] \in Store
  BY DEF Runs, Alone
<1>2. Replied(q) /\ QuotaHolds(q) /\ Compared(q) /\ Justified(q) /\ Informed(q) /\ job[q].csp \in Csp
  BY <1>1 DEF AInv, FInv, Flow, Argued
<1>3. (Deleted(q)' <=> Deleted(q)) /\ (Moved(q)' <=> Moved(q))
  BY <1>1 DEF Deleted, Moved, Meddled
<1>4. selected = 2
  <2>1. 1 \in 1..Len(pipe) /\ ~IsSelect(pipe[1].op) /\ pipe[1].r = q
    BY DEF Runs, Lookups, IsSelect
  <2>2. selected = DbOf(pipe[1].r)
    BY <1>1, <2>1, HeadPlaced
  <2> QED  BY <1>1, <2>1, <2>2 DEF DbOf, Target
<1>5. pc[q] \in {"infos", "conso", "turnKeys"} /\ answer[q] = "none"
  BY <1>2 DEF Runs, Lookups, Informed, Waiting
<1>6. PICK c : c = job[q].csp
  OBVIOUS
<1>7. PICK s : s = db[2]
  OBVIOUS
<1>8. Facts(c, s) \subseteq witness'[q] /\ c \in Csp /\ s \in Store
  BY <1>1, <1>2, <1>5, <1>6, <1>7 DEF Runs
<1>9. /\ s.prov[c] = None \/ s.conso[c] = None => "absent" \in witness'[q]
      /\ s.prov[c] # None /\ s.conso[c] # None =>
            IF Exceeds(s.conso[c], s.prov[c]) THEN "over" \in witness'[q] ELSE "within" \in witness'[q]
      /\ s.turn = {} => "noturn" \in witness'[q]
      /\ s.turn \subseteq witness'[q]
  <2>1. /\ s.prov[c] = None \/ s.conso[c] = None => "absent" \in Facts(c, s)
        /\ s.prov[c] # None /\ s.conso[c] # None =>
              IF Exceeds(s.conso[c], s.prov[c]) THEN "over" \in Facts(c, s) ELSE "within" \in Facts(c, s)
        /\ s.turn = {} => "noturn" \in Facts(c, s)
        /\ s.turn \subseteq Facts(c, s)
    BY <1>8, FactsOf
  <2> QED  BY <1>8, <2>1
<1>10. /\ got'[q].quota = IF op = "HGETALL_PROV" THEN s.prov[c] ELSE got[q].quota
       /\ got'[q].conso = IF op = "HGETALL_CONSO" THEN s.conso[c] ELSE got[q].conso
       /\ got'[q].turns = IF op = "KEYS_TURN" THEN s.turn ELSE got[q].turns
  BY <1>4, <1>6, <1>7 DEF Runs, Learns
<1>11. /\ op = "HGETALL_PROV" => pc[q] = "infos" /\ got[q].conso = None
       /\ op = "HGETALL_CONSO" => pc[q] = "conso"
       /\ op = "KEYS_TURN" => pc[q] = "turnKeys"
  BY <1>2 DEF Runs, Informed
<1>12. Justified(q)'
  BY <1>1, <1>5 DEF Justified
<1>13. Replied(q)'
  BY <1>1, <1>2, <1>9, <1>10, <1>11 DEF Replied, Lookups
<1>14. got[q].quota # None /\ ~Deleted(q) =>
         /\ s.prov[c] # None
         /\ ~Moved(q) => s.prov[c] = got[q].quota
         /\ \/ "absent" \in witness[q]
            \/ s.conso[c] # None /\ (~Exceeds(s.conso[c], got[q].quota) => "within" \in witness[q])
  BY <1>2, <1>6, <1>7 DEF QuotaHolds
<1>15. QuotaHolds(q)'
  <2>1. CASE op = "HGETALL_PROV"
    BY <1>1, <1>6, <1>7, <1>9, <1>10, <2>1 DEF QuotaHolds, Exceeds
  <2>2. CASE op # "HGETALL_PROV"
    BY <1>1, <1>3, <1>6, <1>7, <1>10, <1>14, <2>2 DEF QuotaHolds, Exceeds
  <2> QED  BY <2>1, <2>2
<1>16. Compared(q)'
  <2>1. CASE op = "HGETALL_PROV"
    BY <1>10, <1>11, <2>1 DEF Compared
  <2>2. CASE op = "KEYS_TURN"
    BY <1>1, <1>2, <1>3, <1>10, <2>2 DEF Compared, Exceeds
  <2>3. CASE op = "HGETALL_CONSO"
    <3> SUFFICES ASSUME got[q].quota # None, s.conso[c] # None, ~Deleted(q)
                 PROVE  IF Exceeds(s.conso[c], got[q].quota)
                        THEN "over" \in witness'[q] \/ Moved(q)
                        ELSE "within" \in witness'[q] \/ ("absent" \in witness'[q] /\ Moved(q))
      BY <1>3, <1>10, <2>3 DEF Compared, Exceeds
    <3>1. CASE Moved(q)
      BY <1>1, <1>14, <3>1
    <3>2. CASE ~Moved(q)
      BY <1>9, <1>14, <3>2
    <3> QED  BY <3>1, <3>2
  <2> QED  BY <2>1, <2>2, <2>3 DEF Lookups
<1> QED  BY <1>12, <1>13, <1>15, <1>16

\* So Redis keeps the turn requests justified.
LEMMA ExecKeepsAnswers == ASSUME IInv, FInv, AInv, Exec PROVE AInv'
<1>1. PICK op, q : Runs(op, q)
  BY ExecRuns
<1>2. UNCHANGED <<pc, job, answer, chosen, overlapped>>
  BY <1>1 DEF Runs
<1>3. Alone' = Alone
  BY <1>2 DEF Alone
<1>4. ASSUME NEW r \in Alone PROVE Replied(r)' /\ QuotaHolds(r)' /\ Compared(r)' /\ Justified(r)'
  <2>1. CASE r # q \/ op \notin Lookups
    BY <1>1, <1>4, <2>1, RunsOthers
  <2>2. CASE r = q /\ op \in Lookups
    BY <1>1, <1>4, <2>2, RunsReads
  <2> QED  BY <2>1, <2>2
<1>5. ASSUME NEW r \in Request PROVE Verdict(r)' /\ (job[r].kind = "getAppropriateTurn" => Informed(r)')
  <2>1. Verdict(r)'
    BY <1>2 DEF AInv, Verdict
  <2>2. ASSUME job[r].kind = "getAppropriateTurn" PROVE Informed(r)'
    <3>1. Informed(r)
      BY <2>2 DEF AInv
    <3>2. /\ pc[r] # "infos" => got'[r].quota = got[r].quota
          /\ pc[r] # "conso" => got'[r].conso = got[r].conso
      BY <1>1 DEF Runs, Learns
    <3> QED  BY <1>2, <3>1, <3>2 DEF Informed, Exceeds
  <2> QED  BY <2>1, <2>2
<1> QED  BY <1>2, <1>3, <1>4, <1>5 DEF AInv
-----------------------------------------------------------------------------
(***************************************************************************)
(* All together.                                                           *)
(***************************************************************************)
\* At first nobody asks.
LEMMA AnswersInit == ASSUME Init PROVE AInv
<1>1. \A r \in Request : pc[r] = "idle" /\ job[r] = NoJob /\ answer[r] = "none"
  BY DEF Init
<1>2. \A r \in Request : job[r].kind = "none"
  BY <1>1 DEF NoJob
<1> QED  BY <1>1, <1>2 DEF AInv, Alone, Verdict, Verdicts

\* Every step keeps the turn requests justified.
LEMMA AnswersNext == ASSUME IInv, FInv, AInv, [Next]_vars PROVE AInv'
<1>1. ASSUME NEW r \in Request, Arrive(r) PROVE AInv'
  BY <1>1, ArriveKeepsAnswers
<1>2. ASSUME UNCHANGED <<pipe, pc, job, got, answer, chosen, overlapped, cut>>, UNCHANGED <<db, witness>> PROVE AInv'
  BY <1>2, QuietAnswers
<1>3. ASSUME NEW r \in Request, Task(r) PROVE AInv'
  <2>1. PICK cmds, next : Continues(r, cmds, next)
    BY <1>3, TaskShape DEF FInv
  <2>2. Judges(r)
    BY <1>3, TaskJudges
  <2> QED  BY <2>1, <2>2, JudgesKeepsAnswers
<1>4. ASSUME NEW r \in Request, PlainTask(r) PROVE AInv'
  <2>1. CASE Crashes(r)
    <3>1. UNCHANGED witness
      BY <1>4 DEF PlainTask, TurnKeys, Renamed, AllKeys, AllInfos, Callback, history
    <3>2. UNCHANGED chosen
      <4>1. UNCHANGED pc /\ pc[r] = "allInfos"
        BY <2>1 DEF Crashes
      <4> QED  BY <1>4, <4>1 DEF PlainTask, TurnKeys, Renamed, AllKeys, AllInfos, Callback, Continue
    <3> QED  BY <1>2, <2>1, <3>1, <3>2 DEF Crashes
  <2>2. CASE ~Crashes(r)
    <3>1. PICK cmds, next : Continues(r, cmds, next)
      BY <1>4, <2>2, PlainShape DEF FInv
    <3>2. Judges(r)
      BY <1>4, <2>2, PlainJudges
    <3> QED  BY <3>1, <3>2, JudgesKeepsAnswers
  <2> QED  BY <2>1, <2>2
<1>5. CASE Exec
  BY <1>5, ExecKeepsAnswers
<1>6. CASE Deliver
  BY <1>2, <1>6 DEF Deliver, redis, history
<1>7. ASSUME NEW u \in Client, UserExpires(u) PROVE AInv'
  <2>1. /\ UNCHANGED <<pipe, pc, job, got, answer, chosen, overlapped, cut>> /\ UNCHANGED witness
        /\ db' = [db EXCEPT ![2].users[u] = None, ![2].ttl = @ \ {u}] /\ db \in [Dbs -> Store]
    BY <1>7 DEF UserExpires, IInv, Base, TypeOK
  <2>2. db'[2].prov = db[2].prov /\ db'[2].conso = db[2].conso
    <3>1. db[2] \in Store
      BY <2>1 DEF Dbs
    <3> QED  BY <2>1, <3>1 DEF Store, Dbs
  <2> QED  BY <2>1, <2>2, QuietAnswers
<1>8. ASSUME NEW t \in Turn, TurnChanges(t) PROVE AInv'
  <2>1. /\ UNCHANGED <<pipe, pc, job, got, answer, chosen, overlapped, cut>> /\ witness' = Witnessed(db'[2])
        /\ db' = [db EXCEPT ![2].turn = IF t \in @ THEN @ \ {t} ELSE @ \cup {t}] /\ db \in [Dbs -> Store]
    BY <1>8 DEF TurnChanges, IInv, Base, TypeOK
  <2>2. db'[2].prov = db[2].prov /\ db'[2].conso = db[2].conso
    <3>1. db[2] \in Store
      BY <2>1 DEF Dbs
    <3> QED  BY <2>1, <3>1 DEF Store, Dbs
  <2>3. \A r \in Request : witness[r] \subseteq witness'[r]
    BY <2>1, WitnessGrows DEF IInv, Base
  <2> QED  BY <2>1, <2>2, <2>3, QuietAnswers
<1>9. CASE ConnectionLost
  BY <1>9, LostBreaks, BreaksAnswers
<1>10. CASE UNCHANGED vars
  BY <1>2, <1>10 DEF vars
<1> QED  BY <1>1, <1>3, <1>4, <1>5, <1>6, <1>7, <1>8, <1>9, <1>10 DEF Next

\* The turn requests are justified in every behaviour of the DAO.
THEOREM AnswersInvariance == Spec => []AInv
<1>1. Init => AInv
  BY AnswersInit
<1>2. IInv /\ FInv /\ AInv /\ [Next]_vars => AInv'
  BY AnswersNext
<1> QED  BY <1>1, <1>2, Invariance, FlowInvariance, PTL DEF Spec

\* The answer of getAppropriateTurn was true at some moment of the request, for
\* any number of requests, CSPs and servers: the quota and the consumption are
\* read one after the other, and what they say together was so then, unless the
\* CSP is deleted or its quota moved between the two; "not found" may also be
\* what a lost connection was taken for.
THEOREM JustifiedAnswers == Spec => []AnswerJustified
<1>1. AInv => AnswerJustified
  <2> SUFFICES ASSUME AInv, NEW r \in Request \ overlapped
               PROVE  /\ answer[r] = "granted" =>
                           /\ chosen[r] \in witness[r]
                           /\ \/ "within" \in witness[r]
                              \/ Meddled(r, {"deleteCSP"})
                              \/ "absent" \in witness[r] /\ Meddled(r, {"changeQuotas"})
                      /\ answer[r] = "notfound" => "absent" \in witness[r] \/ r \in cut
                      /\ answer[r] = "noturn" => "noturn" \in witness[r]
                      /\ answer[r] = "overquota" =>
                            "over" \in witness[r] \/ Meddled(r, {"deleteCSP", "changeQuotas"})
    BY DEF AnswerJustified
  <2>1. answer[r] \in Verdicts => Justified(r)
    BY DEF AInv, Verdict, Alone
  <2>2. Deleted(r) \/ Moved(r) => Meddled(r, {"deleteCSP", "changeQuotas"})
    BY DEF Deleted, Moved, Meddled
  <2> QED  BY <2>1, <2>2 DEF Justified, Verdicts, Deleted, Moved
<1> QED  BY <1>1, AnswersInvariance, PTL
-----------------------------------------------------------------------------
(***************************************************************************)
(* No request is dropped.                                                  *)
(***************************************************************************)
\* The requests that may end without an answer.
Silent(r) ==
    \/ job[r].kind = "addCSPConso"
    \/ job[r].kind = "deleteCSP" /\ (~got[r].ok \/ job[r].csp = None)
    \/ job[r].kind = "getAllCspInfo" /\ got[r].provs = {}
    \/ r \in cut

Carried(r) == pc[r] \in Waiting => Awaits(r)
Ended(r) == pc[r] \in {"done", "hung"} /\ answer[r] = "none" => Silent(r)

\* POST /provRequest is answered before its commands are sent.
Redirected(r) == job[r].kind = "provRequest" => answer[r] # "none"

DInv ==
    /\ up => \A r \in Request : Carried(r)
    /\ \A r \in Request : Ended(r) /\ Redirected(r)

\* Where a piece of the code of request r leaves it.
Leaves(r) ==
    \/ pc'[r] = "done" /\ answer'[r] # "none"
    \/ pc'[r] \in Waiting /\ answer'[r] = answer[r]
    \/ pc'[r] = "done" /\ answer'[r] = answer[r] /\ job[r].kind \in {"provRequest", "addCSPConso"}
    \/ pc'[r] = "hung" /\ answer'[r] = answer[r] /\ Silent(r)

\* Nothing else changes of where the other requests are.
Others(r) == \A s \in Request : s # r => pc'[s] = pc[s] /\ answer'[s] = answer[s]

\* A piece of code that sends, or answers, leaves its request there.
LEMMA ContinueLeaves ==
    ASSUME TypeOK, NEW r \in Request, NEW cmds, NEW next, Continue(r, cmds, next)
    PROVE  pc'[r] = next /\ answer' = answer /\ Others(r)
BY DEF TypeOK, Continue, Others

\* The same for one that answers.
LEMMA FinishLeaves ==
    ASSUME TypeOK, NEW r \in Request, NEW a, a # "none", Finish(r, a)
    PROVE  Leaves(r) /\ Others(r)
<1>1. pc'[r] = "done" /\ answer'[r] = a /\ Others(r)
  BY DEF TypeOK, Finish, Others
<1> QED  BY <1>1 DEF Leaves

\* Every continuation of a promise leaves its request waiting or at its end.
LEMMA TaskLeaves == ASSUME IInv, FInv, NEW r \in Request, Task(r) PROVE Leaves(r) /\ Others(r)
<1>1. TypeOK /\ job[r].kind \in KindsAt(pc[r])
  BY DEF IInv, Base, FInv, Flow, Argued
<1>2. \A at : Resume(r, at) => pc[r] = at
  BY DEF Resume
<1>3. ASSUME NEW cmds, NEW next \in Waiting, Continue(r, cmds, next) PROVE Leaves(r) /\ Others(r)
  BY <1>1, <1>3, ContinueLeaves DEF Leaves
<1>4. ASSUME NEW a \in {"notfound", "overquota", "granted", "ok"}, Finish(r, a) PROVE Leaves(r) /\ Others(r)
  BY <1>1, <1>4, FinishLeaves
<1>5. CASE InfosSelected(r) \/ ConsoSelected(r) \/ TurnsSelected(r) \/ CredSelected(r) \/ QuotaSelected(r)
           \/ UserSelected(r) \/ UserFound(r)
  <2>1. PICK cmds, next : /\ Continue(r, cmds, next)
                          /\ next \in {"infos", "conso", "turnKeys", "cred", "quota", "user", "incr"}
    BY <1>5 DEF InfosSelected, ConsoSelected, TurnsSelected, CredSelected, QuotaSelected, UserSelected, UserFound
  <2>2. next \in Waiting
    BY <2>1 DEF Waiting
  <2> QED  BY <1>3, <2>1, <2>2
<1>6. CASE ConsoAnswered(r) \/ ChooseTurn(r) \/ CredStored(r) \/ QuotaSet(r)
  BY <1>4, <1>6 DEF ConsoAnswered, ChooseTurn, CredStored, QuotaSet
<1>7. CASE Infos(r)
  <2>1. Finish(r, "notfound") \/ Continue(r, <<Await("SELECT_2", r)>>, "consoSelected")
    BY <1>7 DEF Infos
  <2>2. "consoSelected" \in Waiting
    BY DEF Waiting
  <2> QED  BY <1>3, <1>4, <2>1, <2>2
<1>8. CASE CheckQuota(r)
  <2>1. Finish(r, "notfound") \/ Finish(r, "overquota") \/ Continue(r, <<Await("SELECT_2", r)>>, "turnsSelected")
    BY <1>8 DEF CheckQuota
  <2>2. "turnsSelected" \in Waiting
    BY DEF Waiting
  <2> QED  BY <1>3, <1>4, <2>1, <2>2
<1>9. CASE ProvSelected(r) \/ Incremented(r)
  <2>1. pc[r] \in {"provSelected", "incr"} /\ \E cmds : Continue(r, cmds, "done")
    BY <1>2, <1>9 DEF ProvSelected, Incremented
  <2>2. job[r].kind \in {"provRequest", "addCSPConso"}
    BY <1>1, <2>1 DEF KindsAt
  <2> QED  BY <1>1, <2>1, <2>2, ContinueLeaves DEF Leaves
<1> QED  BY <1>5, <1>6, <1>7, <1>8, <1>9 DEF Task

\* So does every callback, unless it takes the broker down.
LEMMA PlainLeaves ==
    ASSUME IInv, FInv, NEW r \in Request, PlainTask(r), up'
    PROVE  Leaves(r) /\ Others(r)
<1>1. TypeOK /\ job[r].kind \in KindsAt(pc[r])
  BY DEF IInv, Base, FInv, Flow, Argued
<1>2. \A at : Callback(r, at) => pc[r] = at
  BY DEF Callback
<1>3. ASSUME NEW cmds, NEW next \in Waiting, Continue(r, cmds, next) PROVE Leaves(r) /\ Others(r)
  BY <1>1, <1>3, ContinueLeaves DEF Leaves
<1>4. ASSUME NEW a \in {"noturn", "ok"}, Finish(r, a) PROVE Leaves(r) /\ Others(r)
  BY <1>1, <1>4, FinishLeaves
<1>5. ASSUME Silent(r), Continue(r, <<>>, "hung") PROVE Leaves(r) /\ Others(r)
  BY <1>1, <1>5, ContinueLeaves DEF Leaves
<1>6. "turns" \in Waiting /\ "allInfos" \in Waiting
  BY DEF Waiting
<1>7. CASE TurnKeys(r)
  <2>1. Finish(r, "noturn") \/ Continue(r, <<Await("GET_TURNS", r)>>, "turns")
    BY <1>7 DEF TurnKeys
  <2> QED  BY <1>3, <1>4, <1>6, <2>1
<1>8. CASE Renamed(r)
  <2>1. pc[r] = "renamed" /\ (Finish(r, "ok") \/ (~got[r].ok /\ Continue(r, <<>>, "hung")))
    BY <1>2, <1>8 DEF Renamed
  <2>2. job[r].kind = "deleteCSP"
    BY <1>1, <2>1 DEF KindsAt
  <2> QED  BY <1>4, <1>5, <2>1, <2>2 DEF Silent
<1>9. CASE AllKeys(r)
  <2>1. /\ pc[r] = "allKeys"
        /\ \/ Continue(r, <<Await("HGETALL_EACH", r)>>, "allInfos")
           \/ got[r].provs = {} /\ Continue(r, <<>>, "hung")
    BY <1>2, <1>9 DEF AllKeys
  <2>2. job[r].kind = "getAllCspInfo"
    BY <1>1, <2>1 DEF KindsAt
  <2> QED  BY <1>3, <1>5, <1>6, <2>1, <2>2 DEF Silent
<1>10. CASE AllInfos(r)
  <2>1. Finish(r, "ok")
    BY <1>10 DEF AllInfos
  <2> QED  BY <1>4, <2>1
<1> QED  BY <1>7, <1>8, <1>9, <1>10 DEF PlainTask

\* What is in a queue stays in it, but for the head.
LEMMA QueueLeaves ==
    ASSUME NEW q \in Seq(Request), q # <<>>, NEW i \in 1..Len(q), q[i] # Head(q)
    PROVE  \E j \in 1..Len(Tail(q)) : Tail(q)[j] = q[i]
<1>1. PICK n, t : n = Len(q) /\ t = Tail(q)
  OBVIOUS
<1>2. n \in Nat /\ n > 0 /\ Head(q) = q[1] /\ Len(t) = n - 1 /\ \A k \in 1..Len(t) : t[k] = q[k + 1]
  BY <1>1, TailFacts
<1>3. i \in 1..n /\ i # 1
  BY <1>1, <1>2
<1>4. i - 1 \in 1..(n - 1) /\ (i - 1) + 1 = i
  BY <1>2, <1>3
<1>5. t[i - 1] = q[i]
  BY <1>2, <1>4
<1> QED  BY <1>1, <1>2, <1>4, <1>5

\* Where r takes its turn the others keep what is to come for them.
LEMMA TurnLeaves ==
    ASSUME IInv, NEW r \in Request, Turns(r), NEW s \in Request, s # r
    PROVE  /\ (\E i \in 1..Len(inbox) : inbox[i] = s) => \E i \in 1..Len(inbox') : inbox'[i] = s
           /\ (\E i \in 1..Len(tasks) : tasks[i] = s) => \E i \in 1..Len(tasks') : tasks'[i] = s
<1>1. inbox \in Seq(Request) /\ tasks \in Seq(Request)
  BY DEF IInv, Base, TypeOK
<1>2. CASE tasks # <<>> /\ r = Head(tasks) /\ tasks' = Tail(tasks) /\ UNCHANGED inbox
  BY <1>1, <1>2, QueueLeaves
<1>3. CASE inbox # <<>> /\ r = Head(inbox) /\ inbox' = Tail(inbox) /\ UNCHANGED tasks
  BY <1>1, <1>3, QueueLeaves
<1> QED  BY <1>2, <1>3 DEF Turns

\* What is sent to go on with a reply is awaited.
LEMMA SentAwaited ==
    ASSUME IInv, NEW r \in Request, NEW kind, NEW next \in Waiting, NEW cmds,
           Sends(r, kind, next, cmds), pipe' = pipe \o cmds
    PROVE  Awaits(r)'
<1>1. next \in Pc
  BY DEF Pc
<1>2. Grown(cmds) /\ SentBy(r, kind, next, cmds)
  BY <1>1, GrowPipe, SendsFacts
<1>3. PICK n : n = Len(cmds)
  OBVIOUS
<1>4. n \in Nat /\ n > 0 /\ cmds[n].cb /\ n \in 1..Len(cmds)
  BY <1>2, <1>3 DEF SentBy, Grown
<1>5. cmds[n].r = r /\ Len(pipe) + n \in 1..Len(pipe') /\ pipe'[Len(pipe) + n] = cmds[n]
  BY <1>2, <1>4 DEF SentBy, Grown
<1> QED  BY <1>4, <1>5 DEF Awaits

\* Commands that are appended leave the awaited ones in the pipe.
LEMMA GrownAwaits ==
    ASSUME NEW cmds, Grown(cmds), NEW s, Awaits(s),
           (\E i \in 1..Len(inbox) : inbox[i] = s) => \E i \in 1..Len(inbox') : inbox'[i] = s,
           (\E i \in 1..Len(tasks) : tasks[i] = s) => \E i \in 1..Len(tasks') : tasks'[i] = s
    PROVE  Awaits(s)'
BY DEF Grown, Awaits

\* A request that arrives.
LEMMA ArriveCarries == ASSUME IInv, FInv, DInv, NEW r \in Request, Arrive(r) PROVE DInv'
<1>1. PICK j, cmds, next : Arrives(r, j, cmds, next)
  BY ArriveShape DEF FInv
<1>2. /\ j \in Job /\ (next \in Waiting \/ (next = "hung" /\ j.kind = "deleteCSP" /\ j.csp = None))
      /\ Sends(r, j.kind, next, cmds) /\ pipe' = pipe \o cmds
      /\ pc' = [pc EXCEPT ![r] = next] /\ job' = [job EXCEPT ![r] = j]
      /\ answer' = answer \/ answer' = [answer EXCEPT ![r] = "redirect"]
      /\ UNCHANGED <<inbox, tasks, got, up, cut>>
  BY <1>1 DEF Arrives
<1>3. pc \in [Request -> Pc] /\ job \in [Request -> Job] /\ answer \in [Request -> Answers]
  BY DEF IInv, Base, TypeOK
<1>4. /\ pc'[r] = next /\ job'[r] = j
      /\ \A s \in Request : s # r => pc'[s] = pc[s] /\ job'[s] = job[s] /\ answer'[s] = answer[s]
  BY <1>2, <1>3
<1>5. Grown(cmds) /\ (next \in Waiting => Awaits(r)')
  <2>1. next \in Pc
    BY <1>2 DEF Pc
  <2> QED  BY <1>2, <2>1, SentAwaited, GrowPipe
<1>6. ASSUME up', NEW s \in Request PROVE Carried(s)'
  <2>1. CASE s = r
    BY <1>4, <1>5, <2>1 DEF Carried
  <2>2. CASE s # r
    <3>1. pc'[s] \in Waiting => Awaits(s)
      BY <1>2, <1>4, <1>6, <2>2 DEF DInv, Carried
    <3> QED  BY <1>2, <1>5, <3>1, GrownAwaits DEF Carried
  <2> QED  BY <2>1, <2>2
<1>7. ASSUME NEW s \in Request PROVE Ended(s)'
  <2>1. CASE s = r
    BY <1>2, <1>4, <2>1, PlaceFacts DEF Ended, Silent
  <2>2. CASE s # r
    BY <1>2, <1>4, <2>2 DEF DInv, Ended, Silent
  <2> QED  BY <2>1, <2>2
<1>8. j.kind = "provRequest" => answer'[r] = "redirect"
  <2>1. CASE \E c \in Csp, q \in QuotaValue : ProvRequest(r, c, q)
    BY <1>3, <2>1 DEF ProvRequest
  <2>2. ASSUME NEW k, k.kind # "provRequest", job' = [job EXCEPT ![r] = k] PROVE j.kind # "provRequest"
    BY <1>3, <1>4, <2>2
  <2>3. CASE \E c \in Csp : GetAppropriateTurn(r, c)
    BY <2>2, <2>3 DEF GetAppropriateTurn, Start, NoJob
  <2>4. CASE \E u \in Client : GetCredentials(r, u)
    BY <2>2, <2>4 DEF GetCredentials, Start, NoJob
  <2>5. CASE \E c \in Csp : DeleteCSP(r, c)
    BY <2>2, <2>5 DEF DeleteCSP, Start, NoJob
  <2>10. CASE DeleteWithoutKey(r)
    BY <2>2, <2>10 DEF DeleteWithoutKey, NoJob
  <2>6. CASE \E c \in Csp, q \in QuotaValue : ChangeQuotas(r, c, q)
    BY <2>2, <2>6 DEF ChangeQuotas, Start, NoJob
  <2>7. CASE GetAllCspInfo(r)
    BY <2>2, <2>7 DEF GetAllCspInfo, Start, NoJob
  <2>8. CASE \E c \in Csp : GetCspConso(r, c)
    BY <2>2, <2>8 DEF GetCspConso, Start, NoJob
  <2>9. CASE \E u \in Client, n \in Bytes : AddCSPConso(r, u, n)
    BY <2>2, <2>9 DEF AddCSPConso, Start, NoJob
  <2> QED  BY <2>1, <2>3, <2>4, <2>5, <2>6, <2>7, <2>8, <2>9, <2>10 DEF Arrive
<1>9. ASSUME NEW s \in Request PROVE Redirected(s)'
  BY <1>4, <1>8 DEF DInv, Redirected
<1> QED  BY <1>6, <1>7, <1>9 DEF DInv

\* A continuation, or a callback that does not throw.
LEMMA LeavesCarries ==
    ASSUME IInv, FInv, DInv, NEW r \in Request, \E cc, nn : Continues(r, cc, nn), Leaves(r), Others(r)
    PROVE  DInv'
<1>1. PICK cmds, next : Continues(r, cmds, next)
  OBVIOUS
<1>2. /\ next \in Pc /\ Sends(r, job[r].kind, next, cmds) /\ pipe' = pipe \o cmds /\ Turns(r)
      /\ pc' = [pc EXCEPT ![r] = next] /\ UNCHANGED <<job, got, up, cut>>
  BY <1>1 DEF Continues
<1>3. pc'[r] = next
  BY <1>2 DEF IInv, Base, TypeOK
<1>4. Grown(cmds) /\ (next \in Waiting => Awaits(r)')
  BY <1>2, SentAwaited, GrowPipe
<1>5. ASSUME up', NEW s \in Request PROVE Carried(s)'
  <2>1. CASE s = r
    BY <1>3, <1>4, <2>1 DEF Carried
  <2>2. CASE s # r
    <3>1. pc'[s] \in Waiting => Awaits(s)
      BY <1>2, <1>5, <2>2 DEF DInv, Carried, Others
    <3>2. /\ (\E i \in 1..Len(inbox) : inbox[i] = s) => \E i \in 1..Len(inbox') : inbox'[i] = s
          /\ (\E i \in 1..Len(tasks) : tasks[i] = s) => \E i \in 1..Len(tasks') : tasks'[i] = s
      BY <1>2, <2>2, TurnLeaves
    <3> QED  BY <1>4, <3>1, <3>2, GrownAwaits DEF Carried
  <2> QED  BY <2>1, <2>2
<1>6. \A s \in Request : Silent(s)' <=> Silent(s)
  BY <1>2 DEF Silent
<1>7. Ended(r)' /\ Redirected(r)'
  <2>1. (pc'[r] \in {"done", "hung"} /\ answer'[r] = "none") => Silent(r)
    <3>1. job[r].kind = "provRequest" => answer[r] # "none"
      BY DEF DInv, Redirected
    <3> QED  BY <3>1, PlaceFacts DEF Leaves, Silent
  <2>2. job[r].kind = "provRequest" => answer'[r] # "none"
    BY DEF DInv, Redirected, Leaves
  <2> QED  BY <1>2, <1>6, <2>1, <2>2 DEF Ended, Redirected
<1>8. ASSUME NEW s \in Request, s # r PROVE Ended(s)' /\ Redirected(s)'
  BY <1>2, <1>6, <1>8 DEF DInv, Ended, Redirected, Others
<1> QED  BY <1>5, <1>7, <1>8 DEF DInv

\* A step that leaves the requests and what is to come for them alone.
LEMMA QuietCarries ==
    ASSUME DInv, UNCHANGED <<pipe, inbox, tasks, pc, job, got, answer, up, cut>>
    PROVE  DInv'
<1>1. \A r \in Request : (Awaits(r)' <=> Awaits(r)) /\ (Silent(r)' <=> Silent(r))
  BY DEF Awaits, Silent
<1> QED  BY <1>1 DEF DInv, Carried, Ended, Redirected

\* A reply that settles a promise.
LEMMA DeliverCarries == ASSUME IInv, DInv, Deliver PROVE DInv'
<1>1. /\ inbox \in Seq(Request) /\ tasks \in Seq(Request) /\ inbox # <<>>
      /\ inbox' = Tail(inbox) /\ tasks' = Append(tasks, Head(inbox))
      /\ UNCHANGED <<pipe, pc, job, got, answer, up, cut>>
  BY DEF IInv, Base, TypeOK, Deliver, history
<1>2. Head(inbox) = inbox[1] /\ Head(inbox) \in Request
  BY <1>1, TailFacts
<1>3. PICK n : n = Len(tasks)
  OBVIOUS
<1>4. n \in Nat /\ Len(tasks') = n + 1 /\ tasks'[n + 1] = Head(inbox) /\ \A i \in 1..n : tasks'[i] = tasks[i]
  BY <1>1, <1>2, <1>3, AppendFacts
<1>5. n + 1 \in 1..Len(tasks') /\ \A i \in 1..n : i \in 1..Len(tasks')
  BY <1>4
<1>6. ASSUME NEW s \in Request, Awaits(s) PROVE Awaits(s)'
  <2>1. CASE \E i \in 1..Len(pipe) : pipe[i].r = s /\ pipe[i].cb
    BY <1>1, <2>1 DEF Awaits
  <2>2. CASE \E i \in 1..Len(tasks) : tasks[i] = s
    BY <1>3, <1>4, <1>5, <2>2 DEF Awaits
  <2>3. CASE s = Head(inbox)
    BY <1>4, <1>5, <2>3 DEF Awaits
  <2>4. ASSUME NEW i \in 1..Len(inbox), inbox[i] = s, s # Head(inbox) PROVE Awaits(s)'
    <3>1. \E j \in 1..Len(inbox') : inbox'[j] = s
      BY <1>1, <2>4, QueueLeaves
    <3> QED  BY <3>1 DEF Awaits
  <2> QED  BY <1>6, <2>1, <2>2, <2>3, <2>4 DEF Awaits
<1>7. \A s \in Request : Silent(s)' <=> Silent(s)
  BY <1>1 DEF Silent
<1> QED  BY <1>1, <1>6, <1>7 DEF DInv, Carried, Ended, Redirected

\* Redis executes a command: its reply, if it is awaited, is on its way back.
LEMMA ExecCarries == ASSUME IInv, FInv, DInv, Exec PROVE DInv'
<1>1. /\ 1 \in 1..Len(pipe) /\ Len(pipe) \in Nat /\ Len(pipe') = Len(pipe) - 1
      /\ \A i \in 1..Len(pipe') : pipe'[i] = pipe[i + 1]
      /\ inbox' = IF pipe[1].cb THEN Append(inbox, pipe[1].r) ELSE inbox
      /\ UNCHANGED <<tasks, pc, job, answer, up>>
  BY ExecFacts
<1>8. UNCHANGED cut
  BY DEF Exec
<1>2. Flow /\ pipe[1].r \in Request /\ inbox \in Seq(Request)
  BY <1>1, CmdKind DEF FInv, IInv, Base, TypeOK
<1>3. PICK n : n = Len(inbox)
  OBVIOUS
<1>4. /\ \A i \in 1..n : i \in 1..Len(inbox') /\ inbox'[i] = inbox[i]
      /\ pipe[1].cb => n + 1 \in 1..Len(inbox') /\ inbox'[n + 1] = pipe[1].r
  <2>1. CASE pipe[1].cb
    <3>1. n \in Nat /\ Len(inbox') = n + 1 /\ inbox'[n + 1] = pipe[1].r /\ \A i \in 1..n : inbox'[i] = inbox[i]
      BY <1>1, <1>2, <1>3, <2>1, AppendFacts
    <3> QED  BY <3>1
  <2>2. CASE ~pipe[1].cb
    BY <1>1, <1>3, <2>2
  <2> QED  BY <2>1, <2>2
<1>5. ASSUME NEW s \in Request, Awaits(s) PROVE Awaits(s)'
  <2>1. CASE \E i \in 1..Len(tasks) : tasks[i] = s
    BY <1>1, <2>1 DEF Awaits
  <2>2. CASE \E i \in 1..Len(inbox) : inbox[i] = s
    BY <1>3, <1>4, <2>2 DEF Awaits
  <2>3. ASSUME NEW i \in 1..Len(pipe), pipe[i].r = s, pipe[i].cb PROVE Awaits(s)'
    <3>1. CASE i = 1
      BY <1>4, <2>3, <3>1 DEF Awaits
    <3>2. CASE i # 1
      <4>1. i - 1 \in 1..Len(pipe') /\ (i - 1) + 1 = i
        BY <1>1, <3>2
      <4>2. pipe'[i - 1] = pipe[i]
        BY <1>1, <4>1
      <4> QED  BY <2>3, <4>1, <4>2 DEF Awaits
    <3> QED  BY <3>1, <3>2
  <2> QED  BY <1>5, <2>1, <2>2, <2>3 DEF Awaits
<1>6. ASSUME NEW s \in Request, pc[s] \in {"done", "hung"} PROVE got'[s].ok = got[s].ok /\ got'[s].provs = got[s].provs
  <2>1. CASE s # pipe[1].r
    BY <1>2, <2>1, ExecReply
  <2>2. CASE s = pipe[1].r
    <3>1. pc[s] \notin Waiting
      BY <1>6, PlaceFacts
    <3>2. ~pipe[1].cb /\ job[s].kind \in KindsOf(pipe[1].op)
      BY <1>1, <1>2, <2>2, <3>1 DEF Flow, Placed
    <3>3. pipe[1].op \notin {"RENAME_PROV", "HGETALL_EACH", "KEYS_PROV"}
      BY <3>2 DEF KindsOf
    <3>4. ReplyOf(pipe[1].op, s, db[selected], got'[s])
      BY <1>2, <2>2, ExecReply
    <3> QED  BY <3>3, <3>4 DEF ReplyOf
  <2> QED  BY <2>1, <2>2
<1>7. ASSUME NEW s \in Request PROVE Ended(s)' /\ Redirected(s)'
  BY <1>1, <1>6, <1>8 DEF DInv, Ended, Redirected, Silent
<1> QED  BY <1>1, <1>5, <1>7 DEF DInv, Carried

\* A break of the connection ends what waits for a reply, and leaves the
\* continuations that are ready.
LEMMA BreaksCarries == ASSUME DInv, Breaks PROVE DInv'
<1>1. /\ UNCHANGED <<tasks, job, got>> /\ cut' = cut \cup CutOff
      /\ \A s \in Request \ CutOff : pc'[s] = pc[s] /\ answer'[s] = answer[s]
      /\ \A s \in CutOff : answer'[s] \in {answer[s], "notfound", "error"}
      /\ \A s \in Request : pc'[s] \in Waiting => \E i \in 1..Len(tasks) : tasks[i] = s
  BY DEF Breaks
<1>2. ASSUME NEW s \in Request PROVE Carried(s)'
  BY <1>1 DEF Carried, Awaits
<1>3. ASSUME NEW s \in Request PROVE Ended(s)'
  <2>1. CASE s \in CutOff
    BY <1>1, <2>1 DEF Ended, Silent
  <2>2. CASE s \notin CutOff
    <3>1. pc'[s] = pc[s] /\ answer'[s] = answer[s] /\ (Silent(s) => Silent(s)')
      BY <1>1, <2>2 DEF Silent
    <3> QED  BY <3>1 DEF DInv, Ended
  <2> QED  BY <2>1, <2>2
<1>4. ASSUME NEW s \in Request PROVE Redirected(s)'
  BY <1>1 DEF DInv, Redirected
<1> QED  BY <1>2, <1>3, <1>4 DEF DInv

\* At first no request has arrived.
LEMMA CarriesInit == ASSUME Init PROVE DInv
<1>1. \A r \in Request : pc[r] = "idle" /\ job[r].kind = "none"
  BY DEF Init, NoJob
<1> QED  BY <1>1, PlaceFacts DEF DInv, Carried, Ended, Redirected

\* Every step keeps the requests carried.
LEMMA CarriesNext == ASSUME IInv, FInv, DInv, [Next]_vars PROVE DInv'
<1>1. ASSUME NEW r \in Request, Arrive(r) PROVE DInv'
  BY <1>1, ArriveCarries
<1>2. ASSUME NEW r \in Request, Task(r) PROVE DInv'
  <2>1. \E cc, nn : Continues(r, cc, nn)
    BY <1>2, TaskShape DEF FInv
  <2> QED  BY <1>2, <2>1, TaskLeaves, LeavesCarries
<1>3. ASSUME NEW r \in Request, PlainTask(r) PROVE DInv'
  <2>1. CASE \E cc, nn : Continues(r, cc, nn)
    <3>1. PICK cc, nn : Continues(r, cc, nn)
      BY <2>1
    <3>2. up' = up
      BY <3>1 DEF Continues
    <3>3. up
      BY <1>3 DEF PlainTask, TurnKeys, Renamed, AllKeys, AllInfos, Callback
    <3> QED  BY <1>3, <2>1, <3>2, <3>3, PlainLeaves, LeavesCarries
  <2>2. CASE Crashes(r)
    <3>1. pc[r] = "allInfos" /\ ~got[r].ok /\ UNCHANGED <<pc, job, got, answer, cut>>
      BY <2>2 DEF Crashes
    <3>2. AllInfos(r)
      BY <1>3, <3>1 DEF PlainTask, TurnKeys, Renamed, AllKeys, Callback
    <3>3. ~up'
      BY <3>1, <3>2 DEF AllInfos
    <3>4. \A s \in Request : Ended(s)' /\ Redirected(s)'
      BY <3>1 DEF DInv, Ended, Redirected, Silent
    <3> QED  BY <3>3, <3>4 DEF DInv
  <2> QED  BY <1>3, <2>1, <2>2, PlainShape DEF FInv
<1>4. CASE Exec
  BY <1>4, ExecCarries
<1>5. CASE Deliver
  BY <1>5, DeliverCarries
<1>6. ASSUME NEW u \in Client, UserExpires(u) PROVE DInv'
  BY <1>6, QuietCarries DEF UserExpires
<1>7. ASSUME NEW t \in Turn, TurnChanges(t) PROVE DInv'
  BY <1>7, QuietCarries DEF TurnChanges
<1>8. CASE UNCHANGED vars
  BY <1>8, QuietCarries DEF vars
<1>9. CASE ConnectionLost
  BY <1>9, LostBreaks, BreaksCarries
<1> QED  BY <1>1, <1>2, <1>3, <1>4, <1>5, <1>6, <1>7, <1>8, <1>9 DEF Next

\* The requests are carried in every behaviour of the DAO.
THEOREM CarriesInvariance == Spec => []DInv
<1>1. Init => DInv
  BY CarriesInit
<1>2. IInv /\ FInv /\ DInv /\ [Next]_vars => DInv'
  BY CarriesNext
<1> QED  BY <1>1, <1>2, Invariance, FlowInvariance, PTL DEF Spec

\* For any number of requests on the shared connection, whatever their kinds and
\* their interleaving: a request that waits has a command, a reply or a
\* continuation to come, and one that ended without an answer is a notification,
\* a deletion whose RENAME failed or that named no CSP, a poll that found no CSP,
\* or had its reply lost with the connection.
THEOREM NothingDropped == Spec => []NoRequestDropped
<1>1. DInv => NoRequestDropped
  BY DEF DInv, Carried, Ended, Silent, NoRequestDropped
<1> QED  BY <1>1, CarriesInvariance, PTL
=============================================================================
