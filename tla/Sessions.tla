------------------------------ MODULE Sessions ------------------------------
(***************************************************************************)
(* Sessions that run one transaction after another.                        *)
(*                                                                         *)
(* A client (client.cpp) sends one request at a time to its logicServ      *)
(* session (logicServ.cpp, readwrite_routine).  The session keeps a        *)
(* connection to each storage it has used, also from one transaction to    *)
(* the next, and each connection has a storageServ session at its other    *)
(* end (storageServ.cpp, readwrite_routine) with a begin_ts of its own.    *)
(* The two sides agree about the transaction on a connection only because  *)
(* every Begin, Prepare, error and disconnect changes both.                *)
(*                                                                         *)
(* CommitProtocol has one session for each transaction and shows how       *)
(* prepared transactions are decided; here a prepared record stays so.     *)
(***************************************************************************)
EXTENDS Naturals

CONSTANTS
    Client,     \* clients, each with one logicServ session at a time
    NumHost,    \* g_config->host_size()
    SharedTick, \* may two open sessions get the same begin_ts from GetTS?
    MaxTS,      \* bound on the timestamps given to transactions
    MaxConn,    \* bound on the storage connections that exist at a time
    Faults,     \* the kinds of faults that may happen
    MaxFault    \* bound on the number of faults

ASSUME SizeAssumption == NumHost \in Nat \ {0} /\ MaxConn \in Nat \ {0}
ASSUME BoundAssumption ==
    /\ SharedTick \in BOOLEAN /\ MaxTS \in Nat \ {0}
    /\ Faults \subseteq {"crash", "break", "cut"} /\ MaxFault \in Nat

VARIABLES
    client,     \* client[c]: is it connected, does it wait, its request in flight
    logic,      \* logic[c]: locals of its logicServ session
    conn,       \* conn[i]: a connection and the storageServ session at its end
    rec,        \* rec[n][ts]: the state of trans_<ts> at storage n
    done,       \* done[n]: transactions for which n has served a data request
    list,       \* list[ts]: the trans_list of the Prepare of ts
    told,       \* told[c]: what c was told: <<ts, n>> done, <<ts>> committed
    up,         \* up[n]: the storageServ process n is running
    clock,      \* the latest begin_ts given
    budget      \* how many faults may still happen

vars == <<client, logic, conn, rec, done, list, told, up, clock, budget>>

Host == 0 .. (NumHost - 1)

\* begin_ts; 0 stands for the empty string.
TS == 1 .. MaxTS

Conn == 1 .. MaxConn

None == [type |-> "none", cut |-> FALSE]

\* The hash of the key decides the storage of a data request, and is all that
\* is left of it.
Requests ==
    [type : {"begin", "commit", "rollback"}, cut : BOOLEAN]
        \cup [type : {"data"}, host : Host, cut : BOOLEAN]

RpcReq == [type : {"begin", "prepare", "data"}, begin_ts : TS, cut : BOOLEAN]

RpcRes == [type : {"response"}, result : {0, 1}, cut : BOOLEAN]

\* pc: "idle" in co_poll, "reading" in ReadOneMsg of the client, "begin" in
\* getFd, "data" and "prepare" waiting for responses.  stat is the set of
\* storages with stat = 1, fd[n] = 0 stands for fd = -1.
NoSession ==
    [pc |-> "none", begin_ts |-> 0, fd |-> [n \in Host |-> 0], stat |-> {}, host |-> 0]

NewSession == [NoSession EXCEPT !.pc = "idle"]

Gone == [here |-> FALSE, waits |-> FALSE, req |-> None]

\* alive: there is a storage session at the far end of the connection.
NoConn ==
    [host |-> 0, link |-> "none", req |-> None, res |-> None, begin_ts |-> 0, alive |-> FALSE]

\* Type correctness: in particular nothing is told about a transaction without
\* a begin_ts.
TypeOK ==
    /\ client \in [Client -> [here : BOOLEAN, waits : BOOLEAN, req : Requests \cup {None}]]
    /\ logic \in [Client ->
         [pc : {"none", "idle", "reading", "begin", "data", "prepare"},
          begin_ts : 0 .. MaxTS, fd : [Host -> 0 .. MaxConn], stat : SUBSET Host, host : Host]]
    /\ conn \in [Conn ->
         [host : Host, link : {"none", "open", "broken"}, req : RpcReq \cup {None},
          res : RpcRes \cup {None}, begin_ts : 0 .. MaxTS, alive : BOOLEAN]]
    /\ rec \in [Host -> [TS -> {"none", "Begin", "Prepared", "Rollback"}]]
    /\ done \in [Host -> SUBSET TS]
    /\ list \in [TS -> SUBSET Host]
    /\ told \in [Client -> SUBSET ((TS \X Host) \cup {<<ts>> : ts \in TS})]
    /\ up \in [Host -> BOOLEAN]
    /\ clock \in 0 .. MaxTS
    /\ budget \in 0 .. MaxFault

Init ==
    /\ client = [c \in Client |-> Gone]
    /\ logic = [c \in Client |-> NoSession]
    /\ conn = [i \in Conn |-> NoConn]
    /\ rec = [n \in Host |-> [ts \in TS |-> "none"]]
    /\ done = [n \in Host |-> {}]
    /\ list = [ts \in TS |-> {}]
    /\ told = [c \in Client |-> {}]
    /\ up = [n \in Host |-> TRUE]
    /\ clock = 0
    /\ budget = MaxFault

-----------------------------------------------------------------------------
(***************************************************************************)
(* Connections and messages.                                               *)
(***************************************************************************)

Message(type, ts) == [type |-> type, begin_ts |-> ts, cut |-> FALSE]

Result(r) == [type |-> "response", result |-> r, cut |-> FALSE]

\* SendMsg of a request: on a broken connection it may fail, or the bytes are
\* lost and the read of the response fails.  Either way the caller gives up.
SendMsg(cn, i, m) == [cn EXCEPT ![i].req = IF cn[i].link = "open" THEN m ELSE @]

\* The storage session has read the request of i and answers.
Respond(cn, i, r) ==
    [cn EXCEPT ![i].req = None,
               ![i].res = IF cn[i].link = "open" THEN Result(r) ELSE None]

Fds(c) == {logic[c].fd[n] : n \in Host} \ {0}

\* The logicServ side closes its sockets S; a storage session is still there
\* until it reads end-of-file.
Close(cn, S) ==
    [i \in Conn |-> IF i \notin S THEN cn[i]
                    ELSE IF cn[i].alive THEN [cn[i] EXCEPT !.link = "broken", !.res = None]
                    ELSE NoConn]

\* The storage sessions of S are gone; the logicServ side, if it still has its
\* socket, will find it broken.
Drop(S) ==
    [i \in Conn |->
        IF i \notin S THEN conn[i]
        ELSE IF \E c \in Client : i \in Fds(c)
        THEN [conn[i] EXCEPT !.link = "broken", !.req = None, !.begin_ts = 0, !.alive = FALSE]
        ELSE NoConn]

\* The descriptor connect returns: the smallest free one.
FreeConn(i) == conn[i] = NoConn /\ \A j \in Conn : conn[j] = NoConn => i <= j

\* The session of c ends, all its connections are closed, the client's too.
\* An answer that goes before is an error and promises nothing.
CloseSession(c, cn) ==
    /\ logic' = [logic EXCEPT ![c] = NoSession]
    /\ conn' = Close(cn, Fds(c))
    /\ client' = [client EXCEPT ![c] = Gone]

EndSession(c) ==
    /\ CloseSession(c, conn)
    /\ UNCHANGED <<rec, done, list, told, up, clock, budget>>

\* The logicServ process dies, with all its sessions.
LogicDies ==
    /\ logic' = [c \in Client |-> NoSession]
    /\ conn' = Close(conn, UNION {Fds(c) : c \in Client})
    /\ client' = [c \in Client |-> Gone]
    /\ UNCHANGED <<rec, done, list, told, up, clock, budget>>

\* The client is answered, if it is still there, and told the facts F.
Answer(c, F) ==
    /\ client' = [client EXCEPT ![c].waits = FALSE]
    /\ told' = [told EXCEPT ![c] = @ \cup (IF client[c].here THEN F ELSE {})]

-----------------------------------------------------------------------------
(***************************************************************************)
(* The client.                                                             *)
(***************************************************************************)

\* The client connects, or connects again; accept_routine starts a session.
Connect(c) ==
    /\ ~client[c].here /\ logic[c].pc = "none"
    /\ client' = [client EXCEPT ![c] = [Gone EXCEPT !.here = TRUE]]
    /\ logic' = [logic EXCEPT ![c] = NewSession]
    /\ UNCHANGED <<conn, rec, done, list, told, up, clock, budget>>

\* Faulty: waitRecvFlg is not looked at.
SendAnyTime(c) ==
    /\ client[c].here /\ client[c].req = None
    /\ \E r \in Requests :
         /\ ~r.cut /\ (r.type = "begin" => clock < MaxTS)
         /\ client' = [client EXCEPT ![c].req = r, ![c].waits = TRUE]
    /\ UNCHANGED <<logic, conn, rec, done, list, told, up, clock, budget>>

\* The client sends a request; while it waits for a response it sends nothing.
\* The bound on timestamps holds back its Begin, so that sessions never stop.
Send(c) ==
    /\ client[c].here /\ client[c].req = None /\ ~client[c].waits
    /\ \E r \in Requests :
         /\ ~r.cut /\ (r.type = "begin" => clock < MaxTS)
         /\ client' = [client EXCEPT ![c].req = r, ![c].waits = TRUE]
    /\ UNCHANGED <<logic, conn, rec, done, list, told, up, clock, budget>>

\* The client disappears; what it sent may still be read.
Leave(c) ==
    /\ client[c].here
    /\ client' = [client EXCEPT ![c].here = FALSE, ![c].waits = FALSE]
    /\ UNCHANGED <<logic, conn, rec, done, list, told, up, clock, budget>>

-----------------------------------------------------------------------------
(***************************************************************************)
(* logicServ: the session of client c.                                     *)
(***************************************************************************)

\* Something to read, or the end of it, on the connection to storage n.
StorageEvent(c, n) ==
    LET i == logic[c].fd[n]
    IN  i # 0 /\ (conn[i].link = "broken" \/ conn[i].res # None)

ClientEvent(c) == ~client[c].here \/ client[c].req # None

\* The unused connections of S are forgotten.
Clean(s, S) == [s EXCEPT !.fd = [n \in Host |-> IF n \in S THEN 0 ELSE s.fd[n]]]

\* co_poll of the main loop.  An event on a connection that is in use kills
\* the transaction, the session and the client's connection.  Connections that
\* are not in use are closed; then the session reads from the client, even if
\* the client has sent nothing.
Poll(c) ==
    /\ logic[c].pc = "idle"
    /\ LET E == {n \in Host : StorageEvent(c, n)}
           s == logic[c]
       IN  /\ E # {} \/ ClientEvent(c)
           /\ \/ E \cap s.stat # {} /\ EndSession(c)
              \/ /\ E \cap s.stat = {}
                 /\ logic' = [logic EXCEPT ![c] = [Clean(s, E) EXCEPT !.pc = "reading"]]
                 /\ conn' = Close(conn, {s.fd[n] : n \in E})
                 /\ UNCHANGED <<client, rec, done, list, told, up, clock, budget>>

\* ReadOneMsg of the client fails: end-of-file, or nothing for three minutes.
ReadFails(c) ==
    /\ logic[c].pc = "reading" /\ client[c].req = None
    /\ EndSession(c)

\* ReadOneMsg returns a request of the given type.
Received(c, type) ==
    /\ logic[c].pc = "reading"
    /\ client[c].req.type = type /\ ~client[c].req.cut

\* A request that does not fit: Begin inside a transaction, anything else
\* outside of one.
Refuse(c) ==
    /\ \/ Received(c, "begin") /\ logic[c].begin_ts # 0
       \/ /\ \E type \in {"commit", "rollback", "data"} : Received(c, type)
          /\ logic[c].begin_ts = 0
    /\ client' = [client EXCEPT ![c].req = None, ![c].waits = FALSE]
    /\ logic' = [logic EXCEPT ![c].pc = "idle"]
    /\ UNCHANGED <<conn, rec, done, list, told, up, clock, budget>>

\* The timestamps GetTS may return to a Begin: a new one or, with SharedTick,
\* the one another open transaction got in the same microsecond.
NewTS(c) ==
    {ts \in TS : \/ ts = clock + 1
                 \/ SharedTick /\ \E d \in Client \ {c} : logic[d].begin_ts = ts}

\* Of transactions that are over only what was told about a commit is kept.
Forget(c) ==
    /\ told' = [told EXCEPT ![c] = @ \ (TS \X Host)]
    /\ done' = [n \in Host |-> {ts \in done[n] : \E d \in Client \ {c} :
                                  logic[d].begin_ts = ts \/ <<ts, n>> \in told[d]}]

ReqBegin(c) ==
    /\ Received(c, "begin") /\ logic[c].begin_ts = 0
    /\ Forget(c)
    /\ \E ts \in NewTS(c) :
         /\ logic' = [logic EXCEPT ![c].pc = "idle", ![c].begin_ts = ts]
         /\ clock' = IF ts > clock THEN ts ELSE clock
    /\ client' = [client EXCEPT ![c].req = None, ![c].waits = FALSE]
    /\ UNCHANGED <<conn, rec, list, up, budget>>

\* getFd and the request to the storage of the key: connect if there is no
\* connection, send Begin if the transaction is not on it yet.
ReqData(c) ==
    /\ Received(c, "data") /\ logic[c].begin_ts # 0
    /\ LET n == client[c].req.host
           s == logic[c]
           type == IF n \in s.stat THEN "data" ELSE "begin"
           Ask(cn, i) ==
               /\ conn' = SendMsg(cn, i, Message(type, s.begin_ts))
               /\ logic' = [logic EXCEPT ![c].pc = type, ![c].host = n, ![c].fd[n] = i]
               /\ client' = [client EXCEPT ![c].req = None]
               /\ UNCHANGED <<rec, done, list, told, up, clock, budget>>
       IN  \/ s.fd[n] # 0 /\ Ask(conn, s.fd[n])
           \/ s.fd[n] = 0 /\ ~up[n] /\ EndSession(c)
           \/ /\ s.fd[n] = 0 /\ up[n]
              /\ \E i \in Conn :
                   /\ FreeConn(i)
                   /\ Ask([conn EXCEPT ![i] =
                             [NoConn EXCEPT !.host = n, !.link = "open", !.alive = TRUE]], i)

\* Faulty: every storage the session has a connection to.
Connected(c) == {n \in Host : logic[c].fd[n] # 0}

\* The storages that joined the transaction: the trans_list of its Prepare.
Participants(c) == {n \in Host : logic[c].fd[n] # 0 /\ n \in logic[c].stat}

\* Commit sends Prepare to every participant.  If that fails at one of them
\* the session ends, and those after it get none.
ReqCommit(c) ==
    /\ Received(c, "commit") /\ logic[c].begin_ts # 0
    /\ LET s == logic[c]
           P == Participants(c)
           Sent(S) == [i \in Conn |->
               IF conn[i].link = "open" /\ \E n \in S : s.fd[n] = i
               THEN [conn[i] EXCEPT !.req = Message("prepare", s.begin_ts)]
               ELSE conn[i]]
       IN  /\ list' = [list EXCEPT ![s.begin_ts] = P]
           /\ \/ /\ P # {}
                 /\ conn' = Sent(P)
                 /\ logic' = [logic EXCEPT ![c].pc = "prepare"]
                 /\ client' = [client EXCEPT ![c].req = None]
                 /\ UNCHANGED told
              \/ \E n \in P :
                   /\ conn[s.fd[n]].link = "broken"
                   /\ CloseSession(c, Sent({m \in P : m < n}))
                   /\ UNCHANGED told
              \/ /\ P = {}
                 /\ logic' = [logic EXCEPT ![c].pc = "idle", ![c].begin_ts = 0]
                 /\ client' = [client EXCEPT ![c].req = None, ![c].waits = FALSE]
                 /\ told' = [told EXCEPT ![c] = @ \cup {<<s.begin_ts>>}]
                 /\ UNCHANGED conn
    /\ UNCHANGED <<rec, done, up, clock, budget>>

\* Rollback closes all connections.  The session goes on with storageCl, which
\* is deleted: it is the new array if the allocator returns the block it has
\* just got, and otherwise the process may die.
ReqRollback(c) ==
    /\ Received(c, "rollback") /\ logic[c].begin_ts # 0
    /\ \/ /\ logic' = [logic EXCEPT ![c] = NewSession]
          /\ conn' = Close(conn, Fds(c))
          /\ client' = [client EXCEPT ![c].req = None, ![c].waits = FALSE]
          /\ UNCHANGED <<rec, done, list, told, up, clock, budget>>
       \/ LogicDies

\* There is a response on connection i, and all of it.
Whole(i) == conn[i].res # None /\ ~conn[i].res.cut

\* getFd reads the response to Begin and the request follows, or the session
\* ends with an error.
BeginRes(c) ==
    /\ logic[c].pc = "begin"
    /\ LET n == logic[c].host
           i == logic[c].fd[n]
       IN  \/ /\ Whole(i) /\ conn[i].res.result = 0
              /\ logic' = [logic EXCEPT ![c].pc = "data", ![c].stat = @ \cup {n}]
              /\ conn' = SendMsg([conn EXCEPT ![i].res = None], i,
                                 Message("data", logic[c].begin_ts))
              /\ UNCHANGED <<client, rec, done, list, told, up, clock, budget>>
           \/ Whole(i) /\ conn[i].res.result # 0 /\ EndSession(c)
           \/ conn[i].link = "broken" /\ EndSession(c)

\* The response of the storage is passed on.  If the client's connection has
\* an event first, the client is answered 0 without it.
DataRes(c) ==
    /\ logic[c].pc = "data"
    /\ LET n == logic[c].host
           i == logic[c].fd[n]
           Passed(ok) ==
               /\ logic' = [logic EXCEPT ![c].pc = "idle", ![c].host = 0]
               /\ Answer(c, IF ok THEN {<<logic[c].begin_ts, n>>} ELSE {})
               /\ UNCHANGED <<rec, done, list, up, clock, budget>>
       IN  \/ /\ Whole(i)
              /\ Passed(conn[i].res.result = 0)
              /\ conn' = [conn EXCEPT ![i].res = None]
           \/ conn[i].link = "broken" /\ EndSession(c)
           \/ /\ ClientEvent(c) /\ ~StorageEvent(c, n)
              /\ Passed(TRUE)
              /\ UNCHANGED conn

\* Faulty: begin_ts is reset before the answer is made.
PreparedReset(c, n) ==
    LET last == logic[c].stat = {n}
    IN  /\ logic' = [logic EXCEPT
              ![c].stat = @ \ {n},
              ![c].pc = IF last THEN "idle" ELSE @,
              ![c].begin_ts = IF last THEN 0 ELSE @]
        /\ IF last THEN Answer(c, {<<logic'[c].begin_ts>>}) ELSE UNCHANGED <<client, told>>

\* stat = 0 once n has answered Prepare, whatever it answered; after the last
\* answer the transaction is over and the client is told success.
Prepared(c, n) ==
    LET last == logic[c].stat = {n}
    IN  /\ logic' = [logic EXCEPT
              ![c].stat = @ \ {n},
              ![c].pc = IF last THEN "idle" ELSE @,
              ![c].begin_ts = IF last THEN 0 ELSE @]
        /\ IF last THEN Answer(c, {<<logic[c].begin_ts>>}) ELSE UNCHANGED <<client, told>>

\* Faulty: a connection that fails counts as answered.
PrepareUnread(c, n) ==
    /\ logic[c].pc = "prepare" /\ n \in logic[c].stat /\ StorageEvent(c, n)
    /\ conn' = [conn EXCEPT ![logic[c].fd[n]].res = None]
    /\ Prepared(c, n)
    /\ UNCHANGED <<rec, done, list, up, clock, budget>>

\* Faulty: a connection that fails goes unnoticed.
PrepareAnswered(c, n) ==
    /\ logic[c].pc = "prepare" /\ n \in logic[c].stat
    /\ Whole(logic[c].fd[n])
    /\ conn' = [conn EXCEPT ![logic[c].fd[n]].res = None]
    /\ Prepared(c, n)
    /\ UNCHANGED <<rec, done, list, up, clock, budget>>

\* A response to Prepare is read, or the read fails and the session ends.
PrepareRes(c, n) ==
    /\ logic[c].pc = "prepare" /\ n \in logic[c].stat
    /\ LET i == logic[c].fd[n]
       IN  \/ /\ Whole(i)
              /\ conn' = [conn EXCEPT ![i].res = None]
              /\ Prepared(c, n)
              /\ UNCHANGED <<rec, done, list, up, clock, budget>>
           \/ conn[i].link = "broken" /\ EndSession(c)

\* An event on a connection that is not in use, or no more, closes it.
PrepareClean(c, n) ==
    /\ logic[c].pc = "prepare" /\ n \notin logic[c].stat /\ StorageEvent(c, n)
    /\ logic' = [logic EXCEPT ![c] = Clean(@, {n})]
    /\ conn' = Close(conn, {logic[c].fd[n]})
    /\ UNCHANGED <<client, rec, done, list, told, up, clock, budget>>

-----------------------------------------------------------------------------
(***************************************************************************)
(* storageServ: the session at the far end of connection i.                *)
(***************************************************************************)

Serves(i, type) ==
    /\ conn[i].alive /\ conn[i].req.type = type /\ ~conn[i].req.cut

\* Begin: the session takes the begin_ts of the request before addTrans finds
\* out whether the transaction is there already, and keeps it if it is.
ServeBegin(i) ==
    /\ Serves(i, "begin")
    /\ LET n == conn[i].host
           ts == conn[i].req.begin_ts
           new == conn[i].begin_ts = 0
           added == new /\ rec[n][ts] = "none"
       IN  /\ conn' = [Respond(conn, i, IF added THEN 0 ELSE 1) EXCEPT
                         ![i].begin_ts = IF new THEN ts ELSE @]
           /\ rec' = [rec EXCEPT ![n][ts] = IF added THEN "Begin" ELSE @]
    /\ UNCHANGED <<client, logic, done, list, told, up, clock, budget>>

\* A data request is served for the transaction of the session, whatever
\* begin_ts the request has; it may have waited for a lock.
ServeData(i) ==
    /\ Serves(i, "data")
    /\ LET ts == conn[i].begin_ts
       IN  /\ conn' = Respond(conn, i, IF ts # 0 THEN 0 ELSE 1)
           /\ done' = [done EXCEPT ![conn[i].host] = @ \cup ({ts} \ {0})]
    /\ UNCHANGED <<client, logic, rec, list, told, up, clock, budget>>

\* Faulty: the session keeps its begin_ts.
PrepareAndKeep(i) ==
    /\ Serves(i, "prepare")
    /\ LET n == conn[i].host
           ts == conn[i].begin_ts
           ok == ts = conn[i].req.begin_ts /\ rec[n][ts] = "Begin"
       IN  /\ conn' = Respond(conn, i, IF ok THEN 0 ELSE 1)
           /\ rec' = IF ok THEN [rec EXCEPT ![n][ts] = "Prepared"] ELSE rec
    /\ UNCHANGED <<client, logic, done, list, told, up, clock, budget>>

\* Prepare: refused without an open transaction or with another begin_ts, and
\* if the record is not open any more; then the session keeps its begin_ts.
ServePrepare(i) ==
    /\ Serves(i, "prepare")
    /\ LET n == conn[i].host
           ts == conn[i].begin_ts
           ok == ts = conn[i].req.begin_ts /\ rec[n][ts] = "Begin"
       IN  /\ conn' = [Respond(conn, i, IF ok THEN 0 ELSE 1) EXCEPT
                         ![i].begin_ts = IF ok THEN 0 ELSE @]
           /\ rec' = IF ok THEN [rec EXCEPT ![n][ts] = "Prepared"] ELSE rec
    /\ UNCHANGED <<client, logic, done, list, told, up, clock, budget>>

\* Faulty: an open transaction is left as it is.
NoClean(r, S) == r

\* startCleanTrans for the transactions S of a storage with the records r.
startCleanTrans(r, S) ==
    [ts \in TS |-> IF ts \in S /\ r[ts] = "Begin" THEN "Rollback" ELSE r[ts]]

\* Faulty: everything that is open is taken for abandoned.
EndAll(i) ==
    /\ conn[i].alive /\ conn[i].link = "broken"
    /\ conn' = Drop({i})
    /\ rec' = [rec EXCEPT ![conn[i].host] = startCleanTrans(@, TS)]
    /\ UNCHANGED <<client, logic, done, list, told, up, clock, budget>>

\* The session reads end-of-file; a request it waits with is given up.
SessionEnd(i) ==
    /\ conn[i].alive /\ conn[i].link = "broken"
    /\ conn' = Drop({i})
    /\ rec' = [rec EXCEPT ![conn[i].host] = startCleanTrans(@, {conn[i].begin_ts})]
    /\ UNCHANGED <<client, logic, done, list, told, up, clock, budget>>

-----------------------------------------------------------------------------
(***************************************************************************)
(* Failures.                                                               *)
(***************************************************************************)

Fault(kind) ==
    /\ kind \in Faults /\ budget > 0
    /\ budget' = budget - 1

Die(n) ==
    /\ up' = [up EXCEPT ![n] = FALSE]
    /\ conn' = Drop({i \in Conn : conn[i].alive /\ conn[i].host = n})

Crash(n) ==
    /\ up[n] /\ Fault("crash")
    /\ Die(n)
    /\ UNCHANGED <<client, logic, rec, done, list, told, clock>>

\* A restart rolls back what is open before anything is served.
startUpClean(n) ==
    /\ ~up[n]
    /\ up' = [up EXCEPT ![n] = TRUE]
    /\ rec' = [rec EXCEPT ![n] = startCleanTrans(@, TS)]
    /\ UNCHANGED <<client, logic, conn, done, list, told, clock, budget>>

LinkBreaks(i) ==
    /\ conn[i].link = "open" /\ Fault("break")
    /\ conn' = [conn EXCEPT ![i].link = "broken"]
    /\ UNCHANGED <<client, logic, rec, done, list, told, up, clock>>

\* Only a part of a message is there when it is read: the accepted sockets do
\* not block, and ReadBuff returns what it has got.
CutMessage ==
    /\ Fault("cut")
    /\ \/ \E i \in Conn :
            /\ \/ conn[i].req # None /\ conn' = [conn EXCEPT ![i].req.cut = TRUE]
               \/ conn[i].res # None /\ conn' = [conn EXCEPT ![i].res.cut = TRUE]
            /\ UNCHANGED client
       \/ \E c \in Client :
            /\ client[c].req # None
            /\ client' = [client EXCEPT ![c].req.cut = TRUE]
            /\ UNCHANGED conn
    /\ UNCHANGED <<logic, rec, done, list, told, up, clock>>

\* ReadOneMsg does not compare the length of what it got with msgLen.  The
\* text is no JSON: parse throws, nothing catches, and the process dies.
ServeCut(i) ==
    /\ conn[i].alive /\ conn[i].req.cut
    /\ Die(conn[i].host)
    /\ UNCHANGED <<client, logic, rec, done, list, told, clock, budget>>

ReadCut(c) ==
    /\ \/ logic[c].pc = "reading" /\ client[c].req.cut
       \/ \E n \in Host :
            /\ \/ logic[c].pc \in {"begin", "data"} /\ n = logic[c].host
               \/ logic[c].pc = "prepare" /\ n \in logic[c].stat
            /\ logic[c].fd[n] # 0 /\ conn[logic[c].fd[n]].res.cut
    /\ LogicDies

-----------------------------------------------------------------------------
LogicStep(c) ==
    \/ Poll(c) \/ ReadFails(c) \/ Refuse(c)
    \/ ReqBegin(c) \/ ReqData(c) \/ ReqCommit(c) \/ ReqRollback(c)
    \/ BeginRes(c) \/ DataRes(c)
    \/ \E n \in Host : PrepareRes(c, n) \/ PrepareClean(c, n)
    \/ ReadCut(c)

StorageStep(i) ==
    ServeBegin(i) \/ ServeData(i) \/ ServePrepare(i) \/ SessionEnd(i) \/ ServeCut(i)

Next ==
    \/ \E c \in Client : Connect(c) \/ Send(c) \/ Leave(c) \/ LogicStep(c)
    \/ \E i \in Conn : StorageStep(i) \/ LinkBreaks(i)
    \/ \E n \in Host : Crash(n) \/ startUpClean(n)
    \/ CutMessage

Spec == Init /\ [][Next]_vars

(***************************************************************************)
(* The event loop resumes every session with an event or a timeout; a lock *)
(* a data request waits for is released in the end (RequestEnds in         *)
(* KeyStore); a storageServ that died is started again.  Clients and       *)
(* faults are not fair.                                                    *)
(***************************************************************************)
Fairness ==
    /\ \A c \in Client : WF_vars(LogicStep(c))
    /\ \A i \in Conn : WF_vars(StorageStep(i))
    /\ WF_vars(\E n \in Host : startUpClean(n))

FairSpec == Spec /\ Fairness

-----------------------------------------------------------------------------
(***************************************************************************)
(* Safety.                                                                 *)
(***************************************************************************)

\* A client told that its transaction is committed has it prepared at every
\* storage that took part and at every one that answered a request of it
\* (logicServ.cpp:192: success if all prepares returned success), although
\* logicServ does not look at the result of a Prepare.
OkMeansPrepared ==
    \A c \in Client, ts \in TS : <<ts>> \in told[c] =>
        \A n \in Host : n \in list[ts] \/ <<ts, n>> \in told[c] =>
            n \in list[ts] /\ rec[n][ts] = "Prepared"

\* What the client is told is done has been done, and for its transaction:
\* neither the answer 0 of an interrupted wait (logicServ.cpp:352) nor a
\* storage session that works for another transaction gets through to it.
AnswersAreDone ==
    \A c \in Client, ts \in TS, n \in Host : <<ts, n>> \in told[c] => ts \in done[n]

\* No message is under way on connection i.
Silent(i) == conn[i].req = None /\ conn[i].res = None

\* The two ends of an open connection agree: a storage with stat = 1 has the
\* transaction open, until it has answered Prepare; any other storage session
\* has none, so that the next Begin will not be refused ("has begin trans!").
EndsAgree ==
    \A c \in Client, n \in Host :
        LET s == logic[c]
            i == s.fd[n]
        IN  i # 0 /\ conn[i].link = "open" =>
              /\ conn[i].alive /\ conn[i].host = n
              /\ n \in s.stat =>
                   \/ conn[i].begin_ts = s.begin_ts /\ rec[n][s.begin_ts] = "Begin"
                   \/ /\ s.pc = "prepare" /\ conn[i].res # None
                      /\ conn[i].begin_ts = 0 /\ rec[n][s.begin_ts] = "Prepared"
              /\ n \notin s.stat =>
                   \/ s.pc = "begin" /\ s.host = n
                   \/ conn[i].begin_ts = 0 /\ Silent(i)

\* A storage rolls back an open transaction only when its session is over or
\* has lost the connection: never for the end of somebody else's session.
NoForeignRollback ==
    [][\A n \in Host, ts \in TS :
         rec[n][ts] = "Begin" /\ rec'[n][ts] = "Rollback" =>
             \A c \in Client :
                 logic[c].begin_ts = ts /\ n \in logic[c].stat =>
                     conn[logic[c].fd[n]].link = "broken"]_vars

\* Each transaction, whatever the session did before it, is up to its votes
\* an atomic commitment: the list sent with Prepare names exactly the storages
\* that joined, and only these vote.
Promise(ts) == INSTANCE AtomicCommit WITH
    MaxTimestamp <- 0,
    state <- [n \in Host |-> rec[n][ts]],
    members <- list[ts],
    vote <- [n \in Host |-> 0],
    decision <- [n \in Host |-> 0]

ImplementsAtomicCommit ==
    /\ \A ts \in TS : Promise(ts)!AbstractInit
    /\ [][\A ts \in TS : [Promise(ts)!AbstractNext]_(Promise(ts)!acVars)]_vars

-----------------------------------------------------------------------------
(***************************************************************************)
(* Liveness.                                                               *)
(***************************************************************************)

\* Every request is answered, or the client's connection is closed.
RequestAnswered == \A c \in Client : client[c].waits ~> ~client[c].waits

\* Where transactions are open that no session works on any more.
Abandoned ==
    {p \in Host \X TS :
        rec[p[1]][p[2]] = "Begin" /\ \A c \in Client : logic[c].begin_ts # p[2]}

\* No storage keeps such a transaction open, which would hold its locks for
\* ever: its session finds out, or the restart of the storage does.
AbandonedEnds == (Abandoned # {}) ~> (Abandoned = {})
=============================================================================
