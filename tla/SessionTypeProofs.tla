------------------------- MODULE SessionTypeProofs -------------------------
(***************************************************************************)
(* The type invariant of Sessions, for any number of clients, storages,    *)
(* connections and faults.  What it says beyond the sets of values: a      *)
(* session in the middle of a request has a begin_ts, so that every Begin, *)
(* Prepare and data request that goes out names a transaction.             *)
(***************************************************************************)
EXTENDS Sessions, TLAPS

\* The sets of TypeOK by name, and its variables in two groups.
ClientRec == [here : BOOLEAN, waits : BOOLEAN, req : Requests \cup {None}]

LogicRec ==
    [pc : {"none", "idle", "reading", "begin", "data", "prepare"},
     begin_ts : 0 .. MaxTS, fd : [Host -> 0 .. MaxConn], stat : SUBSET Host, host : Host]

ConnRec ==
    [host : Host, link : {"none", "open", "broken"}, req : RpcReq \cup {None},
     res : RpcRes \cup {None}, begin_ts : 0 .. MaxTS, alive : BOOLEAN]

Ts(c) == logic[c].begin_ts

\* The session is in the middle of a request.
Busy(s) == s.pc \in {"begin", "data", "prepare"}

\* TypeOK, and the begin_ts that the requests take their own from.
TypeInv == TypeOK /\ \A c \in Client : Busy(logic[c]) => Ts(c) # 0

LEMMA Zero == 0 \in Host /\ 0 \in 0 .. MaxTS /\ 0 \in 0 .. MaxConn
BY SizeAssumption, BoundAssumption DEF Host

LEMMA RecordTypes ==
    NoSession \in LogicRec /\ NewSession \in LogicRec /\ NoConn \in ConnRec /\ Gone \in ClientRec
BY Zero DEF NoSession, NewSession, NoConn, Gone, LogicRec, ConnRec, ClientRec

LEMMA RpcTypes ==
    /\ \A r \in RpcReq \cup {None} :
         /\ r = None <=> r.type = "none"
         /\ r # None => r.type \in {"begin", "prepare", "data"} /\ r.begin_ts \in TS
    /\ \A r \in RpcRes \cup {None} : r = None <=> r.type = "none"
    /\ \A r \in Requests \cup {None} : r = None <=> r.type = "none"
BY DEF RpcReq, RpcRes, Requests, None

\* What the helpers on connections return.
LEMMA CloseType ==
    ASSUME NEW cn \in [Conn -> ConnRec], NEW S PROVE Close(cn, S) \in [Conn -> ConnRec]
<1>1. ASSUME NEW i \in Conn PROVE [cn[i] EXCEPT !.link = "broken", !.res = None] \in ConnRec
  BY DEF ConnRec
<1> QED BY <1>1, RecordTypes DEF Close

LEMMA DropType ==
    ASSUME TypeOK, NEW S PROVE Drop(S) \in [Conn -> ConnRec]
<1>1. ASSUME NEW i \in Conn
      PROVE [conn[i] EXCEPT !.link = "broken", !.req = None, !.begin_ts = 0, !.alive = FALSE] \in ConnRec
  <2>1. conn[i] \in ConnRec BY DEF TypeOK, ConnRec
  <2>2. [conn[i] EXCEPT !.link = "broken"] \in ConnRec BY <2>1 DEF ConnRec
  <2>3. [conn[i] EXCEPT !.link = "broken", !.req = None] \in ConnRec BY <2>2 DEF ConnRec
  <2>4. [conn[i] EXCEPT !.link = "broken", !.req = None, !.begin_ts = 0] \in ConnRec
    BY <2>3, Zero DEF ConnRec
  <2> QED BY <2>4 DEF ConnRec
<1>2. conn \in [Conn -> ConnRec] BY DEF TypeOK, ConnRec
<1> QED BY <1>1, <1>2, RecordTypes DEF Drop

LEMMA SendType ==
    ASSUME NEW cn \in [Conn -> ConnRec], NEW i \in Conn, NEW m \in RpcReq
    PROVE  SendMsg(cn, i, m) \in [Conn -> ConnRec]
BY DEF SendMsg, ConnRec

LEMMA MessageType ==
    ASSUME NEW type \in {"begin", "prepare", "data"}, NEW ts \in TS PROVE Message(type, ts) \in RpcReq
BY DEF Message, RpcReq

LEMMA RespondType ==
    ASSUME NEW cn \in [Conn -> ConnRec], NEW i \in Conn, NEW r \in {0, 1}
    PROVE  Respond(cn, i, r) \in [Conn -> ConnRec]
<1>1. Result(r) \in RpcRes BY DEF Result, RpcRes
<1>2. [cn[i] EXCEPT !.req = None] \in ConnRec BY DEF ConnRec
<1>3. [cn[i] EXCEPT !.req = None, !.res = IF cn[i].link = "open" THEN Result(r) ELSE None] \in ConnRec
  BY <1>1, <1>2 DEF ConnRec
<1> QED BY <1>3 DEF Respond

\* The ways a session ends: alone (return of readwrite_routine), or with the
\* whole process (the assertion of closeAllFd).
LEMMA ClosesTypes ==
    ASSUME TypeInv, NEW c \in Client, NEW cn \in [Conn -> ConnRec], CloseSession(c, cn)
    PROVE  client' \in [Client -> ClientRec] /\ logic' \in [Client -> LogicRec]
        /\ conn' \in [Conn -> ConnRec] /\ \A d \in Client : Busy(logic'[d]) => Ts(d)' # 0
<1> USE DEF TypeInv
<1>1. client \in [Client -> ClientRec] /\ logic \in [Client -> LogicRec]
  BY DEF TypeOK, ClientRec, LogicRec
<1>2. client' \in [Client -> ClientRec] /\ logic' \in [Client -> LogicRec]
  BY <1>1, RecordTypes DEF CloseSession
<1>3. conn' \in [Conn -> ConnRec] BY CloseType DEF CloseSession
<1>4. ASSUME NEW d \in Client, Busy(logic'[d]) PROVE Ts(d)' # 0
  <2>1. logic'[d] = IF d = c THEN NoSession ELSE logic[d] BY <1>1 DEF CloseSession
  <2> QED BY <2>1, <1>4 DEF Ts, Busy, NoSession
<1> QED BY <1>2, <1>3, <1>4

LEMMA EndTypes == ASSUME TypeInv, NEW c \in Client, EndSession(c) PROVE TypeInv'
<1>1. conn \in [Conn -> ConnRec] BY DEF TypeInv, TypeOK, ConnRec
<1> QED BY <1>1, ClosesTypes DEF EndSession, TypeInv, TypeOK, ClientRec, LogicRec, ConnRec

LEMMA DiesTypes == ASSUME TypeInv, LogicDies PROVE TypeInv'
<1>1. conn \in [Conn -> ConnRec] BY DEF TypeInv, TypeOK, ConnRec
<1>2. conn' \in [Conn -> ConnRec] BY <1>1, CloseType DEF LogicDies
<1>3. client' \in [Client -> ClientRec] /\ logic' \in [Client -> LogicRec]
  BY RecordTypes DEF LogicDies
<1>4. \A d \in Client : ~Busy(logic'[d]) BY DEF LogicDies, Busy, NoSession
<1> QED BY <1>2, <1>3, <1>4 DEF LogicDies, TypeInv, TypeOK, ClientRec, LogicRec, ConnRec

Records == 
    /\ client \in [Client -> ClientRec] /\ logic \in [Client -> LogicRec]
    /\ conn \in [Conn -> ConnRec]

Tables ==
    /\ rec \in [Host -> [TS -> {"none", "Begin", "Prepared", "Rollback"}]]
    /\ done \in [Host -> SUBSET TS]
    /\ list \in [TS -> SUBSET Host]
    /\ told \in [Client -> SUBSET ((TS \X Host) \cup {<<ts>> : ts \in TS})]
    /\ up \in [Host -> BOOLEAN]
    /\ clock \in 0 .. MaxTS
    /\ budget \in 0 .. MaxFault

LEMMA TypeParts == (TypeOK <=> Records /\ Tables) /\ (Records' /\ Tables' => TypeOK')
BY DEF TypeOK, Records, Tables, ClientRec, LogicRec, ConnRec

\* A step of the session of c alone.
LEMMA BusyStep ==
    ASSUME TypeInv, NEW c \in Client, NEW s \in LogicRec, logic' = [logic EXCEPT ![c] = s],
           Busy(s) => s.begin_ts # 0
    PROVE  /\ logic' \in [Client -> LogicRec]
           /\ \A d \in Client : Busy(logic'[d]) => Ts(d)' # 0
<1>1. logic \in [Client -> LogicRec] BY TypeParts DEF TypeInv, Records
<1> QED BY <1>1 DEF TypeInv, Ts

-----------------------------------------------------------------------------
\* The client, and its session between two requests.
LEMMA ClientTypes ==
    ASSUME TypeInv, NEW c \in Client,
           Connect(c) \/ Send(c) \/ Leave(c) \/ Poll(c) \/ ReadFails(c) \/ Refuse(c)
    PROVE  TypeInv'
<1>1. Records /\ Tables BY TypeParts DEF TypeInv
<1>a. logic[c] \in LogicRec /\ client[c] \in ClientRec BY <1>1 DEF Records
<1>2. CASE Connect(c)
  <2>1. client' \in [Client -> ClientRec]
    BY <1>1, <1>2, RecordTypes DEF Connect, Records, ClientRec
  <2>2. NewSession \in LogicRec /\ ~Busy(NewSession) BY RecordTypes DEF NewSession, Busy, NoSession
  <2>3. logic' = [logic EXCEPT ![c] = NewSession] BY <1>2 DEF Connect
  <2>4. logic' \in [Client -> LogicRec] /\ \A d \in Client : Busy(logic'[d]) => Ts(d)' # 0
    BY <2>2, <2>3, BusyStep
  <2> QED BY <1>1, <1>2, <2>1, <2>4, TypeParts DEF Connect, Records, Tables, TypeInv
<1>3. CASE Send(c)
  <2>1. client' \in [Client -> ClientRec]
    <3>1. PICK r \in Requests : client' = [client EXCEPT ![c].req = r, ![c].waits = TRUE]
      BY <1>3 DEF Send
    <3>2. [client[c] EXCEPT !.req = r, !.waits = TRUE] \in ClientRec
      BY <1>a DEF ClientRec
    <3> QED BY <1>1, <3>1, <3>2 DEF Records
  <2> QED BY <1>1, <1>3, <2>1, TypeParts DEF Send, Records, Tables, TypeInv, Ts
<1>4. CASE Leave(c)
  <2>1. client' \in [Client -> ClientRec] BY <1>1, <1>4 DEF Leave, Records, ClientRec
  <2> QED BY <1>1, <1>4, <2>1, TypeParts DEF Leave, Records, Tables, TypeInv, Ts
<1>5. CASE Poll(c)
  <2> DEFINE E == {n \in Host : StorageEvent(c, n)}
             s == [Clean(logic[c], E) EXCEPT !.pc = "reading"]
  <2>1. CASE EndSession(c) BY <2>1, EndTypes
  <2>2. CASE ~EndSession(c)
    <3>1. /\ logic' = [logic EXCEPT ![c] = s]
          /\ conn' = Close(conn, {logic[c].fd[n] : n \in E})
          /\ UNCHANGED <<client, rec, done, list, told, up, clock, budget>>
      BY <1>5, <2>2 DEF Poll
    <3>2. s \in LogicRec /\ ~Busy(s)
      <4>1. Clean(logic[c], E) \in LogicRec BY <1>a, Zero DEF Clean, LogicRec
      <4> QED BY <4>1 DEF LogicRec, Busy
    <3>3. conn' \in [Conn -> ConnRec] BY <1>1, <3>1, CloseType DEF Records
    <3>4. logic' \in [Client -> LogicRec] /\ \A d \in Client : Busy(logic'[d]) => Ts(d)' # 0
      BY <3>1, <3>2, BusyStep
    <3> QED BY <1>1, <3>1, <3>3, <3>4, TypeParts DEF Records, Tables, TypeInv
  <2> QED BY <2>1, <2>2
<1>6. CASE ReadFails(c) BY <1>6, EndTypes DEF ReadFails
<1>7. CASE Refuse(c)
  <2>1. client' \in [Client -> ClientRec] BY <1>1, <1>7 DEF Refuse, Records, ClientRec
  <2>2. [logic[c] EXCEPT !.pc = "idle"] \in LogicRec /\ ~Busy([logic[c] EXCEPT !.pc = "idle"])
    BY <1>a DEF LogicRec, Busy
  <2>3. logic' = [logic EXCEPT ![c] = [logic[c] EXCEPT !.pc = "idle"]] BY <1>7 DEF Refuse
  <2>4. logic' \in [Client -> LogicRec] /\ \A d \in Client : Busy(logic'[d]) => Ts(d)' # 0
    BY <2>2, <2>3, BusyStep
  <2> QED BY <1>1, <1>7, <2>1, <2>4, TypeParts DEF Refuse, Records, Tables, TypeInv
<1> QED BY <1>2, <1>3, <1>4, <1>5, <1>6, <1>7

\* The session serves a request of its client.
LEMMA RequestTypes ==
    ASSUME TypeInv, NEW c \in Client,
           ReqBegin(c) \/ ReqData(c) \/ ReqCommit(c) \/ ReqRollback(c)
    PROVE  TypeInv'
<1>1. Records /\ Tables BY TypeParts DEF TypeInv
<1>a. logic[c] \in LogicRec /\ client[c] \in ClientRec BY <1>1 DEF Records
<1>b. [client[c] EXCEPT !.req = None] \in ClientRec
  BY <1>a DEF ClientRec
<1>c. [client[c] EXCEPT !.req = None, !.waits = FALSE] \in ClientRec
  BY <1>a DEF ClientRec
<1>d. [client EXCEPT ![c].req = None] \in [Client -> ClientRec]
  BY <1>1, <1>b DEF Records
<1>e. [client EXCEPT ![c].req = None, ![c].waits = FALSE] \in [Client -> ClientRec]
  BY <1>1, <1>c DEF Records
<1>2. CASE ReqBegin(c)
  <2>1. PICK ts \in NewTS(c) : /\ logic' = [logic EXCEPT ![c].pc = "idle", ![c].begin_ts = ts]
                               /\ clock' = IF ts > clock THEN ts ELSE clock
    BY <1>2 DEF ReqBegin
  <2> DEFINE s == [logic[c] EXCEPT !.pc = "idle", !.begin_ts = ts]
  <2>2. ts \in TS /\ ts \in 0 .. MaxTS BY BoundAssumption DEF NewTS, TS
  <2>3. s \in LogicRec /\ ~Busy(s) BY <1>a, <2>2 DEF LogicRec, Busy
  <2>4. logic' = [logic EXCEPT ![c] = s] BY <2>1
  <2>5. logic' \in [Client -> LogicRec] /\ \A d \in Client : Busy(logic'[d]) => Ts(d)' # 0
    BY <2>3, <2>4, BusyStep
  <2>6. done' \in [Host -> SUBSET TS]
    BY <1>1, <1>2 DEF Tables, ReqBegin, Forget
  <2>7. told' \in [Client -> SUBSET ((TS \X Host) \cup {<<t>> : t \in TS})]
    BY <1>1, <1>2 DEF Tables, ReqBegin, Forget
  <2>8. clock' \in 0 .. MaxTS BY <1>1, <2>1, <2>2 DEF Tables
  <2> QED
    BY <1>1, <1>2, <1>e, <2>5, <2>6, <2>7, <2>8, TypeParts DEF ReqBegin, Records, Tables, TypeInv
<1>3. CASE ReqData(c)
  <2> DEFINE n == client[c].req.host
             type == IF n \in logic[c].stat THEN "data" ELSE "begin"
             m == Message(type, Ts(c))
             fresh(i) == [conn EXCEPT ![i] =
                             [NoConn EXCEPT !.host = n, !.link = "open", !.alive = TRUE]]
  <2>1. CASE EndSession(c) BY <2>1, EndTypes
  <2>2. CASE ~EndSession(c)
    <3>1. client[c].req.type = "data" /\ Ts(c) # 0 BY <1>3 DEF ReqData, Received, Ts
    <3>2. n \in Host BY <1>a, <3>1 DEF ClientRec, Requests, None
    <3>3. m \in RpcReq
      <4>1. Ts(c) \in TS BY <1>a, <3>1, BoundAssumption DEF LogicRec, TS, Ts
      <4> QED BY <4>1, MessageType
    <3>4. PICK i \in Conn, cn \in [Conn -> ConnRec] :
             /\ conn' = SendMsg(cn, i, m)
             /\ logic' = [logic EXCEPT ![c].pc = type, ![c].host = n, ![c].fd[n] = i]
             /\ client' = [client EXCEPT ![c].req = None]
             /\ UNCHANGED <<rec, done, list, told, up, clock, budget>>
      <4>1. CASE logic[c].fd[n] # 0
        <5>1. logic[c].fd[n] \in Conn
          BY <1>a, <3>2, <4>1, SizeAssumption DEF LogicRec, Conn
        <5> QED BY <1>1, <1>3, <2>2, <4>1, <5>1 DEF ReqData, Records, Ts
      <4>2. CASE logic[c].fd[n] = 0
        <5>1. PICK i \in Conn :
                 /\ conn' = SendMsg(fresh(i), i, m)
                 /\ logic' = [logic EXCEPT ![c].pc = type, ![c].host = n, ![c].fd[n] = i]
                 /\ client' = [client EXCEPT ![c].req = None]
                 /\ UNCHANGED <<rec, done, list, told, up, clock, budget>>
          BY <1>3, <2>2, <4>2 DEF ReqData, Ts
        <5>2. [NoConn EXCEPT !.host = n, !.link = "open", !.alive = TRUE] \in ConnRec
          BY <3>2, RecordTypes DEF ConnRec
        <5>3. fresh(i) \in [Conn -> ConnRec] BY <1>1, <5>2 DEF Records
        <5> QED BY <5>1, <5>3
      <4> QED BY <4>1, <4>2
    <3>5. conn' \in [Conn -> ConnRec] BY <3>3, <3>4, SendType
    <3> DEFINE s == [logic[c] EXCEPT !.pc = type, !.host = n, !.fd[n] = i]
    <3>6. s \in LogicRec /\ s.begin_ts = Ts(c)
      <4>1. i \in 0 .. MaxConn BY SizeAssumption DEF Conn
      <4>2. [logic[c].fd EXCEPT ![n] = i] \in [Host -> 0 .. MaxConn]
        BY <1>a, <4>1 DEF LogicRec
      <4> QED BY <1>a, <3>2, <4>2 DEF LogicRec, Ts
    <3>7. logic' = [logic EXCEPT ![c] = s] BY <3>4
    <3>8. logic' \in [Client -> LogicRec] /\ \A d \in Client : Busy(logic'[d]) => Ts(d)' # 0
      <4> HIDE DEF s
      <4> QED BY <3>1, <3>6, <3>7, BusyStep
    <3> QED BY <1>1, <1>d, <3>4, <3>5, <3>8, TypeParts DEF Records, Tables, TypeInv
  <2> QED BY <2>1, <2>2
<1>4. CASE ReqCommit(c)
  <2> DEFINE P == Participants(c)
             Sent(S) == [i \in Conn |->
               IF conn[i].link = "open" /\ \E n \in S : logic[c].fd[n] = i
               THEN [conn[i] EXCEPT !.req = Message("prepare", logic[c].begin_ts)]
               ELSE conn[i]]
  <2>1. Ts(c) \in TS
    BY <1>a, <1>4, BoundAssumption DEF ReqCommit, LogicRec, TS, Ts
  <2>2. ASSUME NEW S PROVE Sent(S) \in [Conn -> ConnRec]
    <3>1. Message("prepare", Ts(c)) \in RpcReq BY <2>1, MessageType
    <3> QED BY <1>1, <3>1 DEF Records, ConnRec, Ts
  <2>3. list' \in [TS -> SUBSET Host] BY <1>1, <1>4 DEF ReqCommit, Tables, Participants
  <2>4. UNCHANGED <<rec, done, up, clock, budget>> BY <1>4 DEF ReqCommit
  <2>5. \/ /\ conn' = Sent(P)
           /\ logic' = [logic EXCEPT ![c].pc = "prepare"]
           /\ client' = [client EXCEPT ![c].req = None]
           /\ UNCHANGED told
        \/ (\E n \in P : CloseSession(c, Sent({m \in P : m < n}))) /\ UNCHANGED told
        \/ /\ logic' = [logic EXCEPT ![c].pc = "idle", ![c].begin_ts = 0]
           /\ client' = [client EXCEPT ![c].req = None, ![c].waits = FALSE]
           /\ told' = [told EXCEPT ![c] = @ \cup {<<Ts(c)>>}]
           /\ UNCHANGED conn
    BY <1>4 DEF ReqCommit, Ts
  <2> HIDE DEF Sent, P
  <2>6. CASE /\ conn' = Sent(P)
             /\ logic' = [logic EXCEPT ![c].pc = "prepare"]
             /\ client' = [client EXCEPT ![c].req = None]
             /\ UNCHANGED told
    <3> DEFINE s == [logic[c] EXCEPT !.pc = "prepare"]
    <3>1. s \in LogicRec /\ s.begin_ts = Ts(c) BY <1>a DEF LogicRec, Ts
    <3>2. logic' = [logic EXCEPT ![c] = s] BY <2>6
    <3>3. logic' \in [Client -> LogicRec] /\ \A d \in Client : Busy(logic'[d]) => Ts(d)' # 0
      <4>1. s.begin_ts # 0 BY <3>1, <2>1 DEF TS
      <4> HIDE DEF s
      <4> QED BY <4>1, <3>1, <3>2, BusyStep
    <3> QED BY <1>1, <1>d, <2>2, <2>3, <2>4, <2>6, <3>3, TypeParts DEF Records, Tables, TypeInv
  <2>7. CASE (\E n \in P : CloseSession(c, Sent({m \in P : m < n}))) /\ UNCHANGED told
    <3>1. PICK cn \in [Conn -> ConnRec] : CloseSession(c, cn) BY <2>2, <2>7
    <3> QED BY <1>1, <2>3, <2>4, <2>7, <3>1, ClosesTypes, TypeParts DEF Records, Tables, TypeInv
  <2>8. CASE /\ logic' = [logic EXCEPT ![c].pc = "idle", ![c].begin_ts = 0]
             /\ client' = [client EXCEPT ![c].req = None, ![c].waits = FALSE]
             /\ told' = [told EXCEPT ![c] = @ \cup {<<Ts(c)>>}]
             /\ UNCHANGED conn
    <3> DEFINE s == [logic[c] EXCEPT !.pc = "idle", !.begin_ts = 0]
    <3>1. s \in LogicRec /\ ~Busy(s) BY <1>a, Zero DEF LogicRec, Busy
    <3>2. logic' = [logic EXCEPT ![c] = s] BY <2>8
    <3>3. logic' \in [Client -> LogicRec] /\ \A d \in Client : Busy(logic'[d]) => Ts(d)' # 0
      <4> HIDE DEF s
      <4> QED BY <3>1, <3>2, BusyStep
    <3>4. told' \in [Client -> SUBSET ((TS \X Host) \cup {<<t>> : t \in TS})]
      <4>1. <<Ts(c)>> \in {<<t>> : t \in TS} BY <2>1
      <4> QED BY <1>1, <2>8, <4>1 DEF Tables
    <3> QED BY <1>1, <1>e, <2>3, <2>4, <2>8, <3>3, <3>4, TypeParts DEF Records, Tables, TypeInv
  <2> QED BY <2>5, <2>6, <2>7, <2>8
<1>5. CASE ReqRollback(c)
  <2>1. CASE LogicDies BY <2>1, DiesTypes
  <2>2. CASE ~LogicDies
    <3>1. /\ logic' = [logic EXCEPT ![c] = NewSession]
          /\ conn' = Close(conn, Fds(c))
          /\ client' = [client EXCEPT ![c].req = None, ![c].waits = FALSE]
          /\ UNCHANGED <<rec, done, list, told, up, clock, budget>>
      BY <1>5, <2>2 DEF ReqRollback
    <3>2. NewSession \in LogicRec /\ ~Busy(NewSession) BY RecordTypes DEF NewSession, Busy, NoSession
    <3>3. logic' \in [Client -> LogicRec] /\ \A d \in Client : Busy(logic'[d]) => Ts(d)' # 0
      BY <3>1, <3>2, BusyStep
    <3>4. conn' \in [Conn -> ConnRec] BY <1>1, <3>1, CloseType DEF Records
    <3> QED BY <1>1, <1>e, <3>1, <3>3, <3>4, TypeParts DEF Records, Tables, TypeInv
  <2> QED BY <2>1, <2>2
<1> QED BY <1>2, <1>3, <1>4, <1>5

\* The session reads a response of a storage.
LEMMA ResponseTypes ==
    ASSUME TypeInv, NEW c \in Client,
           BeginRes(c) \/ DataRes(c) \/ (\E n \in Host : PrepareRes(c, n) \/ PrepareClean(c, n))
             \/ ReadCut(c)
    PROVE  TypeInv'
<1>1. Records /\ Tables BY TypeParts DEF TypeInv
<1>a. logic[c] \in LogicRec /\ client[c] \in ClientRec BY <1>1 DEF Records
<1>b. [client EXCEPT ![c].waits = FALSE] \in [Client -> ClientRec]
  <2>1. [client[c] EXCEPT !.waits = FALSE] \in ClientRec BY <1>a DEF ClientRec
  <2> QED BY <1>1, <2>1 DEF Records
<1>c. ASSUME NEW i \in Conn PROVE [conn EXCEPT ![i].res = None] \in [Conn -> ConnRec]
  <2>1. [conn[i] EXCEPT !.res = None] \in ConnRec BY <1>1 DEF Records, ConnRec
  <2> QED BY <1>1, <2>1 DEF Records
<1>d. \A n \in Host : logic[c].fd[n] # 0 => logic[c].fd[n] \in Conn
  BY <1>a, SizeAssumption DEF LogicRec, Conn
<1>2. CASE BeginRes(c)
  <2> DEFINE n == logic[c].host
             i == logic[c].fd[n]
             s == [logic[c] EXCEPT !.pc = "data", !.stat = @ \cup {n}]
  <2>1. CASE EndSession(c) BY <2>1, EndTypes
  <2>2. CASE ~EndSession(c)
    <3>1. /\ logic' = [logic EXCEPT ![c] = s]
          /\ conn' = SendMsg([conn EXCEPT ![i].res = None], i, Message("data", Ts(c)))
          /\ UNCHANGED <<client, rec, done, list, told, up, clock, budget>>
      BY <1>2, <2>2 DEF BeginRes, Ts
    <3>2. Ts(c) # 0 BY <1>2 DEF BeginRes, Busy, TypeInv
    <3>3. s \in LogicRec /\ s.begin_ts = Ts(c) BY <1>a DEF LogicRec, Ts
    <3>4. logic' \in [Client -> LogicRec] /\ \A d \in Client : Busy(logic'[d]) => Ts(d)' # 0
      <4> HIDE DEF s
      <4> QED BY <3>1, <3>2, <3>3, BusyStep
    <3>5. conn' \in [Conn -> ConnRec]
      <4>1. Ts(c) \in TS BY <1>a, <3>2, BoundAssumption DEF LogicRec, TS, Ts
      <4>2. Message("data", Ts(c)) \in RpcReq BY <4>1, MessageType
      <4>3. CASE i \in Conn BY <1>c, <3>1, <4>2, <4>3, SendType
      <4>4. CASE i \notin Conn
        <5>1. conn' = conn BY <1>1, <3>1, <4>4 DEF Records, SendMsg
        <5> QED BY <1>1, <5>1 DEF Records
      <4> QED BY <4>3, <4>4
    <3> QED BY <1>1, <3>1, <3>4, <3>5, TypeParts DEF Records, Tables, TypeInv
  <2> QED BY <2>1, <2>2
<1>3. CASE DataRes(c)
  <2> DEFINE n == logic[c].host
             i == logic[c].fd[n]
             s == [logic[c] EXCEPT !.pc = "idle", !.host = 0]
  <2>1. CASE EndSession(c) BY <2>1, EndTypes
  <2>2. CASE ~EndSession(c)
    <3>1. PICK ok \in BOOLEAN :
             /\ logic' = [logic EXCEPT ![c] = s]
             /\ Answer(c, IF ok THEN {<<Ts(c), n>>} ELSE {})
             /\ UNCHANGED <<rec, done, list, up, clock, budget>>
             /\ conn' = [conn EXCEPT ![i].res = None] \/ UNCHANGED conn
      BY <1>3, <2>2 DEF DataRes, Ts
    <3>2. Ts(c) # 0 BY <1>3 DEF DataRes, Busy, TypeInv
    <3>3. s \in LogicRec /\ ~Busy(s) BY <1>a, Zero DEF LogicRec, Busy
    <3>4. logic' \in [Client -> LogicRec] /\ \A d \in Client : Busy(logic'[d]) => Ts(d)' # 0
      <4> HIDE DEF s
      <4> QED BY <3>1, <3>3, BusyStep
    <3>5. conn' \in [Conn -> ConnRec]
      <4>1. CASE i \in Conn BY <1>1, <1>c, <3>1, <4>1 DEF Records
      <4>2. CASE i \notin Conn BY <1>1, <3>1, <4>2 DEF Records
      <4> QED BY <4>1, <4>2
    <3>6. told' \in [Client -> SUBSET ((TS \X Host) \cup {<<t>> : t \in TS})]
      <4>1. <<Ts(c), n>> \in TS \X Host BY <1>a, <3>2, BoundAssumption DEF LogicRec, TS, Ts
      <4> QED BY <1>1, <3>1, <4>1 DEF Tables, Answer
    <3>7. client' \in [Client -> ClientRec] BY <1>b, <3>1 DEF Answer
    <3> QED BY <1>1, <3>1, <3>4, <3>5, <3>6, <3>7, TypeParts DEF Records, Tables, TypeInv
  <2> QED BY <2>1, <2>2
<1>4. ASSUME NEW n \in Host, PrepareRes(c, n) PROVE TypeInv'
  <2> DEFINE i == logic[c].fd[n]
             last == logic[c].stat = {n}
             s == [logic[c] EXCEPT !.stat = @ \ {n}, !.pc = IF last THEN "idle" ELSE @,
                                   !.begin_ts = IF last THEN 0 ELSE @]
  <2>1. CASE EndSession(c) BY <2>1, EndTypes
  <2>2. CASE ~EndSession(c)
    <3>1. /\ logic' = [logic EXCEPT ![c] = s]
          /\ IF last THEN Answer(c, {<<Ts(c)>>}) ELSE UNCHANGED <<client, told>>
          /\ UNCHANGED <<rec, done, list, up, clock, budget>>
          /\ conn' = [conn EXCEPT ![i].res = None]
      BY <1>4, <2>2 DEF PrepareRes, Prepared, Ts
    <3>2. Ts(c) # 0 BY <1>4 DEF PrepareRes, Busy, TypeInv
    <3>3. s \in LogicRec BY <1>a, Zero DEF LogicRec
    <3>4. s.pc = (IF last THEN "idle" ELSE logic[c].pc) /\ (~last => s.begin_ts = Ts(c))
      BY <1>a DEF LogicRec, Ts
    <3>5. logic' \in [Client -> LogicRec] /\ \A d \in Client : Busy(logic'[d]) => Ts(d)' # 0
      <4>1. Busy(s) => s.begin_ts # 0 BY <3>2, <3>4 DEF Busy
      <4> HIDE DEF s
      <4> QED BY <4>1, <3>1, <3>3, BusyStep
    <3>6. conn' \in [Conn -> ConnRec]
      <4>1. CASE i \in Conn BY <1>c, <3>1, <4>1
      <4>2. CASE i \notin Conn BY <1>1, <3>1, <4>2 DEF Records
      <4> QED BY <4>1, <4>2
    <3>7. told' \in [Client -> SUBSET ((TS \X Host) \cup {<<t>> : t \in TS})]
      <4>1. <<Ts(c)>> \in {<<t>> : t \in TS}
        BY <1>a, <3>2, BoundAssumption DEF LogicRec, TS, Ts
      <4> QED BY <1>1, <3>1, <4>1 DEF Tables, Answer
    <3>8. client' \in [Client -> ClientRec] BY <1>1, <1>b, <3>1 DEF Answer, Records
    <3> QED BY <1>1, <3>1, <3>5, <3>6, <3>7, <3>8, TypeParts DEF Records, Tables, TypeInv
  <2> QED BY <2>1, <2>2
<1>5. ASSUME NEW n \in Host, PrepareClean(c, n) PROVE TypeInv'
  <2> DEFINE s == Clean(logic[c], {n})
  <2>1. /\ logic' = [logic EXCEPT ![c] = s]
        /\ conn' = Close(conn, {logic[c].fd[n]})
        /\ UNCHANGED <<client, rec, done, list, told, up, clock, budget>>
    BY <1>5 DEF PrepareClean
  <2>2. s \in LogicRec /\ s.begin_ts = Ts(c) BY <1>a, Zero DEF Clean, LogicRec, Ts
  <2>3. conn' \in [Conn -> ConnRec] BY <1>1, <2>1, CloseType DEF Records
  <2>4. Ts(c) # 0 BY <1>5 DEF PrepareClean, Busy, TypeInv
  <2>5. logic' \in [Client -> LogicRec] /\ \A d \in Client : Busy(logic'[d]) => Ts(d)' # 0
    <3> HIDE DEF s
    <3> QED BY <2>1, <2>2, <2>4, BusyStep
  <2> QED BY <1>1, <2>1, <2>3, <2>5, TypeParts DEF Records, Tables, TypeInv
<1>6. CASE ReadCut(c) BY <1>6, DiesTypes DEF ReadCut
<1> QED BY <1>2, <1>3, <1>4, <1>5, <1>6

\* The storage session serves, refuses or ends.
LEMMA StorageTypes ==
    ASSUME TypeInv, NEW i \in Conn, StorageStep(i) \/ LinkBreaks(i) PROVE TypeInv'
<1>1. Records /\ Tables BY TypeParts DEF TypeInv
<1>a. conn[i] \in ConnRec /\ conn[i].host \in Host BY <1>1 DEF Records, ConnRec
<1>b. UNCHANGED <<client, logic>>
  BY DEF StorageStep, ServeBegin, ServeData, ServePrepare, SessionEnd, ServeCut, LinkBreaks
<1>c. ASSUME NEW S PROVE Drop(S) \in [Conn -> ConnRec] BY DropType DEF TypeInv
<1>d. ASSUME NEW r \in [TS -> {"none", "Begin", "Prepared", "Rollback"}], NEW S
      PROVE  startCleanTrans(r, S) \in [TS -> {"none", "Begin", "Prepared", "Rollback"}]
  BY DEF startCleanTrans
<1>2. CASE ServeBegin(i)
  <2> DEFINE n == conn[i].host
             ts == conn[i].req.begin_ts
             new == conn[i].begin_ts = 0
             added == new /\ rec[n][ts] = "none"
             cn == Respond(conn, i, IF added THEN 0 ELSE 1)
  <2>1. ts \in TS
    <3>1. conn[i].req \in RpcReq \cup {None} /\ conn[i].req.type = "begin"
      BY <1>a, <1>2 DEF ServeBegin, Serves, ConnRec
    <3> QED BY <3>1, RpcTypes
  <2>2. ts \in 0 .. MaxTS BY <2>1, BoundAssumption DEF TS
  <2>3. cn \in [Conn -> ConnRec]
    <3>1. (IF added THEN 0 ELSE 1) \in {0, 1} OBVIOUS
    <3> QED BY <1>1, <3>1, RespondType DEF Records
  <2>4. conn' = [cn EXCEPT ![i].begin_ts = IF new THEN ts ELSE @] BY <1>2 DEF ServeBegin
  <2>5. conn' \in [Conn -> ConnRec]
    <3> HIDE DEF cn
    <3>1. [cn[i] EXCEPT !.begin_ts = IF new THEN ts ELSE @] \in ConnRec BY <2>2, <2>3 DEF ConnRec
    <3> QED BY <2>3, <2>4, <3>1
  <2>6. rec' \in [Host -> [TS -> {"none", "Begin", "Prepared", "Rollback"}]]
    BY <1>1, <1>2, <1>a DEF ServeBegin, Tables
  <2> QED BY <1>1, <1>2, <2>5, <2>6, TypeParts DEF ServeBegin, Records, Tables, TypeInv, Ts
<1>3. CASE ServeData(i)
  <2> DEFINE ts == conn[i].begin_ts
             r == IF ts # 0 THEN 0 ELSE 1
  <2>1. r \in {0, 1} OBVIOUS
  <2>2. conn' = Respond(conn, i, r) BY <1>3 DEF ServeData
  <2>3. conn' \in [Conn -> ConnRec] BY <1>1, <2>1, <2>2, RespondType DEF Records
  <2>4. {ts} \ {0} \subseteq TS BY <1>a, BoundAssumption DEF ConnRec, TS
  <2>5. done' \in [Host -> SUBSET TS] BY <1>1, <1>3, <1>a, <2>4 DEF ServeData, Tables
  <2> QED BY <1>1, <1>3, <2>3, <2>5, TypeParts DEF ServeData, Records, Tables, TypeInv, Ts
<1>4. CASE ServePrepare(i)
  <2> DEFINE n == conn[i].host
             ts == conn[i].begin_ts
             ok == ts = conn[i].req.begin_ts /\ rec[n][ts] = "Begin"
             cn == Respond(conn, i, IF ok THEN 0 ELSE 1)
  <2>1. cn \in [Conn -> ConnRec]
    <3>1. (IF ok THEN 0 ELSE 1) \in {0, 1} OBVIOUS
    <3> QED BY <1>1, <3>1, RespondType DEF Records
  <2>2. conn' = [cn EXCEPT ![i].begin_ts = IF ok THEN 0 ELSE @] BY <1>4 DEF ServePrepare
  <2>3. conn' \in [Conn -> ConnRec]
    <3> HIDE DEF cn
    <3>1. [cn[i] EXCEPT !.begin_ts = IF ok THEN 0 ELSE @] \in ConnRec BY <2>1, Zero DEF ConnRec
    <3> QED BY <2>1, <2>2, <3>1
  <2>4. rec' \in [Host -> [TS -> {"none", "Begin", "Prepared", "Rollback"}]]
    BY <1>1, <1>4, <1>a DEF ServePrepare, Tables
  <2> QED BY <1>1, <1>4, <2>3, <2>4, TypeParts DEF ServePrepare, Records, Tables, TypeInv, Ts
<1>5. CASE SessionEnd(i)
  <2>1. conn' \in [Conn -> ConnRec] BY <1>5, <1>c DEF SessionEnd
  <2>2. rec' \in [Host -> [TS -> {"none", "Begin", "Prepared", "Rollback"}]]
    BY <1>1, <1>5, <1>a, <1>d DEF SessionEnd, Tables
  <2> QED BY <1>1, <1>5, <2>1, <2>2, TypeParts DEF SessionEnd, Records, Tables, TypeInv, Ts
<1>6. CASE ServeCut(i)
  <2>1. conn' \in [Conn -> ConnRec] BY <1>6, <1>c DEF ServeCut, Die
  <2>2. up' \in [Host -> BOOLEAN] BY <1>1, <1>6 DEF ServeCut, Die, Tables
  <2> QED BY <1>1, <1>6, <2>1, <2>2, TypeParts DEF ServeCut, Die, Records, Tables, TypeInv, Ts
<1>7. CASE LinkBreaks(i)
  <2>1. [conn[i] EXCEPT !.link = "broken"] \in ConnRec BY <1>a DEF ConnRec
  <2>2. conn' \in [Conn -> ConnRec] BY <1>1, <1>7, <2>1 DEF LinkBreaks, Records
  <2>3. budget' \in 0 .. MaxFault BY <1>1, <1>7, BoundAssumption DEF LinkBreaks, Fault, Tables
  <2> QED BY <1>1, <1>7, <2>2, <2>3, TypeParts DEF LinkBreaks, Records, Tables, TypeInv, Ts
<1> QED BY <1>2, <1>3, <1>4, <1>5, <1>6, <1>7 DEF StorageStep

\* Crashes, restarts and cut messages.
LEMMA FaultTypes ==
    ASSUME TypeInv, (\E n \in Host : Crash(n) \/ startUpClean(n)) \/ CutMessage PROVE TypeInv'
<1>1. Records /\ Tables BY TypeParts DEF TypeInv
<1>2. ASSUME NEW n \in Host, Crash(n) PROVE TypeInv'
  <2>1. conn' \in [Conn -> ConnRec] BY <1>2, DropType DEF Crash, Die, TypeInv
  <2>2. up' \in [Host -> BOOLEAN] BY <1>1, <1>2 DEF Crash, Die, Tables
  <2>3. budget' \in 0 .. MaxFault BY <1>1, <1>2, BoundAssumption DEF Crash, Fault, Tables
  <2> QED BY <1>1, <1>2, <2>1, <2>2, <2>3, TypeParts DEF Crash, Records, Tables, TypeInv, Ts
<1>3. ASSUME NEW n \in Host, startUpClean(n) PROVE TypeInv'
  <2>1. up' \in [Host -> BOOLEAN] BY <1>1, <1>3 DEF startUpClean, Tables
  <2>2. rec' \in [Host -> [TS -> {"none", "Begin", "Prepared", "Rollback"}]]
    BY <1>1, <1>3 DEF startUpClean, startCleanTrans, Tables
  <2> QED BY <1>1, <1>3, <2>1, <2>2, TypeParts DEF startUpClean, Records, Tables, TypeInv, Ts
<1>4. CASE CutMessage
  <2>1. client' \in [Client -> ClientRec]
    <3>1. ASSUME NEW c \in Client, client[c].req # None,
                 client' = [client EXCEPT ![c].req.cut = TRUE]
          PROVE  client' \in [Client -> ClientRec]
      <4>1. client[c].req \in Requests BY <1>1, <3>1 DEF Records, ClientRec
      <4>2. [client[c].req EXCEPT !.cut = TRUE] \in Requests BY <4>1 DEF Requests
      <4>3. [client[c] EXCEPT !.req = [client[c].req EXCEPT !.cut = TRUE]] \in ClientRec
        BY <1>1, <4>2 DEF Records, ClientRec
      <4> QED BY <1>1, <3>1, <4>3 DEF Records
    <3> QED BY <1>1, <1>4, <3>1 DEF CutMessage, Records
  <2>2. conn' \in [Conn -> ConnRec]
    <3>1. ASSUME NEW i \in Conn, conn[i].req # None, conn' = [conn EXCEPT ![i].req.cut = TRUE]
          PROVE  conn' \in [Conn -> ConnRec]
      <4>1. conn[i].req \in RpcReq BY <1>1, <3>1 DEF Records, ConnRec
      <4>2. [conn[i].req EXCEPT !.cut = TRUE] \in RpcReq BY <4>1 DEF RpcReq
      <4>3. [conn[i] EXCEPT !.req = [conn[i].req EXCEPT !.cut = TRUE]] \in ConnRec
        BY <1>1, <4>2 DEF Records, ConnRec
      <4> QED BY <1>1, <3>1, <4>3 DEF Records
    <3>2. ASSUME NEW i \in Conn, conn[i].res # None, conn' = [conn EXCEPT ![i].res.cut = TRUE]
          PROVE  conn' \in [Conn -> ConnRec]
      <4>1. conn[i].res \in RpcRes BY <1>1, <3>2 DEF Records, ConnRec
      <4>2. [conn[i].res EXCEPT !.cut = TRUE] \in RpcRes BY <4>1 DEF RpcRes
      <4>3. [conn[i] EXCEPT !.res = [conn[i].res EXCEPT !.cut = TRUE]] \in ConnRec
        BY <1>1, <4>2 DEF Records, ConnRec
      <4> QED BY <1>1, <3>2, <4>3 DEF Records
    <3> QED BY <1>1, <1>4, <3>1, <3>2 DEF CutMessage, Records
  <2>3. budget' \in 0 .. MaxFault BY <1>1, <1>4, BoundAssumption DEF CutMessage, Fault, Tables
  <2> QED BY <1>1, <1>4, <2>1, <2>2, <2>3, TypeParts DEF CutMessage, Records, Tables, TypeInv, Ts
<1> QED BY <1>2, <1>3, <1>4

-----------------------------------------------------------------------------
\* No handler of logicServ or storageServ sends or stores a request without a
\* begin_ts, whatever the faults.
THEOREM TypeInvariant == Spec => []TypeInv
<1>1. Init => TypeInv
  <2> SUFFICES ASSUME Init PROVE TypeInv OBVIOUS
  <2>1. Records BY RecordTypes DEF Init, Records
  <2>2. Tables BY BoundAssumption DEF Init, Tables
  <2>3. \A c \in Client : ~Busy(logic[c]) BY DEF Init, NoSession, Busy
  <2> QED BY <2>1, <2>2, <2>3, TypeParts DEF TypeInv
<1>2. TypeInv /\ [Next]_vars => TypeInv'
  <2> SUFFICES ASSUME TypeInv, [Next]_vars PROVE TypeInv' OBVIOUS
  <2>1. CASE UNCHANGED vars BY <2>1 DEF vars, TypeInv, TypeOK, Ts
  <2>2. ASSUME NEW c \in Client, Connect(c) \/ Send(c) \/ Leave(c) \/ LogicStep(c) PROVE TypeInv'
    BY <2>2, ClientTypes, RequestTypes, ResponseTypes DEF LogicStep
  <2>3. ASSUME NEW i \in Conn, StorageStep(i) \/ LinkBreaks(i) PROVE TypeInv'
    BY <2>3, StorageTypes
  <2>4. ASSUME NEW n \in Host, Crash(n) \/ startUpClean(n) PROVE TypeInv' BY <2>4, FaultTypes
  <2>5. CASE CutMessage BY <2>5, FaultTypes
  <2> QED BY <2>1, <2>2, <2>3, <2>4, <2>5 DEF Next
<1> QED BY <1>1, <1>2, PTL DEF Spec

\* Type correctness: every variable stays in its set, and nothing is told
\* about a transaction without a begin_ts.
THEOREM SessionsTypeCorrect == Spec => []TypeOK
BY TypeInvariant, PTL DEF TypeInv
=============================================================================
