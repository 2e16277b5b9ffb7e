--------------------------- MODULE SessionsProofs ---------------------------
(***************************************************************************)
(* The two ends of every connection agree, for any number of clients,      *)
(* storages, connections and faults, as long as no two open sessions share *)
(* a begin_ts (SharedTick = FALSE; the run SharedBeginTs shows what goes   *)
(* wrong when they do).                                                    *)
(*                                                                         *)
(* The properties of Sessions are about links that work.  They are not     *)
(* inductive: the session may be answered on a link that broke since, and  *)
(* a storage session that nobody waits for any more may still serve what   *)
(* it has read.  The invariant therefore describes every connection a      *)
(* session holds, open or broken (Ends), the connections nobody holds      *)
(* (Wired, Marked), and what the answers already given rest on (Facts).    *)
(***************************************************************************)
EXTENDS SessionTypeProofs

\* Nothing is under way on a connection.
Quiet(g) == g.req = None /\ g.res = None

\* Session s of client l has joined storage n over connection g; r is the
\* record of its transaction there, d whether it was served data.
Joined(s, l, n, g, r, d) ==
    /\ r # "none"
    /\ g.alive =>
         \/ /\ g.begin_ts = s.begin_ts /\ r = "Begin"
            /\ s.pc = "prepare" => g.res = None /\ g.req.type \in {"none", "prepare"}
            /\ s.pc # "prepare" => g.req.type \in {"none", "data"}
            /\ g.req # None => g.req.begin_ts = s.begin_ts
         \/ /\ s.pc = "prepare" /\ g.begin_ts = 0 /\ g.req = None /\ r = "Prepared"
            /\ g.link = "open" => g.res # None
    /\ s.pc = "data" /\ g.res # None => d
    /\ s.pc = "prepare" /\ g.res # None => r = "Prepared"
    /\ ~(s.pc = "data" /\ s.host = n) /\ s.pc # "prepare" /\ ~Quiet(g) =>
         ~Busy(s) /\ ~l.here /\ l.req = None

\* It has not joined: the storage session knows no transaction, except that of
\* a Begin under way.
Apart(s, n, g, r) ==
    IF s.pc = "begin" /\ s.host = n
    THEN /\ g.alive =>
              \/ /\ g.begin_ts = 0 /\ g.res = None /\ r = "none"
                 /\ g.req # None => g.req.type = "begin" /\ g.req.begin_ts = s.begin_ts
              \/ g.begin_ts = s.begin_ts /\ g.req = None /\ r = "Begin"
         /\ g.res # None => r # "none"
    ELSE g.begin_ts = 0 /\ Quiet(g)

\* The connection of c to n.
Wire(c, n) == conn[logic[c].fd[n]]

\* The record that n has of the transaction of c.
Record(c, n) == IF Ts(c) = 0 THEN "none" ELSE rec[n][Ts(c)]

\* The session of c and storage n agree.  A record without a participant exists
\* only while c waits for the answer to Begin, or after an answer to Prepare.
Ends(c, n) ==
    /\ logic[c].fd[n] # 0 =>
         /\ Wire(c, n).host = n /\ Wire(c, n).link # "none"
         /\ n \in logic[c].stat =>
              Joined(logic[c], client[c], n, Wire(c, n), Record(c, n), Ts(c) \in done[n])
         /\ n \notin logic[c].stat => Apart(logic[c], n, Wire(c, n), Record(c, n))
    /\ \/ n \in logic[c].stat \/ logic[c].pc = "prepare"
       \/ logic[c].pc = "begin" /\ logic[c].host = n
       \/ Record(c, n) = "none"

\* The locals of a session s of client l fit together; k is the clock.
Shape(s, l, k) ==
    /\ s.pc = "none" => s = NoSession
    /\ Busy(s) \/ s.stat # {} => s.begin_ts # 0
    /\ \A n \in s.stat : s.fd[n] # 0
    /\ s.pc = "begin" => s.host \notin s.stat /\ s.fd[s.host] # 0
    /\ s.pc = "data" => s.host \in s.stat
    /\ Busy(s) => l.req = None
    /\ l.here /\ (l.req # None \/ Busy(s)) => l.waits
    /\ s.begin_ts <= k

\* No connection serves two sessions, or two storages.
Single ==
    \A c, d \in Client, n, m \in Host :
        logic[c].fd[n] # 0 /\ logic[c].fd[n] = logic[d].fd[m] => c = d /\ n = m

\* No two sessions run the same transaction: what SharedTick = FALSE gives.
OneEach == \A c, d \in Client : Ts(c) = Ts(d) /\ Ts(c) # 0 => c = d

\* Some session holds connection i.
Owned(i) == \E c \in Client, n \in Host : logic[c].fd[n] = i

\* A connection by itself: a link is open only between a session and a storage
\* session that live, and what it carries is of a transaction already begun;
\* a connection that nobody holds is gone, or left to its storage session.
Wired(i) ==
    LET g == conn[i]
    IN  /\ g.alive => up[g.host]
        /\ g.link = "open" => g.alive /\ Owned(i)
        /\ ~g.alive => g.begin_ts = 0 /\ g.req = None
        /\ ~Owned(i) => g = NoConn \/ (g.alive /\ g.link = "broken")
        /\ g.res # None => g.req = None
        /\ g.begin_ts <= clock
        /\ g.req # None => g.req.begin_ts <= clock
        /\ g.req.type = "begin" => list[g.req.begin_ts] = {}
        /\ g.req.type = "prepare" => g.host \in list[g.req.begin_ts]

\* i works for the transaction ts.
Works(i, ts) == conn[i].begin_ts = ts \/ (conn[i].req # None /\ conn[i].req.begin_ts = ts)

\* What works for the transaction of a session belongs to that session.
Marked(i) ==
    \A d \in Client : Ts(d) # 0 /\ Works(i, Ts(d)) => \E n \in Host : logic[d].fd[n] = i

\* What a client was told about its open transaction, and where its list
\* stands: empty before Commit, then the participants and those who answered.
Told(c) ==
    Ts(c) # 0 =>
      /\ \A n \in Host : <<Ts(c), n>> \in told[c] =>
           /\ Ts(c) \in done[n]
           /\ n \in logic[c].stat \/ (logic[c].pc = "prepare" /\ n \in list[Ts(c)])
      /\ logic[c].pc # "prepare" => list[Ts(c)] = {}
      /\ logic[c].pc = "prepare" =>
           /\ logic[c].stat \subseteq list[Ts(c)]
           /\ \A n \in list[Ts(c)] \ logic[c].stat : rec[n][Ts(c)] = "Prepared"

\* A timestamp beyond the clock has left no trace, and a transaction that was
\* told to be committed is over.
Past(ts) ==
    /\ ts > clock =>
         /\ list[ts] = {}
         /\ \A n \in Host : rec[n][ts] = "none" /\ ts \notin done[n]
         /\ \A c \in Client : <<ts>> \notin told[c] /\ \A n \in Host : <<ts, n>> \notin told[c]
    /\ \A c \in Client : <<ts>> \in told[c] => \A d \in Client : Ts(d) # ts

\* What holds of the two ends, and what the answers rest on.
Sides ==
    /\ Single /\ OneEach
    /\ \A c \in Client : Shape(logic[c], client[c], clock) /\ \A n \in Host : Ends(c, n)
    /\ \A i \in Conn : Wired(i) /\ Marked(i)

Facts ==
    /\ \A c \in Client : Told(c)
    /\ \A ts \in TS : Past(ts)
    /\ OkMeansPrepared /\ AnswersAreDone

SessionsInv == TypeInv /\ Sides /\ Facts

-----------------------------------------------------------------------------
\* The types, in the form the proofs need them.
LEMMA Known ==
    ASSUME TypeInv
    PROVE  /\ Records /\ Tables
           /\ \A c \in Client :
                /\ logic[c] \in LogicRec /\ client[c] \in ClientRec
                /\ \A n \in Host :
                     /\ logic[c].fd[n] \in 0 .. MaxConn
                     /\ logic[c].fd[n] # 0 => logic[c].fd[n] \in Conn
           /\ \A i \in Conn :
                /\ conn[i] \in ConnRec /\ i # 0
                /\ conn[i].req = None <=> conn[i].req.type = "none"
                /\ conn[i].res = None <=> conn[i].res.type = "none"
<1>1. Records /\ Tables BY TypeParts DEF TypeInv
<1>2. \A c \in Client : logic[c] \in LogicRec /\ client[c] \in ClientRec BY <1>1 DEF Records
<1>3. ASSUME NEW c \in Client, NEW n \in Host
      PROVE  /\ logic[c].fd[n] \in 0 .. MaxConn
             /\ logic[c].fd[n] # 0 => logic[c].fd[n] \in Conn
  BY <1>2, SizeAssumption DEF LogicRec, Conn
<1>4. ASSUME NEW i \in Conn
      PROVE  /\ conn[i] \in ConnRec /\ i # 0
             /\ conn[i].req = None <=> conn[i].req.type = "none"
             /\ conn[i].res = None <=> conn[i].res.type = "none"
  <2>1. conn[i] \in ConnRec BY <1>1 DEF Records
  <2>2. conn[i].req \in RpcReq \cup {None} /\ conn[i].res \in RpcRes \cup {None} BY <2>1 DEF ConnRec
  <2> QED BY <2>1, <2>2, RpcTypes, SizeAssumption DEF Conn
<1> QED BY <1>1, <1>2, <1>3, <1>4

\* What a step has to leave alone for the parts of the invariant to stay.
LEMMA EndsKept ==
    ASSUME TypeInv, NEW c \in Client, NEW n \in Host, Ends(c, n),
           logic'[c] = logic[c], client'[c] = client[c],
           logic[c].fd[n] # 0 => conn'[logic[c].fd[n]] = conn[logic[c].fd[n]],
           Ts(c) # 0 => /\ rec'[n][Ts(c)] = rec[n][Ts(c)]
                        /\ Ts(c) \in done[n] => Ts(c) \in done'[n]
    PROVE  Ends(c, n)'
<1>1. Ts(c)' = Ts(c) /\ Record(c, n)' = Record(c, n) BY DEF Ts, Record
<1>2. logic[c].fd[n] # 0 => Wire(c, n)' = Wire(c, n) BY DEF Wire
<1>3. ASSUME Ts(c) = 0, n \in logic[c].stat PROVE ~(logic[c].pc = "data")
  BY <1>3 DEF TypeInv, Busy
<1>4. ASSUME logic[c].fd[n] # 0, n \in logic[c].stat
      PROVE  Joined(logic[c], client[c], n, Wire(c, n), Record(c, n), Ts(c) \in done'[n])
  BY <1>3, <1>4 DEF Ends, Joined
<1> QED BY <1>1, <1>2, <1>4 DEF Ends

LEMMA FactsKept ==
    ASSUME SessionsInv, UNCHANGED <<told, clock>>,
           \A ts \in TS :
             \/ list'[ts] = list[ts]
             \/ ts <= clock /\ \A c \in Client : Ts(c)' # ts /\ <<ts>> \notin told[c],
           \A n \in Host : done[n] \subseteq done'[n]
             /\ \A ts \in TS : ts > clock /\ ts \in done'[n] => ts \in done[n],
           \A n \in Host, ts \in TS :
             /\ rec[n][ts] = "Prepared" => rec'[n][ts] = "Prepared"
             /\ ts > clock /\ rec[n][ts] = "none" => rec'[n][ts] = "none",
           \A c \in Client : Ts(c)' # 0 =>
             /\ Ts(c)' = Ts(c) /\ logic[c].stat \subseteq logic'[c].stat
             /\ logic'[c].pc = "prepare" <=> logic[c].pc = "prepare"
             /\ logic[c].pc = "prepare" => logic'[c].stat = logic[c].stat
    PROVE  Facts'
<1> USE DEF SessionsInv, Facts
<1>1. Records /\ Tables BY Known
<1>2. ASSUME NEW c \in Client PROVE Told(c)'
  <2> SUFFICES ASSUME Ts(c)' # 0 PROVE Told(c)' BY DEF Told
  <2>1. Told(c) /\ Ts(c)' = Ts(c) /\ logic[c].stat \subseteq logic'[c].stat
    /\ (logic'[c].pc = "prepare" <=> logic[c].pc = "prepare")
    /\ (logic[c].pc = "prepare" => logic'[c].stat = logic[c].stat) OBVIOUS
  <2>2. Ts(c) \in TS BY <2>1, Known, BoundAssumption DEF Ts, TS, LogicRec
  <2>3. \A n \in list[Ts(c)] : n \in Host BY <1>1, <2>2 DEF Tables
  <2>4. list'[Ts(c)] = list[Ts(c)] BY <2>1, <2>2
  <2> QED BY <2>1, <2>2, <2>3, <2>4 DEF Told
<1>3. ASSUME NEW ts \in TS PROVE Past(ts)'
  <2>1. Past(ts) OBVIOUS
  <2>2. \A c \in Client : Ts(c)' = ts => Ts(c) = ts BY DEF TS
  <2>3. ts > clock => list'[ts] = list[ts]
    <3>1. clock \in Nat /\ ts \in Nat BY <1>1 DEF Tables, TS
    <3>2. ts > clock => ~(ts <= clock) BY <3>1
    <3> QED BY <3>2
  <2> QED BY <2>1, <2>2, <2>3 DEF Past
<1>4. OkMeansPrepared'
  BY DEF OkMeansPrepared
<1>5. AnswersAreDone' BY DEF AnswersAreDone
<1> QED BY <1>2, <1>3, <1>4, <1>5

\* Connections that are as they were.
LEMMA WiredKept ==
    ASSUME NEW i \in Conn, Wired(i), conn'[i] = conn[i], UNCHANGED <<list, clock>>,
           conn[i].alive => up'[conn[i].host], Owned(i)' <=> Owned(i)
    PROVE  Wired(i)'
BY DEF Wired

LEMMA OwnedKept ==
    ASSUME \A c \in Client, n \in Host : logic'[c].fd[n] = logic[c].fd[n]
    PROVE  \A i \in Conn : Owned(i)' <=> Owned(i)
BY DEF Owned

LEMMA MarkedKept ==
    ASSUME NEW i \in Conn, Marked(i),
           \A ts : Works(i, ts)' => Works(i, ts),
           \A c \in Client : Ts(c)' # 0 =>
             Ts(c)' = Ts(c) /\ \A n \in Host : logic[c].fd[n] = i => logic'[c].fd[n] = i
    PROVE  Marked(i)'
BY DEF Marked

LEMMA SinglesKept ==
    ASSUME SessionsInv,
           \A c \in Client : Ts(c)' # 0 => Ts(c)' = Ts(c),
           \A c \in Client, n \in Host : logic'[c].fd[n] # 0 => logic'[c].fd[n] = logic[c].fd[n]
    PROVE  Single' /\ OneEach'
BY DEF SessionsInv, Sides, Single, OneEach

\* Steps of the client and of its session that change no more than pc.
LEMMA QuietSteps ==
    ASSUME SessionsInv, NEW c \in Client, Connect(c) \/ Send(c) \/ Leave(c) \/ Refuse(c)
    PROVE  Sides' /\ Facts'
<1> USE DEF SessionsInv, Sides
<1>1. UNCHANGED <<conn, rec, done, list, told, up, clock>>
  BY DEF Connect, Send, Leave, Refuse
<1>2. logic[c] \in LogicRec /\ client[c] \in ClientRec /\ Records /\ Tables BY Known
<1>3. ASSUME NEW d \in Client, d # c
      PROVE  logic'[d] = logic[d] /\ client'[d] = client[d]
  BY <1>2, <1>3 DEF Connect, Send, Leave, Refuse, Records
<1>4. /\ logic'[c].begin_ts = logic[c].begin_ts /\ logic'[c].fd = logic[c].fd
      /\ logic'[c].stat = logic[c].stat /\ logic'[c].host = logic[c].host
      /\ \/ logic'[c] = logic[c]
         \/ logic'[c].pc = "idle" /\ logic[c].pc \in {"none", "reading"}
  <2>1. CASE Connect(c)
    <3>1. logic[c] = NoSession BY <2>1 DEF Connect, Shape
    <3>2. logic'[c] = NewSession BY <1>2, <2>1 DEF Connect, Records
    <3> QED BY <3>1, <3>2 DEF NewSession, NoSession
  <2>2. CASE Send(c) \/ Leave(c) BY <2>2 DEF Send, Leave
  <2>3. CASE Refuse(c)
    <3>1. logic[c].pc = "reading" BY <2>3 DEF Refuse, Received
    <3>2. logic'[c] = [logic[c] EXCEPT !.pc = "idle"] BY <1>2, <2>3 DEF Refuse, Records
    <3> QED BY <1>2, <3>1, <3>2 DEF LogicRec
  <2> QED BY <2>1, <2>2, <2>3
<1>5. /\ client'[c].here /\ ~client[c].here => client'[c].req = None /\ logic[c].pc = "none"
      /\ client'[c].here /\ client'[c].req # None => client'[c].waits
      /\ client'[c].here /\ Busy(logic[c]) => client'[c].waits /\ client[c].here
      /\ Busy(logic[c]) => client'[c].req = None
      /\ ~client[c].here /\ client[c].req = None => client'[c].req = None
  <2> USE DEF Shape, Busy
  <2>1. CASE Connect(c) 
    <3>1. client'[c] = [Gone EXCEPT !.here = TRUE] BY <1>2, <2>1 DEF Connect, Records
    <3> QED BY <2>1, <3>1 DEF Connect, Gone
  <2>2. CASE Send(c)
    <3>1. PICK r \in Requests : client' = [client EXCEPT ![c].req = r, ![c].waits = TRUE]
      BY <2>2 DEF Send
    <3>2. client'[c] = [client[c] EXCEPT !.req = r, !.waits = TRUE] BY <1>2, <3>1 DEF Records
    <3>3. client'[c].waits = TRUE /\ client'[c].here = client[c].here BY <1>2, <3>2 DEF ClientRec
    <3> QED BY <2>2, <3>3 DEF Send
  <2>3. CASE Leave(c)
    <3>1. client'[c] = [client[c] EXCEPT !.here = FALSE, !.waits = FALSE]
      BY <1>2, <2>3 DEF Leave, Records
    <3>2. client'[c].here = FALSE /\ client'[c].req = client[c].req BY <1>2, <3>1 DEF ClientRec
    <3> QED BY <3>2
  <2>4. CASE Refuse(c)
    <3>1. client'[c] = [client[c] EXCEPT !.req = None, !.waits = FALSE]
      BY <1>2, <2>4 DEF Refuse, Records
    <3>2. client'[c].here = client[c].here /\ client'[c].req = None BY <1>2, <3>1 DEF ClientRec
    <3> QED BY <2>4, <3>2 DEF Refuse, Received
  <2> QED BY <2>1, <2>2, <2>3, <2>4
<1>6. \A d \in Client : Ts(d)' = Ts(d) BY <1>3, <1>4 DEF Ts
<1>7. \A d \in Client, n \in Host : logic'[d].fd[n] = logic[d].fd[n] BY <1>3, <1>4
<1>8. Single' /\ OneEach' BY <1>6, <1>7, SinglesKept
<1>9. ASSUME NEW d \in Client PROVE Shape(logic'[d], client'[d], clock')
  <2>1. Shape(logic[d], client[d], clock) OBVIOUS
  <2>2. CASE d # c BY <1>1, <1>3, <2>1, <2>2 DEF Shape
  <2>3. CASE d = c
    <3> QED BY <1>1, <1>4, <1>5, <2>1, <2>3 DEF Shape, Busy
  <2> QED BY <2>2, <2>3
<1>10. ASSUME NEW d \in Client, NEW n \in Host PROVE Ends(d, n)'
  <2>1. Ends(d, n) OBVIOUS
  <2>2. CASE d # c BY <1>1, <1>3, <2>1, <2>2, EndsKept
  <2>3. CASE d = c
    <3>1. Record(c, n)' = Record(c, n) BY <1>1, <1>4 DEF Record, Ts
    <3>2. logic[c].fd[n] # 0 => Wire(c, n)' = Wire(c, n) BY <1>1, <1>4 DEF Wire
    <3>3. ASSUME logic[c].fd[n] # 0, n \in logic[c].stat,
                 Joined(logic[c], client[c], n, Wire(c, n), Record(c, n), Ts(c) \in done[n])
          PROVE  Joined(logic'[c], client'[c], n, Wire(c, n), Record(c, n), Ts(c) \in done[n])
      <4>1. logic[c].pc # "none" BY <3>3 DEF Shape, NoSession
      <4> QED BY <1>2, <1>4, <1>5, <3>3, <4>1 DEF Joined, Busy, ClientRec
    <3>4. ASSUME Apart(logic[c], n, Wire(c, n), Record(c, n))
          PROVE  Apart(logic'[c], n, Wire(c, n), Record(c, n))
      BY <1>4, <3>4 DEF Apart
    <3> QED BY <1>1, <1>4, <1>6, <2>1, <2>3, <3>1, <3>2, <3>3, <3>4 DEF Ends
  <2> QED BY <2>2, <2>3
<1>11. ASSUME NEW i \in Conn PROVE Wired(i)' /\ Marked(i)'
  <2>1. Owned(i)' <=> Owned(i) BY <1>7, OwnedKept
  <2>2. Wired(i)' BY <1>1, <2>1, WiredKept DEF Wired
  <2>3. \A ts : Works(i, ts)' => Works(i, ts) BY <1>1 DEF Works
  <2>4. Marked(i)' BY <1>6, <1>7, <2>3, MarkedKept
  <2> QED BY <2>2, <2>4
<1>12. Facts'
  <2>1. \A d \in Client : /\ Ts(d)' = Ts(d) /\ logic'[d].stat = logic[d].stat
                          /\ logic'[d].pc = "prepare" <=> logic[d].pc = "prepare"
    BY <1>3, <1>4, <1>6
  <2> QED BY <1>1, <2>1, FactsKept
<1> QED BY <1>8, <1>9, <1>10, <1>11, <1>12

\* Storage sessions and connections that are lost, and open transactions of
\* lost connections that are rolled back.
LEMMA Loss ==
    ASSUME SessionsInv, NEW S \in SUBSET Conn,
           UNCHANGED <<client, logic, done, list, told, clock>>,
           conn' = Drop(S),
           \A i \in Conn \ S : conn[i].alive => up'[conn[i].host],
           \A n \in Host, ts \in TS :
             \/ rec'[n][ts] = rec[n][ts]
             \/ /\ rec[n][ts] = "Begin" /\ rec'[n][ts] = "Rollback"
                /\ \A c \in Client : Ts(c) = ts /\ logic[c].fd[n] # 0 =>
                     logic[c].fd[n] \in S \/ ~conn[logic[c].fd[n]].alive
    PROVE  Sides' /\ Facts'
<1> USE DEF SessionsInv, Sides
<1>1. Records /\ Tables BY Known
<1>2. ASSUME NEW i \in Conn
      PROVE  conn'[i] = IF i \notin S THEN conn[i]
                        ELSE IF Owned(i)
                        THEN [conn[i] EXCEPT !.link = "broken", !.req = None, !.begin_ts = 0, !.alive = FALSE]
                        ELSE NoConn
  <2>1. i # 0 BY Known
  <2>2. (\E c \in Client : i \in Fds(c)) <=> Owned(i) BY <2>1 DEF Owned, Fds
  <2> QED BY <2>2 DEF Drop
<1>3. ASSUME NEW i \in S, Owned(i)
      PROVE  /\ conn'[i].host = conn[i].host /\ conn'[i].res = conn[i].res
             /\ conn'[i].link = "broken" /\ conn'[i].req = None
             /\ conn'[i].begin_ts = 0 /\ conn'[i].alive = FALSE
  <2>1. conn[i] \in ConnRec BY <1>1 DEF Records
  <2> DEFINE g == [conn[i] EXCEPT !.link = "broken", !.req = None, !.begin_ts = 0, !.alive = FALSE]
  <2>2. conn'[i] = g BY <1>2, <1>3
  <2>3. /\ g.host = conn[i].host /\ g.res = conn[i].res /\ g.link = "broken" /\ g.req = None
        /\ g.begin_ts = 0 /\ g.alive = FALSE
    BY <2>1 DEF ConnRec
  <2> QED BY <2>2, <2>3
<1>4. Single' /\ OneEach' BY SinglesKept DEF Ts
<1>5. \A c \in Client : Shape(logic'[c], client'[c], clock') OBVIOUS
<1>6. ASSUME NEW c \in Client, NEW n \in Host PROVE Ends(c, n)'
  <2> DEFINE i == logic[c].fd[n]
             r == Record(c, n)
             q == Record(c, n)'
  <2>1. Ends(c, n) /\ Ts(c)' = Ts(c) BY DEF Ts
  <2>2. Ts(c) # 0 => Ts(c) \in TS BY Known, BoundAssumption DEF Ts, LogicRec, TS
  <2>3. \/ q = r
        \/ r = "Begin" /\ q = "Rollback" /\ (i # 0 => i \in S \/ ~conn[i].alive)
    BY <2>1, <2>2 DEF Record
  <2>4. i # 0 => i \in Conn /\ Owned(i) BY Known DEF Owned
  <2>5. i # 0 => /\ Wire(c, n)' = conn'[i] /\ Wire(c, n) = conn[i] BY DEF Wire
  <2>6. ASSUME i # 0
        PROVE  /\ conn'[i].host = conn[i].host /\ conn'[i].res = conn[i].res
               /\ conn'[i].link # "none" <=> conn[i].link # "none"
               /\ \/ conn'[i] = conn[i]
                  \/ conn'[i].req = None /\ conn'[i].begin_ts = 0 /\ ~conn'[i].alive
               /\ conn'[i].alive => q = r
    <3>1. CASE i \in S BY <1>3, <2>1, <2>4, <2>5, <2>6, <3>1 DEF Ends
    <3>2. CASE i \notin S BY <1>2, <2>3, <2>4, <2>6, <3>2
    <3> QED BY <3>1, <3>2
  <2>7. ASSUME i # 0, n \in logic[c].stat,
               Joined(logic[c], client[c], n, conn[i], r, Ts(c) \in done[n])
        PROVE  Joined(logic[c], client[c], n, conn'[i], q, Ts(c) \in done[n])
    <3> HIDE DEF r, q, i
    <3> QED BY <2>3, <2>6, <2>7 DEF Joined, Quiet
  <2>8. ASSUME i # 0, Apart(logic[c], n, conn[i], r) PROVE Apart(logic[c], n, conn'[i], q)
    <3> HIDE DEF r, q, i
    <3> QED BY <2>3, <2>6, <2>8 DEF Apart, Quiet
  <2>9. r = "none" => q = "none" BY <2>3
  <2> QED BY <2>1, <2>5, <2>6, <2>7, <2>8, <2>9 DEF Ends
<1>7. ASSUME NEW i \in Conn PROVE Wired(i)' /\ Marked(i)'
  <2>1. Owned(i)' <=> Owned(i) BY OwnedKept
  <2>2. CASE i \notin S
    <3>1. conn'[i] = conn[i] BY <1>2, <2>2
    <3>2. Wired(i)' BY <2>1, <2>2, <3>1, WiredKept
    <3>3. \A ts : Works(i, ts)' => Works(i, ts) BY <3>1 DEF Works
    <3>4. Marked(i)' BY <3>3, MarkedKept DEF Ts
    <3> QED BY <3>2, <3>4
  <2>3. CASE i \in S /\ Owned(i)
    <3>1. 0 <= clock BY <1>1 DEF Tables
    <3>2. None.type = "none" BY DEF None
    <3>3. Wired(i)'
      <4>1. /\ conn'[i].link = "broken" /\ conn'[i].req = None
            /\ conn'[i].begin_ts = 0 /\ conn'[i].alive = FALSE
        BY <1>3, <2>3
      <4>2. Owned(i)' /\ 0 <= clock' BY <2>1, <2>3, <3>1
      <4> QED BY <3>2, <4>1, <4>2 DEF Wired
    <3>4. Marked(i)' BY <1>3, <2>3 DEF Marked, Works, Ts
    <3> QED BY <3>3, <3>4
  <2>4. CASE i \in S /\ ~Owned(i)
    <3>1. conn'[i] = NoConn BY <1>2, <2>4
    <3>2. Wired(i)' BY <1>1, <2>1, <2>4, <3>1 DEF Wired, NoConn, None, Tables
    <3>3. Marked(i)' BY <3>1 DEF Marked, Works, Ts, NoConn
    <3> QED BY <3>2, <3>3
  <2> QED BY <2>2, <2>3, <2>4
<1>8. Facts'
  <2>1. \A n \in Host, ts \in TS :
             /\ rec[n][ts] = "Prepared" => rec'[n][ts] = "Prepared"
             /\ ts > clock /\ rec[n][ts] = "none" => rec'[n][ts] = "none"
    OBVIOUS
  <2>2. \A n \in Host : done[n] \subseteq done'[n]
             /\ \A ts \in TS : ts > clock /\ ts \in done'[n] => ts \in done[n]
    OBVIOUS
  <2> QED BY <2>1, <2>2, FactsKept DEF Ts
<1> QED BY <1>4, <1>5, <1>6, <1>7, <1>8

\* SessionEnd, ServeCut, Crash and startUpClean are such losses.
LEMMA StorageFails ==
    ASSUME SessionsInv, 
           \/ \E i \in Conn : SessionEnd(i) \/ ServeCut(i)
           \/ \E n \in Host : Crash(n) \/ startUpClean(n)
    PROVE  Sides' /\ Facts'
<1> USE DEF SessionsInv, Sides
<1>1. Records /\ Tables BY Known
<1>2. ASSUME NEW n \in Host, Die(n), UNCHANGED <<client, logic, rec, done, list, told, clock>>
      PROVE  Sides' /\ Facts'
  <2> DEFINE S == {i \in Conn : conn[i].alive /\ conn[i].host = n}
  <2>1. ASSUME NEW i \in Conn \ S, conn[i].alive PROVE up'[conn[i].host]
    <3>1. conn[i].host # n /\ up[conn[i].host] BY <2>1 DEF Wired
    <3>2. conn[i].host \in Host BY Known DEF ConnRec
    <3> QED BY <1>1, <1>2, <3>1, <3>2 DEF Die, Tables
  <2>2. conn' = Drop(S) BY <1>2 DEF Die
  <2> HIDE DEF S
  <2>3. S \in SUBSET Conn BY DEF S
  <2> QED BY <1>2, <2>1, <2>2, <2>3, Loss
<1>3. ASSUME NEW i \in Conn, SessionEnd(i) PROVE Sides' /\ Facts'
  <2> DEFINE k == conn[i].host
  <2>1. \A j \in Conn \ {i} : conn[j].alive => up'[conn[j].host]
    BY <1>3 DEF SessionEnd, Wired
  <2>2. k \in Host BY Known DEF ConnRec
  <2>3. rec' = [rec EXCEPT ![k] = startCleanTrans(rec[k], {conn[i].begin_ts})]
    BY <1>3 DEF SessionEnd
  <2>4. ASSUME NEW n \in Host, NEW ts \in TS
        PROVE  \/ rec'[n][ts] = rec[n][ts]
               \/ /\ rec[n][ts] = "Begin" /\ rec'[n][ts] = "Rollback"
                  /\ \A c \in Client : Ts(c) = ts /\ logic[c].fd[n] # 0 =>
                       logic[c].fd[n] \in {i} \/ ~conn[logic[c].fd[n]].alive
    <3>1. CASE n # k BY <1>1, <2>3, <3>1 DEF Tables
    <3>2. CASE n = k
      <4>1. rec'[n][ts] = startCleanTrans(rec[k], {conn[i].begin_ts})[ts]
        BY <1>1, <2>2, <2>3, <3>2 DEF Tables
      <4>2. rec'[n][ts] = IF ts = conn[i].begin_ts /\ rec[n][ts] = "Begin" THEN "Rollback" ELSE rec[n][ts]
        BY <3>2, <4>1 DEF startCleanTrans
      <4>3. ASSUME NEW c \in Client, Ts(c) = ts, ts = conn[i].begin_ts PROVE logic[c].fd[n] = i
        <5>1. Ts(c) # 0 /\ Works(i, Ts(c)) BY <4>3 DEF TS, Works
        <5>2. PICK m \in Host : logic[c].fd[m] = i BY <5>1 DEF Marked
        <5>3. logic[c].fd[m] # 0 BY <5>2, Known
        <5>4. conn[i].host = m BY <5>2, <5>3 DEF Ends, Wire
        <5> QED BY <3>2, <5>2, <5>4
      <4> QED BY <4>2, <4>3
    <3> QED BY <3>1, <3>2
  <2>5. conn' = Drop({i}) /\ UNCHANGED <<client, logic, done, list, told, clock>>
    BY <1>3 DEF SessionEnd
  <2>6. {i} \in SUBSET Conn OBVIOUS
  <2> QED BY <2>1, <2>4, <2>5, <2>6, Loss
<1>4. ASSUME NEW k \in Host, startUpClean(k) PROVE Sides' /\ Facts'
  <2>1. conn' = Drop({}) BY <1>1, <1>4 DEF Drop, startUpClean, Records
  <2>2. \A j \in Conn \ {} : conn[j].alive => up'[conn[j].host]
    <3>1. \A j \in Conn : conn[j].host \in Host BY Known DEF ConnRec
    <3> QED BY <1>1, <1>4, <3>1 DEF startUpClean, Wired, Tables
  <2>3. ASSUME NEW n \in Host, NEW ts \in TS
        PROVE  \/ rec'[n][ts] = rec[n][ts]
               \/ /\ rec[n][ts] = "Begin" /\ rec'[n][ts] = "Rollback"
                  /\ \A c \in Client : Ts(c) = ts /\ logic[c].fd[n] # 0 =>
                       logic[c].fd[n] \in {} \/ ~conn[logic[c].fd[n]].alive
    <3>1. CASE n # k BY <1>1, <1>4, <3>1 DEF startUpClean, Tables
    <3>2. CASE n = k
      <4>1. rec'[n][ts] = startCleanTrans(rec[k], TS)[ts]
        BY <1>1, <1>4, <3>2 DEF startUpClean, Tables
      <4>2. rec'[n][ts] = IF rec[n][ts] = "Begin" THEN "Rollback" ELSE rec[n][ts]
        BY <3>2, <4>1 DEF startCleanTrans
      <4>3. ASSUME NEW c \in Client, logic[c].fd[n] # 0 PROVE ~conn[logic[c].fd[n]].alive
        <5>1. logic[c].fd[n] \in Conn BY <4>3, Known
        <5>2. conn[logic[c].fd[n]].host = k BY <3>2, <4>3 DEF Ends, Wire
        <5> QED BY <1>4, <5>1, <5>2 DEF Wired, startUpClean
      <4> QED BY <4>2, <4>3
    <3> QED BY <3>1, <3>2
  <2>4. UNCHANGED <<client, logic, done, list, told, clock>> BY <1>4 DEF startUpClean
  <2>5. {} \in SUBSET Conn OBVIOUS
  <2> QED BY <2>1, <2>2, <2>3, <2>4, <2>5, Loss
<1>5. ASSUME NEW i \in Conn, ServeCut(i) PROVE Sides' /\ Facts'
  <2>1. conn[i].host \in Host BY Known DEF ConnRec
  <2> QED BY <1>2, <1>5, <2>1 DEF ServeCut
<1> QED BY <1>2, <1>3, <1>4, <1>5 DEF Crash

\* The storage session of connection i serves its request; what that does to
\* the logicServ session at the other end is the last hypothesis.
LEMMA Serving ==
    ASSUME SessionsInv, NEW i \in Conn, conn[i].alive, conn[i].req # None,
           UNCHANGED <<client, logic, list, told, up, clock>>,
           \A j \in Conn \ {i} : conn'[j] = conn[j],
           conn'[i].host = conn[i].host, conn'[i].link = conn[i].link, conn'[i].alive,
           conn'[i].req = None,
           conn[i].link # "open" => conn'[i].res = None,
           conn'[i].begin_ts # 0 => Works(i, conn'[i].begin_ts),
           \A n \in Host, ts \in TS :
             \/ rec'[n][ts] = rec[n][ts]
             \/ n = conn[i].host /\ Works(i, ts) /\ rec[n][ts] # "Prepared",
           \A n \in Host : done[n] \subseteq done'[n]
             /\ \A ts \in TS : ts \in done'[n] => ts \in done[n] \/ ts = conn[i].begin_ts,
           \A c \in Client, n \in Host : logic[c].fd[n] = i =>
             /\ n \in logic[c].stat =>
                  Joined(logic[c], client[c], n, conn'[i], Record(c, n)', Ts(c) \in done'[n])
             /\ n \notin logic[c].stat => Apart(logic[c], n, conn'[i], Record(c, n)')
    PROVE  Sides' /\ Facts'
<1> USE DEF SessionsInv, Sides
<1>1. Records /\ Tables BY Known
<1>2. Single' /\ OneEach' BY SinglesKept DEF Ts
<1>3. \A c \in Client : Shape(logic'[c], client'[c], clock') OBVIOUS
<1>4. ASSUME NEW c \in Client, NEW n \in Host PROVE Ends(c, n)'
  <2>1. Ends(c, n) /\ Ts(c)' = Ts(c) BY DEF Ts
  <2>2. Ts(c) # 0 => Ts(c) \in TS BY Known, BoundAssumption DEF Ts, LogicRec, TS
  <2>3. CASE logic[c].fd[n] = i
    <3>1. i # 0 /\ Wire(c, n)' = conn'[i] /\ Wire(c, n) = conn[i] BY <2>3, Known DEF Wire
    <3>2. n \in logic[c].stat \/ (logic[c].pc = "begin" /\ logic[c].host = n)
      BY <2>1, <2>3, <3>1 DEF Ends, Apart, Quiet
    <3>3. conn'[i].host = n /\ conn'[i].link # "none"
      BY <2>1, <2>3, <3>1 DEF Ends
    <3>4. /\ n \in logic[c].stat =>
               Joined(logic[c], client[c], n, Wire(c, n)', Record(c, n)', Ts(c) \in done'[n])
          /\ n \notin logic[c].stat => Apart(logic[c], n, Wire(c, n)', Record(c, n)')
      BY <2>3, <3>1
    <3> QED BY <2>1, <3>1, <3>2, <3>3, <3>4 DEF Ends
  <2>4. CASE logic[c].fd[n] # i
    <3>1. logic[c].fd[n] # 0 => conn'[logic[c].fd[n]] = conn[logic[c].fd[n]] BY <2>4, Known
    <3>2. ASSUME Ts(c) # 0 PROVE rec'[n][Ts(c)] = rec[n][Ts(c)]
      <4>1. SUFFICES ASSUME n = conn[i].host, Works(i, Ts(c)) PROVE FALSE BY <2>2, <3>2
      <4>2. PICK m \in Host : logic[c].fd[m] = i BY <3>2, <4>1 DEF Marked
      <4>3. conn[i].host = m BY <4>2, Known DEF Ends, Wire
      <4> QED BY <2>4, <4>1, <4>2, <4>3
    <3>3. Ts(c) \in done[n] => Ts(c) \in done'[n] OBVIOUS
    <3> QED BY <2>1, <3>1, <3>2, <3>3, EndsKept
  <2> QED BY <2>3, <2>4
<1>5. ASSUME NEW j \in Conn PROVE Wired(j)' /\ Marked(j)'
  <2>1. Owned(j)' <=> Owned(j) BY OwnedKept
  <2>2. CASE j # i
    <3>1. conn'[j] = conn[j] BY <2>2
    <3>2. conn[j].alive => up'[conn[j].host] BY DEF Wired
    <3>3. Wired(j)' BY <2>1, <3>1, <3>2, WiredKept
    <3>4. \A ts : Works(j, ts)' => Works(j, ts) BY <3>1 DEF Works
    <3>5. Marked(j)' BY <3>4, MarkedKept DEF Ts
    <3> QED BY <3>3, <3>5
  <2>3. CASE j = i
    <3>1. 0 <= clock BY <1>1 DEF Tables
    <3>2. None.type = "none" BY DEF None
    <3>3. Wired(i) OBVIOUS
    <3>4. conn'[i].begin_ts <= clock BY <3>1, <3>3 DEF Wired, Works
    <3>5. ~Owned(i) => conn[i].link = "broken" BY <3>3 DEF Wired, NoConn
    <3>6. Wired(i)' BY <2>1, <2>3, <3>2, <3>3, <3>4, <3>5 DEF Wired
    <3>7. \A ts : Works(i, ts)' => ts = conn'[i].begin_ts BY DEF Works
    <3>8. Marked(i)' BY <3>7 DEF Marked, Ts
    <3> QED BY <2>3, <3>6, <3>8
  <2> QED BY <2>2, <2>3
<1>6. Facts'
  <2>1. Wired(i) OBVIOUS
  <2>2. ASSUME NEW ts \in TS, Works(i, ts) PROVE ~(ts > clock)
    <3>1. ts <= clock BY <2>1, <2>2 DEF Wired, Works
    <3> QED BY <1>1, <3>1 DEF Tables, TS
  <2>3. \A n \in Host, ts \in TS :
             /\ rec[n][ts] = "Prepared" => rec'[n][ts] = "Prepared"
             /\ ts > clock /\ rec[n][ts] = "none" => rec'[n][ts] = "none"
    BY <2>2
  <2>4. \A n \in Host : done[n] \subseteq done'[n]
             /\ \A ts \in TS : ts > clock /\ ts \in done'[n] => ts \in done[n]
    BY <2>2 DEF Works
  <2> QED BY <2>3, <2>4, FactsKept DEF Ts
<1> QED BY <1>2, <1>3, <1>4, <1>5, <1>6

\* The connection after an answer.
LEMMA Answering ==
    ASSUME TypeInv, NEW i \in Conn, NEW ts \in 0 .. MaxTS, NEW r \in {0, 1},
           conn' = [Respond(conn, i, r) EXCEPT ![i].begin_ts = ts]
    PROVE  /\ \A j \in Conn \ {i} : conn'[j] = conn[j]
           /\ conn'[i].host = conn[i].host /\ conn'[i].link = conn[i].link
           /\ conn'[i].alive = conn[i].alive /\ conn'[i].req = None /\ conn'[i].begin_ts = ts
           /\ conn'[i].res = IF conn[i].link = "open" THEN Result(r) ELSE None
           /\ Result(r) # None
<1>1. conn \in [Conn -> ConnRec] BY Known DEF Records
<1> DEFINE cn == Respond(conn, i, r)
<1>2. cn \in [Conn -> ConnRec] BY <1>1, RespondType
<1>3. /\ \A j \in Conn \ {i} : cn[j] = conn[j]
      /\ cn[i].host = conn[i].host /\ cn[i].link = conn[i].link
      /\ cn[i].alive = conn[i].alive /\ cn[i].req = None
      /\ cn[i].res = IF conn[i].link = "open" THEN Result(r) ELSE None
  <2> DEFINE g == [conn[i] EXCEPT !.req = None]
             h == [g EXCEPT !.res = IF conn[i].link = "open" THEN Result(r) ELSE None]
  <2>1. /\ g \in ConnRec /\ g.host = conn[i].host /\ g.link = conn[i].link
        /\ g.alive = conn[i].alive /\ g.req = None
    BY <1>1 DEF ConnRec
  <2> HIDE DEF g
  <2>2. /\ h.host = conn[i].host /\ h.link = conn[i].link
        /\ h.alive = conn[i].alive /\ h.req = None
        /\ h.res = IF conn[i].link = "open" THEN Result(r) ELSE None
    BY <2>1 DEF ConnRec
  <2>3. cn = [conn EXCEPT ![i] = h] BY DEF Respond, g
  <2> QED BY <1>1, <2>2, <2>3
<1> HIDE DEF cn
<1>4. conn'[i] = [cn[i] EXCEPT !.begin_ts = ts] /\ \A j \in Conn \ {i} : conn'[j] = cn[j]
  BY <1>2 DEF cn
<1>5. cn[i] \in ConnRec BY <1>2
<1>6. Result(r) # None BY DEF Result, None
<1> QED BY <1>3, <1>4, <1>5, <1>6 DEF ConnRec

LEMMA RespondTs ==
    ASSUME conn \in [Conn -> ConnRec], NEW i \in Conn, NEW r
    PROVE  Respond(conn, i, r)[i].begin_ts = conn[i].begin_ts
<1> DEFINE g == [conn[i] EXCEPT !.req = None]
           h == [g EXCEPT !.res = IF conn[i].link = "open" THEN Result(r) ELSE None]
<1>1. g \in ConnRec /\ g.begin_ts = conn[i].begin_ts BY DEF ConnRec
<1> HIDE DEF g
<1>2. h.begin_ts = conn[i].begin_ts BY <1>1 DEF ConnRec
<1>3. Respond(conn, i, r) = [conn EXCEPT ![i] = h] BY DEF Respond, g
<1> QED BY <1>2, <1>3

\* The three handlers of the storage session.
LEMMA ServeBeginKeeps ==
    ASSUME SessionsInv, NEW i \in Conn, ServeBegin(i) PROVE Sides' /\ Facts'
<1> USE DEF SessionsInv, Sides
<1> DEFINE k == conn[i].host
           ts == conn[i].req.begin_ts
           added == conn[i].begin_ts = 0 /\ rec[k][ts] = "none"
           t == IF conn[i].begin_ts = 0 THEN ts ELSE conn[i].begin_ts
           r == IF added THEN 0 ELSE 1
<1>1. conn[i] \in ConnRec /\ Records /\ Tables BY Known
<1>2. conn[i].alive /\ conn[i].req.type = "begin" BY DEF ServeBegin, Serves
<1>3. conn[i].req # None BY <1>2, Known
<1>4. ts \in TS
  <2>1. conn[i].req \in RpcReq \cup {None} BY <1>1 DEF ConnRec
  <2> QED BY <1>3, <2>1, RpcTypes
<1>5. k \in Host /\ ts \in 0 .. MaxTS /\ ts # 0 /\ t \in 0 .. MaxTS /\ r \in {0, 1}
  BY <1>1, <1>4, BoundAssumption DEF ConnRec, TS
<1>6. conn' = [Respond(conn, i, r) EXCEPT ![i].begin_ts = t]
  <2> DEFINE cn == Respond(conn, i, r)
  <2>1. conn \in [Conn -> ConnRec] /\ cn \in [Conn -> ConnRec]
    BY <1>1, <1>5, RespondType DEF Records
  <2>2. conn' = [cn EXCEPT ![i].begin_ts = IF conn[i].begin_ts = 0 THEN ts ELSE @] BY DEF ServeBegin
  <2>3. cn[i].begin_ts = conn[i].begin_ts BY <1>1, RespondTs DEF Records
  <2> HIDE DEF cn
  <2> QED BY <2>1, <2>2, <2>3 DEF cn
<1>7. rec' = [rec EXCEPT ![k][ts] = IF added THEN "Begin" ELSE @] BY DEF ServeBegin
<1>8. UNCHANGED <<client, logic, done, list, told, up, clock>> BY DEF ServeBegin
<1> HIDE DEF t, r, added
<1>9. /\ \A j \in Conn \ {i} : conn'[j] = conn[j]
      /\ conn'[i].host = k /\ conn'[i].link = conn[i].link
      /\ conn'[i].alive = conn[i].alive /\ conn'[i].req = None /\ conn'[i].begin_ts = t
      /\ conn'[i].res = IF conn[i].link = "open" THEN Result(r) ELSE None
  BY <1>5, <1>6, Answering
<1>10. t # 0 => Works(i, t) BY <1>3 DEF t, Works
<1>11. ASSUME NEW n \in Host, NEW u \in TS
       PROVE  rec'[n][u] = rec[n][u] \/ (n = k /\ Works(i, u) /\ rec[n][u] # "Prepared")
  BY <1>1, <1>3, <1>4, <1>5, <1>7 DEF Tables, Works, added
<1>12. ASSUME NEW c \in Client, NEW n \in Host, logic[c].fd[n] = i
       PROVE  /\ n \in logic[c].stat =>
                   Joined(logic[c], client[c], n, conn'[i], Record(c, n)', Ts(c) \in done'[n])
              /\ n \notin logic[c].stat => Apart(logic[c], n, conn'[i], Record(c, n)')
  <2>1. i # 0 /\ Wire(c, n) = conn[i] BY <1>12, Known DEF Wire
  <2>2. n \notin logic[c].stat BY <1>2, <1>3, <1>12, <2>1 DEF Ends, Joined
  <2>3. Apart(logic[c], n, conn[i], Record(c, n)) /\ n = k BY <1>12, <2>1, <2>2 DEF Ends
  <2>4. /\ logic[c].pc = "begin" /\ logic[c].host = n
        /\ conn[i].begin_ts = 0 /\ Record(c, n) = "none" /\ ts = Ts(c)
    BY <1>2, <1>3, <2>3 DEF Apart, Quiet, Ts
  <2>5. rec[k][ts] = "none" BY <1>5, <2>3, <2>4 DEF Record
  <2>6. added /\ t = ts BY <2>4, <2>5 DEF added, t
  <2>7. rec'[k][ts] = "Begin" BY <1>1, <1>4, <1>5, <1>7, <2>6 DEF Tables
  <2>8. Record(c, n)' = "Begin" BY <1>5, <1>8, <2>3, <2>4, <2>7 DEF Record, Ts
  <2> QED BY <1>9, <2>2, <2>4, <2>6, <2>8 DEF Apart, Ts
<1>13. conn[i].link # "open" => conn'[i].res = None BY <1>9
<1>14. \A n \in Host : done[n] \subseteq done'[n]
             /\ \A u \in TS : u \in done'[n] => u \in done[n] \/ u = conn[i].begin_ts
  BY <1>8
<1> QED BY <1>2, <1>3, <1>8, <1>9, <1>10, <1>11, <1>12, <1>13, <1>14, Serving

LEMMA ServeDataKeeps ==
    ASSUME SessionsInv, NEW i \in Conn, ServeData(i) PROVE Sides' /\ Facts'
<1> USE DEF SessionsInv, Sides
<1> DEFINE k == conn[i].host
           ts == conn[i].begin_ts
           r == IF ts # 0 THEN 0 ELSE 1
<1>1. conn[i] \in ConnRec /\ Records /\ Tables BY Known
<1>2. conn[i].alive /\ conn[i].req.type = "data" BY DEF ServeData, Serves
<1>3. conn[i].req # None BY <1>2, Known
<1>4. k \in Host /\ ts \in 0 .. MaxTS /\ r \in {0, 1} BY <1>1 DEF ConnRec
<1>5. conn' = [Respond(conn, i, r) EXCEPT ![i].begin_ts = ts]
  <2> DEFINE cn == Respond(conn, i, r)
  <2>1. cn \in [Conn -> ConnRec] BY <1>1, <1>4, RespondType DEF Records
  <2>2. conn' = cn BY DEF ServeData
  <2>3. cn[i].begin_ts = ts BY <1>1, RespondTs DEF Records
  <2> HIDE DEF cn
  <2>4. [cn[i] EXCEPT !.begin_ts = ts] = cn[i] BY <2>1, <2>3 DEF ConnRec
  <2> QED BY <2>1, <2>2, <2>4 DEF cn
<1>6. done' = [done EXCEPT ![k] = @ \cup ({ts} \ {0})] BY DEF ServeData
<1>7. UNCHANGED <<client, logic, rec, list, told, up, clock>> BY DEF ServeData
<1>8. \A n \in Host : done[n] \subseteq done'[n]
             /\ \A u \in TS : u \in done'[n] => u \in done[n] \/ u = ts
  BY <1>1, <1>4, <1>6 DEF Tables
<1>9. ts # 0 => ts \in done'[k] BY <1>1, <1>4, <1>6 DEF Tables
<1> HIDE DEF r
<1>10. /\ \A j \in Conn \ {i} : conn'[j] = conn[j]
       /\ conn'[i].host = k /\ conn'[i].link = conn[i].link
       /\ conn'[i].alive = conn[i].alive /\ conn'[i].req = None /\ conn'[i].begin_ts = ts
       /\ conn'[i].res = IF conn[i].link = "open" THEN Result(r) ELSE None
  BY <1>4, <1>5, Answering
<1>11. ASSUME NEW c \in Client, NEW n \in Host, logic[c].fd[n] = i
       PROVE  /\ n \in logic[c].stat =>
                   Joined(logic[c], client[c], n, conn'[i], Record(c, n)', Ts(c) \in done'[n])
              /\ n \notin logic[c].stat => Apart(logic[c], n, conn'[i], Record(c, n)')
  <2>1. i # 0 /\ Wire(c, n) = conn[i] BY <1>11, Known DEF Wire
  <2>2. n \in logic[c].stat BY <1>2, <1>3, <1>11, <2>1 DEF Ends, Apart, Quiet
  <2>3. Joined(logic[c], client[c], n, conn[i], Record(c, n), Ts(c) \in done[n]) /\ n = k
    BY <1>11, <2>1, <2>2 DEF Ends
  <2>4. ts = Ts(c) /\ Record(c, n) = "Begin" /\ logic[c].pc # "prepare"
    BY <1>2, <1>3, <2>3 DEF Joined, Ts
  <2>5. Ts(c) \in done'[n] BY <1>9, <2>2, <2>3, <2>4 DEF Shape, Ts
  <2>6. Record(c, n)' = Record(c, n) BY <1>7 DEF Record, Ts
  <2>7. ~Quiet(conn[i]) BY <1>3 DEF Quiet
  <2>8. conn'[i].req.type = "none" BY <1>10 DEF None
  <2> QED BY <1>10, <2>2, <2>3, <2>4, <2>5, <2>6, <2>7, <2>8 DEF Joined, Ts
<1>12. conn[i].link # "open" => conn'[i].res = None BY <1>10
<1>13. ts # 0 => Works(i, ts) BY DEF Works
<1> QED BY <1>2, <1>3, <1>7, <1>8, <1>10, <1>11, <1>12, <1>13, Serving

LEMMA ServePrepareKeeps ==
    ASSUME SessionsInv, NEW i \in Conn, ServePrepare(i) PROVE Sides' /\ Facts'
<1> USE DEF SessionsInv, Sides
<1> DEFINE k == conn[i].host
           ts == conn[i].begin_ts
           ok == ts = conn[i].req.begin_ts /\ rec[k][ts] = "Begin"
           t == IF ok THEN 0 ELSE ts
           r == IF ok THEN 0 ELSE 1
<1>1. conn[i] \in ConnRec /\ Records /\ Tables BY Known
<1>2. conn[i].alive /\ conn[i].req.type = "prepare" BY DEF ServePrepare, Serves
<1>3. conn[i].req # None BY <1>2, Known
<1>4. conn[i].req.begin_ts \in TS
  <2>1. conn[i].req \in RpcReq \cup {None} BY <1>1 DEF ConnRec
  <2> QED BY <1>3, <2>1, RpcTypes
<1>5. k \in Host /\ t \in 0 .. MaxTS /\ r \in {0, 1} BY <1>1, Zero DEF ConnRec
<1>6. conn' = [Respond(conn, i, r) EXCEPT ![i].begin_ts = t]
  <2> DEFINE cn == Respond(conn, i, r)
  <2>1. conn \in [Conn -> ConnRec] /\ cn \in [Conn -> ConnRec]
    BY <1>1, <1>5, RespondType DEF Records
  <2>2. conn' = [cn EXCEPT ![i].begin_ts = IF ok THEN 0 ELSE @] BY DEF ServePrepare
  <2>3. cn[i].begin_ts = ts BY <1>1, RespondTs DEF Records
  <2> HIDE DEF cn
  <2> QED BY <2>1, <2>2, <2>3 DEF cn
<1>7. rec' = IF ok THEN [rec EXCEPT ![k][ts] = "Prepared"] ELSE rec BY DEF ServePrepare
<1>8. UNCHANGED <<client, logic, done, list, told, up, clock>> BY DEF ServePrepare
<1>9. ok => ts \in TS BY <1>4
<1> HIDE DEF t, r, ok
<1>10. /\ \A j \in Conn \ {i} : conn'[j] = conn[j]
       /\ conn'[i].host = k /\ conn'[i].link = conn[i].link
       /\ conn'[i].alive = conn[i].alive /\ conn'[i].req = None /\ conn'[i].begin_ts = t
       /\ conn'[i].res = IF conn[i].link = "open" THEN Result(r) ELSE None
       /\ Result(r) # None
  BY <1>5, <1>6, Answering
<1>11. t # 0 => Works(i, t) BY DEF t, Works
<1>12. ASSUME NEW n \in Host, NEW u \in TS
       PROVE  rec'[n][u] = rec[n][u] \/ (n = k /\ Works(i, u) /\ rec[n][u] # "Prepared")
  BY <1>1, <1>5, <1>7, <1>9 DEF Tables, Works, ok
<1>13. ASSUME NEW c \in Client, NEW n \in Host, logic[c].fd[n] = i
       PROVE  /\ n \in logic[c].stat =>
                   Joined(logic[c], client[c], n, conn'[i], Record(c, n)', Ts(c) \in done'[n])
              /\ n \notin logic[c].stat => Apart(logic[c], n, conn'[i], Record(c, n)')
  <2>1. i # 0 /\ Wire(c, n) = conn[i] BY <1>13, Known DEF Wire
  <2>2. n \in logic[c].stat BY <1>2, <1>3, <1>13, <2>1 DEF Ends, Apart, Quiet
  <2>3. Joined(logic[c], client[c], n, conn[i], Record(c, n), Ts(c) \in done[n]) /\ n = k
    BY <1>13, <2>1, <2>2 DEF Ends
  <2>4. /\ ts = Ts(c) /\ Record(c, n) = "Begin" /\ logic[c].pc = "prepare"
        /\ conn[i].req.begin_ts = ts
    BY <1>2, <1>3, <2>3 DEF Joined, Ts
  <2>5. Ts(c) # 0 BY <2>2 DEF Shape, Ts
  <2>6. ok BY <2>3, <2>4, <2>5 DEF ok, Record
  <2>7. rec'[k][ts] = "Prepared" BY <1>1, <1>5, <1>7, <1>9, <2>6 DEF Tables
  <2>8. Record(c, n)' = "Prepared" BY <1>8, <2>3, <2>4, <2>5, <2>7 DEF Record, Ts
  <2>9. t = 0 BY <2>6 DEF t
  <2> QED BY <1>10, <2>2, <2>4, <2>8, <2>9 DEF Joined, Ts
<1>14. conn[i].link # "open" => conn'[i].res = None BY <1>10
<1>15. \A n \in Host : done[n] \subseteq done'[n]
             /\ \A u \in TS : u \in done'[n] => u \in done[n] \/ u = conn[i].begin_ts
  BY <1>8
<1> QED BY <1>2, <1>3, <1>8, <1>10, <1>11, <1>12, <1>13, <1>14, <1>15, Serving

\* Nothing changes but cut messages and links that break.
LEMMA Damage ==
    ASSUME SessionsInv, UNCHANGED <<logic, rec, done, list, told, up, clock>>,
           \A c \in Client :
             /\ client'[c].here = client[c].here /\ client'[c].waits = client[c].waits
             /\ client'[c].req = None <=> client[c].req = None,
           \A i \in Conn :
             /\ conn'[i].host = conn[i].host /\ conn'[i].alive = conn[i].alive
             /\ conn'[i].begin_ts = conn[i].begin_ts
             /\ conn'[i].req = None <=> conn[i].req = None
             /\ conn[i].req # None => conn'[i].req.begin_ts = conn[i].req.begin_ts
             /\ conn'[i].req.type = conn[i].req.type
             /\ conn'[i].res = None <=> conn[i].res = None
             /\ \/ conn'[i].link = conn[i].link
                \/ conn[i].link = "open" /\ conn'[i].link = "broken"
             /\ conn[i].link # "open" /\ Quiet(conn[i]) => conn'[i] = conn[i]
    PROVE  Sides' /\ Facts'
<1> USE DEF SessionsInv, Sides
<1>1. Records /\ Tables BY Known
<1>2. Single' /\ OneEach' BY SinglesKept DEF Ts
<1>3. ASSUME NEW c \in Client PROVE Shape(logic'[c], client'[c], clock')
  <2>1. Shape(logic[c], client[c], clock) OBVIOUS
  <2> QED BY <2>1 DEF Shape
<1>4. ASSUME NEW c \in Client, NEW n \in Host PROVE Ends(c, n)'
  <2> DEFINE i == logic[c].fd[n]
  <2>1. Ends(c, n) /\ Record(c, n)' = Record(c, n) /\ Ts(c)' = Ts(c) BY DEF Ts, Record
  <2>2. i # 0 => i \in Conn BY Known
  <2>3. Wire(c, n) = conn[i] /\ Wire(c, n)' = conn'[i] BY DEF Wire
  <2>4. ASSUME i # 0, Joined(logic[c], client[c], n, conn[i], Record(c, n), Ts(c) \in done[n])
        PROVE  Joined(logic[c], client'[c], n, conn'[i], Record(c, n), Ts(c) \in done[n])
    <3> HIDE DEF i
    <3> QED BY <2>2, <2>4 DEF Joined, Quiet
  <2>5. ASSUME i # 0, Apart(logic[c], n, conn[i], Record(c, n))
        PROVE  Apart(logic[c], n, conn'[i], Record(c, n))
    <3> HIDE DEF i
    <3> QED BY <2>2, <2>5 DEF Apart, Quiet
  <2> QED BY <2>1, <2>2, <2>3, <2>4, <2>5 DEF Ends
<1>5. ASSUME NEW i \in Conn PROVE Wired(i)' /\ Marked(i)'
  <2>1. Owned(i)' <=> Owned(i) BY OwnedKept
  <2>2. Wired(i) /\ Marked(i) OBVIOUS
  <2>3. conn[i].req.type \in {"begin", "prepare"} => conn[i].req # None BY Known
  <2>4. ~Owned(i) => conn'[i] = conn[i] \/ (conn[i].alive /\ conn[i].link = "broken")
    BY <2>2 DEF Wired, NoConn, Quiet
  <2>5. conn[i] = NoConn => conn'[i] = conn[i] BY DEF NoConn, Quiet
  <2>6. Wired(i)' BY <2>1, <2>2, <2>3, <2>4, <2>5 DEF Wired
  <2>7. \A ts : Works(i, ts)' => Works(i, ts) BY DEF Works
  <2>8. Marked(i)' BY <2>2, <2>7, MarkedKept DEF Ts
  <2> QED BY <2>6, <2>8
<1>6. Facts' BY FactsKept DEF Ts
<1> QED BY <1>2, <1>3, <1>4, <1>5, <1>6

LEMMA DamageKeeps ==
    ASSUME SessionsInv, CutMessage \/ \E i \in Conn : LinkBreaks(i) PROVE Sides' /\ Facts'
<1> USE DEF SessionsInv
<1>1. Records /\ Tables BY Known
<1>2. ASSUME NEW i \in Conn, LinkBreaks(i) PROVE Sides' /\ Facts'
  <2>1. conn[i] \in ConnRec /\ conn[i].link = "open" BY <1>1, <1>2 DEF Records, LinkBreaks
  <2>2. conn' = [conn EXCEPT ![i].link = "broken"] BY <1>2 DEF LinkBreaks
  <2>3. /\ conn'[i].host = conn[i].host /\ conn'[i].alive = conn[i].alive
        /\ conn'[i].begin_ts = conn[i].begin_ts /\ conn'[i].req = conn[i].req
        /\ conn'[i].res = conn[i].res /\ conn'[i].link = "broken"
    <3>1. conn'[i] = [conn[i] EXCEPT !.link = "broken"] BY <1>1, <2>2 DEF Records
    <3> QED BY <2>1, <3>1 DEF ConnRec
  <2>4. \A j \in Conn \ {i} : conn'[j] = conn[j] BY <1>1, <2>2 DEF Records
  <2> QED BY <1>2, <2>1, <2>3, <2>4, Damage DEF LinkBreaks
<1>3. ASSUME NEW i \in Conn, conn[i].req # None, conn' = [conn EXCEPT ![i].req.cut = TRUE],
             UNCHANGED <<client, logic, rec, done, list, told, up, clock>>
      PROVE  Sides' /\ Facts'
  <2> DEFINE m == [conn[i].req EXCEPT !.cut = TRUE]
  <2>1. conn[i] \in ConnRec /\ conn[i].req \in RpcReq BY <1>1, <1>3 DEF Records, ConnRec
  <2>2. m.type = conn[i].req.type /\ m.begin_ts = conn[i].req.begin_ts /\ m \in RpcReq
    BY <2>1 DEF RpcReq
  <2>3. m # None BY <2>2 DEF RpcReq, None
  <2>4. conn'[i] = [conn[i] EXCEPT !.req = m] /\ \A j \in Conn \ {i} : conn'[j] = conn[j]
    BY <1>1, <1>3 DEF Records
  <2> HIDE DEF m
  <2>5. /\ conn'[i].host = conn[i].host /\ conn'[i].alive = conn[i].alive
        /\ conn'[i].begin_ts = conn[i].begin_ts /\ conn'[i].req = m
        /\ conn'[i].res = conn[i].res /\ conn'[i].link = conn[i].link
    BY <2>1, <2>4 DEF ConnRec
  <2> QED BY <1>3, <2>2, <2>3, <2>4, <2>5, Damage DEF Quiet
<1>4. ASSUME NEW i \in Conn, conn[i].res # None, conn' = [conn EXCEPT ![i].res.cut = TRUE],
             UNCHANGED <<client, logic, rec, done, list, told, up, clock>>
      PROVE  Sides' /\ Facts'
  <2> DEFINE m == [conn[i].res EXCEPT !.cut = TRUE]
  <2>1. conn[i] \in ConnRec /\ conn[i].res \in RpcRes BY <1>1, <1>4 DEF Records, ConnRec
  <2>2. m \in RpcRes BY <2>1 DEF RpcRes
  <2>3. m # None BY <2>2 DEF RpcRes, None
  <2>4. conn'[i] = [conn[i] EXCEPT !.res = m] /\ \A j \in Conn \ {i} : conn'[j] = conn[j]
    BY <1>1, <1>4 DEF Records
  <2> HIDE DEF m
  <2>5. /\ conn'[i].host = conn[i].host /\ conn'[i].alive = conn[i].alive
        /\ conn'[i].begin_ts = conn[i].begin_ts /\ conn'[i].req = conn[i].req
        /\ conn'[i].res = m /\ conn'[i].link = conn[i].link
    BY <2>1, <2>4 DEF ConnRec
  <2> QED BY <1>4, <2>3, <2>4, <2>5, Damage DEF Quiet
<1>5. ASSUME NEW c \in Client, client[c].req # None, client' = [client EXCEPT ![c].req.cut = TRUE],
             UNCHANGED <<conn, logic, rec, done, list, told, up, clock>>
      PROVE  Sides' /\ Facts'
  <2> DEFINE m == [client[c].req EXCEPT !.cut = TRUE]
  <2>1. client[c] \in ClientRec /\ client[c].req \in Requests BY <1>1, <1>5 DEF Records, ClientRec
  <2>2. m # None BY <2>1 DEF Requests, None
  <2>3. client'[c] = [client[c] EXCEPT !.req = m] /\ \A d \in Client \ {c} : client'[d] = client[d]
    BY <1>1, <1>5 DEF Records
  <2> HIDE DEF m
  <2>4. /\ client'[c].here = client[c].here /\ client'[c].waits = client[c].waits
        /\ client'[c].req = m
    BY <2>1, <2>3 DEF ClientRec
  <2> QED BY <1>5, <2>2, <2>3, <2>4, Damage
<1> QED BY <1>2, <1>3, <1>4, <1>5 DEF CutMessage

\* The connections of the sessions of D.
Sockets(D) == UNION {Fds(c) : c \in D}

\* The sessions of D end, or start anew, and close their connections; what
\* they have sent just before is in cn.
LEMMA Closing ==
    ASSUME SessionsInv, NEW D \in SUBSET Client, NEW cn,
           UNCHANGED <<rec, done, told, up, clock>>,
           \A c \in Client \ D : logic'[c] = logic[c] /\ client'[c] = client[c],
           \A c \in D : logic'[c] \in {NoSession, NewSession} /\ client'[c].req = None,
           conn' = Close(cn, Sockets(D)),
           \A i \in Conn :
             /\ cn[i] \in ConnRec
             /\ cn[i].host = conn[i].host /\ cn[i].alive = conn[i].alive
             /\ cn[i].begin_ts = conn[i].begin_ts
             /\ cn[i] = conn[i] \/ i \in Sockets(D)
             /\ cn[i].req # None =>
                  /\ cn[i].req.begin_ts <= clock
                  /\ Works(i, cn[i].req.begin_ts) \/ \E c \in D : Ts(c) = cn[i].req.begin_ts
             /\ cn[i].req.type = "begin" => list'[cn[i].req.begin_ts] = {}
             /\ cn[i].req.type = "prepare" => cn[i].host \in list'[cn[i].req.begin_ts],
           \A ts \in TS : list'[ts] = list[ts] \/ \E c \in D : Ts(c) = ts
    PROVE  Sides' /\ Facts'
<1> USE DEF SessionsInv, Sides
<1>1. Records /\ Tables BY Known
<1> DEFINE U == Sockets(D)
<1>2. ASSUME NEW i \in Conn PROVE i \in U <=> \E c \in D, n \in Host : logic[c].fd[n] = i
  <2>1. i # 0 BY Known
  <2> QED BY <2>1 DEF Fds, Sockets
<1>3. conn' = Close(cn, U) /\ \A i \in Conn : cn[i] = conn[i] \/ i \in U OBVIOUS
<1> HIDE DEF U
<1>4. ASSUME NEW c \in D
      PROVE  /\ Ts(c)' = 0 /\ logic'[c].stat = {} /\ logic'[c].pc \in {"none", "idle"}
             /\ \A n \in Host : logic'[c].fd[n] = 0
             /\ logic'[c].pc = "none" => logic'[c] = NoSession
  <2>1. CASE logic'[c] = NoSession BY <2>1 DEF NoSession, Ts
  <2>2. CASE logic'[c] = NewSession BY <2>2 DEF NewSession, NoSession, Ts
  <2> QED BY <2>1, <2>2
<1>5. ASSUME NEW i \in Conn, i \notin U PROVE conn'[i] = conn[i]
  BY <1>3, <1>5 DEF Close
<1>6. ASSUME NEW i \in U, i \in Conn
      PROVE  \/ conn'[i] = NoConn
             \/ /\ conn'[i].host = conn[i].host /\ conn[i].alive /\ conn'[i].alive = TRUE
                /\ conn'[i].begin_ts = conn[i].begin_ts /\ conn'[i].req = cn[i].req
                /\ conn'[i].res = None /\ conn'[i].link = "broken"
  <2>1. CASE ~conn[i].alive BY <1>3, <1>6, <2>1 DEF Close
  <2>2. CASE conn[i].alive
    <3> DEFINE g == [cn[i] EXCEPT !.link = "broken"]
               h == [g EXCEPT !.res = None]
    <3>1. conn'[i] = h BY <1>3, <1>6, <2>2 DEF Close
    <3>2. /\ g \in ConnRec /\ g.host = cn[i].host /\ g.alive = cn[i].alive
          /\ g.begin_ts = cn[i].begin_ts /\ g.req = cn[i].req /\ g.link = "broken"
      <4>1. cn[i] \in ConnRec BY <1>6
      <4> QED BY <4>1 DEF ConnRec
    <3> HIDE DEF g
    <3>3. /\ h.host = cn[i].host /\ h.alive = cn[i].alive
          /\ h.begin_ts = cn[i].begin_ts /\ h.req = cn[i].req /\ h.link = "broken" /\ h.res = None
      BY <3>2 DEF ConnRec
    <3>4. conn[i].alive = TRUE BY <1>1, <1>6, <2>2 DEF Records, ConnRec
    <3> HIDE DEF h
    <3> QED BY <1>6, <3>1, <3>3, <3>4
  <2> QED BY <2>1, <2>2
<1>7. Single' /\ OneEach'
  <2>1. \A c \in Client : Ts(c)' # 0 => Ts(c)' = Ts(c) BY <1>4 DEF Ts
  <2>2. \A c \in Client, n \in Host : logic'[c].fd[n] # 0 => logic'[c].fd[n] = logic[c].fd[n]
    BY <1>4
  <2> QED BY <2>1, <2>2, SinglesKept
<1>8. ASSUME NEW c \in Client PROVE Shape(logic'[c], client'[c], clock')
  <2>1. CASE c \in D
    <3>1. logic'[c].begin_ts = 0 /\ client'[c].req = None BY <1>4, <2>1 DEF Ts
    <3>2. 0 <= clock' BY <1>1 DEF Tables
    <3> QED BY <1>4, <2>1, <3>1, <3>2 DEF Shape, Busy
  <2>2. CASE c \notin D BY <2>2
  <2> QED BY <2>1, <2>2
<1>9. ASSUME NEW c \in Client, NEW n \in Host PROVE Ends(c, n)'
  <2>1. CASE c \in D BY <1>4, <2>1 DEF Ends, Record
  <2>2. CASE c \notin D
    <3>1. Ends(c, n) /\ logic'[c] = logic[c] /\ client'[c] = client[c] BY <2>2
    <3>2. ASSUME logic[c].fd[n] # 0 PROVE conn'[logic[c].fd[n]] = conn[logic[c].fd[n]]
      <4>1. logic[c].fd[n] \in Conn BY <3>2, Known
      <4>2. logic[c].fd[n] \notin U BY <1>2, <2>2, <3>2, <4>1 DEF Single
      <4> QED BY <1>5, <4>1, <4>2
    <3> QED BY <3>1, <3>2, EndsKept
  <2> QED BY <2>1, <2>2
<1>10. ASSUME NEW i \in Conn PROVE Wired(i)' /\ Marked(i)'
  <2>1. None.type = "none" BY DEF None
  <2>2. CASE i \notin U
    <3>1. conn'[i] = conn[i] /\ cn[i] = conn[i] BY <1>3, <1>5, <2>2
    <3>2. Owned(i)' <=> Owned(i)
      <4>1. \A c \in Client, n \in Host : logic[c].fd[n] = i => c \notin D BY <1>2, <2>2
      <4>2. \A c \in Client, n \in Host : logic'[c].fd[n] = i => logic[c].fd[n] = i
        BY <1>4, Known
      <4> QED BY <4>1, <4>2 DEF Owned
    <3>3. /\ conn[i].req.type = "begin" => list'[conn[i].req.begin_ts] = {}
          /\ conn[i].req.type = "prepare" => conn[i].host \in list'[conn[i].req.begin_ts]
      BY <3>1
    <3>4. Wired(i)' BY <3>1, <3>2, <3>3 DEF Wired
    <3>5. \A ts : Works(i, ts)' => Works(i, ts) BY <3>1 DEF Works
    <3>6. ASSUME NEW c \in Client, Ts(c)' # 0
          PROVE  Ts(c)' = Ts(c) /\ \A n \in Host : logic[c].fd[n] = i => logic'[c].fd[n] = i
      BY <1>4, <3>6 DEF Ts
    <3>7. Marked(i)' BY <3>5, <3>6, MarkedKept
    <3> QED BY <3>4, <3>7
  <2>3. CASE i \in U
    <3>1. ~Owned(i)'
      <4>1. PICK c \in D, n \in Host : logic[c].fd[n] = i BY <1>2, <2>3
      <4>2. i # 0 BY Known
      <4>3. ASSUME NEW d \in Client, NEW m \in Host PROVE logic'[d].fd[m] # i
        <5>1. CASE d \in D BY <1>4, <4>2, <5>1
        <5>2. CASE d \notin D BY <4>1, <4>2, <5>2 DEF Single
        <5> QED BY <5>1, <5>2
      <4> QED BY <4>3 DEF Owned
    <3>2. ASSUME NEW c \in Client, Ts(c)' # 0, Works(i, Ts(c)') PROVE c \in D
      <4>1. SUFFICES ASSUME c \notin D PROVE FALSE OBVIOUS
      <4>2. Ts(c)' = Ts(c) BY <4>1 DEF Ts
      <4>3. PICK m \in Host : logic[c].fd[m] = i BY <3>2, <4>2 DEF Marked
      <4> QED BY <3>1, <4>1, <4>3 DEF Owned
    <3>3. CASE conn'[i] = NoConn
      <4>1. 0 <= clock BY <1>1 DEF Tables
      <4>2. Wired(i)' BY <2>1, <3>1, <3>3, <4>1 DEF Wired, NoConn
      <4>3. Marked(i)' BY <3>3 DEF Marked, Works, NoConn
      <4> QED BY <4>2, <4>3
    <3>4. CASE conn'[i] # NoConn
      <4>1. /\ conn'[i].host = conn[i].host /\ conn[i].alive /\ conn'[i].alive = TRUE
            /\ conn'[i].begin_ts = conn[i].begin_ts /\ conn'[i].req = cn[i].req
            /\ conn'[i].res = None /\ conn'[i].link = "broken" /\ cn[i].host = conn[i].host
        BY <1>6, <2>3, <3>4
      <4>2. Wired(i)
        OBVIOUS
      <4>3. Wired(i)' BY <3>1, <4>1, <4>2 DEF Wired
      <4>4. ASSUME NEW c \in Client, Ts(c)' # 0, Works(i, Ts(c))' PROVE FALSE
        <5>1. c \notin D /\ Ts(c)' = Ts(c) BY <1>4, <4>4 DEF Ts
        <5>2. conn[i].begin_ts = Ts(c) \/ (cn[i].req # None /\ cn[i].req.begin_ts = Ts(c))
          BY <4>1, <4>4, <5>1 DEF Works
        <5>3. Works(i, Ts(c)) \/ \E d \in D : Ts(d) = Ts(c) BY <5>2 DEF Works
        <5>4. Works(i, Ts(c)) BY <4>4, <5>1, <5>3 DEF OneEach
        <5> QED BY <3>2, <4>4, <5>1, <5>4
      <4>5. Marked(i)' BY <4>4 DEF Marked
      <4> QED BY <4>3, <4>5
    <3> QED BY <3>3, <3>4
  <2> QED BY <2>2, <2>3
<1>11. Facts'
  <2>1. ASSUME NEW ts \in TS, list'[ts] # list[ts]
        PROVE  ts <= clock /\ \A c \in Client : Ts(c)' # ts /\ <<ts>> \notin told[c]
    <3>1. PICK d \in D : Ts(d) = ts BY <2>1
    <3>2. ts # 0 /\ ts <= clock BY <3>1 DEF Shape, Ts, TS
    <3>3. Past(ts) BY DEF Facts
    <3>4. \A c \in Client : Ts(c)' # ts
      BY <1>4, <3>1, <3>2 DEF OneEach, Ts
    <3> QED BY <3>1, <3>2, <3>3, <3>4 DEF Past
  <2>2. ASSUME NEW c \in Client, Ts(c)' # 0
        PROVE  logic'[c] = logic[c] /\ Ts(c)' = Ts(c)
    BY <1>4, <2>2 DEF Ts
  <2> QED BY <2>1, <2>2, FactsKept
<1> QED BY <1>7, <1>8, <1>9, <1>10, <1>11

\* Nothing was sent before.
LEMMA ClosingAtOnce ==
    ASSUME SessionsInv, NEW D \in SUBSET Client,
           UNCHANGED <<rec, done, list, told, up, clock>>,
           \A c \in Client \ D : logic'[c] = logic[c] /\ client'[c] = client[c],
           \A c \in D : logic'[c] \in {NoSession, NewSession} /\ client'[c].req = None,
           conn' = Close(conn, Sockets(D))
    PROVE  Sides' /\ Facts'
<1>1. Records /\ Tables BY Known DEF SessionsInv
<1>2. ASSUME NEW i \in Conn
      PROVE  /\ conn[i] \in ConnRec
             /\ conn[i].req # None => conn[i].req.begin_ts <= clock /\ Works(i, conn[i].req.begin_ts)
             /\ conn[i].req.type = "begin" => list'[conn[i].req.begin_ts] = {}
             /\ conn[i].req.type = "prepare" => conn[i].host \in list'[conn[i].req.begin_ts]
  BY <1>1 DEF SessionsInv, Sides, Wired, Works, Records
<1> QED BY <1>2, Closing

\* One session ends, the whole process dies, or Rollback starts anew.
LEMMA EndKeeps ==
    ASSUME SessionsInv, NEW c \in Client, EndSession(c) PROVE Sides' /\ Facts'
<1>1. Records /\ Tables BY Known DEF SessionsInv
<1>2. UNCHANGED <<rec, done, list, told, up, clock>> BY DEF EndSession
<1>3. /\ \A d \in Client \ {c} : logic'[d] = logic[d] /\ client'[d] = client[d]
      /\ \A d \in {c} : logic'[d] \in {NoSession, NewSession} /\ client'[d].req = None
  BY <1>1 DEF EndSession, CloseSession, Records, Gone
<1>4. conn' = Close(conn, Sockets({c}))
  <2>1. Sockets({c}) = Fds(c) BY DEF Sockets
  <2> QED BY <2>1 DEF EndSession, CloseSession
<1>5. {c} \in SUBSET Client OBVIOUS
<1> QED BY <1>2, <1>3, <1>4, <1>5, ClosingAtOnce

LEMMA DiesKeeps ==
    ASSUME SessionsInv, LogicDies PROVE Sides' /\ Facts'
<1>1. UNCHANGED <<rec, done, list, told, up, clock>> BY DEF LogicDies
<1>2. /\ \A d \in Client \ Client : logic'[d] = logic[d] /\ client'[d] = client[d]
      /\ \A d \in Client : logic'[d] \in {NoSession, NewSession} /\ client'[d].req = None
      /\ conn' = Close(conn, Sockets(Client))
  BY DEF LogicDies, Gone, Sockets
<1>3. Client \in SUBSET Client OBVIOUS
<1> QED BY <1>1, <1>2, <1>3, ClosingAtOnce

LEMMA RollbackKeeps ==
    ASSUME SessionsInv, NEW c \in Client, ReqRollback(c) PROVE Sides' /\ Facts'
<1> SUFFICES ASSUME ~LogicDies PROVE Sides' /\ Facts' BY DiesKeeps
<1>1. Records /\ Tables BY Known DEF SessionsInv
<1>2. /\ logic' = [logic EXCEPT ![c] = NewSession]
      /\ conn' = Close(conn, Fds(c))
      /\ client' = [client EXCEPT ![c].req = None, ![c].waits = FALSE]
      /\ UNCHANGED <<rec, done, list, told, up, clock>>
  BY DEF ReqRollback
<1>3. client'[c].req = None
  <2>1. client'[c] = [client[c] EXCEPT !.req = None, !.waits = FALSE] BY <1>1, <1>2 DEF Records
  <2>2. client[c] \in ClientRec BY <1>1 DEF Records
  <2> QED BY <2>1, <2>2 DEF ClientRec
<1>4. /\ \A d \in Client \ {c} : logic'[d] = logic[d] /\ client'[d] = client[d]
      /\ \A d \in {c} : logic'[d] \in {NoSession, NewSession} /\ client'[d].req = None
  BY <1>1, <1>2, <1>3 DEF Records
<1>5. conn' = Close(conn, Sockets({c}))
  <2>1. Sockets({c}) = Fds(c) BY DEF Sockets
  <2> QED BY <1>2, <2>1
<1>6. UNCHANGED <<rec, done, list, told, up, clock>> BY <1>2
<1>7. {c} \in SUBSET Client OBVIOUS
<1> QED BY <1>4, <1>5, <1>6, <1>7, ClosingAtOnce

\* What a step of the session of c leaves to the other sessions.
LEMMA Others ==
    ASSUME SessionsInv, NEW c \in Client, NEW d \in Client, d # c,
           logic'[d] = logic[d], client'[d] = client[d], UNCHANGED rec, clock <= clock',
           clock' \in Nat,
           \A n \in Host : logic[d].fd[n] # 0 => conn'[logic[d].fd[n]] = conn[logic[d].fd[n]],
           \A n \in Host : Ts(d) \in done[n] => Ts(d) \in done'[n]
    PROVE  Shape(logic'[d], client'[d], clock') /\ \A n \in Host : Ends(d, n)'
<1> USE DEF SessionsInv, Sides
<1>1. logic[d].begin_ts \in Nat /\ clock \in Nat BY Known DEF LogicRec, Tables
<1>2. Shape(logic[d], client[d], clock) OBVIOUS
<1>3. logic[d].begin_ts <= clock' BY <1>1, <1>2 DEF Shape
<1>4. Shape(logic'[d], client'[d], clock') BY <1>2, <1>3 DEF Shape
<1>5. ASSUME NEW n \in Host PROVE Ends(d, n)'
  <2>1. Ends(d, n) OBVIOUS
  <2> QED BY <2>1, EndsKept
<1> QED BY <1>4, <1>5

\* The session of c uses connection i, which it has or has just made.
LEMMA Using ==
    ASSUME SessionsInv, NEW c \in Client, NEW i \in Conn,
           UNCHANGED <<list, up, clock>>,
           \A j \in Conn \ {i} : conn'[j] = conn[j],
           \A d \in Client \ {c} : logic'[d] = logic[d],
           Ts(c)' \in {0, Ts(c)},
           \A n \in Host :
             /\ logic[c].fd[n] # 0 => logic'[c].fd[n] = logic[c].fd[n]
             /\ logic'[c].fd[n] \in {logic[c].fd[n], i},
           \E n \in Host : logic'[c].fd[n] = i,
           conn'[i].alive => up[conn'[i].host],
           conn'[i].link = "open" => conn'[i].alive,
           ~conn'[i].alive => conn'[i].begin_ts = 0 /\ conn'[i].req = None,
           conn'[i].res # None => conn'[i].req = None,
           conn'[i].begin_ts \in {0, conn[i].begin_ts},
           \/ conn'[i].req = None
           \/ conn'[i].req = conn[i].req /\ conn'[i].host = conn[i].host
           \/ /\ conn'[i].req.begin_ts = Ts(c)
              /\ conn'[i].req.type \in {"data", "begin"}
              /\ conn'[i].req.type = "begin" => list[Ts(c)] = {}
    PROVE  \A j \in Conn : Wired(j)' /\ Marked(j)'
<1> USE DEF SessionsInv, Sides
<1>1. Records /\ Tables BY Known
<1>2. ASSUME NEW j \in Conn \ {i} PROVE Wired(j)' /\ Marked(j)'
  <2>1. Owned(j)' <=> Owned(j)
    <3>1. j # 0 BY Known
    <3>2. \A d \in Client, n \in Host : logic'[d].fd[n] = j <=> logic[d].fd[n] = j
      BY <1>2, <3>1
    <3> QED BY <3>2 DEF Owned
  <2>2. conn[j].alive => up'[conn[j].host] BY DEF Wired
  <2>3. Wired(j)' BY <1>2, <2>1, <2>2, WiredKept
  <2>4. \A ts : Works(j, ts)' => Works(j, ts) BY <1>2 DEF Works
  <2>5. j # 0 BY Known
  <2>6. ASSUME NEW d \in Client, Ts(d)' # 0
        PROVE  Ts(d)' = Ts(d) /\ \A n \in Host : logic[d].fd[n] = j => logic'[d].fd[n] = j
    BY <2>5, <2>6 DEF Ts
  <2>7. Marked(j)' BY <2>4, <2>6, MarkedKept
  <2> QED BY <2>3, <2>7
<1>3. Wired(i)'
  <2>1. Owned(i)' BY DEF Owned
  <2>2. Wired(i) /\ Shape(logic[c], client[c], clock) OBVIOUS
  <2>3. 0 <= clock /\ Ts(c) <= clock BY <1>1, <2>2 DEF Shape, Ts, Tables
  <2>4. None.type = "none" BY DEF None
  <2> QED BY <2>1, <2>2, <2>3, <2>4 DEF Wired
<1>4. Marked(i)'
  <2> SUFFICES ASSUME NEW d \in Client, Ts(d)' # 0, Works(i, Ts(d))'
               PROVE  \E n \in Host : logic'[d].fd[n] = i
    BY DEF Marked
  <2>1. Ts(d)' = Ts(d) /\ i # 0 BY Known DEF Ts
  <2>2. Works(i, Ts(d)) \/ Ts(d) = Ts(c) BY <2>1 DEF Works
  <2>3. CASE Works(i, Ts(d))
    <3>1. PICK n \in Host : logic[d].fd[n] = i BY <2>1, <2>3 DEF Marked
    <3>2. logic'[d].fd[n] = i BY <2>1, <3>1
    <3> QED BY <3>2
  <2>4. CASE Ts(d) = Ts(c) BY <2>1, <2>4 DEF OneEach
  <2> QED BY <2>2, <2>3, <2>4
<1> QED BY <1>2, <1>3, <1>4

\* The connections of c to the storages E.
FdsTo(c, E) == {logic[c].fd[n] : n \in E}

\* The session of c forgets connections to storages it has not joined.
LEMMA Cleaning ==
    ASSUME SessionsInv, NEW c \in Client, NEW E \in SUBSET Host, NEW p,
           logic' = [logic EXCEPT ![c] = [Clean(logic[c], E) EXCEPT !.pc = p]],
           conn' = Close(conn, FdsTo(c, E)),
           UNCHANGED <<client, rec, done, list, told, up, clock>>,
           \A n \in E : logic[c].fd[n] # 0 /\ n \notin logic[c].stat,
           \/ logic[c].pc = "idle" /\ p = "reading"
           \/ logic[c].pc = "prepare" /\ p = "prepare"
    PROVE  Sides' /\ Facts'
<1> USE DEF SessionsInv, Sides
<1>1. Records /\ Tables /\ logic[c] \in LogicRec BY Known
<1> DEFINE S == FdsTo(c, E)
<1>2. /\ logic'[c].pc = p /\ logic'[c].begin_ts = Ts(c) /\ logic'[c].stat = logic[c].stat
      /\ logic'[c].host = logic[c].host
      /\ \A n \in Host : logic'[c].fd[n] = IF n \in E THEN 0 ELSE logic[c].fd[n]
  <2> DEFINE g == Clean(logic[c], E)
  <2>1. /\ g \in LogicRec /\ g.begin_ts = Ts(c) /\ g.stat = logic[c].stat /\ g.host = logic[c].host
        /\ \A n \in Host : g.fd[n] = IF n \in E THEN 0 ELSE logic[c].fd[n]
    BY <1>1, Zero DEF Clean, LogicRec, Ts
  <2>2. logic'[c] = [g EXCEPT !.pc = p] BY <1>1 DEF Records
  <2> HIDE DEF g
  <2> QED BY <2>1, <2>2 DEF LogicRec
<1>3. \A d \in Client \ {c} : logic'[d] = logic[d] BY <1>1 DEF Records
<1>4. \A d \in Client : Ts(d)' = Ts(d) BY <1>2, <1>3 DEF Ts
<1>5. \A d \in Client, n \in Host :
        /\ logic'[d].fd[n] # 0 => logic'[d].fd[n] = logic[d].fd[n]
        /\ logic[d].fd[n] # 0 /\ logic'[d].fd[n] # logic[d].fd[n] => d = c /\ n \in E
  BY <1>2, <1>3
<1>6. ASSUME NEW d \in Client, NEW n \in Host, logic[d].fd[n] # 0
      PROVE  logic[d].fd[n] \in S <=> d = c /\ n \in E
  BY <1>6 DEF Single, FdsTo
<1>7. ASSUME NEW n \in E
      PROVE  LET i == logic[c].fd[n]
             IN  i \in Conn /\ conn[i].begin_ts = 0 /\ Quiet(conn[i]) /\ conn[i].link # "none"
  BY <1>7, Known DEF Ends, Apart, Wire
<1>8. ASSUME NEW i \in Conn, i \notin S PROVE conn'[i] = conn[i] BY <1>8 DEF Close
<1>9. ASSUME NEW i \in S
      PROVE  \/ conn'[i] = NoConn
             \/ /\ conn'[i].host = conn[i].host /\ conn[i].alive /\ conn'[i].alive = TRUE
                /\ conn'[i].begin_ts = 0 /\ conn'[i].req = None
                /\ conn'[i].res = None /\ conn'[i].link = "broken"
  <2>1. i \in Conn /\ conn[i] \in ConnRec /\ conn[i].begin_ts = 0 /\ conn[i].req = None
    BY <1>1, <1>7 DEF Records, Quiet, FdsTo
  <2>2. CASE ~conn[i].alive BY <2>1, <2>2 DEF Close
  <2>3. CASE conn[i].alive
    <3> DEFINE g == [conn[i] EXCEPT !.link = "broken"]
               h == [g EXCEPT !.res = None]
    <3>1. conn'[i] = h BY <2>1, <2>3 DEF Close
    <3>2. /\ g \in ConnRec /\ g.host = conn[i].host /\ g.alive = conn[i].alive
          /\ g.begin_ts = conn[i].begin_ts /\ g.req = conn[i].req /\ g.link = "broken"
      BY <2>1 DEF ConnRec
    <3>3. conn[i].alive = TRUE BY <2>1, <2>3 DEF ConnRec
    <3> HIDE DEF g
    <3>4. /\ h.host = g.host /\ h.alive = g.alive
          /\ h.begin_ts = g.begin_ts /\ h.req = g.req /\ h.link = "broken" /\ h.res = None
      BY <3>2 DEF ConnRec
    <3> HIDE DEF h
    <3> QED BY <2>1, <3>1, <3>2, <3>3, <3>4
  <2> QED BY <2>2, <2>3
<1> HIDE DEF S
<1>10. Single' /\ OneEach' BY <1>4, <1>5, SinglesKept
<1>11. ASSUME NEW d \in Client PROVE Shape(logic'[d], client'[d], clock')
  <2>1. Shape(logic[d], client[d], clock) OBVIOUS
  <2>2. CASE d = c
    <3>1. logic[c].stat \subseteq Host BY <1>1 DEF LogicRec
    <3>2. \A n \in logic[c].stat : logic'[c].fd[n] # 0 BY <1>2, <2>1, <2>2, <3>1 DEF Shape
    <3> QED BY <1>2, <2>1, <2>2, <3>2 DEF Shape, Busy, Ts
  <2>3. CASE d # c BY <1>3, <2>1, <2>3
  <2> QED BY <2>2, <2>3
<1>12. ASSUME NEW d \in Client, NEW n \in Host PROVE Ends(d, n)'
  <2>1. Ends(d, n) OBVIOUS
  <2>2. ASSUME logic[d].fd[n] # 0, ~(d = c /\ n \in E) PROVE conn'[logic[d].fd[n]] = conn[logic[d].fd[n]]
    <3>1. logic[d].fd[n] \in Conn BY <2>2, Known
    <3> QED BY <1>6, <1>8, <2>2, <3>1
  <2>3. CASE d # c BY <1>3, <2>1, <2>2, <2>3, EndsKept
  <2>4. CASE d = c
    <3>1. Record(c, n)' = Record(c, n) BY <1>4 DEF Record
    <3>2. CASE n \in E
      <4>1. logic'[c].fd[n] = 0 BY <1>2, <3>2
      <4> QED BY <1>2, <2>1, <2>4, <3>1, <3>2, <4>1 DEF Ends
    <3>3. CASE n \notin E
      <4>1. logic'[c].fd[n] = logic[c].fd[n] BY <1>2, <3>3
      <4>2. logic[c].fd[n] # 0 => Wire(c, n)' = Wire(c, n) BY <2>2, <2>4, <3>3, <4>1 DEF Wire
      <4>3. ASSUME Joined(logic[c], client[c], n, Wire(c, n), Record(c, n), Ts(c) \in done[n])
            PROVE  Joined(logic'[c], client[c], n, Wire(c, n), Record(c, n), Ts(c) \in done[n])
        BY <1>2, <4>3 DEF Joined, Ts, Busy
      <4>4. ASSUME Apart(logic[c], n, Wire(c, n), Record(c, n))
            PROVE  Apart(logic'[c], n, Wire(c, n), Record(c, n))
        BY <1>2, <4>4 DEF Apart
      <4> QED BY <1>2, <1>4, <2>1, <2>4, <3>1, <4>1, <4>2, <4>3, <4>4 DEF Ends
    <3> QED BY <3>2, <3>3
  <2> QED BY <2>3, <2>4
<1>13. ASSUME NEW i \in Conn PROVE Wired(i)' /\ Marked(i)'
  <2>1. None.type = "none" /\ i # 0 BY Known DEF None
  <2>2. CASE i \notin S
    <3>1. conn'[i] = conn[i] BY <1>8, <2>2
    <3>2. Owned(i)' <=> Owned(i) BY <1>5, <1>6, <2>1, <2>2 DEF Owned
    <3>3. Wired(i)' BY <3>1, <3>2, WiredKept DEF Wired
    <3>4. \A ts : Works(i, ts)' => Works(i, ts) BY <3>1 DEF Works
    <3>5. \A d \in Client, n \in Host : logic[d].fd[n] = i => logic'[d].fd[n] = i
      BY <1>5, <1>6, <2>1, <2>2
    <3>6. Marked(i)' BY <1>4, <3>4, <3>5, MarkedKept
    <3> QED BY <3>3, <3>6
  <2>3. CASE i \in S
    <3>1. ~Owned(i)' BY <1>2, <1>3, <1>5, <1>6, <2>1, <2>3 DEF Owned
    <3>2. 0 <= clock BY <1>1 DEF Tables
    <3>3. Wired(i) OBVIOUS
    <3>4. /\ conn'[i].begin_ts = 0 /\ conn'[i].req = None /\ conn'[i].res = None
          /\ conn'[i].link # "open"
          /\ conn'[i].alive => conn'[i].host = conn[i].host /\ conn[i].alive
          /\ conn'[i] = NoConn \/ (conn'[i].alive /\ conn'[i].link = "broken")
      <4>1. CASE conn'[i] = NoConn BY <4>1 DEF NoConn
      <4>2. CASE conn'[i] # NoConn BY <1>9, <2>3, <4>2
      <4> QED BY <4>1, <4>2
    <3>5. Wired(i)' BY <2>1, <3>1, <3>2, <3>3, <3>4 DEF Wired
    <3>6. \A ts : Works(i, ts)' => ts = 0 BY <3>4 DEF Works
    <3>7. Marked(i)' BY <3>6 DEF Marked
    <3> QED BY <3>5, <3>7
  <2> QED BY <2>2, <2>3
<1>14. Facts'
  <2>1. \A d \in Client : /\ Ts(d)' = Ts(d) /\ logic'[d].stat = logic[d].stat
                          /\ logic'[d].pc = "prepare" <=> logic[d].pc = "prepare"
    BY <1>2, <1>3, <1>4
  <2> QED BY <2>1, FactsKept
<1> QED BY <1>10, <1>11, <1>12, <1>13, <1>14

LEMMA PollKeeps ==
    ASSUME SessionsInv, NEW c \in Client, Poll(c) \/ ReadFails(c) PROVE Sides' /\ Facts'
<1> SUFFICES ASSUME ~EndSession(c), Poll(c) PROVE Sides' /\ Facts' BY EndKeeps DEF ReadFails
<1> DEFINE E == {n \in Host : StorageEvent(c, n)}
<1>1. /\ E \cap logic[c].stat = {}
      /\ logic' = [logic EXCEPT ![c] = [Clean(logic[c], E) EXCEPT !.pc = "reading"]]
      /\ conn' = Close(conn, FdsTo(c, E))
      /\ UNCHANGED <<client, rec, done, list, told, up, clock>>
      /\ logic[c].pc = "idle"
  BY DEF Poll, FdsTo
<1>2. \A n \in E : logic[c].fd[n] # 0 /\ n \notin logic[c].stat BY <1>1 DEF StorageEvent
<1>3. E \in SUBSET Host OBVIOUS
<1> HIDE DEF E
<1> QED BY <1>1, <1>2, <1>3, Cleaning

LEMMA PrepareCleanKeeps ==
    ASSUME SessionsInv, NEW c \in Client, NEW n \in Host, PrepareClean(c, n)
    PROVE  Sides' /\ Facts'
<1> DEFINE E == {n}
<1>1. logic[c] \in LogicRec BY Known DEF SessionsInv
<1>2. /\ logic' = [logic EXCEPT ![c] = Clean(logic[c], E)]
      /\ conn' = Close(conn, {logic[c].fd[n]})
      /\ UNCHANGED <<client, rec, done, list, told, up, clock>>
      /\ logic[c].pc = "prepare"
  BY DEF PrepareClean
<1>3. Clean(logic[c], E) = [Clean(logic[c], E) EXCEPT !.pc = "prepare"]
  <2>1. Clean(logic[c], E) \in LogicRec /\ Clean(logic[c], E).pc = "prepare"
    BY <1>1, <1>2, Zero DEF Clean, LogicRec
  <2> HIDE DEF E
  <2> QED BY <2>1 DEF LogicRec
<1>4. {logic[c].fd[n]} = FdsTo(c, E) BY DEF FdsTo
<1>5. \A m \in E : logic[c].fd[m] # 0 /\ m \notin logic[c].stat BY DEF PrepareClean, StorageEvent
<1>6. E \in SUBSET Host OBVIOUS
<1>7. logic' = [logic EXCEPT ![c] = [Clean(logic[c], E) EXCEPT !.pc = "prepare"]] BY <1>2, <1>3
<1>8. conn' = Close(conn, FdsTo(c, E)) BY <1>2, <1>4
<1> HIDE DEF E
<1> QED BY <1>2, <1>5, <1>6, <1>7, <1>8, Cleaning

\* The locals after the storage has answered Begin.
LEMMA ServedShape ==
    ASSUME NEW s, NEW t, NEW l, NEW k, Shape(s, l, k), s.pc = "begin",
           t.pc = "data", t.stat = s.stat \cup {s.host}, t.fd = s.fd, t.host = s.host,
           t.begin_ts = s.begin_ts
    PROVE  Shape(t, l, k)
BY DEF Shape, Busy

LEMMA BeginResKeeps ==
    ASSUME SessionsInv, NEW c \in Client, BeginRes(c) PROVE Sides' /\ Facts'
<1> USE DEF SessionsInv, Sides
<1> SUFFICES ASSUME ~EndSession(c) PROVE Sides' /\ Facts' BY EndKeeps
<1>1. Records /\ Tables /\ logic[c] \in LogicRec BY Known
<1>a. PICK n \in Host : n = logic[c].host BY <1>1 DEF LogicRec
<1>b. PICK i : i = logic[c].fd[n] OBVIOUS
<1>c. PICK m : m = Message("data", Ts(c)) OBVIOUS
<1>2. /\ logic[c].pc = "begin" /\ Whole(i)
      /\ logic' = [logic EXCEPT ![c].pc = "data", ![c].stat = @ \cup {n}]
      /\ conn' = SendMsg([conn EXCEPT ![i].res = None], i, m)
      /\ UNCHANGED <<client, rec, done, list, told, up, clock>>
  BY <1>a, <1>b, <1>c DEF BeginRes, Ts
<1>3. n \notin logic[c].stat /\ i # 0 /\ i \in Conn /\ Ts(c) # 0 /\ client[c].req = None
  <2>1. Shape(logic[c], client[c], clock) OBVIOUS
  <2> QED BY <1>a, <1>b, <1>2, <2>1, Known DEF Shape, Ts, Busy
<1>4. /\ logic'[c].pc = "data" /\ logic'[c].stat = logic[c].stat \cup {n}
      /\ logic'[c].fd = logic[c].fd /\ logic'[c].host = n /\ logic'[c].begin_ts = Ts(c)
      /\ \A d \in Client \ {c} : logic'[d] = logic[d]
  <2> DEFINE s == [logic[c] EXCEPT !.pc = "data", !.stat = @ \cup {n}]
  <2>1. logic'[c] = s BY <1>1, <1>2 DEF Records
  <2>2. /\ s.pc = "data" /\ s.stat = logic[c].stat \cup {n} /\ s.fd = logic[c].fd
        /\ s.host = n /\ s.begin_ts = Ts(c)
    BY <1>1, <1>a DEF LogicRec, Ts
  <2> QED BY <1>1, <1>2, <2>1, <2>2 DEF Records
<1>5. /\ \A j \in Conn \ {i} : conn'[j] = conn[j]
      /\ conn'[i].host = conn[i].host /\ conn'[i].link = conn[i].link
      /\ conn'[i].alive = conn[i].alive /\ conn'[i].begin_ts = conn[i].begin_ts
      /\ conn'[i].res = None
      /\ conn'[i].req = IF conn[i].link = "open" THEN m ELSE conn[i].req
  <2> DEFINE g == [conn[i] EXCEPT !.res = None]
             cn == [conn EXCEPT ![i].res = None]
             h == [g EXCEPT !.req = IF g.link = "open" THEN m ELSE g.req]
  <2>1. conn[i] \in ConnRec BY <1>1, <1>3 DEF Records
  <2>2. /\ g \in ConnRec /\ g.host = conn[i].host /\ g.link = conn[i].link
        /\ g.alive = conn[i].alive /\ g.begin_ts = conn[i].begin_ts /\ g.res = None
        /\ g.req = conn[i].req
    BY <2>1 DEF ConnRec
  <2>3. cn[i] = g /\ \A j \in Conn \ {i} : cn[j] = conn[j] BY <1>1, <1>3 DEF Records
  <2>4. cn \in [Conn -> ConnRec] BY <1>1, <2>2 DEF Records
  <2> HIDE DEF g, cn
  <2>5. conn' = [cn EXCEPT ![i] = h]
    <3> HIDE DEF SessionsInv, Sides
    <3> QED BY <1>2, <2>3 DEF SendMsg, cn
  <2>6. /\ h.host = g.host /\ h.link = g.link /\ h.alive = g.alive
        /\ h.begin_ts = g.begin_ts /\ h.res = None
        /\ h.req = IF g.link = "open" THEN m ELSE g.req
    BY <2>2 DEF ConnRec
  <2> HIDE DEF h
  <2> QED BY <1>3, <2>2, <2>3, <2>4, <2>5, <2>6
<1>6. m.type = "data" /\ m.begin_ts = Ts(c) /\ m # None BY <1>c DEF Message, None
<1>7. Apart(logic[c], n, conn[i], Record(c, n)) /\ Ends(c, n) /\ conn[i].host = n
  BY <1>b, <1>1, <1>3 DEF Ends, Wire
<1>8. conn[i].res # None /\ conn[i].req = None /\ Wired(i)
  BY <1>2, <1>3 DEF Whole, Wired
<1>9. /\ Record(c, n) # "none"
      /\ conn[i].alive => conn[i].begin_ts = Ts(c) /\ Record(c, n) = "Begin"
  BY <1>a, <1>2, <1>7, <1>8 DEF Apart, Ts
<1>10. \A d \in Client : Ts(d)' = Ts(d) BY <1>4 DEF Ts
<1>11. \A d \in Client, k \in Host : logic'[d].fd[k] = logic[d].fd[k] BY <1>4
<1>12. Single' /\ OneEach' BY <1>10, <1>11, SinglesKept
<1>13. ASSUME NEW d \in Client, NEW k \in Host, ~(d = c /\ k = n), logic[d].fd[k] # 0
       PROVE  conn'[logic[d].fd[k]] = conn[logic[d].fd[k]]
  <2>1. logic[d].fd[k] \in Conn BY <1>13, Known
  <2>2. logic[d].fd[k] # i BY <1>b, <1>1, <1>3, <1>13 DEF Single
  <2> QED BY <1>5, <2>1, <2>2
<1>14. ASSUME NEW d \in Client, d # c
       PROVE  Shape(logic'[d], client'[d], clock') /\ \A k \in Host : Ends(d, k)'
  <2>1. clock \in Nat /\ clock <= clock' BY <1>1, <1>2 DEF Tables
  <2> QED BY <1>2, <1>4, <1>13, <1>14, <2>1, Others
<1>15. Shape(logic'[c], client'[c], clock')
  <2>1. Shape(logic[c], client[c], clock) OBVIOUS
  <2>2. UNCHANGED <<client, clock>> BY <1>2
  <2>3. logic'[c].begin_ts = logic[c].begin_ts BY <1>4 DEF Ts
  <2>4. /\ logic'[c].pc = "data" /\ logic'[c].stat = logic[c].stat \cup {logic[c].host}
        /\ logic'[c].fd = logic[c].fd /\ logic'[c].host = logic[c].host
    BY <1>a, <1>4
  <2>5. logic[c].pc = "begin" BY <1>2
  <2>6. Shape(logic'[c], client[c], clock) BY <2>1, <2>3, <2>4, <2>5, ServedShape
  <2> QED BY <2>2, <2>6
<1>16. ASSUME NEW k \in Host PROVE Ends(c, k)'
  <2>1. Ends(c, k) /\ Record(c, k)' = Record(c, k) /\ Ts(c)' = Ts(c) BY <1>2, <1>10 DEF Record
  <2>2. CASE k = n
    <3>1. Wire(c, n)' = conn'[i] BY <1>b, <1>4 DEF Wire
    <3>2. Joined(logic'[c], client'[c], n, conn'[i], Record(c, n), Ts(c) \in done'[n])
      <4>1. None.type = "none" BY DEF None
      <4>2. conn'[i].req.type \in {"none", "data"} BY <1>5, <1>6, <1>8, <4>1
      <4>3. conn'[i].req # None => conn'[i].req.begin_ts = Ts(c) BY <1>5, <1>6, <1>8
      <4> QED BY <1>4, <1>5, <1>9, <4>2, <4>3 DEF Joined
    <3>3. conn[i].link # "none" BY <1>b, <1>1, <1>3, <1>7 DEF Ends, Wire
    <3> QED BY <1>4, <1>5, <1>7, <2>1, <2>2, <3>1, <3>2, <3>3 DEF Ends
  <2>3. CASE k # n
    <3>1. logic[c].fd[k] # 0 => Wire(c, k)' = Wire(c, k) BY <1>11, <1>13, <2>3 DEF Wire
    <3>2. ASSUME Joined(logic[c], client[c], k, Wire(c, k), Record(c, k), Ts(c) \in done[k])
          PROVE  Joined(logic'[c], client'[c], k, Wire(c, k), Record(c, k), Ts(c) \in done[k])
      BY <1>2, <1>4, <2>3, <3>2 DEF Joined, Busy, Ts, Quiet
    <3>3. ASSUME Apart(logic[c], k, Wire(c, k), Record(c, k))
          PROVE  Apart(logic'[c], k, Wire(c, k), Record(c, k))
      BY <1>a, <1>4, <2>3, <3>3 DEF Apart
    <3> QED BY <1>a, <1>2, <1>4, <1>11, <2>1, <2>3, <3>1, <3>2, <3>3 DEF Ends
  <2> QED BY <2>2, <2>3
<1>17. \A j \in Conn : Wired(j)' /\ Marked(j)'
  <2>1. /\ conn'[i].alive => up[conn'[i].host]
        /\ conn'[i].link = "open" => conn'[i].alive
        /\ ~conn'[i].alive => conn'[i].begin_ts = 0 /\ conn'[i].req = None
    BY <1>5, <1>8 DEF Wired
  <2>2. \/ conn'[i].req = conn[i].req /\ conn'[i].host = conn[i].host
        \/ /\ conn'[i].req.begin_ts = Ts(c)
           /\ conn'[i].req.type \in {"data", "begin"}
           /\ conn'[i].req.type = "begin" => list[Ts(c)] = {}
    BY <1>5, <1>6
  <2>3. \E k \in Host : logic'[c].fd[k] = i BY <1>b, <1>1, <1>11
  <2>4. \A k \in Host :
          /\ logic[c].fd[k] # 0 => logic'[c].fd[k] = logic[c].fd[k]
          /\ logic'[c].fd[k] \in {logic[c].fd[k], i}
    BY <1>11
  <2>5. Ts(c)' \in {0, Ts(c)} /\ conn'[i].begin_ts \in {0, conn[i].begin_ts}
        /\ (conn'[i].res # None => conn'[i].req = None)
    BY <1>5, <1>10
  <2>6. UNCHANGED <<list, up, clock>> BY <1>2
  <2>7. \A j \in Conn \ {i} : conn'[j] = conn[j] BY <1>5
  <2>8. \A d \in Client \ {c} : logic'[d] = logic[d] BY <1>4
  <2> QED BY <1>3, <2>1, <2>2, <2>3, <2>4, <2>5, <2>6, <2>7, <2>8, Using
<1>18. Facts'
  <2>1. \A d \in Client : /\ Ts(d)' = Ts(d) /\ logic[d].stat \subseteq logic'[d].stat
                          /\ logic'[d].pc = "prepare" <=> logic[d].pc = "prepare"
                          /\ logic[d].pc = "prepare" => logic'[d].stat = logic[d].stat
    BY <1>2, <1>4, <1>10
  <2> QED BY <1>2, <2>1, FactsKept
<1> QED BY <1>12, <1>14, <1>15, <1>16, <1>17, <1>18

\* The session of c reads the response on its connection i to n, or leaves it.
LEMMA Taken ==
    ASSUME SessionsInv, NEW c \in Client, NEW n \in Host, NEW i \in Conn, logic[c].fd[n] = i,
           conn' = [conn EXCEPT ![i].res = None] \/ UNCHANGED conn,
           logic'[c].fd = logic[c].fd, Ts(c)' \in {0, Ts(c)},
           \A d \in Client \ {c} : logic'[d] = logic[d] /\ client'[d] = client[d],
           UNCHANGED <<rec, done, list, up, clock>>
    PROVE  /\ conn'[i].host = conn[i].host /\ conn'[i].link = conn[i].link
           /\ conn'[i].alive = conn[i].alive /\ conn'[i].begin_ts = conn[i].begin_ts
           /\ conn'[i].req = conn[i].req
           /\ conn'[i].res = IF conn' = conn THEN conn[i].res ELSE None
           /\ \A k \in Host \ {n} : logic[c].fd[k] # 0 => Wire(c, k)' = Wire(c, k)
           /\ Wire(c, n)' = conn'[i]
           /\ Single' /\ OneEach' /\ \A j \in Conn : Wired(j)' /\ Marked(j)'
           /\ \A d \in Client \ {c} :
                Shape(logic'[d], client'[d], clock') /\ \A k \in Host : Ends(d, k)'
<1> USE DEF SessionsInv, Sides
<1>1. Records /\ Tables /\ logic[c] \in LogicRec /\ i # 0 BY Known
<1>2. /\ \A j \in Conn \ {i} : conn'[j] = conn[j]
      /\ conn'[i].host = conn[i].host /\ conn'[i].link = conn[i].link
      /\ conn'[i].alive = conn[i].alive /\ conn'[i].begin_ts = conn[i].begin_ts
      /\ conn'[i].req = conn[i].req
      /\ conn'[i].res = IF conn' = conn THEN conn[i].res ELSE None
  <2>1. CASE UNCHANGED conn BY <2>1
  <2>2. CASE conn' # conn
    <3>1. conn'[i] = [conn[i] EXCEPT !.res = None] /\ \A j \in Conn \ {i} : conn'[j] = conn[j]
      BY <1>1, <2>2 DEF Records
    <3>2. conn[i] \in ConnRec BY <1>1 DEF Records
    <3> QED BY <2>2, <3>1, <3>2 DEF ConnRec
  <2> QED BY <2>1, <2>2
<1>3. ASSUME NEW d \in Client, NEW k \in Host, ~(d = c /\ k = n), logic[d].fd[k] # 0
      PROVE  conn'[logic[d].fd[k]] = conn[logic[d].fd[k]]
  <2>1. logic[d].fd[k] \in Conn BY <1>3, Known
  <2>2. logic[d].fd[k] # i BY <1>1, <1>3 DEF Single
  <2> QED BY <1>2, <2>1, <2>2
<1>4. \A k \in Host \ {n} : logic[c].fd[k] # 0 => Wire(c, k)' = Wire(c, k) BY <1>3 DEF Wire
<1>5. Wire(c, n)' = conn'[i] BY DEF Wire
<1>6. \A d \in Client : Ts(d)' # 0 => Ts(d)' = Ts(d) BY DEF Ts
<1>7. \A d \in Client, k \in Host : logic'[d].fd[k] = logic[d].fd[k] OBVIOUS
<1>8. Single' /\ OneEach' BY <1>6, <1>7, SinglesKept
<1>9. ASSUME NEW d \in Client \ {c}
      PROVE  Shape(logic'[d], client'[d], clock') /\ \A k \in Host : Ends(d, k)'
  <2>1. clock' \in Nat /\ clock <= clock' BY <1>1 DEF Tables
  <2>2. logic'[d] = logic[d] /\ client'[d] = client[d] BY <1>9
  <2>3. \A k \in Host : logic[d].fd[k] # 0 => conn'[logic[d].fd[k]] = conn[logic[d].fd[k]]
    BY <1>3, <1>9
  <2> QED BY <1>9, <2>1, <2>2, <2>3, Others
<1>10. \A j \in Conn : Wired(j)' /\ Marked(j)'
  <2>1. Wired(i) OBVIOUS
  <2>2. /\ conn'[i].alive => up[conn'[i].host]
        /\ conn'[i].link = "open" => conn'[i].alive
        /\ ~conn'[i].alive => conn'[i].begin_ts = 0 /\ conn'[i].req = None
        /\ conn'[i].res # None => conn'[i].req = None
    BY <1>2, <2>1 DEF Wired
  <2>3. \E k \in Host : logic'[c].fd[k] = i BY <1>7
  <2>4. \A k \in Host :
          /\ logic[c].fd[k] # 0 => logic'[c].fd[k] = logic[c].fd[k]
          /\ logic'[c].fd[k] \in {logic[c].fd[k], i}
    BY <1>7
  <2>5. conn'[i].begin_ts \in {0, conn[i].begin_ts} BY <1>2
  <2>6. conn'[i].req = conn[i].req /\ conn'[i].host = conn[i].host BY <1>2
  <2>7. \A j \in Conn \ {i} : conn'[j] = conn[j] BY <1>2
  <2>8. \A d \in Client \ {c} : logic'[d] = logic[d] OBVIOUS
  <2>9. UNCHANGED <<list, up, clock>> OBVIOUS
  <2> QED BY <2>2, <2>3, <2>4, <2>5, <2>6, <2>7, <2>8, <2>9, Using
<1> QED BY <1>2, <1>4, <1>5, <1>8, <1>9, <1>10

\* The locals once a data request is answered.
LEMMA RestShape ==
    ASSUME NEW s, NEW t, NEW l, NEW m, NEW k, Shape(s, l, k),
           t.pc = "idle", t.stat = s.stat, t.fd = s.fd, t.begin_ts = s.begin_ts, m.req = None
    PROVE  Shape(t, m, k)
BY DEF Shape, Busy

LEMMA DataResKeeps ==
    ASSUME SessionsInv, NEW c \in Client, DataRes(c) PROVE Sides' /\ Facts'
<1> USE DEF SessionsInv, Sides
<1> SUFFICES ASSUME ~EndSession(c) PROVE Sides' /\ Facts' BY EndKeeps
<1>1. Records /\ Tables /\ logic[c] \in LogicRec /\ client[c] \in ClientRec BY Known
<1>a. PICK n \in Host : n = logic[c].host BY <1>1 DEF LogicRec
<1>b. PICK i : i = logic[c].fd[n] OBVIOUS
<1>2. n = logic[c].host /\ i = logic[c].fd[n] BY <1>a, <1>b
<1>3. logic[c].pc = "data" BY DEF DataRes
<1>4. n \in logic[c].stat /\ i # 0 /\ i \in Conn /\ Ts(c) # 0 /\ client[c].req = None
  <2>1. Shape(logic[c], client[c], clock) OBVIOUS
  <2> QED BY <1>2, <1>3, <2>1, Known DEF Shape, Ts, Busy
<1>5. PICK F \in {{}, {<<Ts(c), n>>}} :
         /\ logic' = [logic EXCEPT ![c].pc = "idle", ![c].host = 0]
         /\ Answer(c, F)
         /\ UNCHANGED <<rec, done, list, up, clock>>
         /\ \/ conn' = [conn EXCEPT ![i].res = None] /\ Whole(i)
            \/ UNCHANGED conn /\ ~client[c].here
  <2>1. CASE Whole(i) /\ conn' = [conn EXCEPT ![i].res = None]
              /\ logic' = [logic EXCEPT ![c].pc = "idle", ![c].host = 0]
              /\ Answer(c, IF conn[i].res.result = 0 THEN {<<Ts(c), n>>} ELSE {})
              /\ UNCHANGED <<rec, done, list, up, clock>>
    <3>1. (IF conn[i].res.result = 0 THEN {<<Ts(c), n>>} ELSE {}) \in {{}, {<<Ts(c), n>>}} OBVIOUS
    <3> QED BY <2>1, <3>1
  <2>2. CASE ClientEvent(c) /\ UNCHANGED conn
              /\ logic' = [logic EXCEPT ![c].pc = "idle", ![c].host = 0]
              /\ Answer(c, {<<Ts(c), n>>})
              /\ UNCHANGED <<rec, done, list, up, clock>>
    <3>1. ~client[c].here BY <1>4, <2>2 DEF ClientEvent
    <3> QED BY <2>2, <3>1
  <2> QED BY <1>2, <2>1, <2>2 DEF DataRes, Ts
<1>6. /\ logic'[c].pc = "idle" /\ logic'[c].stat = logic[c].stat
      /\ logic'[c].fd = logic[c].fd /\ logic'[c].begin_ts = Ts(c)
      /\ \A d \in Client \ {c} : logic'[d] = logic[d]
  <2> DEFINE s == [logic[c] EXCEPT !.pc = "idle", !.host = 0]
  <2>1. logic'[c] = s BY <1>1, <1>5 DEF Records
  <2>2. /\ s.pc = "idle" /\ s.stat = logic[c].stat /\ s.fd = logic[c].fd /\ s.begin_ts = Ts(c)
    BY <1>1 DEF LogicRec, Ts
  <2> QED BY <1>1, <1>5, <2>1, <2>2 DEF Records
<1>7. /\ client'[c].here = client[c].here /\ client'[c].req = None
      /\ \A d \in Client \ {c} : client'[d] = client[d] /\ told'[d] = told[d]
      /\ told'[c] = told[c] \cup (IF client[c].here THEN F ELSE {})
  <2>1. client'[c] = [client[c] EXCEPT !.waits = FALSE] BY <1>1, <1>5 DEF Answer, Records
  <2>2. client'[c].here = client[c].here /\ client'[c].req = client[c].req
    BY <1>1, <2>1 DEF ClientRec
  <2> QED BY <1>1, <1>4, <1>5, <2>2 DEF Answer, Records, Tables
<1>8. \A d \in Client : Ts(d)' = Ts(d) BY <1>6 DEF Ts
<1>9. /\ conn'[i].host = conn[i].host /\ conn'[i].link = conn[i].link
      /\ conn'[i].alive = conn[i].alive /\ conn'[i].begin_ts = conn[i].begin_ts
      /\ conn'[i].req = conn[i].req
      /\ conn'[i].res = IF conn' = conn THEN conn[i].res ELSE None
      /\ \A k \in Host \ {n} : logic[c].fd[k] # 0 => Wire(c, k)' = Wire(c, k)
      /\ Wire(c, n)' = conn'[i]
      /\ Single' /\ OneEach' /\ \A j \in Conn : Wired(j)' /\ Marked(j)'
      /\ \A d \in Client \ {c} :
           Shape(logic'[d], client'[d], clock') /\ \A k \in Host : Ends(d, k)'
  <2>1. conn' = [conn EXCEPT ![i].res = None] \/ UNCHANGED conn BY <1>5
  <2>2. Ts(c)' \in {0, Ts(c)} /\ logic[c].fd[n] = i BY <1>2, <1>8
  <2>3. UNCHANGED <<rec, done, list, up, clock>> BY <1>5
  <2>4. \A d \in Client \ {c} : logic'[d] = logic[d] /\ client'[d] = client[d] BY <1>6, <1>7
  <2> QED BY <1>4, <1>6, <2>1, <2>2, <2>3, <2>4, Taken
<1>10. Shape(logic'[c], client'[c], clock')
  <2>1. Shape(logic[c], client[c], clock) OBVIOUS
  <2>2. clock' = clock BY <1>5
  <2> QED BY <1>6, <1>7, <2>1, <2>2, RestShape DEF Ts
<1>11. Joined(logic[c], client[c], n, conn[i], Record(c, n), Ts(c) \in done[n])
       /\ conn[i].host = n /\ conn[i].link # "none"
  BY <1>2, <1>4 DEF Ends, Wire
<1>12. ASSUME NEW k \in Host PROVE Ends(c, k)'
  <2>1. Ends(c, k) /\ Record(c, k)' = Record(c, k) /\ Ts(c)' = Ts(c) BY <1>5, <1>8 DEF Record
  <2>2. CASE k = n
    <3>1. Wired(i) BY <1>4
    <3>2. Quiet(conn'[i]) \/ ~client[c].here
      <4>1. CASE UNCHANGED conn /\ ~client[c].here BY <4>1
      <4>2. CASE conn' = [conn EXCEPT ![i].res = None] /\ Whole(i)
        <5>1. conn'[i] = [conn[i] EXCEPT !.res = None] /\ conn[i] \in ConnRec
          BY <1>1, <1>4, <4>2 DEF Records
        <5>2. conn'[i].res = None BY <5>1 DEF ConnRec
        <5>3. conn'[i].req = None BY <1>9, <3>1, <4>2 DEF Wired, Whole
        <5> QED BY <5>2, <5>3 DEF Quiet
      <4> QED BY <1>5, <4>1, <4>2
    <3>3. Joined(logic'[c], client'[c], n, conn'[i], Record(c, n), Ts(c) \in done'[n])
      BY <1>3, <1>5, <1>6, <1>7, <1>9, <1>11, <3>2 DEF Joined, Busy, Ts, Quiet
    <3> QED BY <1>4, <1>6, <1>9, <1>11, <2>1, <2>2, <3>3 DEF Ends
  <2>3. CASE k # n
    <3>1. logic[c].fd[k] # 0 => Wire(c, k)' = Wire(c, k) BY <1>9, <2>3
    <3>2. ASSUME Joined(logic[c], client[c], k, Wire(c, k), Record(c, k), Ts(c) \in done[k])
          PROVE  Joined(logic'[c], client'[c], k, Wire(c, k), Record(c, k), Ts(c) \in done[k])
      BY <1>2, <1>3, <1>6, <2>3, <3>2 DEF Joined, Busy, Ts, Quiet
    <3>3. ASSUME Apart(logic[c], k, Wire(c, k), Record(c, k))
          PROVE  Apart(logic'[c], k, Wire(c, k), Record(c, k))
      BY <1>3, <1>6, <3>3 DEF Apart
    <3> QED BY <1>3, <1>5, <1>6, <2>1, <3>1, <3>2, <3>3 DEF Ends
  <2> QED BY <2>2, <2>3
<1>13. ASSUME NEW d \in Client, NEW x \in told'[d], x \notin told[d]
       PROVE  d = c /\ x = <<Ts(c), n>> /\ Ts(c) \in done[n]
  <2>1. d = c /\ x = <<Ts(c), n>> /\ client[c].here BY <1>5, <1>7, <1>13
  <2> QED BY <1>3, <1>5, <1>11, <2>1 DEF Joined, Whole
<1>14. Facts'
  <2> USE DEF Facts
  <2>1. ASSUME NEW d \in Client PROVE Told(d)'
    <3>1. Told(d) OBVIOUS
    <3>2. \A k \in Host : <<Ts(d), k>> \in told'[d] =>
            \/ <<Ts(d), k>> \in told[d]
            \/ d = c /\ k = n /\ Ts(c) \in done[n]
      BY <1>13
    <3>3. logic'[d].stat = logic[d].stat /\ (logic'[d].pc = "prepare" <=> logic[d].pc = "prepare")
      BY <1>3, <1>6
    <3>4. UNCHANGED <<done, list, rec>> BY <1>5
    <3>5. Ts(d)' = Ts(d) BY <1>8
    <3>6. CASE d # c BY <3>1, <3>2, <3>3, <3>4, <3>5, <3>6 DEF Told
    <3>7. CASE d = c
      <4>1. logic[c].pc # "prepare" /\ logic'[c].pc # "prepare" BY <1>3, <1>6
      <4> QED BY <1>4, <3>1, <3>2, <3>3, <3>4, <3>5, <3>7, <4>1 DEF Told
    <3> QED BY <3>6, <3>7
  <2>2. ASSUME NEW d \in Client, NEW ts PROVE <<ts>> \in told'[d] => <<ts>> \in told[d]
    BY <1>13
  <2>3. ASSUME NEW ts \in TS PROVE Past(ts)'
    <3>1. Past(ts) OBVIOUS
    <3>2. Ts(c) <= clock /\ clock \in Nat /\ ts \in Nat BY <1>1 DEF Shape, Ts, Tables, TS
    <3>3. ts > clock => ts # Ts(c) BY <3>2
    <3>4. ts > clock => \A d \in Client, k \in Host : <<ts, k>> \in told'[d] => <<ts, k>> \in told[d]
      BY <1>13, <3>3
    <3> QED BY <1>5, <1>8, <2>2, <3>1, <3>4 DEF Past
  <2>4. OkMeansPrepared'
    <3> SUFFICES ASSUME NEW d \in Client, NEW ts \in TS, <<ts>> \in told'[d], NEW k \in Host,
                        k \in list'[ts] \/ <<ts, k>> \in told'[d]
                 PROVE  k \in list'[ts] /\ rec'[k][ts] = "Prepared"
      BY DEF OkMeansPrepared
    <3>1. <<ts>> \in told[d] /\ Past(ts) BY <2>2
    <3>2. Ts(c) # ts BY <3>1 DEF Past
    <3>3. k \in list[ts] \/ <<ts, k>> \in told[d] BY <1>5, <1>13, <3>2
    <3> QED BY <1>5, <3>1, <3>3 DEF OkMeansPrepared
  <2>5. AnswersAreDone'
    <3> SUFFICES ASSUME NEW d \in Client, NEW ts \in TS, NEW k \in Host, <<ts, k>> \in told'[d]
                 PROVE  ts \in done'[k]
      BY DEF AnswersAreDone
    <3> QED BY <1>5, <1>13 DEF AnswersAreDone
  <2> QED BY <2>1, <2>3, <2>4, <2>5
<1> QED BY <1>9, <1>10, <1>12, <1>14

LEMMA PrepareResKeeps ==
    ASSUME SessionsInv, NEW c \in Client, NEW n \in Host, PrepareRes(c, n)
    PROVE  Sides' /\ Facts'
<1> USE DEF SessionsInv, Sides
<1> SUFFICES ASSUME ~EndSession(c) PROVE Sides' /\ Facts' BY EndKeeps
<1>1. Records /\ Tables /\ logic[c] \in LogicRec /\ client[c] \in ClientRec BY Known
<1>a. PICK i : i = logic[c].fd[n] OBVIOUS
<1>2. /\ logic[c].pc = "prepare" /\ n \in logic[c].stat /\ Whole(i)
      /\ conn' = [conn EXCEPT ![i].res = None]
      /\ Prepared(c, n)
      /\ UNCHANGED <<rec, done, list, up, clock>>
  BY <1>a DEF PrepareRes
<1>3. i # 0 /\ i \in Conn /\ Ts(c) # 0 /\ client[c].req = None /\ Ts(c) <= clock
  <2>1. Shape(logic[c], client[c], clock) OBVIOUS
  <2> QED BY <1>a, <1>2, <2>1, Known DEF Shape, Ts, Busy
<1>4. /\ logic'[c].stat = logic[c].stat \ {n} /\ logic'[c].fd = logic[c].fd
      /\ logic[c].stat = {n} => logic'[c].pc = "idle" /\ logic'[c].begin_ts = 0
      /\ logic[c].stat # {n} => logic'[c].pc = "prepare" /\ logic'[c].begin_ts = Ts(c)
      /\ \A d \in Client \ {c} : logic'[d] = logic[d]
  <2> DEFINE last == logic[c].stat = {n}
             s == [logic[c] EXCEPT !.stat = @ \ {n}, !.pc = IF last THEN "idle" ELSE @,
                                   !.begin_ts = IF last THEN 0 ELSE @]
  <2>1. logic'[c] = s /\ \A d \in Client \ {c} : logic'[d] = logic[d]
    BY <1>1, <1>2 DEF Prepared, Records
  <2>2. /\ s.stat = logic[c].stat \ {n} /\ s.fd = logic[c].fd
        /\ s.pc = IF last THEN "idle" ELSE "prepare"
        /\ s.begin_ts = IF last THEN 0 ELSE Ts(c)
    BY <1>1, <1>2 DEF LogicRec, Ts
  <2> QED BY <2>1, <2>2
<1>5. /\ client'[c].req = None /\ client'[c].here = client[c].here
      /\ \A d \in Client \ {c} : client'[d] = client[d] /\ told'[d] = told[d]
      /\ \/ told'[c] = told[c]
         \/ logic[c].stat = {n} /\ told'[c] = told[c] \cup {<<Ts(c)>>}
      /\ logic[c].stat # {n} => client'[c] = client[c]
  <2>1. CASE logic[c].stat # {n} BY <1>2, <1>3, <2>1 DEF Prepared
  <2>2. CASE logic[c].stat = {n}
    <3>1. Answer(c, {<<Ts(c)>>}) BY <1>2, <2>2 DEF Prepared, Ts
    <3>2. client'[c] = [client[c] EXCEPT !.waits = FALSE] /\ client[c] \in ClientRec
      BY <1>1, <3>1 DEF Answer, Records
    <3>3. client'[c].here = client[c].here /\ client'[c].req = client[c].req
      BY <3>2 DEF ClientRec
    <3> QED BY <1>1, <1>3, <2>2, <3>1, <3>3 DEF Answer, Records, Tables
  <2> QED BY <2>1, <2>2
<1>6. Ts(c)' = (IF logic[c].stat = {n} THEN 0 ELSE Ts(c)) /\ \A d \in Client \ {c} : Ts(d)' = Ts(d)
  BY <1>4 DEF Ts
<1>7. /\ conn'[i].host = conn[i].host /\ conn'[i].link = conn[i].link
      /\ conn'[i].alive = conn[i].alive /\ conn'[i].begin_ts = conn[i].begin_ts
      /\ conn'[i].req = conn[i].req
      /\ \A k \in Host \ {n} : logic[c].fd[k] # 0 => Wire(c, k)' = Wire(c, k)
      /\ Wire(c, n)' = conn'[i]
      /\ Single' /\ OneEach' /\ \A j \in Conn : Wired(j)' /\ Marked(j)'
      /\ \A d \in Client \ {c} :
           Shape(logic'[d], client'[d], clock') /\ \A k \in Host : Ends(d, k)'
  <2>1. conn' = [conn EXCEPT ![i].res = None] \/ UNCHANGED conn BY <1>2
  <2>2. Ts(c)' \in {0, Ts(c)} /\ logic[c].fd[n] = i BY <1>a, <1>6
  <2>3. UNCHANGED <<rec, done, list, up, clock>> BY <1>2
  <2>4. \A d \in Client \ {c} : logic'[d] = logic[d] /\ client'[d] = client[d] BY <1>4, <1>5
  <2> QED BY <1>3, <1>4, <2>1, <2>2, <2>3, <2>4, Taken
<1>8. conn'[i].res = None
  <2>1. conn'[i] = [conn[i] EXCEPT !.res = None] /\ conn[i] \in ConnRec
    BY <1>1, <1>2, <1>3 DEF Records
  <2> QED BY <2>1 DEF ConnRec
<1>9. Joined(logic[c], client[c], n, conn[i], Record(c, n), Ts(c) \in done[n])
      /\ conn[i].host = n /\ conn[i].link # "none" /\ Wired(i)
  BY <1>a, <1>2, <1>3 DEF Ends, Wire
<1>10. conn[i].res # None /\ conn[i].req = None BY <1>2, <1>9 DEF Whole, Wired
<1>11. rec[n][Ts(c)] = "Prepared" /\ conn[i].begin_ts = 0
  <2>1. Record(c, n) = "Prepared" BY <1>2, <1>9, <1>10 DEF Joined
  <2>2. conn[i].begin_ts = 0 BY <1>2, <1>9, <1>10 DEF Joined, Wired
  <2> QED BY <1>3, <2>1, <2>2 DEF Record
<1>12. Shape(logic'[c], client'[c], clock')
  <2>1. Shape(logic[c], client[c], clock) OBVIOUS
  <2>2. CASE logic[c].stat = {n}
    <3>1. clock \in Nat BY <1>1 DEF Tables
    <3> QED BY <1>2, <1>4, <1>5, <2>1, <2>2, <3>1 DEF Shape, Busy
  <2>3. CASE logic[c].stat # {n} BY <1>2, <1>4, <1>5, <2>1, <2>3 DEF Shape, Busy, Ts
  <2> QED BY <2>2, <2>3
<1>13. ASSUME NEW k \in Host PROVE Ends(c, k)'
  <2>1. Ends(c, k) OBVIOUS
  <2>2. k \in logic'[c].stat \/ logic'[c].pc = "prepare" \/ Record(c, k)' = "none"
    BY <1>4, <1>6 DEF Record
  <2>3. CASE k = n
    <3>1. n \notin logic'[c].stat /\ logic'[c].pc # "begin" BY <1>4
    <3>2. Apart(logic'[c], n, conn'[i], Record(c, n)')
      BY <1>7, <1>8, <1>10, <1>11, <3>1 DEF Apart, Quiet
    <3> QED BY <1>7, <1>9, <2>2, <2>3, <3>1, <3>2 DEF Ends
  <2>4. CASE k # n
    <3>1. logic[c].fd[k] # 0 => Wire(c, k)' = Wire(c, k) BY <1>7, <2>4
    <3>2. CASE k \in logic[c].stat
      <4>1. logic[c].stat # {n} BY <2>4, <3>2
      <4>2. /\ Record(c, k)' = Record(c, k) /\ (Ts(c) \in done[k] => Ts(c)' \in done'[k])
            /\ Ts(c)' = Ts(c)
        BY <1>2, <1>6, <4>1 DEF Record
      <4>3. ASSUME Joined(logic[c], client[c], k, Wire(c, k), Record(c, k), Ts(c) \in done[k])
            PROVE  Joined(logic'[c], client'[c], k, Wire(c, k), Record(c, k), Ts(c) \in done[k])
        BY <1>2, <1>4, <4>1, <4>3 DEF Joined, Ts
      <4>4. k \in logic'[c].stat BY <1>4, <2>4, <3>2
      <4>5. done' = done BY <1>2
      <4> QED BY <1>4, <2>1, <2>2, <3>1, <3>2, <4>2, <4>3, <4>4, <4>5 DEF Ends
    <3>3. CASE k \notin logic[c].stat
      <4>1. k \notin logic'[c].stat /\ logic'[c].pc # "begin" BY <1>4, <3>3
      <4>2. ASSUME Apart(logic[c], k, Wire(c, k), Record(c, k))
            PROVE  Apart(logic'[c], k, Wire(c, k), Record(c, k)')
        BY <1>2, <4>1, <4>2 DEF Apart
      <4> QED BY <1>4, <2>1, <2>2, <3>1, <3>3, <4>1, <4>2 DEF Ends
    <3> QED BY <3>2, <3>3
  <2> QED BY <2>3, <2>4
<1>14. ASSUME NEW d \in Client, NEW x \in told'[d], x \notin told[d]
       PROVE  d = c /\ x = <<Ts(c)>> /\ logic[c].stat = {n}
  BY <1>5, <1>14
<1>15. Told(c) BY DEF Facts
<1>16. \A k \in Host :
         k \in list[Ts(c)] \/ <<Ts(c), k>> \in told[c] =>
           k \in list[Ts(c)] /\ (k \in logic[c].stat \/ rec[k][Ts(c)] = "Prepared")
  BY <1>2, <1>3, <1>15 DEF Told
<1>17. Facts'
  <2> USE DEF Facts
  <2>1. \A d \in Client, ts \in TS, k \in Host : <<ts, k>> \in told'[d] <=> <<ts, k>> \in told[d]
    BY <1>5
  <2>2. ASSUME NEW d \in Client PROVE Told(d)'
    <3>1. Told(d) OBVIOUS
    <3>2. CASE d # c
      <4>1. Ts(d)' = Ts(d) /\ logic'[d] = logic[d] /\ told'[d] = told[d] BY <1>4, <1>5, <1>6, <3>2
      <4> QED BY <1>2, <3>1, <4>1 DEF Told
    <3>3. CASE d = c /\ logic[c].stat = {n} BY <1>6, <3>3 DEF Told
    <3>4. CASE d = c /\ logic[c].stat # {n}
      <4>1. told'[c] = told[c] /\ Ts(c)' = Ts(c) /\ logic'[c].pc = "prepare" BY <1>4, <1>5, <1>6, <3>4
      <4>2. UNCHANGED <<done, list, rec>> BY <1>2
      <4>3. Ts(c) \in TS BY <1>1, <1>3, BoundAssumption DEF Ts, LogicRec, TS
      <4>4. \A k \in list[Ts(c)] : k \in Host BY <1>1, <4>3 DEF Tables
      <4>5. \A k \in list[Ts(c)] \ logic'[c].stat : rec[k][Ts(c)] = "Prepared"
        BY <1>4, <1>11, <1>16, <4>4
      <4>6. logic'[c].stat \subseteq list[Ts(c)] BY <1>2, <1>3, <1>4, <3>1, <3>4 DEF Told
      <4>7. \A k \in Host : <<Ts(c), k>> \in told[c] => Ts(c) \in done[k] /\ k \in list[Ts(c)]
        BY <1>3, <1>15, <1>16 DEF Told
      <4> QED BY <3>4, <4>1, <4>2, <4>5, <4>6, <4>7 DEF Told
    <3> QED BY <3>2, <3>3, <3>4
  <2>3. ASSUME NEW ts \in TS PROVE Past(ts)'
    <3>1. Past(ts) /\ clock' = clock /\ ts \in Nat /\ clock \in Nat BY <1>1, <1>2 DEF Tables, TS
    <3>2. ts > clock => ts # Ts(c) BY <1>3, <3>1
    <3>3. ts > clock => \A d \in Client : <<ts>> \notin told'[d]
      BY <1>14, <3>1, <3>2 DEF Past
    <3>4. ASSUME NEW d \in Client, <<ts>> \in told'[d] PROVE \A e \in Client : Ts(e)' # ts
      <4>1. CASE <<ts>> \in told[d] BY <1>6, <3>1, <4>1 DEF Past, TS
      <4>2. CASE <<ts>> \notin told[d]
        <5>1. ts = Ts(c) /\ logic[c].stat = {n} BY <1>14, <3>4, <4>2
        <5> QED BY <1>3, <1>6, <5>1 DEF OneEach
      <4> QED BY <4>1, <4>2
    <3> QED BY <1>2, <2>1, <3>1, <3>3, <3>4 DEF Past
  <2>4. OkMeansPrepared'
    <3> SUFFICES ASSUME NEW d \in Client, NEW ts \in TS, <<ts>> \in told'[d], NEW k \in Host,
                        k \in list'[ts] \/ <<ts, k>> \in told'[d]
                 PROVE  k \in list'[ts] /\ rec'[k][ts] = "Prepared"
      BY DEF OkMeansPrepared
    <3>1. list' = list /\ rec' = rec BY <1>2
    <3>2. k \in list[ts] \/ <<ts, k>> \in told[d] BY <2>1, <3>1
    <3>3. CASE <<ts>> \in told[d] BY <3>1, <3>2, <3>3 DEF OkMeansPrepared
    <3>4. CASE <<ts>> \notin told[d]
      <4>1. d = c /\ ts = Ts(c) /\ logic[c].stat = {n} BY <1>14, <3>4
      <4> QED BY <1>11, <1>16, <3>1, <3>2, <4>1
    <3> QED BY <3>3, <3>4
  <2>5. AnswersAreDone' BY <1>2, <2>1 DEF AnswersAreDone
  <2> QED BY <2>2, <2>3, <2>4, <2>5
<1> QED BY <1>7, <1>12, <1>13, <1>17

\* A session that has just read a request has no message under way.
LEMMA Resting ==
    ASSUME SessionsInv, NEW c \in Client, logic[c].pc = "reading", client[c].req # None
    PROVE  /\ \A n \in Host : logic[c].fd[n] # 0 => Quiet(Wire(c, n)) /\ Wire(c, n).host = n
           /\ Ts(c) # 0 => \A i \in Conn : conn[i].req # None => conn[i].req.begin_ts # Ts(c)
<1> USE DEF SessionsInv, Sides
<1>1. ASSUME NEW n \in Host, logic[c].fd[n] # 0
      PROVE  Quiet(Wire(c, n)) /\ Wire(c, n).host = n
  <2>1. Ends(c, n) OBVIOUS
  <2>2. CASE n \in logic[c].stat BY <1>1, <2>1, <2>2 DEF Ends, Joined
  <2>3. CASE n \notin logic[c].stat BY <1>1, <2>1, <2>3 DEF Ends, Apart
  <2> QED BY <2>2, <2>3
<1>2. ASSUME Ts(c) # 0, NEW i \in Conn, conn[i].req # None, conn[i].req.begin_ts = Ts(c)
      PROVE  FALSE
  <2>1. Works(i, Ts(c)) BY <1>2 DEF Works
  <2>2. PICK n \in Host : logic[c].fd[n] = i BY <1>2, <2>1 DEF Marked
  <2>3. i # 0 BY Known
  <2> QED BY <1>1, <1>2, <2>2, <2>3 DEF Wire, Quiet
<1> QED BY <1>1, <1>2

\* cn is what conn becomes when c has sent Prepare to the storages S.
Asking(c, S, cn) ==
    cn = [i \in Conn |->
             IF conn[i].link = "open" /\ \E n \in S : logic[c].fd[n] = i
             THEN [conn[i] EXCEPT !.req = Message("prepare", Ts(c))] ELSE conn[i]]

LEMMA Sends ==
    ASSUME SessionsInv, NEW c \in Client, Ts(c) # 0, NEW S \in SUBSET Host, NEW cn,
           Asking(c, S, cn)
    PROVE  \A i \in Conn :
             /\ cn[i] \in ConnRec
             /\ cn[i].host = conn[i].host /\ cn[i].alive = conn[i].alive
             /\ cn[i].link = conn[i].link
             /\ cn[i].begin_ts = conn[i].begin_ts /\ cn[i].res = conn[i].res
             /\ \/ cn[i] = conn[i]
                \/ /\ conn[i].link = "open" /\ \E n \in S : logic[c].fd[n] = i
                   /\ cn[i].req.type = "prepare" /\ cn[i].req.begin_ts = Ts(c)
                   /\ cn[i].req # None
<1>1. Records /\ Tables /\ logic[c] \in LogicRec BY Known DEF SessionsInv
<1>2. PICK m : m = Message("prepare", Ts(c)) OBVIOUS
<1>3. m \in RpcReq
  <2>1. Ts(c) \in TS BY <1>1, BoundAssumption DEF LogicRec, Ts, TS
  <2> QED BY <1>2, <2>1 DEF Message, RpcReq
<1>4. m.type = "prepare" /\ m.begin_ts = Ts(c) /\ m # None BY <1>2 DEF Message, None
<1> TAKE i \in Conn
<1>5. CASE conn[i].link = "open" /\ \E n \in S : logic[c].fd[n] = i
  <2> DEFINE g == [conn[i] EXCEPT !.req = m]
  <2>1. cn[i] = g BY <1>2, <1>5 DEF Asking
  <2>2. /\ g \in ConnRec /\ g.host = conn[i].host /\ g.alive = conn[i].alive
        /\ g.link = conn[i].link /\ g.begin_ts = conn[i].begin_ts
        /\ g.res = conn[i].res /\ g.req = m
    <3>1. conn[i] \in ConnRec BY <1>1 DEF Records
    <3> QED BY <1>3, <3>1 DEF ConnRec
  <2> HIDE DEF g
  <2> QED BY <1>4, <1>5, <2>1, <2>2
<1>6. CASE ~(conn[i].link = "open" /\ \E n \in S : logic[c].fd[n] = i)
  <2>1. cn[i] = conn[i] BY <1>6 DEF Asking
  <2> QED BY <1>1, <2>1 DEF Records
<1> QED BY <1>5, <1>6

\* What ReqCommit finds.
LEMMA Committing ==
    ASSUME SessionsInv, NEW c \in Client, ReqCommit(c)
    PROVE  /\ logic[c].pc = "reading" /\ client[c].req # None /\ Ts(c) \in TS
           /\ Ts(c) <= clock /\ Participants(c) = logic[c].stat /\ list[Ts(c)] = {}
           /\ list' = [list EXCEPT ![Ts(c)] = logic[c].stat]
           /\ UNCHANGED <<rec, done, up, clock>>
           /\ \A ts \in TS : <<ts>> \in UNION {told[d] : d \in Client} => ts # Ts(c)
<1> USE DEF SessionsInv, Sides
<1>1. Records /\ Tables /\ logic[c] \in LogicRec /\ client[c] \in ClientRec BY Known
<1>2. logic[c].pc = "reading" /\ client[c].req.type = "commit" /\ Ts(c) # 0
  BY DEF ReqCommit, Received, Ts
<1>3. client[c].req # None BY <1>2 DEF None
<1>4. Ts(c) \in TS BY <1>1, <1>2, BoundAssumption DEF LogicRec, Ts, TS
<1>5. Shape(logic[c], client[c], clock) /\ Told(c) /\ Past(Ts(c)) BY <1>4 DEF Facts
<1>6. Participants(c) = logic[c].stat BY <1>1, <1>5 DEF Participants, Shape, LogicRec
<1>7. list[Ts(c)] = {} BY <1>2, <1>5 DEF Told
<1>8. Ts(c) <= clock BY <1>5 DEF Shape, Ts
<1>9. list' = [list EXCEPT ![Ts(c)] = logic[c].stat] /\ UNCHANGED <<rec, done, up, clock>>
  BY <1>6 DEF ReqCommit, Ts
<1>10. \A ts \in TS : <<ts>> \in UNION {told[d] : d \in Client} => ts # Ts(c)
  <2> SUFFICES ASSUME NEW d \in Client, <<Ts(c)>> \in told[d] PROVE FALSE OBVIOUS
  <2> QED BY <1>5 DEF Past
<1> QED BY <1>2, <1>3, <1>4, <1>6, <1>7, <1>8, <1>9, <1>10

\* SendMsg to a participant fails after those in S were asked: the session ends.
LEMMA CommitFails ==
    ASSUME SessionsInv, NEW c \in Client, ReqCommit(c), NEW S \in SUBSET logic[c].stat, NEW cn,
           Asking(c, S, cn), CloseSession(c, cn), UNCHANGED told
    PROVE  Sides' /\ Facts'
<1> USE DEF SessionsInv, Sides
<1>1. Records /\ Tables /\ logic[c] \in LogicRec BY Known
<1>2. /\ logic[c].pc = "reading" /\ client[c].req # None /\ Ts(c) \in TS /\ Ts(c) <= clock
      /\ list' = [list EXCEPT ![Ts(c)] = logic[c].stat]
      /\ UNCHANGED <<rec, done, up, clock>>
  BY Committing
<1> DEFINE D == {c}
<1>3. D \in SUBSET Client /\ UNCHANGED <<rec, done, told, up, clock>> BY <1>2
<1>4. \A d \in Client \ D : logic'[d] = logic[d] /\ client'[d] = client[d]
  BY <1>1 DEF CloseSession, Records
<1>5. \A d \in D : logic'[d] \in {NoSession, NewSession} /\ client'[d].req = None
  BY <1>1 DEF CloseSession, Records, Gone
<1>6. conn' = Close(cn, Sockets(D))
  <2>1. Sockets(D) = Fds(c) BY DEF Sockets
  <2> QED BY <2>1 DEF CloseSession
<1>7. \A ts \in TS : list'[ts] = list[ts] \/ \E d \in D : Ts(d) = ts BY <1>1, <1>2 DEF Tables
<1>8. ASSUME NEW i \in Conn
      PROVE  /\ cn[i] \in ConnRec
             /\ cn[i].host = conn[i].host /\ cn[i].alive = conn[i].alive
             /\ cn[i].begin_ts = conn[i].begin_ts
             /\ cn[i] = conn[i] \/ i \in Sockets(D)
             /\ cn[i].req # None =>
                  /\ cn[i].req.begin_ts <= clock
                  /\ Works(i, cn[i].req.begin_ts) \/ \E d \in D : Ts(d) = cn[i].req.begin_ts
             /\ cn[i].req.type = "begin" => list'[cn[i].req.begin_ts] = {}
             /\ cn[i].req.type = "prepare" => cn[i].host \in list'[cn[i].req.begin_ts]
  <2>1. Ts(c) # 0 /\ S \in SUBSET Host BY <1>1, <1>2, BoundAssumption DEF TS, LogicRec
  <2>2. /\ cn[i] \in ConnRec
        /\ cn[i].host = conn[i].host /\ cn[i].alive = conn[i].alive
        /\ cn[i].begin_ts = conn[i].begin_ts
        /\ \/ cn[i] = conn[i]
           \/ /\ \E n \in S : logic[c].fd[n] = i
              /\ cn[i].req.type = "prepare" /\ cn[i].req.begin_ts = Ts(c)
              /\ cn[i].req # None
    <3>1. Asking(c, S, cn) /\ SessionsInv OBVIOUS
    <3> HIDE DEF SessionsInv
    <3> QED BY <2>1, <3>1, Sends
  <2>3. CASE cn[i] = conn[i]
    <3>1. Wired(i) OBVIOUS
    <3>2. conn[i].req # None => conn[i].req.begin_ts # Ts(c) BY <1>2, <2>1, Resting
    <3>3. conn[i].req = None <=> conn[i].req.type = "none" BY Known
    <3>4. conn[i].req # None => conn[i].req.begin_ts \in TS
      <4>1. conn[i].req \in RpcReq \cup {None} BY <1>1 DEF Records, ConnRec
      <4> QED BY <4>1, RpcTypes
    <3>5. conn[i].req # None => list'[conn[i].req.begin_ts] = list[conn[i].req.begin_ts]
      BY <1>1, <1>2, <3>2, <3>4 DEF Tables
    <3> QED BY <2>2, <2>3, <3>1, <3>3, <3>5 DEF Wired, Works
  <2>4. CASE cn[i] # conn[i]
    <3>1. PICK n \in S : logic[c].fd[n] = i BY <2>2, <2>4
    <3>2. n \in Host /\ i # 0 BY <2>1, Known
    <3>3. i \in Sockets(D) BY <3>1, <3>2 DEF Sockets, Fds
    <3>4. conn[i].host = n BY <1>2, <3>1, <3>2, Resting DEF Wire
    <3>5. list'[Ts(c)] = logic[c].stat BY <1>1, <1>2 DEF Tables
    <3> QED BY <1>2, <2>2, <2>4, <3>1, <3>3, <3>4, <3>5
  <2> QED BY <2>3, <2>4
<1> HIDE DEF D
<1> QED BY <1>3, <1>4, <1>5, <1>6, <1>7, <1>8, Closing

\* All participants are asked.
LEMMA CommitSends ==
    ASSUME SessionsInv, NEW c \in Client, ReqCommit(c), Asking(c, logic[c].stat, conn'),
           logic' = [logic EXCEPT ![c].pc = "prepare"],
           client' = [client EXCEPT ![c].req = None], UNCHANGED told
    PROVE  Sides' /\ Facts'
<1> USE DEF SessionsInv, Sides
<1>1. Records /\ Tables /\ logic[c] \in LogicRec /\ client[c] \in ClientRec BY Known
<1>2. /\ logic[c].pc = "reading" /\ client[c].req # None /\ Ts(c) \in TS /\ Ts(c) <= clock
      /\ list' = [list EXCEPT ![Ts(c)] = logic[c].stat] /\ list[Ts(c)] = {}
      /\ UNCHANGED <<rec, done, up, clock>>
      /\ \A ts \in TS : <<ts>> \in UNION {told[d] : d \in Client} => ts # Ts(c)
  BY Committing
<1>3. Ts(c) # 0 /\ logic[c].stat \in SUBSET Host BY <1>1, <1>2, BoundAssumption DEF TS, LogicRec
<1>4. /\ logic'[c].pc = "prepare" /\ logic'[c].fd = logic[c].fd /\ logic'[c].stat = logic[c].stat
      /\ logic'[c].begin_ts = Ts(c) /\ logic'[c].host = logic[c].host
      /\ \A d \in Client \ {c} : logic'[d] = logic[d]
  <2>1. logic'[c] = [logic[c] EXCEPT !.pc = "prepare"] BY <1>1 DEF Records
  <2> QED BY <1>1, <2>1 DEF LogicRec, Records, Ts
<1>5. /\ client'[c].req = None /\ client'[c].here = client[c].here
      /\ client'[c].waits = client[c].waits
      /\ \A d \in Client \ {c} : client'[d] = client[d]
  <2>1. client'[c] = [client[c] EXCEPT !.req = None] BY <1>1 DEF Records
  <2> QED BY <1>1, <2>1 DEF ClientRec, Records
<1>6. \A d \in Client : Ts(d)' = Ts(d) BY <1>4 DEF Ts
<1>7. \A d \in Client, n \in Host : logic'[d].fd[n] = logic[d].fd[n] BY <1>4
<1>8. list'[Ts(c)] = logic[c].stat /\ \A ts \in TS \ {Ts(c)} : list'[ts] = list[ts]
  BY <1>1, <1>2 DEF Tables
<1>9. \A i \in Conn :
        /\ conn'[i].host = conn[i].host /\ conn'[i].alive = conn[i].alive
        /\ conn'[i].link = conn[i].link
        /\ conn'[i].begin_ts = conn[i].begin_ts /\ conn'[i].res = conn[i].res
        /\ \/ conn'[i] = conn[i]
           \/ /\ conn[i].link = "open" /\ \E n \in logic[c].stat : logic[c].fd[n] = i
              /\ conn'[i].req.type = "prepare" /\ conn'[i].req.begin_ts = Ts(c)
              /\ conn'[i].req # None
  <2>1. SessionsInv /\ Asking(c, logic[c].stat, conn') OBVIOUS
  <2> HIDE DEF SessionsInv
  <2>2. \A i \in Conn :
             /\ conn'[i] \in ConnRec
             /\ conn'[i].host = conn[i].host /\ conn'[i].alive = conn[i].alive
             /\ conn'[i].link = conn[i].link
             /\ conn'[i].begin_ts = conn[i].begin_ts /\ conn'[i].res = conn[i].res
             /\ \/ conn'[i] = conn[i]
                \/ /\ conn[i].link = "open" /\ \E n \in logic[c].stat : logic[c].fd[n] = i
                   /\ conn'[i].req.type = "prepare" /\ conn'[i].req.begin_ts = Ts(c)
                   /\ conn'[i].req # None
    BY <1>3, <2>1, Sends
  <2> QED BY <2>2
<1>10. ASSUME NEW d \in Client, NEW n \in Host, logic[d].fd[n] # 0,
              ~(d = c /\ n \in logic[c].stat)
       PROVE  conn'[logic[d].fd[n]] = conn[logic[d].fd[n]]
  <2>1. logic[d].fd[n] \in Conn BY <1>10, Known
  <2>2. SUFFICES ASSUME NEW m \in logic[c].stat, logic[c].fd[m] = logic[d].fd[n] PROVE FALSE
    BY <1>9, <2>1
  <2>3. m \in Host BY <1>3
  <2> QED BY <1>10, <2>2, <2>3 DEF Single
<1>11. Single' /\ OneEach' BY <1>6, <1>7, SinglesKept
<1>12. ASSUME NEW d \in Client \ {c}
       PROVE  Shape(logic'[d], client'[d], clock') /\ \A n \in Host : Ends(d, n)'
  <2>1. clock' \in Nat /\ clock <= clock' BY <1>1, <1>2 DEF Tables
  <2>2. \A n \in Host : logic[d].fd[n] # 0 => conn'[logic[d].fd[n]] = conn[logic[d].fd[n]]
    BY <1>10
  <2> QED BY <1>2, <1>4, <1>5, <2>1, <2>2, Others
<1>13. Shape(logic'[c], client'[c], clock')
  <2>1. Shape(logic[c], client[c], clock) OBVIOUS
  <2> QED BY <1>2, <1>3, <1>4, <1>5, <2>1 DEF Shape, Busy
<1>14. ASSUME NEW n \in Host PROVE Ends(c, n)'
  <2>1. Ends(c, n) /\ Record(c, n)' = Record(c, n) BY <1>2, <1>6 DEF Record
  <2>2. CASE logic[c].fd[n] = 0 BY <1>4, <2>2 DEF Ends
  <2>3. CASE logic[c].fd[n] # 0
    <3>a. PICK i : i = logic[c].fd[n] OBVIOUS
    <3>1. i \in Conn /\ Wire(c, n) = conn[i] /\ Wire(c, n)' = conn'[i]
      BY <1>7, <2>3, <3>a, Known DEF Wire
    <3>2. Quiet(conn[i]) /\ conn[i].host = n BY <1>2, <2>3, <3>1, Resting
    <3>3. CASE n \in logic[c].stat
      <4>1. Joined(logic[c], client[c], n, conn[i], Record(c, n), Ts(c) \in done[n])
        BY <2>1, <2>3, <3>1, <3>3 DEF Ends
      <4>2. conn'[i].req.type \in {"none", "prepare"}
        BY <1>9, <3>1, <3>2 DEF Quiet, None
      <4>3. conn'[i].req # None => conn'[i].req.begin_ts = Ts(c)
        BY <1>9, <3>1, <3>2 DEF Quiet
      <4>4. Joined(logic'[c], client'[c], n, conn'[i], Record(c, n), Ts(c) \in done'[n])
        <5>1. Record(c, n) # "none" BY <4>1 DEF Joined
        <5>2. conn[i].alive => conn[i].begin_ts = Ts(c) /\ Record(c, n) = "Begin"
          BY <1>2, <4>1 DEF Joined, Ts
        <5>3. conn'[i].res = None /\ conn'[i].alive = conn[i].alive
              /\ conn'[i].begin_ts = conn[i].begin_ts
          BY <1>9, <3>1, <3>2 DEF Quiet
        <5> QED BY <1>4, <4>2, <4>3, <5>1, <5>2, <5>3 DEF Joined
      <4>5. conn'[i].host = n /\ conn'[i].link # "none" BY <1>9, <2>1, <2>3, <3>1, <3>2 DEF Ends
      <4> QED BY <1>4, <1>6, <2>1, <3>1, <3>3, <4>4, <4>5 DEF Ends
    <3>4. CASE n \notin logic[c].stat
      <4>1. conn'[i] = conn[i] BY <1>10, <2>3, <3>a, <3>4
      <4>2. Apart(logic[c], n, conn[i], Record(c, n)) BY <2>1, <2>3, <3>1, <3>4 DEF Ends
      <4>3. Apart(logic'[c], n, conn'[i], Record(c, n)) BY <1>2, <1>4, <4>1, <4>2 DEF Apart
      <4> QED BY <1>4, <2>1, <2>3, <3>1, <3>4, <4>1, <4>3 DEF Ends
    <3> QED BY <3>3, <3>4
  <2> QED BY <2>2, <2>3
<1>15. ASSUME NEW i \in Conn PROVE Wired(i)' /\ Marked(i)'
  <2>1. Wired(i) /\ (Owned(i)' <=> Owned(i)) BY <1>7, OwnedKept
  <2>2. CASE conn'[i] = conn[i]
    <3>1. conn[i].req # None => conn[i].req.begin_ts # Ts(c) BY <1>2, <1>3, Resting
    <3>2. conn[i].req # None => conn[i].req.begin_ts \in TS
      <4>1. conn[i].req \in RpcReq \cup {None} BY <1>1 DEF Records, ConnRec
      <4> QED BY <4>1, RpcTypes
    <3>3. conn[i].req # None => list'[conn[i].req.begin_ts] = list[conn[i].req.begin_ts]
      BY <1>8, <3>1, <3>2
    <3>4. None.type = "none" BY DEF None
    <3>5. Wired(i)' BY <1>2, <2>1, <2>2, <3>3, <3>4 DEF Wired
    <3>6. \A ts : Works(i, ts)' => Works(i, ts) BY <2>2 DEF Works
    <3>7. Marked(i)' BY <1>6, <1>7, <3>6, MarkedKept
    <3> QED BY <3>5, <3>7
  <2>3. CASE conn'[i] # conn[i]
    <3>1. PICK n \in logic[c].stat : logic[c].fd[n] = i BY <1>9, <2>3
    <3>2. n \in Host /\ i # 0 BY <1>3, Known
    <3>3. Quiet(conn[i]) /\ conn[i].host = n BY <1>2, <3>1, <3>2, Resting DEF Wire
    <3>4. Wired(i)'
      <4>1. /\ conn'[i].host = n /\ conn'[i].alive = conn[i].alive
            /\ conn'[i].link = "open" /\ conn[i].link = "open"
            /\ conn'[i].begin_ts = conn[i].begin_ts /\ conn'[i].res = None
            /\ conn'[i].req.type = "prepare" /\ conn'[i].req.begin_ts = Ts(c)
            /\ conn'[i].req # None
        BY <1>9, <2>3, <3>3 DEF Quiet
      <4>2. n \in list'[Ts(c)] BY <1>8, <3>1
      <4>3. conn[i].alive BY <2>1, <4>1 DEF Wired
      <4> QED BY <1>2, <2>1, <3>3, <4>1, <4>2, <4>3 DEF Wired
    <3>5. Marked(i)'
      <4> SUFFICES ASSUME NEW d \in Client, Ts(d)' # 0, Works(i, Ts(d))'
                   PROVE  \E k \in Host : logic'[d].fd[k] = i
        BY DEF Marked
      <4>1. Ts(d)' = Ts(d) BY <1>6
      <4>2. conn'[i].begin_ts = conn[i].begin_ts /\ conn'[i].req.begin_ts = Ts(c) BY <1>9, <2>3
      <4>3. Works(i, Ts(d)) \/ Ts(d) = Ts(c) BY <4>1, <4>2 DEF Works
      <4>4. CASE Works(i, Ts(d))
        <5>1. PICK k \in Host : logic[d].fd[k] = i BY <4>1, <4>4 DEF Marked
        <5> QED BY <1>7, <5>1
      <4>5. CASE Ts(d) = Ts(c)
        <5>1. d = c BY <1>3, <4>5 DEF OneEach
        <5> QED BY <1>7, <3>1, <3>2, <5>1
      <4> QED BY <4>3, <4>4, <4>5
    <3> QED BY <3>4, <3>5
  <2> QED BY <2>2, <2>3
<1>16. Facts'
  <2> USE DEF Facts
  <2>1. ASSUME NEW d \in Client PROVE Told(d)'
    <3> SUFFICES ASSUME Ts(d)' # 0 PROVE Told(d)' BY DEF Told
    <3>1. Told(d) /\ Ts(d)' = Ts(d) BY <1>6
    <3>2. CASE d = c
      <4>1. \A n \in Host : <<Ts(c), n>> \in told[c] => Ts(c) \in done[n] /\ n \in logic[c].stat
        BY <1>2, <1>3, <3>1, <3>2 DEF Told
      <4> QED BY <1>2, <1>4, <1>8, <3>1, <3>2, <4>1 DEF Told
    <3>3. CASE d # c
      <4>1. Ts(d) # Ts(c) BY <1>3, <3>3 DEF OneEach
      <4>2. Ts(d) \in TS BY <1>1, <3>1, BoundAssumption DEF Records, LogicRec, Ts, TS
      <4>3. list'[Ts(d)] = list[Ts(d)] /\ logic'[d] = logic[d] BY <1>4, <1>8, <3>3, <4>1, <4>2
      <4> QED BY <1>2, <3>1, <4>3 DEF Told
    <3> QED BY <3>2, <3>3
  <2>2. ASSUME NEW ts \in TS PROVE Past(ts)'
    <3>1. Past(ts) /\ clock \in Nat /\ ts \in Nat /\ Ts(c) \in Nat BY <1>1, <1>2 DEF Tables, TS
    <3>2. ts > clock => list'[ts] = list[ts] BY <1>2, <1>8, <3>1
    <3> QED BY <1>2, <1>6, <3>1, <3>2 DEF Past
  <2>3. OkMeansPrepared'
    <3> SUFFICES ASSUME NEW d \in Client, NEW ts \in TS, <<ts>> \in told'[d], NEW k \in Host,
                        k \in list'[ts] \/ <<ts, k>> \in told'[d]
                 PROVE  k \in list'[ts] /\ rec'[k][ts] = "Prepared"
      BY DEF OkMeansPrepared
    <3>1. ts # Ts(c) BY <1>2
    <3>2. list'[ts] = list[ts] BY <1>8, <3>1
    <3> QED BY <1>2, <3>2 DEF OkMeansPrepared
  <2>4. AnswersAreDone' BY <1>2 DEF AnswersAreDone
  <2> QED BY <2>1, <2>2, <2>3, <2>4
<1> QED BY <1>11, <1>12, <1>13, <1>14, <1>15, <1>16

LEMMA IdleShape ==
    ASSUME NEW s, NEW l, NEW k \in Nat,
           s.pc = "idle", s.stat = {}, s.begin_ts = 0, l.req = None
    PROVE  Shape(s, l, k)
BY DEF Shape, Busy

\* The client commits a transaction without participants and is told so.
LEMMA CommitOfNothing ==
    ASSUME SessionsInv, NEW c \in Client, ReqCommit(c), logic[c].stat = {},
           logic' = [logic EXCEPT ![c].pc = "idle", ![c].begin_ts = 0],
           client' = [client EXCEPT ![c].req = None, ![c].waits = FALSE],
           told' = [told EXCEPT ![c] = @ \cup {<<Ts(c)>>}], UNCHANGED conn
    PROVE  Sides' /\ Facts'
<1> USE DEF SessionsInv, Sides
<1>1. Records /\ Tables /\ logic[c] \in LogicRec /\ client[c] \in ClientRec BY Known
<1>2. /\ logic[c].pc = "reading" /\ client[c].req # None /\ Ts(c) \in TS /\ Ts(c) <= clock
      /\ list' = [list EXCEPT ![Ts(c)] = {}] /\ list[Ts(c)] = {}
      /\ UNCHANGED <<rec, done, up, clock>>
  BY Committing
<1>3. Ts(c) # 0 /\ clock \in Nat BY <1>1, <1>2 DEF TS, Tables
<1>4. /\ logic'[c].pc = "idle" /\ logic'[c].fd = logic[c].fd /\ logic'[c].stat = {}
      /\ logic'[c].begin_ts = 0
      /\ \A d \in Client \ {c} : logic'[d] = logic[d]
  <2> DEFINE s == [logic[c] EXCEPT !.pc = "idle", !.begin_ts = 0]
  <2>1. logic'[c] = s BY <1>1 DEF Records
  <2>2. s.pc = "idle" /\ s.fd = logic[c].fd /\ s.stat = logic[c].stat /\ s.begin_ts = 0
    BY <1>1 DEF LogicRec
  <2> QED BY <1>1, <2>1, <2>2 DEF Records
<1>5. /\ client'[c].req = None
      /\ \A d \in Client \ {c} : client'[d] = client[d] /\ told'[d] = told[d]
      /\ told'[c] = told[c] \cup {<<Ts(c)>>}
  <2>1. client'[c] = [client[c] EXCEPT !.req = None, !.waits = FALSE] BY <1>1 DEF Records
  <2> QED BY <1>1, <2>1 DEF ClientRec, Records, Tables
<1>6. list' = list BY <1>1, <1>2 DEF Tables
<1>7. Ts(c)' = 0 /\ \A d \in Client \ {c} : Ts(d)' = Ts(d) BY <1>4 DEF Ts
<1>8. \A d \in Client, n \in Host : logic'[d].fd[n] = logic[d].fd[n] BY <1>4
<1>9. Single' /\ OneEach' BY <1>7, <1>8, SinglesKept
<1>10. ASSUME NEW d \in Client \ {c}
       PROVE  Shape(logic'[d], client'[d], clock') /\ \A n \in Host : Ends(d, n)'
  <2>1. clock' \in Nat /\ clock <= clock' BY <1>2, <1>3
  <2> QED BY <1>2, <1>4, <1>5, <2>1, Others
<1>11. Shape(logic'[c], client'[c], clock')
  <2>1. clock' = clock BY <1>2
  <2> QED BY <1>3, <1>4, <1>5, <2>1, IdleShape
<1>12. ASSUME NEW n \in Host PROVE Ends(c, n)'
  <2>1. Ends(c, n) /\ Record(c, n)' = "none" BY <1>7 DEF Record
  <2>2. Wire(c, n)' = Wire(c, n) BY <1>8 DEF Wire
  <2>3. ASSUME logic[c].fd[n] # 0 PROVE Apart(logic'[c], n, Wire(c, n), "none")
    <3>1. Apart(logic[c], n, Wire(c, n), Record(c, n)) BY <2>1, <2>3 DEF Ends
    <3> QED BY <1>2, <1>4, <3>1 DEF Apart
  <2> QED BY <1>4, <2>1, <2>2, <2>3 DEF Ends
<1>13. ASSUME NEW i \in Conn PROVE Wired(i)' /\ Marked(i)'
  <2>1. Owned(i)' <=> Owned(i) BY <1>8, OwnedKept
  <2>2. conn[i].alive => up'[conn[i].host] BY <1>2 DEF Wired
  <2>3. Wired(i)' BY <1>2, <1>6, <2>1, <2>2, WiredKept
  <2>4. \A ts : Works(i, ts)' => Works(i, ts) BY DEF Works
  <2>5. Marked(i)' BY <1>7, <1>8, <2>4, MarkedKept
  <2> QED BY <2>3, <2>5
<1>14. Told(c) BY DEF Facts
<1>15. \A d \in Client, ts \in TS, k \in Host : <<ts, k>> \in told'[d] <=> <<ts, k>> \in told[d]
  BY <1>5
<1>16. ASSUME NEW d \in Client, NEW x \in told'[d], x \notin told[d]
       PROVE  d = c /\ x = <<Ts(c)>>
  BY <1>5, <1>16
<1>17. Facts'
  <2> USE DEF Facts
  <2>1. ASSUME NEW d \in Client PROVE Told(d)'
    <3>1. CASE d = c BY <1>7, <3>1 DEF Told
    <3>2. CASE d # c
      <4>1. Told(d) /\ Ts(d)' = Ts(d) /\ logic'[d] = logic[d] /\ told'[d] = told[d]
        BY <1>4, <1>5, <1>7, <3>2
      <4> QED BY <1>2, <1>6, <4>1 DEF Told
    <3> QED BY <3>1, <3>2
  <2>2. ASSUME NEW ts \in TS PROVE Past(ts)'
    <3>1. Past(ts) /\ ts \in Nat /\ Ts(c) \in Nat BY <1>2 DEF TS
    <3>2. ts > clock => ts # Ts(c) BY <1>2, <1>3, <3>1
    <3>3. ts > clock => \A d \in Client : <<ts>> \notin told'[d]
      BY <1>16, <3>1, <3>2 DEF Past
    <3>4. ASSUME NEW d \in Client, <<ts>> \in told'[d] PROVE \A e \in Client : Ts(e)' # ts
      <4>1. CASE <<ts>> \in told[d] BY <1>7, <3>1, <4>1 DEF Past, TS
      <4>2. CASE <<ts>> \notin told[d]
        <5>1. ts = Ts(c) BY <1>16, <3>4, <4>2
        <5> QED BY <1>3, <1>7, <5>1 DEF OneEach
      <4> QED BY <4>1, <4>2
    <3> QED BY <1>2, <1>6, <1>15, <3>1, <3>3, <3>4 DEF Past
  <2>3. OkMeansPrepared'
    <3> SUFFICES ASSUME NEW d \in Client, NEW ts \in TS, <<ts>> \in told'[d], NEW k \in Host,
                        k \in list'[ts] \/ <<ts, k>> \in told'[d]
                 PROVE  k \in list'[ts] /\ rec'[k][ts] = "Prepared"
      BY DEF OkMeansPrepared
    <3>1. k \in list[ts] \/ <<ts, k>> \in told[d] BY <1>6, <1>15
    <3>2. CASE <<ts>> \in told[d] BY <1>2, <1>6, <3>1, <3>2 DEF OkMeansPrepared
    <3>3. CASE <<ts>> \notin told[d]
      <4>1. d = c /\ ts = Ts(c) BY <1>16, <3>3
      <4> QED BY <1>2, <1>3, <1>14, <3>1, <4>1 DEF Told
    <3> QED BY <3>2, <3>3
  <2>4. AnswersAreDone' BY <1>2, <1>15 DEF AnswersAreDone
  <2> QED BY <2>1, <2>2, <2>3, <2>4
<1> QED BY <1>9, <1>10, <1>11, <1>12, <1>13, <1>17

LEMMA CommitKeeps ==
    ASSUME SessionsInv, NEW c \in Client, ReqCommit(c) PROVE Sides' /\ Facts'
<1>1. Participants(c) = logic[c].stat BY Committing
<1> DEFINE Sent(S) == [i \in Conn |->
               IF conn[i].link = "open" /\ \E n \in S : logic[c].fd[n] = i
               THEN [conn[i] EXCEPT !.req = Message("prepare", logic[c].begin_ts)]
               ELSE conn[i]]
<1>2. \A S, cn : cn = Sent(S) => Asking(c, S, cn) BY DEF Asking, Ts
<1> HIDE DEF Sent
<1>3. \/ /\ conn' = Sent(logic[c].stat)
         /\ logic' = [logic EXCEPT ![c].pc = "prepare"]
         /\ client' = [client EXCEPT ![c].req = None]
         /\ UNCHANGED told
      \/ \E n \in logic[c].stat :
           CloseSession(c, Sent({m \in logic[c].stat : m < n})) /\ UNCHANGED told
      \/ /\ logic[c].stat = {}
         /\ logic' = [logic EXCEPT ![c].pc = "idle", ![c].begin_ts = 0]
         /\ client' = [client EXCEPT ![c].req = None, ![c].waits = FALSE]
         /\ told' = [told EXCEPT ![c] = @ \cup {<<logic[c].begin_ts>>}]
         /\ UNCHANGED conn
  <2> DEFINE P == Participants(c)
  <2>1. \/ /\ conn' = Sent(P)
           /\ logic' = [logic EXCEPT ![c].pc = "prepare"]
           /\ client' = [client EXCEPT ![c].req = None]
           /\ UNCHANGED told
        \/ \E n \in P : CloseSession(c, Sent({m \in P : m < n})) /\ UNCHANGED told
        \/ /\ P = {}
           /\ logic' = [logic EXCEPT ![c].pc = "idle", ![c].begin_ts = 0]
           /\ client' = [client EXCEPT ![c].req = None, ![c].waits = FALSE]
           /\ told' = [told EXCEPT ![c] = @ \cup {<<logic[c].begin_ts>>}]
           /\ UNCHANGED conn
    BY Zenon DEF ReqCommit, Sent
  <2>2. P = logic[c].stat BY <1>1
  <2> QED BY <2>1, <2>2
<1>4. CASE /\ conn' = Sent(logic[c].stat)
           /\ logic' = [logic EXCEPT ![c].pc = "prepare"]
           /\ client' = [client EXCEPT ![c].req = None]
           /\ UNCHANGED told
  <2>1. Asking(c, logic[c].stat, conn') BY <1>2, <1>4
  <2> QED BY <1>4, <2>1, CommitSends
<1>5. CASE \E n \in logic[c].stat :
             CloseSession(c, Sent({m \in logic[c].stat : m < n})) /\ UNCHANGED told
  <2>1. PICK S \in SUBSET logic[c].stat : CloseSession(c, Sent(S)) /\ UNCHANGED told BY <1>5
  <2>2. PICK cn : cn = Sent(S) OBVIOUS
  <2>3. Asking(c, S, cn) /\ CloseSession(c, cn) BY <1>2, <2>1, <2>2
  <2> QED BY <2>1, <2>3, CommitFails
<1>6. CASE /\ logic[c].stat = {}
           /\ logic' = [logic EXCEPT ![c].pc = "idle", ![c].begin_ts = 0]
           /\ client' = [client EXCEPT ![c].req = None, ![c].waits = FALSE]
           /\ told' = [told EXCEPT ![c] = @ \cup {<<logic[c].begin_ts>>}]
           /\ UNCHANGED conn
  BY <1>6, CommitOfNothing DEF Ts
<1> QED BY <1>3, <1>4, <1>5, <1>6

LEMMA BeganShape ==
    ASSUME NEW s, NEW l, NEW k \in Nat,
           s.pc = "idle", s.stat = {}, s.begin_ts = k, l.req = None
    PROVE  Shape(s, l, k)
BY DEF Shape, Busy

\* One clock gives every Begin a timestamp of its own.
LEMMA BeginReqKeeps ==
    ASSUME SessionsInv, SharedTick = FALSE, NEW c \in Client, ReqBegin(c)
    PROVE  Sides' /\ Facts'
<1> USE DEF SessionsInv, Sides
<1>1. Records /\ Tables /\ logic[c] \in LogicRec /\ client[c] \in ClientRec BY Known
<1>2. PICK ts \in TS :
        /\ logic[c].pc = "reading" /\ client[c].req.type = "begin" /\ Ts(c) = 0
        /\ Forget(c) /\ ts = clock + 1
        /\ logic' = [logic EXCEPT ![c].pc = "idle", ![c].begin_ts = ts]
        /\ clock' = IF ts > clock THEN ts ELSE clock
        /\ client' = [client EXCEPT ![c].req = None, ![c].waits = FALSE]
        /\ UNCHANGED <<conn, rec, list, up>>
  <2>1. NewTS(c) \subseteq {t \in TS : t = clock + 1} BY DEF NewTS
  <2> QED BY <2>1 DEF ReqBegin, Received, Ts
<1>3. clock \in Nat /\ ts \in Nat /\ ts > clock /\ clock' = ts /\ ts # 0
  BY <1>1, <1>2 DEF Tables, TS
<1>4. logic[c].stat = {} /\ client[c].req # None
  <2>1. Shape(logic[c], client[c], clock) OBVIOUS
  <2> QED BY <1>2, <2>1 DEF Shape, Ts, None
<1>5. /\ logic'[c].pc = "idle" /\ logic'[c].fd = logic[c].fd /\ logic'[c].stat = {}
      /\ logic'[c].begin_ts = ts
      /\ \A d \in Client \ {c} : logic'[d] = logic[d]
  <2> DEFINE s == [logic[c] EXCEPT !.pc = "idle", !.begin_ts = ts]
  <2>1. logic'[c] = s BY <1>1, <1>2 DEF Records
  <2>2. s.pc = "idle" /\ s.fd = logic[c].fd /\ s.stat = logic[c].stat /\ s.begin_ts = ts
    BY <1>1 DEF LogicRec
  <2> QED BY <1>1, <1>2, <1>4, <2>1, <2>2 DEF Records
<1>6. /\ client'[c].req = None
      /\ \A d \in Client \ {c} : client'[d] = client[d]
  <2>1. client'[c] = [client[c] EXCEPT !.req = None, !.waits = FALSE] BY <1>1, <1>2 DEF Records
  <2> QED BY <1>1, <1>2, <2>1 DEF ClientRec, Records
<1>7. /\ told'[c] = told[c] \ (TS \X Host)
      /\ \A d \in Client \ {c} : told'[d] = told[d]
      /\ \A n \in Host, t \in TS :
           t \in done'[n] <=> t \in done[n] /\ \E d \in Client \ {c} : Ts(d) = t \/ <<t, n>> \in told[d]
  <2>1. \A n \in Host : done[n] \subseteq TS BY <1>1 DEF Tables
  <2> QED BY <1>1, <1>2, <2>1 DEF Forget, Tables, Ts
<1>8. Ts(c)' = ts /\ \A d \in Client \ {c} : Ts(d)' = Ts(d) BY <1>5 DEF Ts
<1>9. \A d \in Client, n \in Host : logic'[d].fd[n] = logic[d].fd[n] BY <1>5
<1>10. \A d \in Client : Ts(d) <= clock /\ Ts(d) \in Nat
  <2> TAKE d \in Client
  <2>1. Shape(logic[d], client[d], clock) /\ logic[d] \in LogicRec BY Known
  <2> QED BY <2>1 DEF Shape, Ts, LogicRec
<1>11. \A d \in Client : Ts(d) # ts BY <1>3, <1>10
<1>12. Single' BY <1>9 DEF Single
<1>13. OneEach' BY <1>8, <1>11 DEF OneEach
<1>14. ASSUME NEW d \in Client \ {c}
       PROVE  Shape(logic'[d], client'[d], clock') /\ \A n \in Host : Ends(d, n)'
  <2>1. clock' \in Nat /\ clock <= clock' BY <1>3
  <2>2. ASSUME NEW n \in Host, Ts(d) \in done[n] PROVE Ts(d) \in done'[n]
    <3>1. Ts(d) \in TS BY <1>1, <2>2 DEF Tables
    <3> QED BY <1>7, <2>2, <3>1
  <2> QED BY <1>2, <1>5, <1>6, <2>1, <2>2, Others
<1>15. Shape(logic'[c], client'[c], clock')
  <2>1. clock' = ts /\ ts \in Nat BY <1>3
  <2> QED BY <1>5, <1>6, <2>1, BeganShape
<1>16. Past(ts) BY DEF Facts
<1>17. ASSUME NEW n \in Host PROVE Ends(c, n)'
  <2>1. Ends(c, n) OBVIOUS
  <2>2. Wire(c, n)' = Wire(c, n) BY <1>2, <1>9 DEF Wire
  <2>3. Record(c, n)' = "none" BY <1>2, <1>3, <1>8, <1>16 DEF Record, Past
  <2>4. ASSUME logic[c].fd[n] # 0 PROVE Apart(logic'[c], n, Wire(c, n), "none")
    <3>1. Apart(logic[c], n, Wire(c, n), Record(c, n)) BY <1>4, <2>1, <2>4 DEF Ends
    <3> QED BY <1>2, <1>5, <3>1 DEF Apart
  <2> QED BY <1>5, <2>1, <2>2, <2>3, <2>4 DEF Ends
<1>18. ASSUME NEW i \in Conn PROVE Wired(i)' /\ Marked(i)'
  <2>1. Owned(i)' <=> Owned(i) BY <1>9, OwnedKept
  <2>2. Wired(i) /\ conn' = conn /\ list' = list /\ up' = up BY <1>2
  <2>3. conn[i].begin_ts \in Nat /\ (conn[i].req # None => conn[i].req.begin_ts \in Nat)
    <3>1. conn[i] \in ConnRec BY Known
    <3>2. conn[i].req \in RpcReq \cup {None} BY <3>1 DEF ConnRec
    <3> QED BY <3>1, <3>2, RpcTypes DEF ConnRec, TS
  <2>4. conn[i].begin_ts <= clock /\ (conn[i].req # None => conn[i].req.begin_ts <= clock)
    BY <2>2 DEF Wired
  <2>5. conn[i].begin_ts <= clock' /\ (conn[i].req # None => conn[i].req.begin_ts <= clock')
    BY <1>3, <2>3, <2>4
  <2>6. Wired(i)' BY <2>1, <2>2, <2>5 DEF Wired
  <2>7. ~Works(i, ts) BY <1>3, <2>3, <2>4 DEF Works
  <2>8. \A t : Works(i, t)' <=> Works(i, t) BY <2>2 DEF Works
  <2>9. ASSUME NEW d \in Client, Ts(d)' # 0, Works(i, Ts(d)')
        PROVE  \E n \in Host : logic'[d].fd[n] = i
    <3>1. d # c BY <1>8, <2>7, <2>9
    <3>2. Ts(d)' = Ts(d) BY <1>8, <3>1
    <3>3. PICK n \in Host : logic[d].fd[n] = i BY <2>9, <3>2 DEF Marked
    <3> QED BY <1>9, <3>3
  <2>10. Marked(i)' BY <2>8, <2>9 DEF Marked
  <2> QED BY <2>6, <2>10
<1>19. Facts'
  <2> USE DEF Facts
  <2>1. ASSUME NEW d \in Client, NEW t \in TS, NEW n \in Host, <<t, n>> \in told'[d]
        PROVE  d # c /\ <<t, n>> \in told[d]
    BY <1>7, <2>1
  <2>2. ASSUME NEW d \in Client, NEW t \in TS PROVE <<t>> \in told'[d] => <<t>> \in told[d]
    BY <1>7
  <2>3. ASSUME NEW d \in Client PROVE Told(d)'
    <3>1. CASE d = c
      <4>1. list[ts] = {} BY <1>3, <1>16 DEF Past
      <4>2. \A n \in Host : <<ts, n>> \notin told'[c] BY <2>1
      <4> QED BY <1>2, <1>5, <1>8, <3>1, <4>1, <4>2 DEF Told
    <3>2. CASE d # c
      <4>1. Told(d) /\ Ts(d)' = Ts(d) /\ logic'[d] = logic[d] /\ told'[d] = told[d]
        BY <1>5, <1>7, <1>8, <3>2
      <4> SUFFICES ASSUME Ts(d) # 0 PROVE Told(d)' BY <4>1 DEF Told
      <4>2. Ts(d) \in TS BY <1>1, BoundAssumption DEF Records, LogicRec, Ts, TS
      <4>3. \A n \in Host : Ts(d) \in done[n] => Ts(d) \in done'[n] BY <1>7, <3>2, <4>2
      <4>4. list' = list /\ rec' = rec BY <1>2
      <4> QED BY <4>1, <4>3, <4>4 DEF Told
    <3> QED BY <3>1, <3>2
  <2>4. ASSUME NEW t \in TS PROVE Past(t)'
    <3>1. Past(t) /\ t \in Nat BY DEF TS
    <3>2. t > clock' => t > clock BY <1>3, <3>1
    <3>3. \A n \in Host : t \in done'[n] => t \in done[n] BY <1>7
    <3>4. ASSUME NEW d \in Client, <<t>> \in told'[d] PROVE \A e \in Client : Ts(e)' # t
      <4>1. <<t>> \in told[d] BY <2>2, <3>4
      <4>2. t # ts BY <1>3, <3>1, <4>1 DEF Past
      <4> QED BY <1>8, <3>1, <4>1, <4>2 DEF Past
    <3> QED BY <1>2, <2>1, <2>2, <3>1, <3>2, <3>3, <3>4 DEF Past
  <2>5. OkMeansPrepared'
    <3> SUFFICES ASSUME NEW d \in Client, NEW t \in TS, <<t>> \in told'[d], NEW k \in Host,
                        k \in list'[t] \/ <<t, k>> \in told'[d]
                 PROVE  k \in list'[t] /\ rec'[k][t] = "Prepared"
      BY DEF OkMeansPrepared
    <3>1. <<t>> \in told[d] /\ (k \in list[t] \/ <<t, k>> \in told[d]) BY <1>2, <2>1, <2>2
    <3> QED BY <1>2, <3>1 DEF OkMeansPrepared
  <2>6. AnswersAreDone'
    <3> SUFFICES ASSUME NEW d \in Client, NEW t \in TS, NEW k \in Host, <<t, k>> \in told'[d]
                 PROVE  t \in done'[k]
      BY DEF AnswersAreDone
    <3>1. d # c /\ <<t, k>> \in told[d] BY <2>1
    <3> QED BY <1>7, <3>1 DEF AnswersAreDone
  <2> QED BY <2>3, <2>4, <2>5, <2>6
<1> QED BY <1>12, <1>13, <1>14, <1>15, <1>17, <1>18, <1>19

\* The session of c sends n a data request or Begin, over the connection i it
\* has or has just made.
LEMMA Asks ==
    ASSUME SessionsInv, NEW c \in Client, NEW n \in Host, NEW i \in Conn, NEW type, NEW m,
           logic[c].pc = "reading", client[c].req # None, Ts(c) # 0,
           type = (IF n \in logic[c].stat THEN "data" ELSE "begin"),
           m = Message(type, Ts(c)),
           logic'[c].pc = type, logic'[c].host = n, logic'[c].fd[n] = i,
           \A k \in Host \ {n} : logic'[c].fd[k] = logic[c].fd[k],
           logic'[c].stat = logic[c].stat, logic'[c].begin_ts = Ts(c),
           client'[c].req = None, client'[c].here = client[c].here,
           client'[c].waits = client[c].waits,
           \A d \in Client \ {c} : logic'[d] = logic[d] /\ client'[d] = client[d],
           UNCHANGED <<rec, done, list, told, up, clock>>,
           \A j \in Conn \ {i} : conn'[j] = conn[j],
           conn'[i].host = n, conn'[i].link # "none", conn'[i].res = None,
           conn'[i].req = None \/ conn'[i].req = m,
           conn'[i].alive => up[n], conn'[i].link = "open" => conn'[i].alive,
           ~conn'[i].alive => conn'[i].begin_ts = 0 /\ conn'[i].req = None,
           \/ logic[c].fd[n] = i /\ conn'[i].begin_ts = conn[i].begin_ts
              /\ conn'[i].alive = conn[i].alive
           \/ logic[c].fd[n] = 0 /\ conn[i] = NoConn /\ conn'[i].begin_ts = 0
    PROVE  Sides' /\ Facts'
<1> USE DEF SessionsInv, Sides
<1>1. Records /\ Tables /\ logic[c] \in LogicRec /\ client[c] \in ClientRec /\ i # 0 BY Known
<1>2. m.type = type /\ m.begin_ts = Ts(c) /\ m # None /\ type \in {"data", "begin"}
  BY DEF Message, None
<1>5. \A d \in Client : Ts(d)' = Ts(d) BY DEF Ts
<1>6. Shape(logic[c], client[c], clock) /\ clock \in Nat BY <1>1 DEF Tables
<1>7. n \in logic[c].stat => logic[c].fd[n] = i
  BY <1>1, <1>6 DEF Shape
<1>8. ASSUME NEW d \in Client, NEW k \in Host, ~(d = c /\ k = n) PROVE logic[d].fd[k] # i
  <2>1. CASE logic[c].fd[n] = i BY <1>1, <1>8, <2>1 DEF Single
  <2>2. CASE conn[i] = NoConn
    <3>1. Ends(d, k) OBVIOUS
    <3>2. conn[i].link = "none" BY <2>2 DEF NoConn
    <3> QED BY <1>1, <3>1, <3>2 DEF Ends, Wire
  <2> QED BY <2>1, <2>2
<1>9. ASSUME NEW d \in Client, NEW k \in Host, ~(d = c /\ k = n)
      PROVE  /\ logic'[d].fd[k] = logic[d].fd[k]
             /\ logic[d].fd[k] # 0 => conn'[logic[d].fd[k]] = conn[logic[d].fd[k]]
  <2>1. logic[d].fd[k] # 0 => logic[d].fd[k] \in Conn BY Known
  <2> QED BY <1>8, <1>9, <2>1
<1>10. Single'
  <2>1. \A d, e \in Client, k, l \in Host :
          logic'[d].fd[k] # 0 /\ logic'[d].fd[k] = logic'[e].fd[l] => d = e /\ k = l
    BY <1>8, <1>9 DEF Single
  <2> QED BY <2>1 DEF Single
<1>11. OneEach' BY <1>5 DEF OneEach
<1>12. ASSUME NEW d \in Client \ {c}
       PROVE  Shape(logic'[d], client'[d], clock') /\ \A k \in Host : Ends(d, k)'
  <2>1. clock' \in Nat /\ clock <= clock' BY <1>6
  <2>2. \A k \in Host : logic[d].fd[k] # 0 => conn'[logic[d].fd[k]] = conn[logic[d].fd[k]]
    BY <1>9
  <2> QED BY <2>1, <2>2, Others
<1>13. Shape(logic'[c], client'[c], clock')
  <2>1. \A k \in logic'[c].stat : logic'[c].fd[k] # 0
    <3>1. \A k \in logic[c].stat : k \in Host /\ logic[c].fd[k] # 0
      BY <1>1, <1>6 DEF LogicRec, Shape
    <3> QED BY <1>1, <3>1
  <2>2. client[c].here => client[c].waits BY <1>6 DEF Shape
  <2>3. Ts(c) <= clock' BY <1>6 DEF Shape, Ts
  <2> QED BY <1>1, <1>2, <2>1, <2>2, <2>3 DEF Shape, Busy
<1>14. ASSUME NEW k \in Host PROVE Ends(c, k)'
  <2>1. Ends(c, k) /\ Record(c, k)' = Record(c, k) BY <1>5 DEF Record
  <2>2. k \notin logic[c].stat => Record(c, k) = "none" BY <2>1 DEF Ends
  <2>3. CASE k = n
    <3>1. Wire(c, n)' = conn'[i] BY DEF Wire
    <3>2. CASE n \in logic[c].stat
      <4>1. Wire(c, n) = conn[i] /\ logic[c].fd[n] # 0 BY <1>1, <1>7, <3>2 DEF Wire
      <4>2. Joined(logic[c], client[c], n, conn[i], Record(c, n), Ts(c) \in done[n])
        BY <2>1, <2>3, <3>2, <4>1 DEF Ends
      <4>3. /\ Record(c, n) # "none"
            /\ conn'[i].alive => conn'[i].begin_ts = Ts(c) /\ Record(c, n) = "Begin"
        BY <1>1, <1>7, <3>2, <4>2 DEF Joined, Ts
      <4>4. type = "data" /\ conn'[i].req.type \in {"none", "data"}
            /\ (conn'[i].req # None => conn'[i].req.begin_ts = Ts(c))
        <5>1. type = "data" BY <3>2
        <5> QED BY <1>2, <5>1 DEF None
      <4>5. Joined(logic'[c], client'[c], n, conn'[i], Record(c, n), Ts(c) \in done'[n])
        BY <4>3, <4>4 DEF Joined
      <4> QED BY <1>5, <2>1, <2>3, <3>1, <3>2, <4>5 DEF Ends
    <3>3. CASE n \notin logic[c].stat
      <4>1. type = "begin" /\ Record(c, n) = "none" BY <2>2, <2>3, <3>3
      <4>2. conn'[i].begin_ts = 0
        <5>1. CASE logic[c].fd[n] = i /\ conn'[i].begin_ts = conn[i].begin_ts
          <6>1. Wire(c, n) = conn[i] /\ logic[c].fd[n] # 0 BY <1>1, <5>1 DEF Wire
          <6>2. Apart(logic[c], n, conn[i], Record(c, n))
            BY <2>1, <2>3, <3>3, <6>1 DEF Ends
          <6> QED BY <5>1, <6>2 DEF Apart
        <5> QED BY <5>1
      <4>3. conn'[i].req # None => conn'[i].req.type = "begin" /\ conn'[i].req.begin_ts = Ts(c)
        BY <1>2, <4>1
      <4>4. Apart(logic'[c], n, conn'[i], Record(c, n)) BY <4>1, <4>2, <4>3 DEF Apart
      <4> QED BY <2>1, <2>3, <3>1, <3>3, <4>1, <4>4 DEF Ends
    <3> QED BY <3>2, <3>3
  <2>4. CASE k # n
    <3>1. logic'[c].fd[k] = logic[c].fd[k]
          /\ (logic[c].fd[k] # 0 => Wire(c, k)' = Wire(c, k))
      BY <1>9, <2>4 DEF Wire
    <3>2. logic[c].fd[k] # 0 => Quiet(Wire(c, k)) BY Resting
    <3>3. ASSUME logic[c].fd[k] # 0, k \in logic[c].stat
          PROVE  Joined(logic'[c], client'[c], k, Wire(c, k), Record(c, k), Ts(c) \in done[k])
      <4>1. Joined(logic[c], client[c], k, Wire(c, k), Record(c, k), Ts(c) \in done[k])
        BY <2>1, <3>3 DEF Ends
      <4>2. Record(c, k) # "none" /\ Quiet(Wire(c, k))
            /\ (Wire(c, k).alive => Wire(c, k).begin_ts = Ts(c) /\ Record(c, k) = "Begin")
        BY <3>2, <3>3, <4>1 DEF Joined, Ts
      <4>3. None.type = "none" BY DEF None
      <4> QED BY <1>2, <4>2, <4>3 DEF Joined, Quiet
    <3>4. ASSUME logic[c].fd[k] # 0, k \notin logic[c].stat
          PROVE  Apart(logic'[c], k, Wire(c, k), Record(c, k))
      <4>1. Apart(logic[c], k, Wire(c, k), Record(c, k)) BY <2>1, <3>4 DEF Ends
      <4> QED BY <2>4, <4>1 DEF Apart
    <3> QED BY <1>5, <2>1, <2>2, <2>4, <3>1, <3>3, <3>4 DEF Ends
  <2> QED BY <2>3, <2>4
<1>15. \A j \in Conn : Wired(j)' /\ Marked(j)'
  <2>1. UNCHANGED <<list, up, clock>> OBVIOUS
  <2>2. Ts(c)' \in {0, Ts(c)} BY <1>5
  <2>3. \A k \in Host :
          /\ logic[c].fd[k] # 0 => logic'[c].fd[k] = logic[c].fd[k]
          /\ logic'[c].fd[k] \in {logic[c].fd[k], i}
    BY <1>1
  <2>4. \E k \in Host : logic'[c].fd[k] = i OBVIOUS
  <2>5. /\ conn'[i].alive => up[conn'[i].host]
        /\ conn'[i].res # None => conn'[i].req = None
    OBVIOUS
  <2>6. conn'[i].begin_ts \in {0, conn[i].begin_ts} OBVIOUS
  <2>7. list[Ts(c)] = {} BY DEF Facts, Told
  <2>8. \/ conn'[i].req = None
        \/ /\ conn'[i].req.begin_ts = Ts(c)
           /\ conn'[i].req.type \in {"data", "begin"}
           /\ conn'[i].req.type = "begin" => list[Ts(c)] = {}
    BY <1>2, <2>7
  <2>9. \A d \in Client \ {c} : logic'[d] = logic[d] OBVIOUS
  <2>10. conn'[i].link = "open" => conn'[i].alive OBVIOUS
  <2>11. ~conn'[i].alive => conn'[i].begin_ts = 0 /\ conn'[i].req = None OBVIOUS
  <2> QED BY <2>1, <2>2, <2>3, <2>4, <2>5, <2>6, <2>8, <2>9, <2>10, <2>11, Using
<1>16. Facts'
  <2>1. \A d \in Client : /\ Ts(d)' = Ts(d) /\ logic[d].stat \subseteq logic'[d].stat
                          /\ logic'[d].pc = "prepare" <=> logic[d].pc = "prepare"
                          /\ logic[d].pc = "prepare" => logic'[d].stat = logic[d].stat
    BY <1>2, <1>5
  <2> QED BY <2>1, FactsKept
<1> QED BY <1>10, <1>11, <1>12, <1>13, <1>14, <1>15, <1>16

\* SendMsg changes the request of its connection, if the link is open.
LEMMA SendsOne ==
    ASSUME NEW cn \in [Conn -> ConnRec], NEW i \in Conn, NEW m
    PROVE  LET h == SendMsg(cn, i, m)
           IN  /\ \A j \in Conn \ {i} : h[j] = cn[j]
               /\ h[i].host = cn[i].host /\ h[i].link = cn[i].link /\ h[i].alive = cn[i].alive
               /\ h[i].begin_ts = cn[i].begin_ts /\ h[i].res = cn[i].res
               /\ h[i].req = IF cn[i].link = "open" THEN m ELSE cn[i].req
<1> DEFINE r == IF cn[i].link = "open" THEN m ELSE cn[i].req
           g == [cn[i] EXCEPT !.req = r]
<1>1. SendMsg(cn, i, m) = [cn EXCEPT ![i] = g] BY DEF SendMsg
<1>2. /\ g.host = cn[i].host /\ g.link = cn[i].link /\ g.alive = cn[i].alive
      /\ g.begin_ts = cn[i].begin_ts /\ g.res = cn[i].res /\ g.req = r
  <2>1. cn[i] \in ConnRec OBVIOUS
  <2> HIDE DEF r
  <2> QED BY <2>1 DEF ConnRec
<1> HIDE DEF g
<1> QED BY <1>1, <1>2

LEMMA DataReqKeeps ==
    ASSUME SessionsInv, NEW c \in Client, ReqData(c) PROVE Sides' /\ Facts'
<1> USE DEF SessionsInv, Sides
<1> SUFFICES ASSUME ~EndSession(c) PROVE Sides' /\ Facts' BY EndKeeps
<1>1. /\ Records /\ Tables /\ logic[c] \in LogicRec /\ client[c] \in ClientRec
      /\ conn \in [Conn -> ConnRec]
  BY Known DEF Records
<1>2. /\ logic[c].pc = "reading" /\ client[c].req.type = "data" /\ Ts(c) # 0
  BY DEF ReqData, Received, Ts
<1>3. client[c].req # None BY <1>2 DEF None
<1>4. PICK n \in Host : n = client[c].req.host
  <2>1. client[c].req \in Requests BY <1>1, <1>3 DEF ClientRec
  <2> QED BY <1>2, <2>1 DEF Requests
<1>5. PICK type : type = IF n \in logic[c].stat THEN "data" ELSE "begin" OBVIOUS
<1>6. PICK m : m = Message(type, Ts(c)) OBVIOUS
<1>7. PICK i \in Conn, cn \in [Conn -> ConnRec] :
        /\ conn' = SendMsg(cn, i, m)
        /\ logic' = [logic EXCEPT ![c].pc = type, ![c].host = n, ![c].fd[n] = i]
        /\ client' = [client EXCEPT ![c].req = None]
        /\ UNCHANGED <<rec, done, list, told, up, clock>>
        /\ \/ logic[c].fd[n] = i /\ i # 0 /\ cn = conn
           \/ /\ logic[c].fd[n] = 0 /\ up[n] /\ conn[i] = NoConn
              /\ cn = [conn EXCEPT ![i] = [NoConn EXCEPT !.host = n, !.link = "open", !.alive = TRUE]]
  <2> DEFINE Ask(h, j) ==
               /\ conn' = SendMsg(h, j, m)
               /\ logic' = [logic EXCEPT ![c].pc = type, ![c].host = n, ![c].fd[n] = j]
               /\ client' = [client EXCEPT ![c].req = None]
               /\ UNCHANGED <<rec, done, list, told, up, clock>>
             new == [NoConn EXCEPT !.host = n, !.link = "open", !.alive = TRUE]
  <2>1. \/ logic[c].fd[n] # 0 /\ Ask(conn, logic[c].fd[n])
        \/ /\ logic[c].fd[n] = 0 /\ up[n]
           /\ \E j \in Conn : FreeConn(j) /\ Ask([conn EXCEPT ![j] = new], j)
    BY <1>4, <1>5, <1>6 DEF ReqData, Ts
  <2>2. new \in ConnRec BY RecordTypes DEF ConnRec
  <2> HIDE DEF Ask, new
  <2>3. CASE logic[c].fd[n] # 0 /\ Ask(conn, logic[c].fd[n])
    <3>1. logic[c].fd[n] \in Conn BY <2>3, Known
    <3> QED BY <1>1, <2>3, <3>1 DEF Ask
  <2>4. CASE /\ logic[c].fd[n] = 0 /\ up[n]
             /\ \E j \in Conn : FreeConn(j) /\ Ask([conn EXCEPT ![j] = new], j)
    <3>1. PICK j \in Conn : FreeConn(j) /\ Ask([conn EXCEPT ![j] = new], j) BY <2>4
    <3>2. PICK h : h = [conn EXCEPT ![j] = new] OBVIOUS
    <3>3. h \in [Conn -> ConnRec] BY <1>1, <2>2, <3>2
    <3>4. Ask(h, j) /\ conn[j] = NoConn BY <3>1, <3>2 DEF FreeConn
    <3> QED BY <2>4, <3>2, <3>3, <3>4 DEF Ask, new
  <2> QED BY <2>1, <2>3, <2>4
<1>8. /\ logic'[c].pc = type /\ logic'[c].host = n /\ logic'[c].fd[n] = i
      /\ \A k \in Host \ {n} : logic'[c].fd[k] = logic[c].fd[k]
      /\ logic'[c].stat = logic[c].stat /\ logic'[c].begin_ts = Ts(c)
  <2> DEFINE s == [logic[c] EXCEPT !.pc = type, !.host = n]
             t == [s EXCEPT !.fd[n] = i]
  <2>1. logic'[c] = t BY <1>1, <1>7 DEF Records
  <2>2. /\ s \in LogicRec /\ s.pc = type /\ s.host = n /\ s.fd = logic[c].fd
        /\ s.stat = logic[c].stat /\ s.begin_ts = Ts(c)
    BY <1>1, <1>5 DEF LogicRec, Ts
  <2> HIDE DEF s
  <2>3. /\ t.pc = s.pc /\ t.host = s.host /\ t.stat = s.stat /\ t.begin_ts = s.begin_ts
        /\ t.fd = [s.fd EXCEPT ![n] = i] /\ s.fd \in [Host -> 0 .. MaxConn]
    BY <2>2 DEF LogicRec
  <2>4. t.fd[n] = i /\ \A k \in Host \ {n} : t.fd[k] = s.fd[k] BY <2>3
  <2> HIDE DEF t
  <2> QED BY <2>1, <2>2, <2>3, <2>4
<1>9. /\ client'[c].req = None /\ client'[c].here = client[c].here
      /\ client'[c].waits = client[c].waits
  <2>1. client'[c] = [client[c] EXCEPT !.req = None] BY <1>1, <1>7 DEF Records
  <2> QED BY <1>1, <2>1 DEF ClientRec
<1>10. \A d \in Client \ {c} : logic'[d] = logic[d] /\ client'[d] = client[d]
  BY <1>1, <1>7 DEF Records
<1>11. /\ \A j \in Conn \ {i} : conn'[j] = cn[j]
       /\ conn'[i].host = cn[i].host /\ conn'[i].link = cn[i].link
       /\ conn'[i].alive = cn[i].alive
       /\ conn'[i].begin_ts = cn[i].begin_ts /\ conn'[i].res = cn[i].res
       /\ conn'[i].req = IF cn[i].link = "open" THEN m ELSE cn[i].req
  BY <1>7, SendsOne
<1>12. /\ \A j \in Conn \ {i} : cn[j] = conn[j]
       /\ cn[i].host = n /\ cn[i].link # "none" /\ Quiet(cn[i])
       /\ cn[i].alive => up[n]
       /\ cn[i].link = "open" => cn[i].alive
       /\ ~cn[i].alive => cn[i].begin_ts = 0
       /\ \/ /\ logic[c].fd[n] = i /\ cn[i].begin_ts = conn[i].begin_ts
             /\ cn[i].alive = conn[i].alive
          \/ logic[c].fd[n] = 0 /\ conn[i] = NoConn /\ cn[i].begin_ts = 0
  <2>1. CASE logic[c].fd[n] = i /\ i # 0 /\ cn = conn
    <3>1. Wire(c, n) = conn[i] BY <2>1 DEF Wire
    <3>2. Quiet(conn[i]) /\ conn[i].host = n BY <1>2, <1>3, <2>1, <3>1, Resting
    <3>3. Ends(c, n) /\ Wired(i) OBVIOUS
    <3>4. conn[i].link # "none" BY <2>1, <3>1, <3>3 DEF Ends
    <3> QED BY <2>1, <3>2, <3>3, <3>4 DEF Wired
  <2>2. CASE /\ logic[c].fd[n] = 0 /\ up[n] /\ conn[i] = NoConn
             /\ cn = [conn EXCEPT ![i] = [NoConn EXCEPT !.host = n, !.link = "open", !.alive = TRUE]]
    <3> DEFINE g == [NoConn EXCEPT !.host = n, !.link = "open", !.alive = TRUE]
    <3>1. cn[i] = g /\ \A j \in Conn \ {i} : cn[j] = conn[j] BY <1>1, <2>2
    <3>2. g.host = n /\ g.link = "open" /\ g.alive = TRUE /\ g.begin_ts = 0
          /\ g.req = None /\ g.res = None
      BY DEF NoConn
    <3> HIDE DEF g
    <3> QED BY <2>2, <3>1, <3>2 DEF Quiet
  <2> QED BY <1>7, <2>1, <2>2
<1>13. UNCHANGED <<rec, done, list, told, up, clock>> BY <1>7
<1>14. /\ \A j \in Conn \ {i} : conn'[j] = conn[j]
       /\ conn'[i].host = n /\ conn'[i].link # "none" /\ conn'[i].res = None
       /\ conn'[i].req = None \/ conn'[i].req = m
       /\ conn'[i].alive => up[n]
       /\ conn'[i].link = "open" => conn'[i].alive
       /\ ~conn'[i].alive => conn'[i].begin_ts = 0 /\ conn'[i].req = None
       /\ \/ /\ logic[c].fd[n] = i /\ conn'[i].begin_ts = conn[i].begin_ts
             /\ conn'[i].alive = conn[i].alive
          \/ logic[c].fd[n] = 0 /\ conn[i] = NoConn /\ conn'[i].begin_ts = 0
  BY <1>11, <1>12 DEF Quiet
<1> HIDE DEF SessionsInv, Sides
<1> QED BY <1>2, <1>3, <1>5, <1>6, <1>8, <1>9, <1>10, <1>13, <1>14, Asks

LEMMA CutKeeps ==
    ASSUME SessionsInv, NEW c \in Client, ReadCut(c) PROVE Sides' /\ Facts'
BY DiesKeeps DEF ReadCut

-----------------------------------------------------------------------------
\* The invariant holds at the start and over every step.
LEMMA SessionsInvInit == Init => SessionsInv
<1> SUFFICES ASSUME Init PROVE SessionsInv OBVIOUS
<1>1. TypeInv
  <2>1. Records BY RecordTypes DEF Init, Records
  <2>2. Tables BY BoundAssumption DEF Init, Tables
  <2>3. \A c \in Client : ~Busy(logic[c]) BY DEF Init, NoSession, Busy
  <2> QED BY <2>1, <2>2, <2>3, TypeParts DEF TypeInv
<1>2. \A c \in Client : /\ logic[c] = NoSession /\ client[c] = Gone /\ Ts(c) = 0
                        /\ \A n \in Host : logic[c].fd[n] = 0
  BY DEF Init, NoSession, Ts
<1>3. Single /\ OneEach BY <1>2 DEF Single, OneEach
<1>4. ASSUME NEW c \in Client PROVE Shape(logic[c], client[c], clock)
  <2>1. clock = 0 BY DEF Init
  <2>2. /\ NoSession.pc = "none" /\ NoSession.stat = {} /\ NoSession.begin_ts = 0
        /\ Gone.req = None
    BY DEF NoSession, Gone
  <2> QED BY <1>2, <2>1, <2>2 DEF Shape, Busy
<1>5. ASSUME NEW c \in Client, NEW n \in Host PROVE Ends(c, n)
  BY <1>2 DEF Ends, Record
<1>6. ASSUME NEW i \in Conn PROVE Wired(i) /\ Marked(i)
  <2>1. conn[i] = NoConn /\ clock = 0 BY DEF Init
  <2>2. Wired(i) BY <2>1 DEF Wired, NoConn, None
  <2> QED BY <1>2, <2>2 DEF Marked
<1>7. \A c \in Client : Told(c) BY <1>2 DEF Told
<1>8. told = [c \in Client |-> {}] /\ list = [ts \in TS |-> {}] /\ done = [n \in Host |-> {}]
      /\ rec = [n \in Host |-> [ts \in TS |-> "none"]]
  BY DEF Init
<1>9. \A ts \in TS : Past(ts) BY <1>8 DEF Past
<1>10. OkMeansPrepared /\ AnswersAreDone BY <1>8 DEF OkMeansPrepared, AnswersAreDone
<1> QED BY <1>1, <1>3, <1>4, <1>5, <1>6, <1>7, <1>9, <1>10 DEF SessionsInv, Sides, Facts

LEMMA SessionsInvNext ==
    ASSUME SharedTick = FALSE, SessionsInv, [Next]_vars PROVE Sides' /\ Facts'
<1>1. CASE UNCHANGED vars
  <2>1. UNCHANGED <<client, logic, conn, rec, done, list, told, up, clock>> BY <1>1 DEF vars
  <2>2. Sides'
    <3>1. Sides BY DEF SessionsInv
    <3>2. \A i \in Conn : Wired(i)' /\ Marked(i)'
      <4> TAKE i \in Conn
      <4>1. Wired(i) /\ Marked(i) BY <3>1 DEF Sides
      <4>2. Wired(i)' BY <2>1, <4>1 DEF Wired, Owned
      <4>3. Marked(i)' BY <2>1, <4>1 DEF Marked, Works, Ts
      <4> QED BY <4>2, <4>3
    <3>3. \A c \in Client : Shape(logic'[c], client'[c], clock') /\ \A n \in Host : Ends(c, n)'
      BY <2>1, <3>1 DEF Sides, Ends, Wire, Record, Ts
    <3>4. Single' /\ OneEach' BY <2>1, <3>1 DEF Sides, Single, OneEach, Ts
    <3> QED BY <3>2, <3>3, <3>4 DEF Sides
  <2>3. Facts'
    <3>1. Facts BY DEF SessionsInv
    <3> QED BY <2>1, <3>1 DEF Facts, Told, Past, OkMeansPrepared, AnswersAreDone, Ts
  <2> QED BY <2>2, <2>3
<1>2. ASSUME NEW c \in Client, Connect(c) \/ Send(c) \/ Leave(c) \/ LogicStep(c)
      PROVE  Sides' /\ Facts'
  <2>1. CASE Connect(c) \/ Send(c) \/ Leave(c) \/ Refuse(c) BY <2>1, QuietSteps
  <2>2. CASE Poll(c) \/ ReadFails(c) BY <2>2, PollKeeps
  <2>3. CASE ReqBegin(c) BY <2>3, BeginReqKeeps
  <2>4. CASE ReqData(c) BY <2>4, DataReqKeeps
  <2>5. CASE ReqCommit(c) BY <2>5, CommitKeeps
  <2>6. CASE ReqRollback(c) BY <2>6, RollbackKeeps
  <2>7. CASE BeginRes(c) BY <2>7, BeginResKeeps
  <2>8. CASE DataRes(c) BY <2>8, DataResKeeps
  <2>9. CASE \E n \in Host : PrepareRes(c, n) \/ PrepareClean(c, n)
    BY <2>9, PrepareResKeeps, PrepareCleanKeeps
  <2>10. CASE ReadCut(c) BY <2>10, CutKeeps
  <2> QED BY <1>2, <2>1, <2>2, <2>3, <2>4, <2>5, <2>6, <2>7, <2>8, <2>9, <2>10 DEF LogicStep
<1>3. ASSUME NEW i \in Conn, StorageStep(i) \/ LinkBreaks(i) PROVE Sides' /\ Facts'
  BY <1>3, ServeBeginKeeps, ServeDataKeeps, ServePrepareKeeps, StorageFails, DamageKeeps
     DEF StorageStep
<1>4. ASSUME NEW n \in Host, Crash(n) \/ startUpClean(n) PROVE Sides' /\ Facts'
  BY <1>4, StorageFails
<1>5. CASE CutMessage BY <1>5, DamageKeeps
<1> QED BY <1>1, <1>2, <1>3, <1>4, <1>5 DEF Next

\* The whole inductive invariant of the sessions.
THEOREM SessionsCorrect ==
    ASSUME SharedTick = FALSE
    PROVE  Spec => []SessionsInv
<1>1. Init => Sides /\ Facts BY SessionsInvInit DEF SessionsInv
<1>2. TypeInv /\ Sides /\ Facts /\ [Next]_vars => Sides' /\ Facts'
  BY SessionsInvNext DEF SessionsInv
<1> QED BY <1>1, <1>2, TypeInvariant, PTL DEF Spec, SessionsInv

-----------------------------------------------------------------------------
LEMMA EndsDoAgree == SessionsInv => EndsAgree
<1> USE DEF SessionsInv, Sides
<1> SUFFICES ASSUME SessionsInv, NEW c \in Client, NEW n \in Host, NEW i \in Conn,
                    i = logic[c].fd[n], logic[c].fd[n] # 0, conn[i].link = "open"
             PROVE  /\ conn[i].alive /\ conn[i].host = n
                    /\ n \in logic[c].stat =>
                         \/ conn[i].begin_ts = Ts(c) /\ rec[n][Ts(c)] = "Begin"
                         \/ /\ logic[c].pc = "prepare" /\ conn[i].res # None
                            /\ conn[i].begin_ts = 0 /\ rec[n][Ts(c)] = "Prepared"
                    /\ n \notin logic[c].stat =>
                         \/ logic[c].pc = "begin" /\ logic[c].host = n
                         \/ conn[i].begin_ts = 0 /\ Silent(i)
  BY Known DEF EndsAgree, Ts
<1>1. Ends(c, n) /\ Wired(i) /\ Shape(logic[c], client[c], clock) OBVIOUS
<1>2. conn[i].alive /\ conn[i].host = n BY <1>1 DEF Wired, Ends, Wire
<1>3. ASSUME n \in logic[c].stat
      PROVE  \/ conn[i].begin_ts = Ts(c) /\ rec[n][Ts(c)] = "Begin"
             \/ /\ logic[c].pc = "prepare" /\ conn[i].res # None
                /\ conn[i].begin_ts = 0 /\ rec[n][Ts(c)] = "Prepared"
  <2>1. Joined(logic[c], client[c], n, conn[i], Record(c, n), Ts(c) \in done[n])
    BY <1>1, <1>3 DEF Ends, Wire
  <2>2. Record(c, n) = rec[n][Ts(c)] BY <1>1, <1>3 DEF Record, Shape, Ts
  <2> QED BY <1>2, <2>1, <2>2 DEF Joined, Ts
<1>4. ASSUME n \notin logic[c].stat, ~(logic[c].pc = "begin" /\ logic[c].host = n)
      PROVE  conn[i].begin_ts = 0 /\ Silent(i)
  <2>1. Apart(logic[c], n, conn[i], Record(c, n)) BY <1>1, <1>4 DEF Ends, Wire
  <2> QED BY <1>4, <2>1 DEF Apart, Quiet, Silent
<1> QED BY <1>2, <1>3, <1>4

\* On a link that works the storage session serves the transaction of the
\* logicServ session exactly when that one counts the storage as a participant
\* (stat), or it has just prepared it; otherwise it holds no transaction and no
\* stale message (readwrite_routine of both servers).
THEOREM SidesAgree ==
    ASSUME SharedTick = FALSE PROVE Spec => []EndsAgree
BY SessionsCorrect, EndsDoAgree, PTL

\* A client that was told its commit succeeded has every participant prepared:
\* logicServ, which only logs the result of a Prepare, never says so in vain.
THEOREM OkIsPrepared ==
    ASSUME SharedTick = FALSE PROVE Spec => []OkMeansPrepared
<1>1. SessionsInv => OkMeansPrepared BY DEF SessionsInv, Facts
<1> QED BY <1>1, SessionsCorrect, PTL

\* A data request that was answered with success was served by its storage, for
\* this transaction: neither the answer to another transaction nor that of an
\* interrupted wait is taken for it.
THEOREM DoneIsDone ==
    ASSUME SharedTick = FALSE PROVE Spec => []AnswersAreDone
<1>1. SessionsInv => AnswersAreDone BY DEF SessionsInv, Facts
<1> QED BY <1>1, SessionsCorrect, PTL

-----------------------------------------------------------------------------
\* What a step does to the records and the lists of participants.
LEMMA RecordSteps ==
    ASSUME TypeInv, [Next]_vars
    PROVE  \/ UNCHANGED <<rec, list>>
           \/ \E c \in Client : ReqCommit(c)
           \/ UNCHANGED list /\ \E i \in Conn : ServeBegin(i) \/ ServePrepare(i) \/ SessionEnd(i)
           \/ UNCHANGED list /\ \E n \in Host : startUpClean(n)
<1> DEFINE Goal == \/ UNCHANGED <<rec, list>>
                   \/ \E c \in Client : ReqCommit(c)
                   \/ /\ UNCHANGED list
                      /\ \E i \in Conn : ServeBegin(i) \/ ServePrepare(i) \/ SessionEnd(i)
                   \/ UNCHANGED list /\ \E n \in Host : startUpClean(n)
<1> SUFFICES Goal OBVIOUS
<1>1. CASE UNCHANGED vars BY <1>1 DEF vars
<1>2. ASSUME NEW c \in Client, Connect(c) \/ Send(c) \/ Leave(c) \/ LogicStep(c) PROVE Goal
  <2>1. CASE Connect(c) \/ Send(c) \/ Leave(c) BY <2>1 DEF Connect, Send, Leave
  <2>2. CASE Poll(c) \/ ReadFails(c) \/ Refuse(c)
    BY <2>2 DEF Poll, ReadFails, Refuse, EndSession
  <2>3. CASE ReqBegin(c) \/ ReqRollback(c) \/ ReadCut(c)
    BY <2>3 DEF ReqBegin, ReqRollback, ReadCut, LogicDies
  <2>4. CASE ReqData(c) BY <2>4 DEF ReqData, EndSession
  <2>5. CASE ReqCommit(c) BY <2>5
  <2>6. CASE BeginRes(c) \/ DataRes(c) BY <2>6 DEF BeginRes, DataRes, EndSession
  <2>7. CASE \E n \in Host : PrepareRes(c, n) \/ PrepareClean(c, n)
    BY <2>7 DEF PrepareRes, PrepareClean, EndSession
  <2> HIDE DEF Goal
  <2> QED BY <1>2, <2>1, <2>2, <2>3, <2>4, <2>5, <2>6, <2>7 DEF LogicStep
<1>3. ASSUME NEW i \in Conn, StorageStep(i) \/ LinkBreaks(i) PROVE Goal
  <2>1. CASE ServeBegin(i) \/ ServePrepare(i) \/ SessionEnd(i)
    BY <2>1 DEF ServeBegin, ServePrepare, SessionEnd
  <2>2. CASE ServeData(i) \/ ServeCut(i) \/ LinkBreaks(i)
    BY <2>2 DEF ServeData, ServeCut, LinkBreaks
  <2> HIDE DEF Goal
  <2> QED BY <1>3, <2>1, <2>2 DEF StorageStep
<1>4. ASSUME NEW n \in Host, Crash(n) \/ startUpClean(n) PROVE Goal
  BY <1>4 DEF Crash, startUpClean
<1>5. CASE CutMessage BY <1>5 DEF CutMessage
<1> HIDE DEF Goal
<1> QED BY <1>1, <1>2, <1>3, <1>4, <1>5 DEF Next

\* Begin adds a record for a storage that has none.
LEMMA BeginAdds ==
    ASSUME SessionsInv, NEW i \in Conn, ServeBegin(i)
    PROVE  \/ UNCHANGED rec
           \/ \E n \in Host, ts \in TS :
                /\ list[ts] = {} /\ rec[n][ts] = "none"
                /\ rec' = [rec EXCEPT ![n][ts] = "Begin"]
<1>1. Records /\ Tables /\ conn[i] \in ConnRec BY Known DEF SessionsInv
<1>2. PICK n \in Host, ts \in TS : n = conn[i].host /\ ts = conn[i].req.begin_ts
  <2>1. conn[i].req.type = "begin" BY DEF ServeBegin, Serves
  <2>2. conn[i].req \in RpcReq \cup {None} BY <1>1 DEF ConnRec
  <2>3. conn[i].req # None BY <2>1 DEF None
  <2> QED BY <1>1, <2>2, <2>3, RpcTypes DEF ConnRec
<1>3. Wired(i) /\ conn[i].req.type = "begin" BY DEF SessionsInv, Sides, ServeBegin, Serves
<1>4. list[ts] = {} BY <1>2, <1>3 DEF Wired
<1>5. CASE conn[i].begin_ts = 0 /\ rec[n][ts] = "none"
  <2>1. rec' = [rec EXCEPT ![n][ts] = "Begin"] BY <1>2, <1>5 DEF ServeBegin
  <2> QED BY <1>4, <1>5, <2>1
<1>6. CASE ~(conn[i].begin_ts = 0 /\ rec[n][ts] = "none")
  <2>1. rec' = [rec EXCEPT ![n][ts] = @] BY <1>2, <1>6 DEF ServeBegin
  <2> QED BY <1>1, <2>1 DEF Tables
<1> QED BY <1>5, <1>6

\* Prepare is served at a storage on the list.
LEMMA PrepareVotes ==
    ASSUME SessionsInv, NEW i \in Conn, ServePrepare(i)
    PROVE  \/ UNCHANGED rec
           \/ \E n \in Host, ts \in TS :
                /\ n \in list[ts] /\ rec[n][ts] = "Begin"
                /\ rec' = [rec EXCEPT ![n][ts] = "Prepared"]
<1>1. Records /\ Tables /\ conn[i] \in ConnRec BY Known DEF SessionsInv
<1>2. PICK n \in Host, ts \in TS : n = conn[i].host /\ ts = conn[i].req.begin_ts
  <2>1. conn[i].req.type = "prepare" BY DEF ServePrepare, Serves
  <2>2. conn[i].req \in RpcReq \cup {None} BY <1>1 DEF ConnRec
  <2>3. conn[i].req # None BY <2>1 DEF None
  <2> QED BY <1>1, <2>2, <2>3, RpcTypes DEF ConnRec
<1>3. Wired(i) /\ conn[i].req.type = "prepare" BY DEF SessionsInv, Sides, ServePrepare, Serves
<1>4. n \in list[ts] BY <1>2, <1>3 DEF Wired
<1>5. CASE conn[i].begin_ts = ts /\ rec[n][ts] = "Begin"
  <2>1. rec' = [rec EXCEPT ![n][ts] = "Prepared"] BY <1>2, <1>5 DEF ServePrepare
  <2> QED BY <1>4, <1>5, <2>1
<1>6. CASE ~(conn[i].begin_ts = ts /\ rec[n][ts] = "Begin")
  <2>1. rec' = rec BY <1>2, <1>6 DEF ServePrepare
  <2> QED BY <2>1
<1> QED BY <1>5, <1>6

\* What is open is rolled back for the transactions S of the storage n.
RollsBack(n, S) == rec' = [rec EXCEPT ![n] = startCleanTrans(@, S)]

LEMMA Cleans ==
    ASSUME Tables, NEW n \in Host, NEW S, RollsBack(n, S)
    PROVE  /\ \A m \in Host \ {n}, ts \in TS : rec'[m][ts] = rec[m][ts]
           /\ \A ts \in TS : rec'[n][ts] = IF ts \in S /\ rec[n][ts] = "Begin"
                                           THEN "Rollback" ELSE rec[n][ts]
BY DEF RollsBack, Tables, startCleanTrans

\* The rollback of a participant, step by step.
LEMMA OnlyLostRollBack ==
    ASSUME SessionsInv, [Next]_vars, NEW n \in Host, NEW ts \in TS,
           rec[n][ts] = "Begin", rec'[n][ts] = "Rollback",
           NEW c \in Client, Ts(c) = ts, n \in logic[c].stat
    PROVE  conn[logic[c].fd[n]].link = "broken"
<1> USE DEF SessionsInv, Sides
<1>1. Records /\ Tables BY Known
<1>2. PICK i \in Conn : i = logic[c].fd[n]
  <2>1. Shape(logic[c], client[c], clock) OBVIOUS
  <2> QED BY <2>1, Known DEF Shape
<1>3. conn[i].host = n /\ conn[i].link # "none" /\ Wired(i)
  <2>1. i # 0 BY Known
  <2> QED BY <1>2, <2>1 DEF Ends, Wire
<1>4. conn[i].link \in {"open", "broken"} BY <1>1, <1>3 DEF Records, ConnRec
<1>5. ~(rec' = rec) OBVIOUS
<1>6. CASE \E d \in Client : ReqCommit(d) BY <1>5, <1>6 DEF ReqCommit
<1>7. ASSUME NEW m \in Host, NEW t \in TS, NEW s \in {"Begin", "Prepared"},
             rec' = [rec EXCEPT ![m][t] = s]
      PROVE  FALSE
  <2>1. rec'[n][ts] \in {rec[n][ts], s} BY <1>1, <1>7 DEF Tables
  <2> QED BY <1>7, <2>1
<1>8. ASSUME NEW j \in Conn, ServeBegin(j) PROVE FALSE
  <2>1. \E m \in Host, t \in TS : rec' = [rec EXCEPT ![m][t] = "Begin"]
    BY <1>5, <1>8, BeginAdds
  <2> QED BY <1>7, <2>1
<1>9. ASSUME NEW j \in Conn, ServePrepare(j) PROVE FALSE
  <2>1. \E m \in Host, t \in TS : rec' = [rec EXCEPT ![m][t] = "Prepared"]
    BY <1>5, <1>9, PrepareVotes
  <2> QED BY <1>7, <2>1
<1>10. ASSUME NEW j \in Conn, SessionEnd(j) PROVE conn[i].link = "broken"
  <2>1. PICK m \in Host : m = conn[j].host BY <1>1 DEF Records, ConnRec
  <2>a. PICK S : S = {conn[j].begin_ts} OBVIOUS
  <2>2. RollsBack(m, S) BY <1>10, <2>1, <2>a DEF SessionEnd, RollsBack
  <2>3. n = m /\ conn[j].begin_ts = ts
    <3>1. /\ \A h \in Host \ {m}, t \in TS : rec'[h][t] = rec[h][t]
          /\ \A t \in TS : rec'[m][t] = IF t \in S /\ rec[m][t] = "Begin"
                                      THEN "Rollback" ELSE rec[m][t]
      <4> HIDE DEF SessionsInv, Sides
      <4> QED BY <1>1, <2>2, Cleans
    <3>2. n = m BY <3>1
    <3>3. ts \in S BY <3>1, <3>2
    <3> QED BY <2>a, <3>2, <3>3
  <2>4. Works(j, ts) BY <2>3 DEF Works
  <2>5. ts # 0 /\ j # 0 BY Known DEF TS
  <2>6. PICK k \in Host : logic[c].fd[k] = j
    <3>1. Marked(j) /\ Ts(c) = ts OBVIOUS
    <3> HIDE DEF SessionsInv, Sides
    <3> QED BY <2>4, <2>5, <3>1 DEF Marked
  <2>7. conn[j].host = k
    <3>1. Ends(c, k) OBVIOUS
    <3> HIDE DEF SessionsInv, Sides
    <3> QED BY <2>5, <2>6, <3>1 DEF Ends, Wire
  <2>8. k = n BY <2>1, <2>3, <2>7
  <2> QED BY <1>2, <1>10, <2>6, <2>8 DEF SessionEnd
<1>11. ASSUME NEW m \in Host, startUpClean(m) PROVE conn[i].link = "broken"
  <2>1. RollsBack(m, TS) /\ ~up[m] BY <1>11 DEF startUpClean, RollsBack
  <2>2. n = m
    <3> HIDE DEF SessionsInv, Sides
    <3> QED BY <1>1, <2>1, Cleans
  <2>3. ~conn[i].alive BY <1>3, <2>1, <2>2 DEF Wired
  <2> QED BY <1>3, <1>4, <2>3 DEF Wired
<1>12. \/ \E d \in Client : ReqCommit(d)
       \/ \E j \in Conn : ServeBegin(j) \/ ServePrepare(j) \/ SessionEnd(j)
       \/ \E m \in Host : startUpClean(m)
  BY <1>5, RecordSteps
<1> QED BY <1>2, <1>6, <1>8, <1>9, <1>10, <1>11, <1>12

\* A storage rolls an open transaction back only when the link of its session is
\* broken: the end of another session (rollback of session.begin_ts) or a
\* restart elsewhere never takes it.
THEOREM OnlyOwnRollback ==
    ASSUME SharedTick = FALSE PROVE Spec => NoForeignRollback
<1>1. SessionsInv /\ [Next]_vars =>
        [\A n \in Host, ts \in TS :
           rec[n][ts] = "Begin" /\ rec'[n][ts] = "Rollback" =>
             \A c \in Client :
                 logic[c].begin_ts = ts /\ n \in logic[c].stat =>
                     conn[logic[c].fd[n]].link = "broken"]_vars
  BY OnlyLostRollBack DEF Ts
<1> QED BY <1>1, SessionsCorrect, PTL DEF Spec, NoForeignRollback

-----------------------------------------------------------------------------
\* The list a Commit fixes names the storages that have a record.
LEMMA ListsJoined ==
    ASSUME SessionsInv, NEW c \in Client, ReqCommit(c), NEW ts \in TS
    PROVE  \/ list'[ts] = list[ts]
           \/ list[ts] = {} /\ list'[ts] = {n \in Host : rec[n][ts] # "none"}
<1> USE DEF SessionsInv, Sides
<1>1. Records /\ Tables /\ logic[c] \in LogicRec BY Known
<1>2. /\ logic[c].pc = "reading" /\ Ts(c) \in TS /\ list[Ts(c)] = {}
      /\ list' = [list EXCEPT ![Ts(c)] = logic[c].stat]
  <2> HIDE DEF SessionsInv
  <2> QED BY Committing
<1>3. CASE ts # Ts(c) BY <1>1, <1>2, <1>3 DEF Tables
<1>4. CASE ts = Ts(c)
  <2>1. list'[ts] = logic[c].stat BY <1>1, <1>2, <1>4 DEF Tables
  <2>2. ASSUME NEW n \in Host PROVE n \in logic[c].stat <=> rec[n][ts] # "none"
    <3>1. Record(c, n) = rec[n][ts] BY <1>2, <1>4 DEF Record, TS
    <3>2. Ends(c, n) /\ Shape(logic[c], client[c], clock) OBVIOUS
    <3>3. CASE n \in logic[c].stat
      <4>1. logic[c].fd[n] # 0 BY <3>2, <3>3 DEF Shape
      <4>2. Joined(logic[c], client[c], n, Wire(c, n), Record(c, n), Ts(c) \in done[n])
        BY <3>2, <3>3, <4>1 DEF Ends
      <4> QED BY <3>1, <3>3, <4>2 DEF Joined
    <3>4. CASE n \notin logic[c].stat BY <1>2, <3>1, <3>2, <3>4 DEF Ends
    <3> QED BY <3>3, <3>4
  <2>3. logic[c].stat \subseteq Host BY <1>1 DEF LogicRec
  <2>4. logic[c].stat = {n \in Host : rec[n][ts] # "none"} BY <2>2, <2>3
  <2> QED BY <1>2, <1>4, <2>1, <2>4
<1> QED BY <1>3, <1>4

\* A change of one record, seen as one of the column of its transaction.
LEMMA Column ==
    ASSUME Tables, NEW ts \in TS, NEW n \in Host, NEW v,
           rec'[n][ts] = v, \A m \in Host \ {n} : rec'[m][ts] = rec[m][ts]
    PROVE  [m \in Host |-> rec[m][ts]]' = [[m \in Host |-> rec[m][ts]] EXCEPT ![n] = v]
OBVIOUS

\* Each transaction starts and moves as AtomicCommit allows.
LEMMA PromiseInit ==
    ASSUME Init, NEW ts \in TS PROVE Promise(ts)!AbstractInit
BY DEF Init, Promise!AbstractInit

LEMMA PromiseNext ==
    ASSUME SessionsInv, [Next]_vars, NEW ts \in TS
    PROVE  [Promise(ts)!AbstractNext]_(Promise(ts)!acVars)
<1> DEFINE Goal == Promise(ts)!AbstractNext \/ UNCHANGED Promise(ts)!acVars
           st == [n \in Host |-> rec[n][ts]]
           mem == list[ts]
<1> SUFFICES Goal OBVIOUS
<1>1. Records /\ Tables BY Known DEF SessionsInv
<1>2. CASE mem' = mem /\ \A n \in Host : rec'[n][ts] = rec[n][ts]
  BY <1>2 DEF Promise!acVars
<1>3. ASSUME NEW n \in Host, mem' = mem, mem = {}, rec[n][ts] = "none",
             st' = [st EXCEPT ![n] = "Begin"]
      PROVE  Goal
  BY <1>3 DEF Promise!AbstractNext, Promise!Join
<1>4. ASSUME NEW n \in Host, mem' = mem, rec[n][ts] = "Begin",
             st' = [st EXCEPT ![n] = "Rollback"]
      PROVE  Goal
  BY <1>4 DEF Promise!AbstractNext, Promise!Abort
<1>5. ASSUME NEW n \in Host, mem' = mem, rec[n][ts] = "Begin", n \in mem,
             st' = [st EXCEPT ![n] = "Prepared"]
      PROVE  Goal
  <2> DEFINE vt == [m \in Host |-> 0]
  <2>1. vt' = [vt EXCEPT ![n] = 0] OBVIOUS
  <2>2. 0 \in Promise(ts)!Stamp BY DEF Promise!Stamp
  <2> QED BY <1>5, <2>1, <2>2 DEF Promise!AbstractNext, Promise!Vote
<1>6. ASSUME rec' = rec, mem = {}, mem' = {n \in Host : rec[n][ts] # "none"} PROVE Goal
  <2>1. mem' = {n \in Host : st[n] # "none"} BY <1>6
  <2>2. st' = st BY <1>6
  <2> QED BY <1>6, <2>1, <2>2 DEF Promise!AbstractNext, Promise!FixMembers
<1> HIDE DEF Goal
<1>7. ASSUME NEW n \in Host, NEW t \in TS, NEW v, rec' = [rec EXCEPT ![n][t] = v]
      PROVE  IF t = ts THEN st' = [st EXCEPT ![n] = v]
                       ELSE \A m \in Host : rec'[m][ts] = rec[m][ts]
  <2>1. CASE t = ts
    <3>1. rec'[n][ts] = v /\ \A m \in Host \ {n} : rec'[m][ts] = rec[m][ts]
      BY <1>1, <1>7, <2>1 DEF Tables
    <3> QED BY <1>1, <2>1, <3>1, Column
  <2>2. CASE t # ts BY <1>1, <1>7, <2>2 DEF Tables
  <2> QED BY <2>1, <2>2
<1>8. ASSUME NEW n \in Host, NEW S, RollsBack(n, S), UNCHANGED list
      PROVE  Goal
  <2>1. \A m \in Host \ {n} : rec'[m][ts] = rec[m][ts] BY <1>1, <1>8, Cleans
  <2>2. rec'[n][ts] = IF ts \in S /\ rec[n][ts] = "Begin" THEN "Rollback" ELSE rec[n][ts]
    BY <1>1, <1>8, Cleans
  <2>3. CASE rec'[n][ts] = rec[n][ts] BY <1>2, <1>8, <2>1, <2>3
  <2>4. CASE rec[n][ts] = "Begin" /\ rec'[n][ts] = "Rollback"
    <3>1. st' = [st EXCEPT ![n] = "Rollback"] BY <1>1, <2>1, <2>4, Column
    <3> QED BY <1>4, <1>8, <2>4, <3>1
  <2> QED BY <2>2, <2>3, <2>4
<1>9. CASE UNCHANGED <<rec, list>> BY <1>2, <1>9
<1>10. ASSUME NEW c \in Client, ReqCommit(c) PROVE Goal
  <2>1. rec' = rec BY <1>10 DEF ReqCommit
  <2>2. mem' = mem \/ (mem = {} /\ mem' = {n \in Host : rec[n][ts] # "none"})
    BY <1>10, ListsJoined
  <2> QED BY <1>2, <1>6, <2>1, <2>2
<1>11. ASSUME UNCHANGED list, NEW i \in Conn, ServeBegin(i) PROVE Goal
  <2>1. CASE UNCHANGED rec BY <1>9, <1>11, <2>1
  <2>2. ASSUME NEW n \in Host, NEW t \in TS, list[t] = {}, rec[n][t] = "none",
               rec' = [rec EXCEPT ![n][t] = "Begin"]
        PROVE  Goal
    BY <1>2, <1>3, <1>7, <1>11, <2>2
  <2> QED BY <1>11, <2>1, <2>2, BeginAdds
<1>12. ASSUME UNCHANGED list, NEW i \in Conn, ServePrepare(i) PROVE Goal
  <2>1. CASE UNCHANGED rec BY <1>9, <1>12, <2>1
  <2>2. ASSUME NEW n \in Host, NEW t \in TS, n \in list[t], rec[n][t] = "Begin",
               rec' = [rec EXCEPT ![n][t] = "Prepared"]
        PROVE  Goal
    BY <1>2, <1>5, <1>7, <1>12, <2>2
  <2> QED BY <1>12, <2>1, <2>2, PrepareVotes
<1>13. ASSUME UNCHANGED list, NEW i \in Conn, SessionEnd(i) PROVE Goal
  <2>1. conn[i].host \in Host BY <1>1 DEF Records, ConnRec
  <2>2. RollsBack(conn[i].host, {conn[i].begin_ts}) BY <1>13 DEF SessionEnd, RollsBack
  <2> QED BY <1>8, <1>13, <2>1, <2>2
<1>14. ASSUME UNCHANGED list, NEW n \in Host, startUpClean(n) PROVE Goal
  <2>1. RollsBack(n, TS) BY <1>14 DEF startUpClean, RollsBack
  <2> QED BY <1>8, <1>14, <2>1
<1>15. \/ UNCHANGED <<rec, list>>
       \/ \E c \in Client : ReqCommit(c)
       \/ UNCHANGED list /\ \E i \in Conn : ServeBegin(i) \/ ServePrepare(i) \/ SessionEnd(i)
       \/ UNCHANGED list /\ \E n \in Host : startUpClean(n)
  BY RecordSteps DEF SessionsInv
<1> QED BY <1>9, <1>10, <1>11, <1>12, <1>13, <1>14, <1>15

\* Each of the transactions that share the sessions and the connections goes
\* through AtomicCommit: it joins storages before its list is fixed, the list
\* names exactly those joined, and only storages on the list prepare it.
THEOREM EachIsAtomic ==
    ASSUME SharedTick = FALSE PROVE Spec => ImplementsAtomicCommit
<1>1. Init => \A ts \in TS : Promise(ts)!AbstractInit BY PromiseInit
<1>2. SessionsInv /\ [Next]_vars =>
        [\A ts \in TS : [Promise(ts)!AbstractNext]_(Promise(ts)!acVars)]_vars
  BY PromiseNext
<1>3. [][Next]_vars /\ []SessionsInv =>
        [][\A ts \in TS : [Promise(ts)!AbstractNext]_(Promise(ts)!acVars)]_vars
  BY <1>2, PTL
<1> QED BY <1>1, <1>3, SessionsCorrect, PTL DEF Spec, ImplementsAtomicCommit
=============================================================================
