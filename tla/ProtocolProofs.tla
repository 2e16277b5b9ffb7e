---------------------------- MODULE ProtocolProofs ----------------------------
(***************************************************************************)
(* The two ends of each connection agree, a client that is told success    *)
(* has every vote, and each storage pursues what it holds prepared: the    *)
(* rest of the inductive invariant of CommitProtocol.  What follows from   *)
(* the whole of it: which timestamp a commit gets, what is never taken     *)
(* back, and that the protocol implements AtomicCommit.                    *)
(***************************************************************************)
EXTENDS AtomicityProofs

\* What SessionInv says of the session l of a transaction and its connection
\* to storage n: a, h, s are whether n is up, whether it holds the transaction
\* open, and the state of its record; k, w are the connection and its message.
Ends(a, h, s, l, k, w, n) ==
    /\ ~a => ~h /\ w \notin Requests /\ k # "open"
    /\ h => s = "Begin"
    /\ w = "begin" => s = "none"
    /\ w = "prepare" => h
    /\ w \in {"prepare", "prepared"} => n \in l.trans_list \ l.todo
    /\ w = "begun" \/ n \in l.stat => s # "none"
    /\ /\ k = "open"
       /\ w = "begun" \/ (l.pc = "active" /\ n \in l.stat) \/ (l.pc = "send" /\ n \in l.todo)
       => h

\* What AnswerInv says of them; v is whether n voted and wrote its timestamp.
Answers(v, l, k, w, n) ==
    /\ w = "prepared" => v
    /\ l.pc = "send" => l.stat = l.trans_list
    /\ l.pc = "wait" /\ n \in l.trans_list \ l.stat => v
    /\ l.pc \in {"send", "wait"} \/ l.result = "ok" => (k # "none" => n \in l.trans_list)
    /\ l.result = "ok" => l.pc = "done" /\ (n \in l.trans_list => v)

Row(n, t) ==
    /\ Ends(up[n], t \in sess[n], State(n, t), logic[t], link[t][n], wire[t][n], n)
    /\ Answers(Stamped(n, t), logic[t], link[t][n], wire[t][n], n)

LEMMA RowParts ==
    ASSUME TypeOK
    PROVE  SessionInv /\ AnswerInv <=> \A n \in Host, t \in Trans : Row(n, t)
<1>1. ASSUME SessionInv, AnswerInv, NEW n \in Host, NEW t \in Trans
      PROVE  Row(n, t)
  BY <1>1 DEF SessionInv, AnswerInv, Row, Ends, Answers
<1>2. ASSUME \A n \in Host, t \in Trans : Row(n, t) PROVE SessionInv
  <2>1. \A n \in Host : sess[n] \subseteq Trans
    BY DEF TypeOK
  <2> QED BY <1>2, <2>1 DEF SessionInv, Row, Ends
<1>3. ASSUME \A n \in Host, t \in Trans : Row(n, t) PROVE AnswerInv
  BY <1>3 DEF AnswerInv, Row, Answers
<1> QED BY <1>1, <1>2, <1>3

\* The same for the next state.
LEMMA RowPartsNext ==
    ASSUME TypeOK', \A n \in Host, t \in Trans : Row(n, t)'
    PROVE  SessionInv' /\ AnswerInv'
<1>1. \A n \in Host : sess'[n] \subseteq Trans
  BY DEF TypeOK
<1>2. SessionInv'
  BY <1>1 DEF SessionInv, Row, Ends
<1>3. AnswerInv'
  BY DEF AnswerInv, Row, Answers
<1> QED BY <1>2, <1>3

\* A stamped vote stays one, and a storage that joined has joined for ever.
LEMMA StampStays ==
    ASSUME VoteInv, ListInv, NEW n \in Host, NEW t \in Trans, RecMove(n, t)
    PROVE  /\ Stamped(n, t) => Stamped(n, t)'
           /\ State(n, t) # "none" => State(n, t)' # "none"
<1>1. Stamped(n, t) => Stamped(n, t)'
  BY VotesStay DEF Stamped, SameVote
<1>2. State(n, t) # "none" => State(n, t)' # "none"
  BY DEF RecMove, Joins, Aborts, Votes, Commits, FollowsAbort, State
<1> QED BY <1>1, <1>2

\* A step that leaves the session of a transaction alone may close its
\* connection, lose its message, and let the storage close the transaction.
LEMMA RowStays ==
    ASSUME VoteInv, ListInv, NEW n \in Host, NEW t \in Trans, RecMove(n, t), Row(n, t),
           logic'[t] = logic[t],
           \/ link'[t][n] = link[t][n]
           \/ link[t][n] = "open" /\ link'[t][n] = "broken",
           wire'[t][n] \in {wire[t][n], "none"},
           \/ up'[n] = up[n]
           \/ t \notin sess'[n] /\ wire'[t][n] \notin Requests /\ link'[t][n] # "open",
           t \in sess'[n] => t \in sess[n],
           t \in sess[n] /\ t \notin sess'[n] =>
             link'[t][n] # "open" /\ wire'[t][n] # "prepare",
           \/ State(n, t)' = State(n, t)
           \/ t \notin sess'[n] /\ State(n, t) # "none"
    PROVE  Row(n, t)'
<1>1. /\ Stamped(n, t) => Stamped(n, t)'
      /\ State(n, t) # "none" => State(n, t)' # "none"
  BY StampStays
<1>2. Ends(up'[n], t \in sess'[n], State(n, t)', logic'[t], link'[t][n], wire'[t][n], n)
  BY <1>1 DEF Row, Ends, Requests
<1>3. Answers(Stamped(n, t)', logic'[t], link'[t][n], wire'[t][n], n)
  BY <1>1 DEF Row, Answers
<1> QED BY <1>2, <1>3 DEF Row

\* Steps of logicServ leave the storages alone: only the rows of the session
\* that steps can change.
LEMMA LogicRow ==
    ASSUME VoteInv, ListInv, \A m \in Host, u \in Trans : Row(m, u),
           UNCHANGED <<trans, up, sess>>, NEW t \in Trans,
           \A u \in Trans \ {t} : /\ logic'[u] = logic[u]
                                  /\ link'[u] = link[u] /\ wire'[u] = wire[u],
           \A m \in Host :
             /\ Ends(up[m], t \in sess[m], State(m, t), logic'[t], link'[t][m], wire'[t][m], m)
             /\ Answers(Stamped(m, t), logic'[t], link'[t][m], wire'[t][m], m)
    PROVE  \A m \in Host, u \in Trans : Row(m, u)'
<1> SUFFICES ASSUME NEW m \in Host, NEW u \in Trans PROVE Row(m, u)'
  OBVIOUS
<1>1. State(m, u)' = State(m, u) /\ Stamped(m, u)' = Stamped(m, u) /\ RecMove(m, u)
  BY DEF State, Stamped, Voted, RecMove
<1>2. CASE u = t
  <2>1. Ends(up'[m], t \in sess'[m], State(m, t)', logic'[t], link'[t][m], wire'[t][m], m)
    BY <1>1, <1>2
  <2>2. Answers(Stamped(m, t)', logic'[t], link'[t][m], wire'[t][m], m)
    BY <1>1, <1>2
  <2> QED BY <1>2, <2>1, <2>2 DEF Row
<1>3. CASE u # t
  BY <1>1, <1>3, RowStays
<1> QED BY <1>2, <1>3

\* A session that ends.
LEMMA EndRow ==
    ASSUME TypeOK, VoteInv, ListInv, \A m \in Host, u \in Trans : Row(m, u),
           UNCHANGED <<trans, up, sess, wire>>, NEW t \in Trans,
           NEW res \in {"fail", "rollback", "lost"}, EndSession(t, res)
    PROVE  \A m \in Host, u \in Trans : Row(m, u)'
<1>1. logic[t] \in LogicSession /\ logic \in [Trans -> LogicSession]
      /\ link \in [Trans -> [Host -> {"none", "open", "broken"}]]
  BY DEF TypeOK
<1>2. logic'[t] = [logic[t] EXCEPT !.pc = "done", !.result = res, !.todo = {}]
  BY <1>1 DEF EndSession
<1>3. /\ logic'[t].pc = "done" /\ logic'[t].result = res /\ logic'[t].todo = {}
      /\ logic'[t].trans_list = logic[t].trans_list /\ logic'[t].stat = logic[t].stat
  BY <1>1, <1>2 DEF LogicSession
<1>4. \A m \in Host : link'[t][m] = IF link[t][m] = "open" THEN "broken" ELSE link[t][m]
  BY <1>1 DEF EndSession, CloseLinks
<1>5. \A u \in Trans \ {t} : logic'[u] = logic[u] /\ link'[u] = link[u] /\ wire'[u] = wire[u]
  BY <1>1 DEF EndSession, CloseLinks
<1>6. ASSUME NEW m \in Host
      PROVE  /\ Ends(up[m], t \in sess[m], State(m, t), logic'[t], link'[t][m], wire'[t][m], m)
             /\ Answers(Stamped(m, t), logic'[t], link'[t][m], wire'[t][m], m)
  BY <1>3, <1>4 DEF Row, Ends, Answers
<1> QED BY <1>5, <1>6, LogicRow

LEMMA SessionNext ==
    ASSUME TypeOK, VoteInv, ListInv, \A m \in Host, u \in Trans : Row(m, u),
           NEW t \in Trans, NEW p \in Host,
           \/ ReqBegin(t) \/ ReqCommit(t) \/ ReqRollback(t) \/ SessionLost(t)
           \/ getFd(t, p) \/ ConnectFails(t, p) \/ BeginDone(t, p) \/ SendPrepare(t, p)
           \/ PrepareDone(t, p) \/ StorageError(t, p)
    PROVE  \A m \in Host, u \in Trans : Row(m, u)'
<1> DEFINE Goal == \A m \in Host, u \in Trans : Row(m, u)'
           Others == \A u \in Trans \ {t} : /\ logic'[u] = logic[u]
                                            /\ link'[u] = link[u] /\ wire'[u] = wire[u]
           Next1(m) == /\ Ends(up[m], t \in sess[m], State(m, t),
                               logic'[t], link'[t][m], wire'[t][m], m)
                       /\ Answers(Stamped(m, t), logic'[t], link'[t][m], wire'[t][m], m)
<1> SUFFICES Goal
  OBVIOUS
<1>0. /\ logic \in [Trans -> LogicSession] /\ logic[t] \in LogicSession
      /\ link \in [Trans -> [Host -> {"none", "open", "broken"}]]
      /\ wire \in [Trans -> [Host -> Requests \cup Responses \cup {"none"}]]
  BY DEF TypeOK
<1>1. \A m \in Host :
        /\ Ends(up[m], t \in sess[m], State(m, t), logic[t], link[t][m], wire[t][m], m)
        /\ Answers(Stamped(m, t), logic[t], link[t][m], wire[t][m], m)
  BY DEF Row
<1>2. /\ logic[t].pc = "init" => logic[t].stat = {}
      /\ logic[t].pc \in {"init", "active"} => logic[t].trans_list = {}
      /\ logic[t].pc = "send" => logic[t].todo \subseteq logic[t].trans_list
      /\ \A n \in Host :
           /\ link[t][n] = "none" => wire[t][n] = "none" /\ State(n, t) = "none"
           /\ wire[t][n] = "begin" => logic[t].trans_list = {}
           /\ wire[t][n] = "begin" /\ logic[t].pc = "active" => n \notin logic[t].stat
  BY DEF ListInv
<1>3. UNCHANGED <<trans, up, sess>>
  BY DEF ReqBegin, ReqCommit, ReqRollback, SessionLost, getFd, ConnectFails, BeginDone,
     SendPrepare, PrepareDone, StorageError
<1>4. ASSUME Others, \A m \in Host : Next1(m) PROVE Goal
  BY <1>3, <1>4, LogicRow
<1> HIDE DEF Goal
<1>5. ASSUME ReqBegin(t) PROVE Goal
  <2>1. logic'[t] = [logic[t] EXCEPT !.pc = "active", !.begin_ts = clock']
    BY <1>0, <1>5 DEF ReqBegin
  <2>2. /\ logic[t].pc = "init" /\ logic'[t].pc = "active" /\ logic'[t].stat = logic[t].stat
        /\ logic'[t].trans_list = logic[t].trans_list /\ logic'[t].todo = logic[t].todo
        /\ logic'[t].result = logic[t].result
    BY <1>0, <1>5, <2>1 DEF ReqBegin, LogicSession
  <2>3. link' = link /\ wire' = wire /\ Others
    BY <1>0, <1>5 DEF ReqBegin
  <2>4. ASSUME NEW m \in Host PROVE Next1(m)
    BY <1>1, <1>2, <2>2, <2>3 DEF Ends, Answers
  <2> QED BY <1>4, <2>3, <2>4
<1>6. ASSUME ReqCommit(t) PROVE Goal
  <2>1. PICK ts \in GetTS :
          logic' = [logic EXCEPT
            ![t].pc = IF logic[t].stat = {} THEN "done" ELSE "send",
            ![t].start_ts = ts,
            ![t].trans_list = logic[t].stat,
            ![t].todo = logic[t].stat,
            ![t].result = IF logic[t].stat = {} THEN "ok" ELSE "none"]
    BY <1>6 DEF ReqCommit
  <2>2. logic'[t] = [logic[t] EXCEPT
          !.pc = IF logic[t].stat = {} THEN "done" ELSE "send",
          !.start_ts = ts,
          !.trans_list = logic[t].stat,
          !.todo = logic[t].stat,
          !.result = IF logic[t].stat = {} THEN "ok" ELSE "none"]
    BY <1>0, <2>1
  <2>3. /\ logic[t].pc = "active" /\ logic'[t].stat = logic[t].stat
        /\ logic'[t].trans_list = logic[t].stat /\ logic'[t].todo = logic[t].stat
        /\ logic[t].stat = {} => logic'[t].pc = "done" /\ logic'[t].result = "ok"
        /\ logic[t].stat # {} => logic'[t].pc = "send" /\ logic'[t].result = "none"
    BY <1>0, <1>6, <2>2 DEF ReqCommit, LogicSession
  <2>4. link' = link /\ wire' = wire /\ Others
    BY <1>0, <1>6, <2>1 DEF ReqCommit
  <2>5. \A n \in Host : link[t][n] # "none" => n \in logic[t].stat
    BY <1>6 DEF ReqCommit, InGetFd
  <2>6. ASSUME NEW m \in Host PROVE Next1(m)
    BY <1>1, <1>2, <2>3, <2>4, <2>5 DEF Ends, Answers
  <2> QED BY <1>4, <2>4, <2>6
<1>7. ASSUME getFd(t, p) PROVE Goal
  <2>1. /\ logic' = logic /\ Others
        /\ \A m \in Host \ {p} : link'[t][m] = link[t][m] /\ wire'[t][m] = wire[t][m]
        /\ link'[t][p] = "open" /\ wire'[t][p] = "begin"
        /\ logic[t].pc = "active" /\ link[t][p] = "none" /\ up[p] /\ p \notin logic[t].stat
    BY <1>0, <1>7 DEF getFd
  <2>2. ASSUME NEW m \in Host PROVE Next1(m)
    <3>1. CASE m # p
      BY <1>1, <2>1, <3>1
    <3>2. CASE m = p
      BY <1>1, <1>2, <2>1, <3>2 DEF Ends, Answers
    <3> QED BY <3>1, <3>2
  <2> QED BY <1>4, <2>1, <2>2
<1>8. ASSUME BeginDone(t, p) PROVE Goal
  <2>1. logic'[t] = [logic[t] EXCEPT !.stat = @ \cup {p}]
    BY <1>0, <1>8 DEF BeginDone
  <2>2. /\ logic[t].pc = "active" /\ logic'[t].pc = "active"
        /\ logic'[t].stat = logic[t].stat \cup {p}
        /\ logic'[t].trans_list = logic[t].trans_list /\ logic'[t].todo = logic[t].todo
        /\ logic'[t].result = logic[t].result
    BY <1>0, <1>8, <2>1 DEF BeginDone, LogicSession
  <2>3. /\ link' = link /\ Others /\ wire[t][p] = "begun" /\ wire'[t][p] = "none"
        /\ \A m \in Host \ {p} : wire'[t][m] = wire[t][m]
    BY <1>0, <1>8 DEF BeginDone
  <2>4. ASSUME NEW m \in Host PROVE Next1(m)
    <3>1. CASE m # p
      BY <1>1, <2>2, <2>3, <3>1 DEF Ends, Answers
    <3>2. CASE m = p
      BY <1>1, <1>2, <2>2, <2>3, <3>2 DEF Ends, Answers, Requests
    <3> QED BY <3>1, <3>2
  <2> QED BY <1>4, <2>3, <2>4
<1>9. ASSUME SendPrepare(t, p) PROVE Goal
  <2>1. logic'[t] = [logic[t] EXCEPT
          !.todo = @ \ {p}, !.pc = IF logic[t].todo = {p} THEN "wait" ELSE "send"]
    BY <1>0, <1>9 DEF SendPrepare
  <2>2. /\ logic[t].pc = "send" /\ logic'[t].pc \in {"send", "wait"}
        /\ logic'[t].todo = logic[t].todo \ {p} /\ p \in logic[t].todo
        /\ logic'[t].trans_list = logic[t].trans_list /\ logic'[t].stat = logic[t].stat
        /\ logic'[t].result = logic[t].result
    BY <1>0, <1>9, <2>1 DEF SendPrepare, LogicSession, First
  <2>3. link' = link /\ Others
    BY <1>0, <1>9 DEF SendPrepare
  <2>4. \A m \in Host \ {p} : wire'[t][m] = wire[t][m]
    BY <1>0, <1>9 DEF SendPrepare
  <2>5. wire'[t][p] = IF link[t][p] = "open" THEN "prepare" ELSE wire[t][p]
    BY <1>0, <1>9 DEF SendPrepare
  <2>6. ASSUME NEW m \in Host PROVE Next1(m)
    <3>1. CASE m # p
      BY <1>1, <1>2, <2>2, <2>3, <2>4, <3>1 DEF Ends, Answers
    <3>2. CASE m = p /\ link[t][p] = "open"
      BY <1>1, <1>2, <2>2, <2>3, <2>5, <3>2 DEF Ends, Answers
    <3>3. CASE m = p /\ link[t][p] # "open"
      BY <1>1, <1>2, <2>2, <2>3, <2>5, <3>3 DEF Ends, Answers
    <3> QED BY <3>1, <3>2, <3>3
  <2> QED BY <1>4, <2>3, <2>6
<1>10. ASSUME PrepareDone(t, p) PROVE Goal
  <2>1. logic'[t] = [logic[t] EXCEPT
          !.stat = @ \ {p},
          !.pc = IF logic[t].stat = {p} THEN "done" ELSE "wait",
          !.result = IF logic[t].stat = {p} THEN "ok" ELSE "none"]
    BY <1>0, <1>10 DEF PrepareDone
  <2>2. /\ logic[t].pc = "wait" /\ p \in logic[t].stat
        /\ logic'[t].todo = logic[t].todo /\ logic'[t].stat = logic[t].stat \ {p}
        /\ logic'[t].trans_list = logic[t].trans_list
        /\ logic[t].stat = {p} => logic'[t].pc = "done" /\ logic'[t].result = "ok"
        /\ logic[t].stat # {p} => logic'[t].pc = "wait" /\ logic'[t].result = "none"
    BY <1>0, <1>10, <2>1 DEF PrepareDone, LogicSession
  <2>3. /\ link' = link /\ Others /\ wire[t][p] = "prepared" /\ wire'[t][p] = "none"
        /\ \A m \in Host \ {p} : wire'[t][m] = wire[t][m]
    BY <1>0, <1>10 DEF PrepareDone
  <2>4. ASSUME NEW m \in Host PROVE Next1(m)
    <3>1. CASE m # p
      BY <1>1, <2>2, <2>3, <3>1 DEF Ends, Answers
    <3>2. CASE m = p
      BY <1>1, <2>2, <2>3, <3>2 DEF Ends, Answers, Requests
    <3> QED BY <3>1, <3>2
  <2> QED BY <1>4, <2>3, <2>4
<1>11. ASSUME ReqRollback(t) \/ SessionLost(t) \/ ConnectFails(t, p) \/ StorageError(t, p)
       PROVE  Goal
  <2>1. PICK res \in {"fail", "rollback", "lost"} : EndSession(t, res)
    BY <1>11 DEF ReqRollback, SessionLost, ConnectFails, StorageError
  <2>2. wire' = wire
    BY <1>11 DEF ReqRollback, SessionLost, ConnectFails, StorageError
  <2> QED BY <1>3, <2>1, <2>2, EndRow DEF Goal
<1> QED BY <1>5, <1>6, <1>7, <1>8, <1>9, <1>10, <1>11

-----------------------------------------------------------------------------
(***************************************************************************)
(* Steps of the storages.                                                  *)
(***************************************************************************)

\* A Prepare that is served leaves a vote with its timestamp.
LEMMA PrepareStamps ==
    ASSUME TypeOK, ListInv, NEW n \in Host, NEW t \in Trans, Prepare(n, t)
    PROVE  /\ Stamped(n, t)' /\ State(n, t)' \in {"Prepared", "Commited"}
           /\ \A m \in Host, u \in Trans : m # n \/ u # t => trans'[m][u] = trans[m][u]
<1> DEFINE rec(ts) == [updateTransPrepared(trans[n][t], logic[t]) EXCEPT !.self_commit_ts = ts]
           new(ts) == startCleanTrans(n, rec(ts), task[n][t], ts).rec
<1>0. trans[n][t] \in TransRec /\ logic[t] \in LogicSession /\ clock \in 1 .. MaxTS
  BY DEF TypeOK
<1>1. PICK ts \in GetTS : trans' = [trans EXCEPT ![n][t] = new(ts)]
  BY DEF Prepare, updateTransSelfCommitTs
<1>2. ts \in TS /\ ts # 0
  BY <1>0, GetTSType, TimeIsTS
<1>3. rec(ts) \in TransRec
  <2>1. updateTransPrepared(trans[n][t], logic[t]) \in TransRec
    BY <1>0, PreparedType
  <2> QED BY <1>2, <2>1 DEF TransRec
<1>4. /\ rec(ts).state = "Prepared" /\ rec(ts).trans_list = logic[t].trans_list
      /\ rec(ts).self_commit_ts = ts
  BY <1>0 DEF updateTransPrepared, TransRec
<1>5. n \in logic[t].trans_list
  BY DEF Prepare, CanPrepare, ListInv
<1>6. \/ new(ts) = rec(ts)
      \/ new(ts).state = "Commited" /\ SameVote(rec(ts), new(ts))
  <2> DEFINE c == rec(ts)
             r == new(ts)
  <2>1. /\ c \in TransRec /\ c.state = "Prepared" /\ n \in c.trans_list /\ c.self_commit_ts # 0
        /\ r = startCleanTrans(n, c, task[n][t], ts).rec
    BY <1>2, <1>3, <1>4, <1>5
  <2> HIDE DEF c, r
  <2>2. \/ r = c
        \/ r.state = "Commited" /\ SameVote(c, r)
    BY <2>1, CleanPrepared
  <2> QED BY <2>2 DEF c, r
<1> HIDE DEF new
<1>7. trans'[n][t] = new(ts)
      /\ \A m \in Host, u \in Trans : m # n \/ u # t => trans'[m][u] = trans[m][u]
  BY <1>1 DEF TypeOK
<1> HIDE DEF rec
<1>8. /\ new(ts).state \in {"Prepared", "Commited"} /\ new(ts).trans_list # {}
      /\ new(ts).self_commit_ts # 0
  BY <1>2, <1>4, <1>5, <1>6 DEF SameVote
<1> QED BY <1>7, <1>8 DEF Stamped, Voted, State

\* Serving a Begin or a Prepare, and noticing that the connection is closed.
LEMMA ServeNext ==
    ASSUME TypeOK, VoteInv, ListInv, \A m \in Host, u \in Trans : Row(m, u) /\ RecMove(m, u),
           NEW n \in Host, NEW t \in Trans, StorageStep(n, t)
    PROVE  \A m \in Host, u \in Trans : Row(m, u)'
<1>0. /\ trans \in [Host -> [Trans -> TransRec]] /\ sess \in [Host -> SUBSET Trans]
      /\ wire \in [Trans -> [Host -> Requests \cup Responses \cup {"none"}]]
  BY DEF TypeOK
<1>1. /\ Ends(up[n], t \in sess[n], State(n, t), logic[t], link[t][n], wire[t][n], n)
      /\ Answers(Stamped(n, t), logic[t], link[t][n], wire[t][n], n)
  BY DEF Row
<1>2. up' = up /\ logic' = logic /\ link' = link
  BY DEF StorageStep, Begin, Prepare, SessionEnd
<1>3. \A m \in Host, u \in Trans : m # n \/ u # t =>
        /\ wire'[u][m] = wire[u][m] /\ (u \in sess'[m] <=> u \in sess[m])
        /\ State(m, u)' = State(m, u)
  <2>1. CASE Begin(n, t)
    <3>1. PICK w \in Responses \cup {"none"} : wire' = [wire EXCEPT ![t][n] = w]
      BY <2>1 DEF Begin, Respond, Responses
    <3>2. sess' = [sess EXCEPT ![n] = @ \cup {t}]
      BY <2>1 DEF Begin
    <3>3. \A m \in Host, u \in Trans : m # n \/ u # t => trans'[m][u] = trans[m][u]
      BY <1>0, <2>1 DEF Begin
    <3> QED BY <1>0, <3>1, <3>2, <3>3 DEF State
  <2>2. CASE Prepare(n, t)
    <3>1. PICK w \in Responses \cup {"none"} : wire' = [wire EXCEPT ![t][n] = w]
      BY <2>2 DEF Prepare, Respond, Responses
    <3>2. sess' = [sess EXCEPT ![n] = @ \ {t}]
      BY <2>2 DEF Prepare
    <3>3. \A m \in Host, u \in Trans : m # n \/ u # t => trans'[m][u] = trans[m][u]
      BY <2>2, PrepareStamps
    <3> QED BY <1>0, <3>1, <3>2, <3>3 DEF State
  <2>3. CASE SessionEnd(n, t)
    <3>1. \A m \in Host, u \in Trans : m # n \/ u # t => wire'[u][m] = wire[u][m]
      BY <1>0, <2>3 DEF SessionEnd
    <3>2. sess' = [sess EXCEPT ![n] = @ \ {t}]
      BY <2>3 DEF SessionEnd
    <3> DEFINE new(ts) == startCleanTrans(n, trans[n][t], task[n][t], ts).rec
    <3>3. PICK ts \in PassTS(trans[n][t]) : trans' = [trans EXCEPT ![n][t] = new(ts)]
      BY <2>3 DEF SessionEnd
    <3> HIDE DEF new
    <3>4. \A m \in Host, u \in Trans : m # n \/ u # t => trans'[m][u] = trans[m][u]
      BY <1>0, <3>3
    <3> QED BY <1>0, <3>1, <3>2, <3>4 DEF State
  <2> QED BY <2>1, <2>2, <2>3 DEF StorageStep
<1>4. ASSUME NEW m \in Host, NEW u \in Trans, m # n \/ u # t PROVE Row(m, u)'
  BY <1>2, <1>3, <1>4, RowStays
<1>5. Stamped(n, t) => Stamped(n, t)'
  BY StampStays
<1>6. CASE Begin(n, t)
  <2>1. /\ State(n, t) = "none" /\ wire[t][n] = "begin" /\ up[n]
        /\ State(n, t)' = "Begin" /\ t \in sess'[n]
        /\ wire'[t][n] = IF link[t][n] = "open" THEN "begun" ELSE "none"
    BY <1>0, <1>6 DEF Begin, State, Respond, TransRec
  <2>2. Ends(up'[n], t \in sess'[n], State(n, t)', logic'[t], link'[t][n], wire'[t][n], n)
    BY <1>1, <1>2, <2>1 DEF Ends
  <2>3. Answers(Stamped(n, t)', logic'[t], link'[t][n], wire'[t][n], n)
    BY <1>1, <1>2, <1>5, <2>1 DEF Answers
  <2> QED BY <1>4, <2>2, <2>3 DEF Row
<1>7. CASE Prepare(n, t)
  <2>1. /\ State(n, t) = "Begin" /\ wire[t][n] = "prepare" /\ up[n] /\ t \in sess[n]
        /\ t \notin sess'[n]
        /\ wire'[t][n] = IF link[t][n] = "open" THEN "prepared" ELSE "none"
    BY <1>0, <1>7 DEF Prepare, CanPrepare, State, Respond
  <2>2. Stamped(n, t)' /\ State(n, t)' \in {"Prepared", "Commited"}
    BY <1>7, PrepareStamps
  <2>3. /\ n \in logic[t].trans_list \ logic[t].todo
        /\ logic[t].pc \notin {"init", "active"}
    BY <1>1, <2>1 DEF Ends, ListInv
  <2>4. Ends(up'[n], t \in sess'[n], State(n, t)', logic'[t], link'[t][n], wire'[t][n], n)
    BY <1>1, <1>2, <2>1, <2>2, <2>3 DEF Ends, Requests
  <2>5. Answers(Stamped(n, t)', logic'[t], link'[t][n], wire'[t][n], n)
    BY <1>1, <1>2, <2>1, <2>2, <2>3 DEF Answers
  <2> QED BY <1>4, <2>4, <2>5 DEF Row
<1>8. CASE SessionEnd(n, t)
  <2>1. /\ t \in sess[n] /\ t \notin sess'[n] /\ link[t][n] = "broken"
        /\ wire'[t][n] = IF wire[t][n] \in Requests THEN "none" ELSE wire[t][n]
    BY <1>0, <1>8 DEF SessionEnd
  <2>2. State(n, t) # "none"
    BY <1>1, <2>1 DEF Ends
  <2>3. Row(n, t)'
    BY <1>2, <2>1, <2>2, RowStays DEF Requests
  <2> QED BY <1>4, <2>3
<1> QED BY <1>6, <1>7, <1>8 DEF StorageStep

\* PrepareTasks, broken connections, crashes and restarts.
LEMMA OtherNext ==
    ASSUME TypeOK, VoteInv, ListInv, TaskInv,
           \A m \in Host, u \in Trans : Row(m, u) /\ RecMove(m, u),
           NEW n \in Host, NEW t \in Trans,
           \/ TaskStep(n, t) \/ LinkBreaks(t, n) \/ CrashInPrepare(n, t)
           \/ Crash(n) \/ startUpClean(n) \/ UNCHANGED vars
    PROVE  \A m \in Host, u \in Trans : Row(m, u)'
<1> SUFFICES ASSUME NEW m \in Host, NEW u \in Trans PROVE Row(m, u)'
  OBVIOUS
<1>0. /\ trans \in [Host -> [Trans -> TransRec]] /\ sess \in [Host -> SUBSET Trans]
      /\ up \in [Host -> BOOLEAN]
      /\ link \in [Trans -> [Host -> {"none", "open", "broken"}]]
      /\ wire \in [Trans -> [Host -> Requests \cup Responses \cup {"none"}]]
  BY DEF TypeOK
<1>1. Ends(up[m], u \in sess[m], State(m, u), logic[u], link[u][m], wire[u][m], m)
  BY DEF Row
<1>2. CASE UNCHANGED vars
  BY <1>2, RowStays DEF vars, State
<1>3. CASE LinkBreaks(t, n)
  <2>1. /\ UNCHANGED <<trans, up, sess, logic, wire>>
        /\ \/ link'[u][m] = link[u][m]
           \/ link[u][m] = "open" /\ link'[u][m] = "broken"
    BY <1>0, <1>3 DEF LinkBreaks
  <2> QED BY <2>1, RowStays DEF State
<1>4. ASSUME NEW p \in Host, AskTransState(n, t, p) \/ AskFails(n, t, p) \/ GetTransState(n, t, p)
      PROVE  Row(m, u)'
  <2>1. UNCHANGED <<up, sess, logic, link, wire>>
    BY <1>4 DEF AskTransState, AskFails, GetTransState
  <2>2. CASE AskTransState(n, t, p)
    BY <2>1, <2>2, RowStays DEF AskTransState, State
  <2>3. CASE AskFails(n, t, p) \/ GetTransState(n, t, p)
    <3>1. State(n, t) = "Prepared"
      BY <2>3, IdleTask DEF AskFails, GetTransState, First
    <3>2. CASE m = n /\ u = t
      <4>1. u \notin sess[m] /\ State(m, u) # "none"
        BY <1>1, <3>1, <3>2 DEF Ends
      <4> QED BY <2>1, <4>1, RowStays
    <3>3. CASE m # n \/ u # t
      <4>1. PICK rec : trans' = [trans EXCEPT ![n][t] = rec]
        BY <2>3 DEF AskFails, GetTransState
      <4>2. trans'[m][u] = trans[m][u]
        BY <1>0, <3>3, <4>1
      <4> QED BY <2>1, <4>2, RowStays DEF State
    <3> QED BY <3>2, <3>3
  <2> QED BY <1>4, <2>2, <2>3
<1>5. ASSUME Die(n), logic' = logic,
             \/ State(m, u)' = State(m, u)
             \/ m = n /\ State(m, u) # "none"
      PROVE  Row(m, u)'
  <2>1. CASE m = n
    <3>1. /\ u \notin sess'[m]
          /\ \/ link'[u][m] = link[u][m] /\ link[u][m] # "open"
             \/ link[u][m] = "open" /\ link'[u][m] = "broken"
          /\ wire'[u][m] \in {wire[u][m], "none"} /\ wire'[u][m] \notin Requests
      BY <1>0, <1>5, <2>1 DEF Die, Requests
    <3>2. link'[u][m] # "open" /\ wire'[u][m] # "prepare"
      BY <3>1 DEF Requests
    <3> QED BY <1>5, <3>1, <3>2, RowStays
  <2>2. CASE m # n
    <3>1. /\ up'[m] = up[m] /\ sess'[m] = sess[m]
          /\ link'[u][m] = link[u][m] /\ wire'[u][m] = wire[u][m]
      BY <1>0, <1>5, <2>2 DEF Die
    <3> QED BY <1>5, <2>2, <3>1, RowStays
  <2> QED BY <2>1, <2>2
<1>6. CASE Crash(n)
  BY <1>5, <1>6 DEF Crash, State
<1>7. CASE CrashInPrepare(n, t)
  <2>1. Die(n) /\ logic' = logic /\ State(n, t) = "Begin"
    BY <1>7 DEF CrashInPrepare, CanPrepare, State
  <2>2. m # n \/ u # t => State(m, u)' = State(m, u)
    BY <1>0, <1>7 DEF CrashInPrepare, State
  <2>3. m = n /\ u = t => State(m, u) # "none"
    BY <2>1
  <2>4. CASE m = n /\ u = t
    BY <1>5, <2>1, <2>3, <2>4
  <2>5. CASE m # n \/ u # t
    BY <1>5, <2>1, <2>2, <2>5
  <2> QED BY <2>4, <2>5
<1>8. CASE startUpClean(n)
  <2>1. UNCHANGED <<sess, logic, link, wire>> /\ ~up[n]
    BY <1>8 DEF startUpClean
  <2>2. CASE m = n
    <3>1. u \notin sess[m] /\ wire[u][m] \notin Requests /\ link[u][m] # "open"
      BY <1>1, <2>1, <2>2 DEF Ends
    <3>2. State(m, u)' = State(m, u) \/ State(m, u) # "none"
      <4>1. State(m, u) = "none" => State(m, u)' = "none"
        BY <3>1 DEF RecMove, Joins, Aborts, Votes, Commits, FollowsAbort, State, Requests
      <4> QED BY <4>1
    <3> QED BY <2>1, <3>1, <3>2, RowStays
  <2>3. CASE m # n
    <3> DEFINE res(ts, v) == startCleanTrans(n, trans[n][v], NoTask, ts)
    <3>1. PICK ts \in GetTS : trans' = [trans EXCEPT ![n] = [v \in Trans |-> res(ts, v).rec]]
      BY <1>8 DEF startUpClean
    <3> HIDE DEF res
    <3>2. trans'[m] = trans[m]
      BY <1>0, <2>3, <3>1
    <3>3. up'[m] = up[m]
      BY <1>0, <1>8, <2>3 DEF startUpClean
    <3> QED BY <2>1, <3>2, <3>3, RowStays DEF State
  <2> QED BY <2>2, <2>3
<1> QED BY <1>2, <1>3, <1>4, <1>6, <1>7, <1>8 DEF TaskStep

-----------------------------------------------------------------------------
(***************************************************************************)
(* A storage pursues what it holds prepared.                               *)
(***************************************************************************)

\* What PursuitInv says of one record and its PrepareTask.
Pursues(a, s, tk) ==
    /\ tk # NoTask => a /\ tk.todo # {}
    /\ a /\ s = "Prepared" => tk # NoTask

\* The record and the PrepareTask that a running storage is left with.
GoesOn(res) ==
    \/ res.rec.state = "Prepared" /\ res.task.todo # {}
    \/ res.rec.state # "Prepared" /\ res.task = NoTask

LEMMA GoesOnPursues ==
    ASSUME NEW res, GoesOn(res) PROVE Pursues(TRUE, res.rec.state, res.task)
BY DEF GoesOn, Pursues, NoTask

\* A pass that is over and does not commit leaves out a participant: the next
\* one has somebody to ask.
LEMMA ContinueGoesOn ==
    ASSUME NEW n \in Host, NEW rec \in TransRec, NEW pass, NEW ts, rec.state = "Prepared",
           n \in pass.prepared, pass.prepared \subseteq rec.trans_list,
           NEW res, res = Continue(n, rec, pass, ts)
    PROVE  GoesOn(res)
<1>1. CASE pass.todo # {}
  BY <1>1 DEF Continue, GoesOn
<1>2. CASE pass.todo = {} /\ AllPrepared(rec, pass)
  <2>1. res.rec = [rec EXCEPT !.state = "Commited", !.commit_trans = pass.max_commit_ts]
        /\ res.task = NoTask
    BY <1>2 DEF Continue
  <2> QED BY <2>1 DEF GoesOn, TransRec
<1>3. CASE pass.todo = {} /\ ~AllPrepared(rec, pass)
  <2>1. res.rec = rec /\ res.task = NewPass(n, rec, ts)
    BY <1>3 DEF Continue
  <2>2. rec.trans_list \ {n} # {}
    BY <1>3 DEF AllPrepared
  <2> QED BY <2>1, <2>2 DEF GoesOn, NewPass
<1> QED BY <1>1, <1>2, <1>3

LEMMA CleanGoesOn ==
    ASSUME NEW n \in Host, NEW rec \in TransRec, NEW tk, NEW ts,
           rec.state = "Prepared" => n \in rec.trans_list,
           rec.state # "Prepared" => tk = NoTask,
           NEW res, res = startCleanTrans(n, rec, tk, ts)
    PROVE  GoesOn(res)
<1>1. CASE rec.state = "Begin"
  <2>1. res.rec = [rec EXCEPT !.state = "Rollback"] /\ res.task = tk
    BY <1>1 DEF startCleanTrans
  <2> QED BY <1>1, <2>1 DEF GoesOn, TransRec
<1>2. CASE rec.state = "Prepared"
  <2> DEFINE pass == NewPass(n, rec, ts)
  <2>1. res = Continue(n, rec, pass, ts)
    BY <1>2 DEF startCleanTrans
  <2>2. n \in pass.prepared /\ pass.prepared \subseteq rec.trans_list
    BY <1>2 DEF NewPass
  <2> HIDE DEF pass
  <2> QED BY <1>2, <2>1, <2>2, ContinueGoesOn
<1>3. CASE rec.state \notin {"Begin", "Prepared"}
  BY <1>3 DEF startCleanTrans, GoesOn
<1> QED BY <1>1, <1>2, <1>3

\* One record and its PrepareTask are replaced at a storage that runs.
LEMMA PursuitRow ==
    ASSUME TypeOK, PursuitInv, NEW n \in Host, NEW t \in Trans, up[n], up' = up,
           NEW res, GoesOn(res),
           trans' = [trans EXCEPT ![n][t] = res.rec],
           task' = [task EXCEPT ![n][t] = res.task]
    PROVE  PursuitInv'
<1>1. /\ trans'[n][t] = res.rec /\ task'[n][t] = res.task
      /\ \A m \in Host, u \in Trans : m # n \/ u # t =>
           trans'[m][u] = trans[m][u] /\ task'[m][u] = task[m][u]
  BY DEF TypeOK
<1>2. ASSUME NEW m \in Host, NEW u \in Trans
      PROVE  Pursues(up'[m], trans'[m][u].state, task'[m][u])
  <2>1. CASE m = n /\ u = t
    <3>1. up'[m] = TRUE
      BY <2>1 DEF TypeOK
    <3>2. Pursues(TRUE, res.rec.state, res.task)
      BY GoesOnPursues
    <3> QED BY <1>1, <2>1, <3>1, <3>2
  <2>2. CASE m # n \/ u # t
    BY <1>1, <2>2 DEF PursuitInv, Pursues, State
  <2> QED BY <2>1, <2>2
<1> QED BY <1>2 DEF PursuitInv, Pursues, State

LEMMA PursuitNext ==
    ASSUME TypeOK, VoteInv, ListInv, TaskInv, PursuitInv, [Next]_vars
    PROVE  PursuitInv'
<1> DEFINE Goal == PursuitInv'
<1> SUFFICES Goal
  OBVIOUS
<1>0. /\ trans \in [Host -> [Trans -> TransRec]] /\ task \in [Host -> [Trans -> PrepareTask]]
      /\ up \in [Host -> BOOLEAN]
  BY DEF TypeOK
<1>1. CASE UNCHANGED <<trans, task, up>>
  BY <1>1 DEF PursuitInv, State
<1>2. ASSUME NEW n \in Host, NEW t \in Trans, State(n, t) # "Prepared"
      PROVE  task[n][t] = NoTask
  BY <1>2, IdleTask DEF PursuitInv
<1>3. ASSUME NEW n \in Host, NEW t \in Trans, NEW p \in Host, First(p, task[n][t].todo)
      PROVE  /\ State(n, t) = "Prepared" /\ trans[n][t] \in TransRec
             /\ n \in task[n][t].prepared /\ p \in trans[n][t].trans_list
             /\ task[n][t].prepared \subseteq trans[n][t].trans_list
             /\ task[n][t] \in PrepareTask
  <2>1. Fits(n, Records(t), task[n][t]) /\ Records(t)[n] = trans[n][t]
    BY IdleTask, RecordsType
  <2> QED BY <1>0, <1>3, <2>1, IdleTask DEF First, Fits, TaskFits
<1> HIDE DEF Goal
<1>4. ASSUME NEW n \in Host, NEW t \in Trans, Begin(n, t) PROVE Goal
  <2>1. task[n][t] = NoTask /\ up[n] /\ up' = up
    BY <1>2, <1>4 DEF Begin, State
  <2>2. /\ trans'[n][t].state = "Begin" /\ task' = task
        /\ \A m \in Host, u \in Trans : m # n \/ u # t => trans'[m][u] = trans[m][u]
    BY <1>0, <1>4 DEF Begin, TransRec
  <2> QED BY <2>1, <2>2 DEF Goal, PursuitInv, State
<1>5. ASSUME NEW n \in Host, NEW t \in Trans, Prepare(n, t) PROVE Goal
  <2> DEFINE rec(ts) == updateTransSelfCommitTs(updateTransPrepared(trans[n][t], logic[t]), ts)
             res(ts) == startCleanTrans(n, rec(ts), task[n][t], ts)
  <2>1. PICK ts \in GetTS : /\ trans' = [trans EXCEPT ![n][t] = res(ts).rec]
                            /\ task' = [task EXCEPT ![n][t] = res(ts).task]
    BY <1>5 DEF Prepare
  <2>2. /\ updateTransPrepared(trans[n][t], logic[t]) \in TransRec
        /\ updateTransPrepared(trans[n][t], logic[t]).trans_list = logic[t].trans_list
        /\ ts \in TS
    <3>1. trans[n][t] \in TransRec /\ logic[t] \in LogicSession /\ clock \in 1 .. MaxTS
      BY DEF TypeOK
    <3>2. updateTransPrepared(trans[n][t], logic[t]).trans_list = logic[t].trans_list
      BY <3>1 DEF updateTransPrepared, TransRec
    <3> QED BY <3>1, <3>2, PreparedType, GetTSType, TimeIsTS
  <2>3. rec(ts) \in TransRec /\ rec(ts).trans_list = logic[t].trans_list
    BY <2>2 DEF updateTransSelfCommitTs, TransRec
  <2>4. task[n][t] = NoTask /\ up[n] /\ up' = up /\ n \in logic[t].trans_list
    BY <1>2, <1>5 DEF Prepare, CanPrepare, State, ListInv
  <2>5. GoesOn(res(ts))
    <3> DEFINE c == rec(ts)
               r == res(ts)
    <3>1. c \in TransRec /\ n \in c.trans_list /\ r = startCleanTrans(n, c, task[n][t], ts)
      BY <2>3, <2>4
    <3> HIDE DEF c, r
    <3>2. GoesOn(r)
      BY <2>4, <3>1, CleanGoesOn
    <3> QED BY <3>2 DEF r
  <2> HIDE DEF res
  <2> QED BY <2>1, <2>4, <2>5, PursuitRow DEF Goal
<1>6. ASSUME NEW n \in Host, NEW t \in Trans, SessionEnd(n, t) PROVE Goal
  <2> DEFINE res(ts) == startCleanTrans(n, trans[n][t], task[n][t], ts)
  <2>1. PICK ts \in PassTS(trans[n][t]) :
          /\ trans' = [trans EXCEPT ![n][t] = res(ts).rec]
          /\ task' = [task EXCEPT ![n][t] = res(ts).task]
    BY <1>6 DEF SessionEnd
  <2>2. up[n] /\ up' = up
    BY <1>6 DEF SessionEnd
  <2>3. trans[n][t].state = "Prepared" => n \in trans[n][t].trans_list
    BY DEF VoteInv, State
  <2>4. GoesOn(res(ts))
    BY <1>0, <1>2, <2>3, CleanGoesOn DEF State
  <2> HIDE DEF res
  <2> QED BY <2>1, <2>2, <2>4, PursuitRow DEF Goal
<1>7. ASSUME NEW n \in Host, NEW t \in Trans, NEW p \in Host, AskTransState(n, t, p) PROVE Goal
  <2>1. /\ trans' = trans /\ up' = up /\ up[n] /\ task[n][t].todo # {}
        /\ task'[n][t].todo = task[n][t].todo
        /\ \A m \in Host, u \in Trans : m # n \/ u # t => task'[m][u] = task[m][u]
    BY <1>0, <1>7 DEF AskTransState, First, PrepareTask
  <2>2. task'[n][t] # NoTask
    BY <2>1 DEF NoTask
  <2>3. ASSUME NEW m \in Host, NEW u \in Trans
        PROVE  Pursues(up'[m], trans'[m][u].state, task'[m][u])
    <3>1. CASE m = n /\ u = t
      BY <2>1, <2>2, <3>1 DEF Pursues
    <3>2. CASE m # n \/ u # t
      BY <2>1, <3>2 DEF PursuitInv, Pursues, State
    <3> QED BY <3>1, <3>2
  <2> QED BY <2>3 DEF Goal, PursuitInv, Pursues, State
<1>8. ASSUME NEW n \in Host, NEW t \in Trans, NEW p \in Host, AskFails(n, t, p) PROVE Goal
  <2> DEFINE pass == [task[n][t] EXCEPT !.todo = @ \ {p}, !.answer = NoAnswer]
             res(ts) == Continue(n, trans[n][t], pass, ts)
  <2>1. PICK ts \in PassTS(trans[n][t]) :
          /\ trans' = [trans EXCEPT ![n][t] = res(ts).rec]
          /\ task' = [task EXCEPT ![n][t] = res(ts).task]
    BY <1>8 DEF AskFails
  <2>2. up[n] /\ up' = up /\ First(p, task[n][t].todo)
    BY <1>8 DEF AskFails
  <2>3. pass.prepared = task[n][t].prepared
    BY <1>3, <2>2 DEF PrepareTask
  <2> HIDE DEF pass
  <2>4. GoesOn(res(ts))
    BY <1>3, <2>2, <2>3, ContinueGoesOn DEF State
  <2> HIDE DEF res
  <2> QED BY <2>1, <2>2, <2>4, PursuitRow DEF Goal
<1>9. ASSUME NEW n \in Host, NEW t \in Trans, NEW p \in Host, GetTransState(n, t, p) PROVE Goal
  <2> DEFINE ans == task[n][t].answer
  <2>1. up[n] /\ up' = up /\ First(p, task[n][t].todo)
    BY <1>9 DEF GetTransState
  <2>2. CASE ans.state \in {"Begin", "Prepared"}
    <3> DEFINE pass == CountAnswer(task[n][t], p)
               res(ts) == Continue(n, trans[n][t], pass, ts)
    <3>1. PICK ts \in PassTS(trans[n][t]) :
            /\ trans' = [trans EXCEPT ![n][t] = res(ts).rec]
            /\ task' = [task EXCEPT ![n][t] = res(ts).task]
      BY <1>9, <2>2 DEF GetTransState
    <3>2. /\ task[n][t].prepared \subseteq pass.prepared
          /\ pass.prepared \subseteq task[n][t].prepared \cup {p}
      BY <1>3, <2>1 DEF CountAnswer, PrepareTask
    <3> HIDE DEF pass
    <3>3. n \in pass.prepared /\ pass.prepared \subseteq trans[n][t].trans_list
      BY <1>3, <2>1, <3>2
    <3>4. GoesOn(res(ts))
      BY <1>3, <2>1, <3>3, ContinueGoesOn DEF State
    <3> HIDE DEF res
    <3> QED BY <2>1, <3>1, <3>4, PursuitRow DEF Goal
  <2>3. CASE ans.state \notin {"Begin", "Prepared"}
    <3> DEFINE new == IF ans.state = "Commited"
                      THEN [trans[n][t] EXCEPT !.state = "Commited", !.commit_trans = ans.commit_ts]
                      ELSE [trans[n][t] EXCEPT !.state = "Rollback"]
               res == [rec |-> new, task |-> NoTask]
    <3>1. trans' = [trans EXCEPT ![n][t] = new] /\ task' = [task EXCEPT ![n][t] = NoTask]
      BY <1>9, <2>3 DEF GetTransState
    <3>2. new.state # "Prepared"
      BY <1>0 DEF TransRec
    <3> HIDE DEF new
    <3>3. GoesOn(res) /\ res.rec = new /\ res.task = NoTask
      BY <3>2 DEF GoesOn
    <3> HIDE DEF res
    <3> QED BY <2>1, <3>1, <3>3, PursuitRow DEF Goal
  <2> QED BY <2>2, <2>3
<1>10. ASSUME NEW n \in Host, Die(n), \A m \in Host \ {n} : trans'[m] = trans[m] PROVE Goal
  <2>1. /\ ~up'[n] /\ \A u \in Trans : task'[n][u] = NoTask
        /\ \A m \in Host \ {n} : up'[m] = up[m] /\ task'[m] = task[m]
    BY <1>0, <1>10 DEF Die
  <2> QED BY <1>10, <2>1 DEF Goal, PursuitInv, State
<1>11. ASSUME NEW n \in Host, Crash(n) PROVE Goal
  BY <1>10, <1>11 DEF Crash
<1>12. ASSUME NEW n \in Host, NEW t \in Trans, CrashInPrepare(n, t) PROVE Goal
  <2>1. \A m \in Host \ {n} : trans'[m] = trans[m]
    BY <1>0, <1>12 DEF CrashInPrepare
  <2> QED BY <1>10, <1>12, <2>1 DEF CrashInPrepare
<1>13. ASSUME NEW n \in Host, startUpClean(n) PROVE Goal
  <2> DEFINE res(ts, u) == startCleanTrans(n, trans[n][u], NoTask, ts)
  <2>1. PICK ts \in GetTS :
          /\ trans' = [trans EXCEPT ![n] = [u \in Trans |-> res(ts, u).rec]]
          /\ task' = [task EXCEPT ![n] = [u \in Trans |-> res(ts, u).task]]
    BY <1>13 DEF startUpClean
  <2>2. ASSUME NEW u \in Trans PROVE GoesOn(res(ts, u))
    <3>1. trans[n][u].state = "Prepared" => n \in trans[n][u].trans_list
      BY DEF VoteInv, State
    <3> QED BY <1>0, <3>1, CleanGoesOn
  <2> HIDE DEF res
  <2>3. /\ \A u \in Trans : trans'[n][u] = res(ts, u).rec /\ task'[n][u] = res(ts, u).task
        /\ \A m \in Host \ {n} : trans'[m] = trans[m] /\ task'[m] = task[m]
        /\ up'[n] /\ \A m \in Host \ {n} : up'[m] = up[m]
    BY <1>0, <1>13, <2>1 DEF startUpClean
  <2>4. \A u \in Trans : Pursues(TRUE, trans'[n][u].state, task'[n][u])
    BY <2>2, <2>3, GoesOnPursues
  <2> QED BY <2>3, <2>4 DEF Goal, PursuitInv, Pursues, State
<1>14. ASSUME NEW t \in Trans, NEW n \in Host,
              \/ ReqBegin(t) \/ ReqCommit(t) \/ ReqRollback(t) \/ SessionLost(t)
              \/ getFd(t, n) \/ ConnectFails(t, n) \/ LinkBreaks(t, n) \/ BeginDone(t, n)
              \/ SendPrepare(t, n) \/ PrepareDone(t, n) \/ StorageError(t, n)
       PROVE  Goal
  <2>1. UNCHANGED <<trans, task, up>>
    BY <1>14 DEF ReqBegin, ReqCommit, ReqRollback, SessionLost, getFd, ConnectFails,
       LinkBreaks, BeginDone, SendPrepare, PrepareDone, StorageError
  <2> QED BY <1>1, <2>1 DEF Goal
<1>15. CASE UNCHANGED vars
  BY <1>1, <1>15 DEF Goal, vars
<1>16. 0 \in Host
  BY NumHostAssumption DEF Host
<1> QED
  BY <1>4, <1>5, <1>6, <1>7, <1>8, <1>9, <1>11, <1>12, <1>13, <1>14, <1>15, <1>16
  DEF Next, LogicStep, StorageStep, TaskStep

-----------------------------------------------------------------------------
(***************************************************************************)
(* The theorems.                                                           *)
(***************************************************************************)

LEMMA ProtocolInit == Init => ProtocolInv
<1> SUFFICES ASSUME Init PROVE ProtocolInv
  OBVIOUS
<1>1. ASSUME NEW n \in Host, NEW t \in Trans
      PROVE  /\ up[n] /\ t \notin sess[n] /\ State(n, t) = "none"
             /\ logic[t] = NewSession /\ link[t][n] = "none" /\ wire[t][n] = "none"
             /\ task[n][t] = NoTask
  BY DEF Init, State, NotFound
<1>2. \A n \in Host, t \in Trans : Row(n, t)
  <2> SUFFICES ASSUME NEW n \in Host, NEW t \in Trans PROVE Row(n, t)
    OBVIOUS
  <2>1. /\ logic[t].pc = "init" /\ logic[t].stat = {} /\ logic[t].result = "none"
        /\ logic[t].trans_list = {}
    BY <1>1 DEF NewSession
  <2>2. Ends(up[n], t \in sess[n], State(n, t), logic[t], link[t][n], wire[t][n], n)
    BY <1>1, <2>1 DEF Ends
  <2>3. Answers(Stamped(n, t), logic[t], link[t][n], wire[t][n], n)
    BY <1>1, <2>1 DEF Answers
  <2> QED BY <2>2, <2>3 DEF Row
<1>3. PursuitInv
  BY <1>1 DEF PursuitInv
<1> QED BY <1>2, <1>3, TypeInit, VotingInvInit, RowParts DEF ProtocolInv

LEMMA ProtocolNext ==
    ASSUME TypeOK, ProtocolInv, [Next]_vars
    PROVE  ProtocolInv'
<1>1. VoteInv /\ ListInv /\ TaskInv /\ VotingInv /\ PursuitInv
  BY DEF ProtocolInv, VotingInv
<1>2. (\A m \in Host, u \in Trans : RecMove(m, u)) /\ VotingInv'
  BY <1>1, MoveNext
<1>3. \A m \in Host, u \in Trans : Row(m, u)
  BY RowParts DEF ProtocolInv
<1>4. PursuitInv'
  BY <1>1, PursuitNext
<1> DEFINE Rows == \A m \in Host, u \in Trans : Row(m, u)
<1>5. ASSUME NEW t \in Trans, NEW p \in Host,
             \/ ReqBegin(t) \/ ReqCommit(t) \/ ReqRollback(t) \/ SessionLost(t)
             \/ getFd(t, p) \/ ConnectFails(t, p) \/ BeginDone(t, p) \/ SendPrepare(t, p)
             \/ PrepareDone(t, p) \/ StorageError(t, p)
      PROVE  Rows'
  BY <1>1, <1>3, <1>5, SessionNext
<1>6. ASSUME NEW n \in Host, NEW t \in Trans, StorageStep(n, t) PROVE Rows'
  BY <1>1, <1>2, <1>3, <1>6, ServeNext
<1>7. ASSUME NEW n \in Host, NEW t \in Trans,
             \/ TaskStep(n, t) \/ LinkBreaks(t, n) \/ CrashInPrepare(n, t)
             \/ Crash(n) \/ startUpClean(n) \/ UNCHANGED vars
      PROVE  Rows'
  BY <1>1, <1>2, <1>3, <1>7, OtherNext
<1>8. ASSUME NEW n \in Host, Crash(n) \/ startUpClean(n) \/ UNCHANGED vars PROVE Rows'
  <2>1. CASE Trans = {}
    BY <2>1
  <2>2. ASSUME NEW t \in Trans PROVE Rows'
    BY <1>7, <1>8
  <2> QED BY <2>1, <2>2
<1>9. 0 \in Host
  BY NumHostAssumption DEF Host
<1> HIDE DEF Rows
<1>10. ASSUME NEW t \in Trans, LogicStep(t) PROVE Rows'
  BY <1>5, <1>10 DEF LogicStep
<1>11. Rows'
  BY <1>5, <1>6, <1>7, <1>8, <1>9, <1>10 DEF Next
<1>12. SessionInv' /\ AnswerInv'
  BY <1>11, TypeNext, RowPartsNext DEF Rows
<1> QED BY <1>2, <1>4, <1>12 DEF ProtocolInv

\* The whole inductive invariant: lists, votes, decisions and beliefs, the two
\* ends of the connections, the answers and the PrepareTasks.
THEOREM ProtocolCorrect == Spec => []ProtocolInv
<1>1. TypeOK /\ ProtocolInv /\ [Next]_vars => ProtocolInv'
  BY ProtocolNext
<1> QED BY <1>1, TypeCorrect, ProtocolInit, PTL DEF Spec

\* No Begin and no Prepare that arrives is ever refused, which is why
\* logicServ may do no more than log the result of a Prepare.
THEOREM EveryRequestServed == Spec => []NothingRefused
<1>1. TypeOK /\ ProtocolInv => NothingRefused
  BY DEF ProtocolInv, SessionInv, NothingRefused, CanPrepare, State
<1> QED BY <1>1, TypeCorrect, ProtocolCorrect, PTL

\* A storage that runs has a PrepareTask for exactly the transactions it holds
\* prepared: none is forgotten over a crash, and none is asked for in vain.
THEOREM EveryPreparedPursued == Spec => []EveryPreparedHasTask
<1>1. ASSUME TypeOK, ProtocolInv, NEW n \in Host, NEW t \in Trans, up[n]
      PROVE  State(n, t) = "Prepared" <=> task[n][t] # NoTask
  BY <1>1, IdleTask DEF ProtocolInv, VotingInv, PursuitInv
<1>2. TypeOK /\ ProtocolInv => EveryPreparedHasTask
  BY <1>1 DEF EveryPreparedHasTask
<1> QED BY <1>2, TypeCorrect, ProtocolCorrect, PTL

-----------------------------------------------------------------------------
(***************************************************************************)
(* What the storages promise about one transaction.                        *)
(***************************************************************************)

\* The facts about a record that is committed.
LEMMA CommitFacts ==
    ASSUME TypeOK, VotingInv, NEW n \in Host, NEW t \in Trans, State(n, t) = "Commited"
    PROVE  /\ Voted(n, t) /\ n \in logic[t].trans_list
           /\ logic[t].trans_list \subseteq Host
           /\ trans[n][t].trans_list = logic[t].trans_list
           /\ trans[n][t].start_trans = logic[t].start_ts
           /\ \A m \in logic[t].trans_list :
                trans[m][t].self_commit_ts <= trans[n][t].commit_trans
           /\ (\A m \in logic[t].trans_list : trans[m][t].self_commit_ts # 0) =>
                \E m \in logic[t].trans_list :
                  trans[m][t].self_commit_ts = trans[n][t].commit_trans
           /\ trans[n][t].start_trans <= trans[n][t].commit_trans
<1>1. Voted(n, t) /\ n \in trans[n][t].trans_list
      /\ trans[n][t].trans_list = logic[t].trans_list
      /\ trans[n][t].start_trans = logic[t].start_ts
  BY DEF VotingInv, VoteInv, Voted
<1>2. HasMaxTS(Records(t), trans[n][t])
  BY DEF VotingInv, DecisionInv
<1>3. logic[t].trans_list \subseteq Host
  BY DEF TypeOK, LogicSession
<1>4. \A m \in logic[t].trans_list : Records(t)[m] = trans[m][t]
  BY <1>3, RecordsType
<1> QED BY <1>1, <1>2, <1>3, <1>4 DEF HasMaxTS

\* Every storage commits with the largest timestamp of the participants, or a
\* later one if a participant died between the two Puts of its prepare.
THEOREM LargestTimestamp == Spec => []CommitTsIsMax
<1>1. ASSUME TypeOK, VotingInv PROVE CommitTsIsMax
  <2>1. ASSUME NEW t \in Trans, NEW n \in Host, State(n, t) = "Commited"
        PROVE  LET selves == {trans[m][t].self_commit_ts : m \in trans[n][t].trans_list}
               IN  /\ \A ts \in selves : ts <= trans[n][t].commit_trans
                   /\ 0 \notin selves => trans[n][t].commit_trans \in selves
    BY <1>1, <2>1, CommitFacts
  <2> QED BY <2>1 DEF CommitTsIsMax
<1> QED BY <1>1, TypeCorrect, VotingCorrect, PTL

\* The commit timestamp is never below that of the client's commit request,
\* even if a crash lost a storage's own one.
THEOREM CommitsAfterStart == Spec => []CommitAfterStart
<1>1. ASSUME TypeOK, VotingInv PROVE CommitAfterStart
  <2>1. ASSUME NEW n \in Host, NEW t \in Trans, State(n, t) = "Commited"
        PROVE  /\ logic[t].begin_ts <= trans[n][t].start_trans
               /\ trans[n][t].start_trans <= trans[n][t].commit_trans
    BY <1>1, <2>1, CommitFacts DEF VotingInv, TimeInv
  <2> QED BY <2>1 DEF CommitAfterStart
<1> QED BY <1>1, TypeCorrect, VotingCorrect, PTL

\* A commit timestamp that a PrepareTask adopts is not below any that the
\* counted storages took when they prepared, and not below max_commit_ts if the
\* storage has a self_commit_ts: the assert of storageServ.cpp:127 is never
\* reached.  Without one max_commit_ts is a fresh timestamp, and line 124 logs.
THEOREM AdoptsLargest == Spec => []AdoptedIsLargest
<1>1. ASSUME TypeOK, VotingInv PROVE AdoptedIsLargest
  <2>1. ASSUME NEW n \in Host, NEW p \in Host, NEW t \in Trans,
               First(p, task[n][t].todo), task[n][t].answer.state = "Commited"
        PROVE  /\ \A m \in task[n][t].prepared :
                    trans[m][t].self_commit_ts <= task[n][t].answer.commit_ts
               /\ trans[n][t].self_commit_ts # 0 =>
                    task[n][t].max_commit_ts <= task[n][t].answer.commit_ts
    <3>1. Fits(n, Records(t), task[n][t]) /\ State(n, t) = "Prepared"
      BY <1>1, <2>1, IdleTask DEF First, VotingInv
    <3>2. Records(t)[p] = trans[p][t] /\ Records(t)[n] = trans[n][t]
      BY <1>1, RecordsType
    <3>3. n \in task[n][t].prepared /\ task[n][t].prepared \subseteq trans[n][t].trans_list
      BY <2>1, <3>1, <3>2 DEF Fits, TaskFits, First
    <3>4. State(p, t) = "Commited" /\ task[n][t].answer.commit_ts = trans[p][t].commit_trans
      BY <2>1, <3>1, <3>2, <3>3 DEF Fits, TaskFits, StampsFit, State
    <3>5. trans[n][t].trans_list = logic[t].trans_list
      BY <1>1, <3>1 DEF VotingInv, VoteInv, Voted
    <3>6. \A m \in task[n][t].prepared : m \in logic[t].trans_list /\ m \in Host
      BY <1>1, <3>3, <3>5 DEF TypeOK, LogicSession
    <3>7. \A m \in task[n][t].prepared :
            trans[m][t].self_commit_ts <= task[n][t].answer.commit_ts
      BY <1>1, <3>4, <3>6, CommitFacts
    <3>8. ASSUME trans[n][t].self_commit_ts # 0
          PROVE  task[n][t].max_commit_ts <= task[n][t].answer.commit_ts
      <4>1. PICK q \in task[n][t].prepared :
              Records(t)[q].self_commit_ts = task[n][t].max_commit_ts
        BY <3>1, <3>2, <3>3, <3>8 DEF Fits, StampsFit
      <4>2. trans[q][t].self_commit_ts = task[n][t].max_commit_ts
        BY <1>1, <3>6, <4>1, RecordsType
      <4> QED BY <3>7, <4>2
    <3> QED BY <3>7, <3>8
  <2> QED BY <2>1 DEF AdoptedIsLargest
<1> QED BY <1>1, TypeCorrect, VotingCorrect, PTL

\* A decision is final and a vote is kept, over every step: crashes, restarts
\* and answers that arrive late included.
THEOREM NothingTakenBack == Spec => VotesAndDecisionsKept
<1> DEFINE Kept(n, t) ==
             LET old == trans[n][t]
                 new == trans'[n][t]
             IN  /\ old.state \in {"Commited", "Rollback"} => new = old
                 /\ old.state = "Prepared" =>
                      /\ new.state \in {"Prepared", "Commited", "Rollback"}
                      /\ new.self_commit_ts = old.self_commit_ts
                      /\ new.state = "Rollback" =>
                           \E m \in old.trans_list : State(m, t) = "Rollback"
<1>1. ASSUME TypeOK, VotingInv, [Next]_vars, NEW n \in Host, NEW t \in Trans
      PROVE  Kept(n, t)
  <2>1. RecMove(n, t) /\ ListInv /\ VoteInv
    BY <1>1, MoveNext DEF VotingInv
  <2>2. CASE State(n, t) \in {"Commited", "Rollback"}
    BY <2>1, <2>2, VotesStay DEF State
  <2>3. CASE State(n, t) = "Prepared"
    <3>1. Voted(n, t) /\ trans[n][t].trans_list = logic[t].trans_list
      BY <2>1, <2>3 DEF VoteInv, Voted
    <3>2. trans'[n][t].self_commit_ts = trans[n][t].self_commit_ts
      BY <2>1, <3>1, VotesStay DEF SameVote
    <3>3. \/ trans'[n][t] = trans[n][t]
          \/ Commits(n, t) \/ FollowsAbort(n, t)
      BY <2>1, <2>3 DEF RecMove, Joins, Aborts, Votes
    <3> QED BY <2>3, <3>1, <3>2, <3>3 DEF State, Commits, FollowsAbort
  <2> QED BY <2>2, <2>3 DEF State
<1>2. TypeOK /\ VotingInv /\ [Next]_vars => [\A n \in Host, t \in Trans : Kept(n, t)]_vars
  BY <1>1
<1>3. [][Next]_vars /\ []TypeOK /\ []VotingInv => VotesAndDecisionsKept
  BY <1>2, PTL DEF VotesAndDecisionsKept
<1> QED BY <1>3, TypeCorrect, VotingCorrect, PTL DEF Spec

\* Whoever is on the list of a commit that was told has voted with a timestamp.
\* No other storage joined, and no participant can roll back any more.
THEOREM SuccessIsKept == Spec => []OkNeverRolledBack
<1>1. ASSUME TypeOK, ProtocolInv, NEW t \in Trans, logic[t].result = "ok",
             NEW n \in Host, State(n, t) # "none"
      PROVE  State(n, t) \in {"Prepared", "Commited"}
  <2>1. ListInv /\ VoteInv /\ DecisionInv
    BY <1>1 DEF ProtocolInv, VotingInv
  <2>2. \A m \in Host : /\ m \in logic[t].trans_list => Stamped(m, t)
                        /\ link[t][m] # "none" => m \in logic[t].trans_list
    BY <1>1 DEF ProtocolInv, AnswerInv
  <2>3. logic[t].trans_list \subseteq Host
    BY <1>1 DEF TypeOK, LogicSession
  <2>4. n \in logic[t].trans_list
    BY <1>1, <2>1, <2>2 DEF ListInv
  <2>5. Voted(n, t) /\ \A m \in logic[t].trans_list : Voted(m, t)
    BY <2>2, <2>3, <2>4 DEF Stamped
  <2>6. State(n, t) \notin {"none", "Begin", "Rollback"}
    BY <2>1, <2>5 DEF VoteInv, DecisionInv
  <2>7. State(n, t) \in {"none", "Begin", "Prepared", "Commited", "Rollback"}
    BY <1>1 DEF TypeOK, TransRec, State
  <2> QED BY <2>6, <2>7
<1>2. TypeOK /\ ProtocolInv => OkNeverRolledBack
  BY <1>1 DEF OkNeverRolledBack
<1> QED BY <1>2, TypeCorrect, ProtocolCorrect, PTL

\* By the time a client is told success every participant has a timestamp that
\* is not after the clock, and a commit takes one of these.
THEOREM SuccessIsStamped == Spec => []OkIsStamped
<1>1. ASSUME TypeOK, ProtocolInv, NEW t \in Trans, logic[t].result = "ok",
             NEW n \in logic[t].trans_list
      PROVE  /\ trans[n][t].self_commit_ts \in logic[t].start_ts .. clock
             /\ State(n, t) = "Commited" =>
                  \E m \in logic[t].trans_list :
                    trans[n][t].commit_trans = trans[m][t].self_commit_ts
  <2>1. VotingInv /\ VoteInv
    BY <1>1 DEF ProtocolInv, VotingInv
  <2>2. logic[t].trans_list \subseteq Host
    BY <1>1 DEF TypeOK, LogicSession
  <2>3. \A m \in logic[t].trans_list : Voted(m, t) /\ trans[m][t].self_commit_ts # 0
    BY <1>1, <2>2 DEF ProtocolInv, AnswerInv, Stamped
  <2>4. trans[n][t].self_commit_ts \in logic[t].start_ts .. clock
    BY <2>1, <2>2, <2>3 DEF VoteInv
  <2>5. State(n, t) = "Commited" =>
          \E m \in logic[t].trans_list :
            trans[m][t].self_commit_ts = trans[n][t].commit_trans
    BY <1>1, <2>1, <2>2, <2>3, CommitFacts
  <2> QED BY <2>4, <2>5
<1>2. TypeOK /\ ProtocolInv => OkIsStamped
  BY <1>1 DEF OkIsStamped
<1> QED BY <1>2, TypeCorrect, ProtocolCorrect, PTL

-----------------------------------------------------------------------------
(***************************************************************************)
(* The refinement of AtomicCommit.                                         *)
(***************************************************************************)

LEMMA PromiseInit ==
    ASSUME Init, NEW t \in Trans
    PROVE  Promise(t)!AbstractInit
BY DEF Init, NotFound, NewSession, Promise!AbstractInit


\* A step changes the records of one storage only.
LEMMA OneStorage ==
    ASSUME TypeOK, [Next]_vars
    PROVE  \E n \in Host : \A m \in Host \ {n} : trans'[m] = trans[m]
<1> DEFINE Goal == \E n \in Host : \A m \in Host \ {n} : trans'[m] = trans[m]
<1> SUFFICES Goal
  OBVIOUS
<1>0. trans \in [Host -> [Trans -> TransRec]] /\ 0 \in Host
  BY NumHostAssumption DEF TypeOK, Host
<1>1. CASE trans' = trans
  BY <1>0, <1>1
<1>2. ASSUME NEW n \in Host, NEW row, trans' = [trans EXCEPT ![n] = row] PROVE Goal
  BY <1>0, <1>2
<1>3. ASSUME NEW n \in Host, NEW t \in Trans, NEW rec, trans' = [trans EXCEPT ![n][t] = rec]
      PROVE  Goal
  BY <1>0, <1>3
<1> HIDE DEF Goal
<1>4. ASSUME NEW n \in Host, NEW t \in Trans, StorageStep(n, t) PROVE Goal
  <2>1. CASE Begin(n, t)
    BY <1>0, <2>1 DEF Begin, Goal
  <2>2. CASE Prepare(n, t) \/ SessionEnd(n, t)
    BY <1>3, <2>2 DEF Prepare, SessionEnd
  <2> QED BY <1>4, <2>1, <2>2 DEF StorageStep
<1>5. ASSUME NEW n \in Host, NEW t \in Trans, TaskStep(n, t) PROVE Goal
  BY <1>1, <1>3, <1>5 DEF TaskStep, AskTransState, AskFails, GetTransState
<1>6. ASSUME NEW n \in Host, Crash(n) \/ startUpClean(n) PROVE Goal
  BY <1>1, <1>2, <1>6 DEF Crash, startUpClean
<1>7. ASSUME NEW n \in Host, NEW t \in Trans, CrashInPrepare(n, t) PROVE Goal
  BY <1>0, <1>7 DEF CrashInPrepare, Goal
<1>8. ASSUME NEW t \in Trans, NEW n \in Host,
             \/ ReqBegin(t) \/ ReqCommit(t) \/ ReqRollback(t) \/ SessionLost(t)
             \/ getFd(t, n) \/ ConnectFails(t, n) \/ LinkBreaks(t, n) \/ LogicStep(t)
      PROVE  trans' = trans
  BY <1>8 DEF ReqBegin, ReqCommit, ReqRollback, SessionLost, getFd, ConnectFails,
     LinkBreaks, LogicStep, BeginDone, SendPrepare, PrepareDone, StorageError
<1>9. CASE UNCHANGED vars
  BY <1>1, <1>9 DEF vars
<1> QED BY <1>0, <1>1, <1>4, <1>5, <1>6, <1>7, <1>8, <1>9 DEF Next

\* What AtomicCommit sees of a step in which only n changes its record of t.
LEMMA Columns ==
    ASSUME NEW n \in Host, NEW t \in Trans,
           \A m \in Host \ {n} : trans'[m][t] = trans[m][t]
    PROVE  /\ [m \in Host |-> trans'[m][t].state] =
                [[m \in Host |-> trans[m][t].state] EXCEPT ![n] = trans'[n][t].state]
           /\ [m \in Host |-> trans'[m][t].self_commit_ts] =
                [[m \in Host |-> trans[m][t].self_commit_ts] EXCEPT
                   ![n] = trans'[n][t].self_commit_ts]
           /\ [m \in Host |-> trans'[m][t].commit_trans] =
                [[m \in Host |-> trans[m][t].commit_trans] EXCEPT
                   ![n] = trans'[n][t].commit_trans]
OBVIOUS

LEMMA PromiseNext ==
    ASSUME TypeOK, TypeOK', ProtocolInv, [Next]_vars, NEW t \in Trans
    PROVE  [Promise(t)!AbstractNext]_(Promise(t)!acVars)
<1> DEFINE Goal == Promise(t)!AbstractNext \/ UNCHANGED Promise(t)!acVars
<1> SUFFICES Goal
  OBVIOUS
<1>1. VotingInv /\ ListInv /\ VoteInv /\ DecisionInv /\ TimeInv /\ SessionInv
  BY DEF ProtocolInv, VotingInv
<1>2. /\ \A n \in Host : RecMove(n, t)
      /\ ListMove(t) /\ TimeMove
  BY <1>1, MoveNext
<1>3. PICK n \in Host : \A m \in Host \ {n} : trans'[m][t] = trans[m][t]
  BY OneStorage
<1>4. logic[t].trans_list \subseteq Host /\ logic[t].stat \subseteq Host
      /\ trans'[n][t] \in TransRec /\ clock \in 1 .. MaxTS /\ clock' \in 1 .. MaxTS
      /\ trans[n][t] \in TransRec
  BY DEF TypeOK, LogicSession
<1>5. CASE UNCHANGED trans /\ logic'[t].trans_list # logic[t].trans_list
  <2>1. logic[t].trans_list = {} /\ logic'[t].trans_list = logic[t].stat
    BY <1>2, <1>5 DEF ListMove
  <2>2. \A m \in Host : m \in logic'[t].trans_list <=> trans[m][t].state # "none"
    BY <1>1, <1>2, <1>5, <2>1 DEF ListMove, SessionInv, State
  <2>3. logic'[t].trans_list = {m \in Host : trans[m][t].state # "none"}
    BY <1>4, <2>1, <2>2
  <2> QED BY <1>5, <2>1, <2>3 DEF Promise!AbstractNext, Promise!FixMembers
<1> DEFINE Same == logic'[t].trans_list = logic[t].trans_list
<1>6. CASE Same /\ trans'[n][t] = trans[n][t]
  BY <1>3, <1>6 DEF Promise!acVars
<1> DEFINE st == [m \in Host |-> trans[m][t].state]
           vt == [m \in Host |-> trans[m][t].self_commit_ts]
           dc == [m \in Host |-> trans[m][t].commit_trans]
           mem == logic[t].trans_list
<1>7. ASSUME Same
      PROVE  /\ st' = [st EXCEPT ![n] = trans'[n][t].state]
             /\ vt' = [vt EXCEPT ![n] = trans'[n][t].self_commit_ts]
             /\ dc' = [dc EXCEPT ![n] = trans'[n][t].commit_trans]
             /\ mem' = mem
  BY <1>3, <1>7, Columns
<1>8. ASSUME Same, SameStamps(trans[n][t], trans'[n][t])
      PROVE  vt' = vt /\ dc' = dc /\ mem' = mem
  BY <1>7, <1>8 DEF SameStamps, SameVote
<1>9. CASE Same /\ Joins(n, t)
  <2>1. mem = {} /\ st[n] = "none" /\ trans'[n][t].state = "Begin"
    BY <1>1, <1>9 DEF Joins, ListInv, State
  <2>2. SameStamps(trans[n][t], trans'[n][t])
    BY <1>9 DEF Joins
  <2> QED
    BY <1>7, <1>8, <1>9, <2>1, <2>2 DEF Promise!AbstractNext, Promise!Join
<1>10. CASE Same /\ Aborts(n, t)
  <2>1. st[n] = "Begin" /\ trans'[n][t].state = "Rollback"
    BY <1>10 DEF Aborts, State
  <2>2. SameStamps(trans[n][t], trans'[n][t])
    BY <1>10 DEF Aborts
  <2> QED
    BY <1>7, <1>8, <1>10, <2>1, <2>2 DEF Promise!AbstractNext, Promise!Abort
<1>11. CASE Same /\ FollowsAbort(n, t)
  <2>1. /\ st[n] = "Prepared" /\ trans'[n][t].state = "Rollback"
        /\ \E m \in mem : st[m] = "Rollback"
    BY <1>4, <1>11 DEF FollowsAbort, State
  <2>2. SameStamps(trans[n][t], trans'[n][t])
    BY <1>11 DEF FollowsAbort
  <2> QED
    BY <1>7, <1>8, <1>11, <2>1, <2>2 DEF Promise!AbstractNext, Promise!FollowAbort
<1>12. CASE Same /\ Votes(n, t)
  <2>1. st[n] = "Begin" /\ n \in mem
    BY <1>12, <1>1, VoterListed DEF Votes, State
  <2>2. trans'[n][t].self_commit_ts \in 1 .. MaxTS \cup {0}
    BY <1>4 DEF TransRec, TS
  <2>3. CASE trans'[n][t].state = "Prepared"
    <3>1. trans'[n][t].commit_trans = trans[n][t].commit_trans
      BY <1>12, <2>3 DEF Votes
    <3>2. dc' = dc
      BY <1>7, <1>12, <3>1
    <3> QED
      BY <1>7, <1>12, <2>1, <2>2, <2>3, <3>2
      DEF Promise!AbstractNext, Promise!Vote, Promise!Stamp, Promise!Timestamp
  <2>4. CASE trans'[n][t].state # "Prepared"
    <3>1. /\ trans'[n][t].state = "Commited" /\ mem = {n}
          /\ trans'[n][t].commit_trans = trans'[n][t].self_commit_ts
          /\ trans'[n][t].self_commit_ts \in clock .. clock'
      BY <1>12, <2>4 DEF Votes
    <3> DEFINE ts == trans'[n][t].self_commit_ts
    <3>2. ts \in 1 .. MaxTS
      <4>1. 0 \notin clock .. clock'
        BY <1>4
      <4> QED BY <2>2, <3>1, <4>1
    <3>3. /\ st' = [st EXCEPT ![n] = "Commited"] /\ mem' = mem
          /\ vt' = [vt EXCEPT ![n] = ts] /\ dc' = [dc EXCEPT ![n] = ts]
      BY <1>7, <1>12, <3>1
    <3> HIDE DEF ts
    <3> QED
      BY <2>1, <3>1, <3>2, <3>3
      DEF Promise!AbstractNext, Promise!VoteAndCommit, Promise!Timestamp
  <2> QED BY <2>3, <2>4
<1>13. CASE Same /\ Commits(n, t)
  <2>1. /\ State(n, t) = "Prepared" /\ trans'[n][t].state = "Commited"
        /\ SameVote(trans[n][t], trans'[n][t])
        /\ \A m \in mem : Voted(m, t)
        /\ HasMaxTS(Records(t), trans'[n][t])
    BY <1>13 DEF Commits
  <2>2. Voted(n, t) /\ n \in mem /\ trans'[n][t].trans_list = mem
        /\ trans'[n][t].start_trans = logic[t].start_ts
    BY <1>1, <2>1 DEF VoteInv, SameVote, Voted
  <2> DEFINE ts == trans'[n][t].commit_trans
  <2>3. ts \in 1 .. MaxTS
    <3>1. logic[t].start_ts # 0 /\ logic[t].start_ts \in Nat
      BY <1>1, <2>2 DEF TimeInv, TypeOK, LogicSession, TS
    <3>2. logic[t].start_ts <= ts
      BY <2>1, <2>2 DEF HasMaxTS
    <3> QED BY <1>4, <3>1, <3>2 DEF TransRec, TS
  <2>4. \A m \in mem : st[m] \in {"Prepared", "Commited"}
    <3> SUFFICES ASSUME NEW m \in mem
                 PROVE  State(m, t) \in {"Prepared", "Commited"}
      BY <1>4 DEF State
    <3>1. m \in Host /\ Voted(m, t)
      BY <1>4, <2>1
    <3>2. State(m, t) \notin {"none", "Begin", "Rollback"}
      BY <1>1, <2>1, <3>1 DEF VoteInv, DecisionInv
    <3>3. State(m, t) \in {"none", "Begin", "Prepared", "Commited", "Rollback"}
      BY <3>1 DEF TypeOK, TransRec, State
    <3> QED BY <3>2, <3>3
  <2>5. /\ \A m \in mem : vt[m] <= ts
        /\ (\A m \in mem : vt[m] # 0) => \E m \in mem : vt[m] = ts
    <3>1. \A m \in mem : vt[m] = Records(t)[m].self_commit_ts
      BY <1>4, RecordsType
    <3> HIDE DEF vt
    <3> QED BY <2>1, <2>2, <3>1 DEF HasMaxTS
  <2>6. vt' = vt /\ st[n] = "Prepared"
    BY <1>7, <1>13, <2>1 DEF SameVote, State
  <2> QED
    BY <1>7, <1>13, <2>1, <2>3, <2>4, <2>5, <2>6
    DEF Promise!AbstractNext, Promise!Commit, Promise!Voted, Promise!IsMaxVote,
        Promise!AllStamped, Promise!Timestamp
<1> QED
  BY <1>2, <1>5, <1>6, <1>9, <1>10, <1>11, <1>12, <1>13 DEF ListMove, RecMove

\* Every step is, for each transaction, a step of AtomicCommit or no step: the
\* storages keep what they promise whatever messages, crashes and restarts do.
THEOREM PromiseKept == Spec => ImplementsAtomicCommit
<1>1. Init => \A t \in Trans : Promise(t)!AbstractInit
  BY PromiseInit
<1>2. TypeOK /\ TypeOK' /\ ProtocolInv /\ [Next]_vars =>
        [\A t \in Trans : [Promise(t)!AbstractNext]_(Promise(t)!acVars)]_vars
  BY PromiseNext
<1>3. [][Next]_vars /\ []TypeOK /\ []ProtocolInv =>
        [][\A t \in Trans : [Promise(t)!AbstractNext]_(Promise(t)!acVars)]_vars
  BY <1>2, PTL
<1> QED BY <1>1, <1>3, TypeCorrect, ProtocolCorrect, PTL DEF Spec, ImplementsAtomicCommit
=============================================================================
