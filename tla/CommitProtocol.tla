--------------------------- MODULE CommitProtocol ---------------------------
(***************************************************************************)
(* How a transaction begins, prepares and is decided.                      *)
(*                                                                         *)
(* A logicServ session (logicServ.cpp, readwrite_routine) opens a          *)
(* connection to a storageServ the first time a key of that storage is     *)
(* touched, registers the transaction there with Begin, and on the         *)
(* client's commit sends Prepare to every storage that joined.  There is   *)
(* no commit message: a storage that prepared a transaction runs a         *)
(* PrepareTask (storageServ.cpp, prepare_routine) that asks the other      *)
(* participants for the state of the transaction until it can decide.      *)
(*                                                                         *)
(* A transaction t stands for one begin_ts and for the logicServ session   *)
(* that runs it: two transactions never share a begin_ts here.  Processes  *)
(* fail by crashing and restart from RocksDB.                              *)
(***************************************************************************)
EXTENDS Naturals, FiniteSets

CONSTANTS
    NumHost,    \* g_config->host_size(); the hash_id of a host is its number
    Trans,      \* the transactions
    SameTick,   \* may two calls of GetTS fall into the same microsecond?
    MaxTS,      \* bound on the clock
    MaxCrash,   \* bound on the crashes of storageServ processes
    MaxTorn,    \* bound on the crashes between the two Puts of a prepare
    MaxFault    \* bound on the connections that break between live processes

ASSUME NumHostAssumption == NumHost \in Nat \ {0}
ASSUME ClockAssumption == SameTick \in BOOLEAN /\ MaxTS \in Nat \ {0}
ASSUME BudgetAssumption == MaxCrash \in Nat /\ MaxTorn \in Nat /\ MaxFault \in Nat

VARIABLES
    trans,    \* trans[n][t]: the record trans_<t> in the database of storage n
    up,       \* up[n]: the storageServ process n is running
    sess,     \* sess[n]: transactions whose session at n holds them as begin_ts
    task,     \* task[n][t]: locals of the prepare_routine of n that works on t
    logic,    \* logic[t]: locals of the logicServ session of t
    link,     \* link[t][n]: the connection of StorageCl n of session t
    wire,     \* wire[t][n]: the request or response in flight on it
    clock,    \* what gettimeofday returns
    budget    \* faults that may still happen

vars == <<trans, up, sess, task, logic, link, wire, clock, budget>>

Host == 0 .. (NumHost - 1)

\* 0 stands for the empty string of an unset timestamp field: it is smaller
\* than every timestamp, as "" is smaller than every "ts...".
TS == 0 .. MaxTS

(***************************************************************************)
(* The records.                                                            *)
(***************************************************************************)
TransRec ==
    [state : {"none", "Begin", "Prepared", "Commited", "Rollback"},
     start_trans : TS, trans_list : SUBSET Host,
     self_commit_ts : TS, commit_trans : TS]

\* No record under the key: rocksdb answers kNotFound.
NotFound ==
    [state |-> "none", start_trans |-> 0, trans_list |-> {},
     self_commit_ts |-> 0, commit_trans |-> 0]

\* TransStateRes; "none" is the absence of an answer.
Answer == [state : {"none", "Begin", "Prepared", "Commited", "Rollback"}, commit_ts : TS]

NoAnswer == [state |-> "none", commit_ts |-> 0]

\* One pass of prepare_routine over trans_list: the hosts still to be asked,
\* the hosts counted by nHasTransStatePrepared, max_commit_ts and the answer
\* of the host being asked.
PrepareTask ==
    [todo : SUBSET Host, prepared : SUBSET Host, max_commit_ts : TS, answer : Answer]

\* No PrepareTask works on the transaction.
NoTask == [todo |-> {}, prepared |-> {}, max_commit_ts |-> 0, answer |-> NoAnswer]

\* pc: "init" before begin, "active" between requests of the client, "send"
\* and "wait" inside the commit request, "done" when begin_ts is empty again
\* or the session is closed.  result is what the client has been told.
LogicSession ==
    [pc : {"init", "active", "send", "wait", "done"},
     begin_ts : TS, start_ts : TS, stat : SUBSET Host,
     trans_list : SUBSET Host, todo : SUBSET Host,
     result : {"none", "ok", "fail", "rollback", "lost"}]

NewSession ==
    [pc |-> "init", begin_ts |-> 0, start_ts |-> 0, stat |-> {},
     trans_list |-> {}, todo |-> {}, result |-> "none"]

Requests == {"begin", "prepare"}

Responses == {"begun", "prepared"}

\* The timestamps that a commit is made of are set.  An empty max_commit_ts
\* would be below every other timestamp, and a sole participant would commit
\* with it before the transaction began (storageServ.cpp:62-65).
Dated(rec, pass) ==
    /\ rec.state = "Commited" => rec.commit_trans # 0
    /\ pass # NoTask => pass.max_commit_ts # 0
    /\ pass.answer.state = "Commited" => pass.answer.commit_ts # 0

\* Type correctness: every variable stays in its set, and what stands in a
\* record, a pass or an answer for the time of a commit is a timestamp.
TypeOK ==
    /\ trans \in [Host -> [Trans -> TransRec]]
    /\ up \in [Host -> BOOLEAN]
    /\ sess \in [Host -> SUBSET Trans]
    /\ task \in [Host -> [Trans -> PrepareTask]]
    /\ logic \in [Trans -> LogicSession]
    /\ link \in [Trans -> [Host -> {"none", "open", "broken"}]]
    /\ wire \in [Trans -> [Host -> Requests \cup Responses \cup {"none"}]]
    /\ clock \in 1 .. MaxTS
    /\ budget \in [crash : 0 .. MaxCrash, torn : 0 .. MaxTorn, fault : 0 .. MaxFault]
    /\ \A n \in Host, t \in Trans : Dated(trans[n][t], task[n][t])

Init ==
    /\ trans = [n \in Host |-> [t \in Trans |-> NotFound]]
    /\ up = [n \in Host |-> TRUE]
    /\ sess = [n \in Host |-> {}]
    /\ task = [n \in Host |-> [t \in Trans |-> NoTask]]
    /\ logic = [t \in Trans |-> NewSession]
    /\ link = [t \in Trans |-> [n \in Host |-> "none"]]
    /\ wire = [t \in Trans |-> [n \in Host |-> "none"]]
    /\ clock = 1
    /\ budget = [crash |-> MaxCrash, torn |-> MaxTorn, fault |-> MaxFault]

-----------------------------------------------------------------------------
(***************************************************************************)
(* Helpers.                                                                *)
(***************************************************************************)

\* What GetTS may return: a later microsecond, perhaps the current one again.
\* Only the order of timestamps matters, so one tick stands for any delay.
GetTS == {ts \in {clock, clock + 1} : ts <= MaxTS /\ (ts = clock => SameTick)}

\* The loops over the hosts go through them by increasing number.
First(p, S) == p \in S /\ \A q \in S : p <= q

\* A response is sent only while the connection is open.
Respond(t, n, m) ==
    wire' = [wire EXCEPT ![t][n] = IF link[t][n] = "open" THEN m ELSE "none"]

\* Faulty: an unset self_commit_ts is not replaced.
UnsetPass(n, rec, ts) ==
    [todo |-> rec.trans_list \ {n},
     prepared |-> rec.trans_list \cap {n},
     max_commit_ts |-> rec.self_commit_ts,
     answer |-> NoAnswer]

\* The start of a pass: this host counts itself, every other one is to be
\* asked.  Without a self_commit_ts a fresh timestamp takes its place.
NewPass(n, rec, ts) ==
    [todo |-> rec.trans_list \ {n},
     prepared |-> rec.trans_list \cap {n},
     max_commit_ts |-> IF rec.self_commit_ts = 0 THEN ts ELSE rec.self_commit_ts,
     answer |-> NoAnswer]

\* The timestamps a pass may start with; a set self_commit_ts needs none.
PassTS(rec) == IF rec.self_commit_ts = 0 THEN GetTS ELSE {clock}

\* Faulty: the end of the list is reached, so everybody has been asked.
AllAsked(rec, pass) == pass.todo = {}

AllPrepared(rec, pass) == pass.prepared = rec.trans_list

\* prepare_routine from one host of the list to the next: go on to the next
\* host; or at the end of the list commit if all are prepared; or start over.
Continue(n, rec, pass, ts) ==
    IF pass.todo # {} THEN [rec |-> rec, task |-> pass]
    ELSE IF AllPrepared(rec, pass)
    THEN [rec |-> [rec EXCEPT !.state = "Commited", !.commit_trans = pass.max_commit_ts],
          task |-> NoTask]
    ELSE [rec |-> rec, task |-> NewPass(n, rec, ts)]

\* Faulty: a prepared transaction gets no PrepareTask.
CleanOpenOnly(n, rec, tk, ts) ==
    IF rec.state = "Begin" THEN [rec |-> [rec EXCEPT !.state = "Rollback"], task |-> tk]
    ELSE [rec |-> rec, task |-> tk]

\* Faulty: an open transaction is left as it is.
CleanPreparedOnly(n, rec, tk, ts) ==
    IF rec.state = "Prepared" THEN Continue(n, rec, NewPass(n, rec, ts), ts)
    ELSE [rec |-> rec, task |-> tk]

\* What startCleanTrans leaves in the record and in the PrepareTask: an open
\* transaction is rolled back, a prepared one is handed to prepare_routine,
\* which runs until its first wait.
startCleanTrans(n, rec, tk, ts) ==
    IF rec.state = "Begin" THEN [rec |-> [rec EXCEPT !.state = "Rollback"], task |-> tk]
    ELSE IF rec.state = "Prepared" THEN Continue(n, rec, NewPass(n, rec, ts), ts)
    ELSE [rec |-> rec, task |-> tk]

\* Faulty: a commit is answered with the timestamp of the storage itself.
SelfCommitTsOf(rec) ==
    [state |-> IF rec.state = "none" THEN "Begin" ELSE rec.state,
     commit_ts |-> rec.self_commit_ts]

\* Faulty: a transaction that is not found is taken for rolled back.
NotFoundIsRollback(rec) ==
    [state |-> IF rec.state \in {"none", "Begin"} THEN "Rollback" ELSE rec.state,
     commit_ts |-> IF rec.state = "Prepared" THEN rec.self_commit_ts
                   ELSE IF rec.state = "Commited" THEN rec.commit_trans ELSE 0]

\* The answer of a storage asked for the state of a transaction.  If it has no
\* record, the unset trans_stat reads as its default, TransStateBegin.
TransStateOf(rec) ==
    [state |-> IF rec.state = "none" THEN "Begin" ELSE rec.state,
     commit_ts |-> IF rec.state = "Prepared" THEN rec.self_commit_ts
                   ELSE IF rec.state = "Commited" THEN rec.commit_trans ELSE 0]

-----------------------------------------------------------------------------
(***************************************************************************)
(* logicServ: the session of transaction t.                                *)
(***************************************************************************)

\* The client's begin request.
ReqBegin(t) ==
    /\ logic[t].pc = "init"
    /\ \E ts \in GetTS :
         /\ logic' = [logic EXCEPT ![t].pc = "active", ![t].begin_ts = ts]
         /\ clock' = ts
    /\ UNCHANGED <<trans, up, sess, task, link, wire, budget>>

\* The session is inside getFd: it connected and has no response to Begin yet.
InGetFd(t) == \E n \in Host : link[t][n] # "none" /\ n \notin logic[t].stat

\* The session ends or drops its storage connections: every socket is closed.
CloseLinks(t) ==
    link' = [link EXCEPT ![t] =
               [n \in Host |-> IF link[t][n] = "open" THEN "broken" ELSE link[t][n]]]

EndSession(t, res) ==
    /\ logic' = [logic EXCEPT ![t].pc = "done", ![t].result = res, ![t].todo = {}]
    /\ CloseLinks(t)

\* getFd for a storage not yet in the transaction: connect, send Begin.
getFd(t, n) ==
    /\ logic[t].pc = "active" /\ n \notin logic[t].stat
    /\ link[t][n] = "none" /\ ~InGetFd(t)
    /\ up[n]
    /\ link' = [link EXCEPT ![t][n] = "open"]
    /\ wire' = [wire EXCEPT ![t][n] = "begin"]
    /\ UNCHANGED <<trans, up, sess, task, logic, clock, budget>>

\* getFd could not connect: the session is killed.
ConnectFails(t, n) ==
    /\ logic[t].pc = "active" /\ n \notin logic[t].stat
    /\ link[t][n] = "none" /\ ~InGetFd(t)
    /\ ~up[n]
    /\ EndSession(t, "fail")
    /\ UNCHANGED <<trans, up, sess, task, wire, clock, budget>>

\* getFd reads the response to Begin: stat = 1.
BeginDone(t, n) ==
    /\ logic[t].pc = "active" /\ wire[t][n] = "begun"
    /\ logic' = [logic EXCEPT ![t].stat = @ \cup {n}]
    /\ wire' = [wire EXCEPT ![t][n] = "none"]
    /\ UNCHANGED <<trans, up, sess, task, link, clock, budget>>

\* The client's commit request, up to the first Prepare.  Without any
\* participant the wait loop ends at once and the client is told success.
ReqCommit(t) ==
    /\ logic[t].pc = "active" /\ ~InGetFd(t)
    /\ \E ts \in GetTS :
         /\ logic' = [logic EXCEPT
              ![t].pc = IF logic[t].stat = {} THEN "done" ELSE "send",
              ![t].start_ts = ts,
              ![t].trans_list = logic[t].stat,
              ![t].todo = logic[t].stat,
              ![t].result = IF logic[t].stat = {} THEN "ok" ELSE "none"]
         /\ clock' = ts
    /\ UNCHANGED <<trans, up, sess, task, link, wire, budget>>

\* Prepare goes to the next participant.  Writing to a broken connection may
\* still succeed: the bytes are lost.
SendPrepare(t, n) ==
    /\ logic[t].pc = "send" /\ First(n, logic[t].todo)
    /\ wire' = [wire EXCEPT ![t][n] = IF link[t][n] = "open" THEN "prepare" ELSE @]
    /\ logic' = [logic EXCEPT
         ![t].todo = @ \ {n},
         ![t].pc = IF logic[t].todo = {n} THEN "wait" ELSE "send"]
    /\ UNCHANGED <<trans, up, sess, task, link, clock, budget>>

\* Faulty: the first response to Prepare is taken for the outcome.
FirstPrepareDone(t, n) ==
    /\ logic[t].pc = "wait" /\ n \in logic[t].stat
    /\ wire[t][n] = "prepared"
    /\ wire' = [wire EXCEPT ![t][n] = "none"]
    /\ logic' = [logic EXCEPT ![t].stat = {}, ![t].pc = "done", ![t].result = "ok"]
    /\ UNCHANGED <<trans, up, sess, task, link, clock, budget>>

\* A response to Prepare is read.  Its result code is only logged; after the
\* last response the client is told success.
PrepareDone(t, n) ==
    /\ logic[t].pc = "wait" /\ n \in logic[t].stat
    /\ wire[t][n] = "prepared"
    /\ wire' = [wire EXCEPT ![t][n] = "none"]
    /\ logic' = [logic EXCEPT
         ![t].stat = @ \ {n},
         ![t].pc = IF logic[t].stat = {n} THEN "done" ELSE "wait",
         ![t].result = IF logic[t].stat = {n} THEN "ok" ELSE "none"]
    /\ UNCHANGED <<trans, up, sess, task, link, clock, budget>>

\* Faulty: getFd connects again and sends a second Begin.
RetryBegin(t, n) ==
    /\ link[t][n] = "broken" /\ logic[t].pc = "active" /\ n \notin logic[t].stat
    /\ link' = [link EXCEPT ![t][n] = "open"]
    /\ wire' = [wire EXCEPT ![t][n] = "begin"]
    /\ UNCHANGED <<trans, up, sess, task, logic, clock, budget>>

\* Faulty: a connection that fails while a response is awaited goes unnoticed.
ErrorWhileSending(t, n) ==
    /\ link[t][n] = "broken"
    /\ logic[t].pc = "send" /\ First(n, logic[t].todo)
    /\ EndSession(t, "fail")
    /\ UNCHANGED <<trans, up, sess, task, wire, clock, budget>>

\* kill_trans: the connection to a storage fails in getFd, while Prepare is
\* sent or while its response is awaited; the client is told an error.  If it
\* fails while the session is idle, the client's connection is just closed.
StorageError(t, n) ==
    /\ link[t][n] = "broken"
    /\ \/ /\ logic[t].pc = "active" /\ n \in logic[t].stat /\ ~InGetFd(t)
          /\ EndSession(t, "lost")
       \/ /\ \/ logic[t].pc = "active" /\ n \notin logic[t].stat
             \/ logic[t].pc = "send" /\ First(n, logic[t].todo)
             \/ logic[t].pc = "wait" /\ n \in logic[t].stat
          /\ EndSession(t, "fail")
    /\ UNCHANGED <<trans, up, sess, task, wire, clock, budget>>

\* The client's rollback request closes every storage connection; the
\* storages find out by themselves.
ReqRollback(t) ==
    /\ logic[t].pc = "active" /\ ~InGetFd(t)
    /\ EndSession(t, "rollback")
    /\ UNCHANGED <<trans, up, sess, task, wire, clock, budget>>

\* The client goes away between requests, or the logicServ process dies.
SessionLost(t) ==
    /\ logic[t].pc \in {"active", "send", "wait"}
    /\ EndSession(t, "lost")
    /\ UNCHANGED <<trans, up, sess, task, wire, clock, budget>>

-----------------------------------------------------------------------------
(***************************************************************************)
(* storageServ n: the session coroutine of transaction t.                  *)
(***************************************************************************)

\* Begin: addTrans finds no record and writes one.
Begin(n, t) ==
    /\ up[n] /\ wire[t][n] = "begin" /\ t \notin sess[n]
    /\ trans[n][t].state = "none"
    /\ trans' = [trans EXCEPT ![n][t].state = "Begin"]
    /\ sess' = [sess EXCEPT ![n] = @ \cup {t}]
    /\ Respond(t, n, "begun")
    /\ UNCHANGED <<up, task, logic, link, clock, budget>>

\* updateTransPrepared: the record a Prepare writes first.
updateTransPrepared(rec, req) ==
    [rec EXCEPT !.state = "Prepared", !.start_trans = req.start_ts,
                !.trans_list = req.trans_list]

\* updateTransSelfCommitTs: the record a Prepare writes next.
updateTransSelfCommitTs(rec, ts) == [rec EXCEPT !.self_commit_ts = ts]

\* Prepare arrives with the transaction open here; this session is the only
\* one that can have closed it, so no Prepare that arrives is refused.
CanPrepare(n, t) ==
    /\ up[n] /\ wire[t][n] = "prepare" /\ t \in sess[n]
    /\ trans[n][t].state = "Begin"

\* Prepare: the record becomes prepared, then gets its self_commit_ts; the
\* PrepareTask starts (a sole participant commits here), the session forgets
\* the transaction and answers.
Prepare(n, t) ==
    /\ CanPrepare(n, t)
    /\ \E ts \in GetTS :
         LET rec == updateTransSelfCommitTs(updateTransPrepared(trans[n][t], logic[t]), ts)
             res == startCleanTrans(n, rec, task[n][t], ts)
         IN  /\ trans' = [trans EXCEPT ![n][t] = res.rec]
             /\ task' = [task EXCEPT ![n][t] = res.task]
             /\ clock' = ts
    /\ sess' = [sess EXCEPT ![n] = @ \ {t}]
    /\ Respond(t, n, "prepared")
    /\ UNCHANGED <<up, logic, link, budget>>

\* The session reads end-of-file with a transaction still open on it.  A
\* request that was in flight is lost.
SessionEnd(n, t) ==
    /\ up[n] /\ t \in sess[n] /\ link[t][n] = "broken"
    /\ \E ts \in PassTS(trans[n][t]) :
         LET res == startCleanTrans(n, trans[n][t], task[n][t], ts)
         IN  /\ trans' = [trans EXCEPT ![n][t] = res.rec]
             /\ task' = [task EXCEPT ![n][t] = res.task]
             /\ clock' = ts
    /\ sess' = [sess EXCEPT ![n] = @ \ {t}]
    /\ wire' = [wire EXCEPT ![t][n] = IF @ \in Requests THEN "none" ELSE @]
    /\ UNCHANGED <<up, logic, link, budget>>

-----------------------------------------------------------------------------
(***************************************************************************)
(* storageServ n: the PrepareTask of transaction t.                        *)
(***************************************************************************)

\* Storage p serves the TransState request of n with what its record says
\* now; n reads the answer later.
AskTransState(n, t, p) ==
    /\ up[n] /\ up[p]
    /\ First(p, task[n][t].todo) /\ task[n][t].answer = NoAnswer
    /\ task' = [task EXCEPT ![n][t].answer = TransStateOf(trans[p][t])]
    /\ UNCHANGED <<trans, up, sess, logic, link, wire, clock, budget>>

\* p cannot be reached or its answer is lost: it is skipped in this pass.
AskFails(n, t, p) ==
    /\ up[n] /\ First(p, task[n][t].todo)
    /\ \/ ~up[p] /\ UNCHANGED budget
       \/ up[p] /\ budget.fault > 0 /\ budget' = [budget EXCEPT !.fault = @ - 1]
    /\ \E ts \in PassTS(trans[n][t]) :
         LET pass == [task[n][t] EXCEPT !.todo = @ \ {p}, !.answer = NoAnswer]
             res == Continue(n, trans[n][t], pass, ts)
         IN  /\ trans' = [trans EXCEPT ![n][t] = res.rec]
             /\ task' = [task EXCEPT ![n][t] = res.task]
             /\ clock' = ts
    /\ UNCHANGED <<up, sess, logic, link, wire>>

\* Faulty: the timestamp of the last host asked wins.
CountLast(pass, p) ==
    [pass EXCEPT
       !.todo = @ \ {p},
       !.prepared = IF pass.answer.state = "Prepared" THEN @ \cup {p} ELSE @,
       !.max_commit_ts = IF pass.answer.state = "Prepared"
                         THEN pass.answer.commit_ts ELSE @,
       !.answer = NoAnswer]

\* The pass after p answered that it is open or prepared.
CountAnswer(pass, p) ==
    [pass EXCEPT
       !.todo = @ \ {p},
       !.prepared = IF pass.answer.state = "Prepared" THEN @ \cup {p} ELSE @,
       !.max_commit_ts = IF /\ pass.answer.state = "Prepared"
                            /\ pass.answer.commit_ts > @
                         THEN pass.answer.commit_ts ELSE @,
       !.answer = NoAnswer]

\* The answer of p is read: a decision of p is adopted, otherwise it counts.
GetTransState(n, t, p) ==
    /\ up[n] /\ First(p, task[n][t].todo)
    /\ task[n][t].answer # NoAnswer
    /\ LET ans == task[n][t].answer
           rec == trans[n][t]
       IN  \/ /\ ans.state \in {"Begin", "Prepared"}
              /\ \E ts \in PassTS(rec) :
                   LET res == Continue(n, rec, CountAnswer(task[n][t], p), ts)
                   IN  /\ trans' = [trans EXCEPT ![n][t] = res.rec]
                       /\ task' = [task EXCEPT ![n][t] = res.task]
                       /\ clock' = ts
           \/ /\ ans.state = "Commited"
              /\ trans' = [trans EXCEPT ![n][t] =
                   [rec EXCEPT !.state = "Commited", !.commit_trans = ans.commit_ts]]
              /\ task' = [task EXCEPT ![n][t] = NoTask]
              /\ UNCHANGED clock
           \/ /\ ans.state = "Rollback"
              /\ trans' = [trans EXCEPT ![n][t] = [rec EXCEPT !.state = "Rollback"]]
              /\ task' = [task EXCEPT ![n][t] = NoTask]
              /\ UNCHANGED clock
    /\ UNCHANGED <<up, sess, logic, link, wire, budget>>

-----------------------------------------------------------------------------
(***************************************************************************)
(* Failures.                                                               *)
(***************************************************************************)

\* Process n dies: its sessions, its PrepareTasks and its connections are
\* gone, requests in flight are lost.  The records stay.
Die(n) ==
    /\ up' = [up EXCEPT ![n] = FALSE]
    /\ sess' = [sess EXCEPT ![n] = {}]
    /\ task' = [task EXCEPT ![n] = [t \in Trans |-> NoTask]]
    /\ link' = [t \in Trans |->
                  [link[t] EXCEPT ![n] = IF @ = "open" THEN "broken" ELSE @]]
    /\ wire' = [t \in Trans |->
                  [wire[t] EXCEPT ![n] = IF @ \in Requests THEN "none" ELSE @]]

Crash(n) ==
    /\ up[n] /\ budget.crash > 0
    /\ budget' = [budget EXCEPT !.crash = @ - 1]
    /\ Die(n)
    /\ UNCHANGED <<trans, logic, clock>>

\* Process n dies inside Prepare, after updateTransPrepared and before
\* updateTransSelfCommitTs: the record is prepared without self_commit_ts.
CrashInPrepare(n, t) ==
    /\ CanPrepare(n, t) /\ budget.torn > 0
    /\ budget' = [budget EXCEPT !.torn = @ - 1]
    /\ trans' = [trans EXCEPT ![n][t] = updateTransPrepared(@, logic[t])]
    /\ Die(n)
    /\ UNCHANGED <<logic, clock>>

\* A restart: startUpClean rolls back what was open and hands what was
\* prepared to a PrepareTask, before anything is served.
startUpClean(n) ==
    /\ ~up[n]
    /\ \E ts \in GetTS :
         LET res(t) == startCleanTrans(n, trans[n][t], NoTask, ts)
         IN  /\ trans' = [trans EXCEPT ![n] = [t \in Trans |-> res(t).rec]]
             /\ task' = [task EXCEPT ![n] = [t \in Trans |-> res(t).task]]
             /\ clock' = ts
    /\ up' = [up EXCEPT ![n] = TRUE]
    /\ UNCHANGED <<sess, logic, link, wire, budget>>

\* A connection breaks although both ends live.
LinkBreaks(t, n) ==
    /\ link[t][n] = "open" /\ budget.fault > 0
    /\ budget' = [budget EXCEPT !.fault = @ - 1]
    /\ link' = [link EXCEPT ![t][n] = "broken"]
    /\ UNCHANGED <<trans, up, sess, task, logic, wire, clock>>

-----------------------------------------------------------------------------
TaskStep(n, t) ==
    \E p \in Host : AskTransState(n, t, p) \/ AskFails(n, t, p) \/ GetTransState(n, t, p)

LogicStep(t) ==
    \E n \in Host :
        \/ BeginDone(t, n) \/ SendPrepare(t, n)
        \/ PrepareDone(t, n) \/ StorageError(t, n)

StorageStep(n, t) ==
    Begin(n, t) \/ Prepare(n, t) \/ SessionEnd(n, t)

Next ==
    \/ \E t \in Trans :
         \/ ReqBegin(t) \/ ReqCommit(t) \/ ReqRollback(t) \/ SessionLost(t)
         \/ LogicStep(t)
         \/ \E n \in Host : getFd(t, n) \/ ConnectFails(t, n) \/ LinkBreaks(t, n)
    \/ \E n \in Host :
         \/ Crash(n) \/ startUpClean(n)
         \/ \E t \in Trans : StorageStep(n, t) \/ TaskStep(n, t) \/ CrashInPrepare(n, t)

Spec == Init /\ [][Next]_vars

(***************************************************************************)
(* The event loop of each process resumes every coroutine whose socket has *)
(* an event, so handlers and PrepareTasks are fair; that a storageServ is  *)
(* started again after a crash is an assumption about its operation.       *)
(* Requests of the client, crashes and broken connections are not fair.    *)
(***************************************************************************)
Fairness ==
    /\ \A t \in Trans : WF_vars(LogicStep(t))
    /\ \A n \in Host : WF_vars(startUpClean(n))
    /\ \A n \in Host, t \in Trans : WF_vars(StorageStep(n, t)) /\ WF_vars(TaskStep(n, t))

FairSpec == Spec /\ Fairness

-----------------------------------------------------------------------------
(***************************************************************************)
(* Safety.                                                                 *)
(***************************************************************************)
State(n, t) == trans[n][t].state

\* No storage commits what another one rolled back.  The decisions are taken
\* by prepare_routine from answers that are old when they are used, while
\* crashes and closed connections roll back what is not prepared yet.
Atomicity ==
    \A t \in Trans : \A m, n \in Host :
        ~(State(m, t) = "Commited" /\ State(n, t) = "Rollback")

\* A client told that its commit succeeded has a transaction that every
\* storage it touched keeps prepared or committed, whatever crashes later.
OkNeverRolledBack ==
    \A t \in Trans : logic[t].result = "ok" =>
        \A n \in Host : State(n, t) # "none" => State(n, t) \in {"Prepared", "Commited"}

\* A client told that its commit succeeded may begin at once and read it
\* (README1.md:62-63): by then every storage has taken its timestamp, and a
\* commit takes the largest of these, so a later begin_ts is not below it.  It
\* has to be above (Storage.cpp:325): a begin in the very microsecond of the
\* commit timestamp would still miss the commit.
OkIsStamped ==
    \A t \in Trans : logic[t].result = "ok" =>
        \A n \in logic[t].trans_list :
            /\ trans[n][t].self_commit_ts \in logic[t].start_ts .. clock
            /\ State(n, t) = "Commited" =>
                 \E m \in logic[t].trans_list :
                     trans[n][t].commit_trans = trans[m][t].self_commit_ts

\* logicServ only logs the result of a Prepare (logicServ.cpp:276).  That is
\* safe because no Begin and no Prepare that arrives is ever refused: the
\* record and the session of the storage are in the state the request needs.
NothingRefused ==
    \A n \in Host, t \in Trans : up[n] =>
        /\ wire[t][n] = "begin" => State(n, t) = "none" /\ t \notin sess[n]
        /\ wire[t][n] = "prepare" => CanPrepare(n, t)

\* Every storage that commits a transaction gives it the largest timestamp
\* that any participant took when it prepared (storageServ.cpp:246).  If one
\* died between the two writes of its prepare, a later one, but never less.
CommitTsIsMax ==
    \A t \in Trans : \A n \in Host : State(n, t) = "Commited" =>
        LET selves == {trans[m][t].self_commit_ts : m \in trans[n][t].trans_list}
        IN  /\ \A ts \in selves : ts <= trans[n][t].commit_trans
            /\ 0 \notin selves => trans[n][t].commit_trans \in selves

\* A commit timestamp adopted from a peer is not below any that the storages
\* counted in this pass took when they prepared.  So the assertion of
\* storageServ.cpp:127 is never reached: its storage has a self_commit_ts, and
\* then max_commit_ts is one of these timestamps.  A storage that died before
\* it wrote its own counts with a fresh one instead, which may be above that
\* of the commit: it logs the "bug!!!" of line 124 and adopts the commit.
AdoptedIsLargest ==
    \A n, p \in Host, t \in Trans :
        LET pass == task[n][t]
        IN  First(p, pass.todo) /\ pass.answer.state = "Commited" =>
              /\ \A m \in pass.prepared :
                   trans[m][t].self_commit_ts <= pass.answer.commit_ts
              /\ trans[n][t].self_commit_ts # 0 =>
                   pass.max_commit_ts <= pass.answer.commit_ts

\* The commit timestamp is at or after the client's commit request, even if
\* a crash lost the storage's own one: ReadData skips a prepared version with
\* begin_ts <= start_trans because it can only commit later (Storage.cpp:314).
CommitAfterStart ==
    \A n \in Host, t \in Trans : State(n, t) = "Commited" =>
        /\ logic[t].begin_ts <= trans[n][t].start_trans
        /\ trans[n][t].start_trans <= trans[n][t].commit_trans

\* A storage works on every transaction it holds prepared, and on no other.
EveryPreparedHasTask ==
    \A n \in Host, t \in Trans :
        up[n] => (State(n, t) = "Prepared" <=> task[n][t] # NoTask)

\* A decision is final, and a vote is kept with its timestamps: what a storage
\* told its peers or the client stays true over crashes and restarts.
VotesAndDecisionsKept ==
    [][\A n \in Host, t \in Trans :
         LET old == trans[n][t]
             new == trans'[n][t]
         IN  /\ old.state \in {"Commited", "Rollback"} => new = old
             /\ old.state = "Prepared" =>
                  /\ new.state \in {"Prepared", "Commited", "Rollback"}
                  /\ new.self_commit_ts = old.self_commit_ts
                  /\ new.state = "Rollback" =>
                       \E m \in old.trans_list : State(m, t) = "Rollback"]_vars

-----------------------------------------------------------------------------
(***************************************************************************)
(* Why the protocol is right: the inductive invariant.  A record with a    *)
(* trans_list is a vote, and a vote is never taken back.                   *)
(***************************************************************************)
Voted(n, t) == trans[n][t].trans_list # {}

\* The list of participants is fixed by the commit request, when no Begin is
\* on its way, and Prepare goes to no other storage.
ListInv ==
    \A t \in Trans :
        /\ logic[t].pc = "init" => logic[t].stat = {}
        /\ logic[t].pc \in {"init", "active"} => logic[t].trans_list = {}
        /\ logic[t].pc = "send" => logic[t].todo \subseteq logic[t].trans_list
        /\ \A n \in Host :
             /\ link[t][n] = "none" => wire[t][n] = "none" /\ State(n, t) = "none"
             /\ wire[t][n] = "begin" => logic[t].trans_list = {}
             /\ wire[t][n] = "begin" /\ logic[t].pc = "active" => n \notin logic[t].stat
             /\ wire[t][n] = "prepare" => n \in logic[t].trans_list

\* Votes carry the list and the timestamp of the commit request, and the list
\* names every storage that joined.  A vote has its own timestamp, taken after
\* that request, unless the storage died before it wrote one.
VoteInv ==
    \A n \in Host, t \in Trans :
        /\ Voted(n, t) => trans[n][t].trans_list = logic[t].trans_list
        /\ State(n, t) \in {"none", "Begin"} => ~Voted(n, t)
        /\ State(n, t) \in {"Prepared", "Commited"} => n \in trans[n][t].trans_list
        /\ State(n, t) # "none" /\ logic[t].trans_list # {} => n \in logic[t].trans_list
        /\ ~Voted(n, t) => trans[n][t].self_commit_ts = 0
        /\ Voted(n, t) =>
             /\ trans[n][t].start_trans = logic[t].start_ts
             /\ \/ trans[n][t].self_commit_ts = 0
                \/ trans[n][t].self_commit_ts \in logic[t].start_ts .. clock

\* The records of one transaction at all storages.
Records(t) == [n \in Host |-> trans[n][t]]

\* The commit timestamp of rec is the largest that a participant took, or a
\* later one if not all of them took one.
HasMaxTS(recs, rec) ==
    /\ \A m \in rec.trans_list : recs[m].self_commit_ts <= rec.commit_trans
    /\ (\A m \in rec.trans_list : recs[m].self_commit_ts # 0) =>
         \E m \in rec.trans_list : recs[m].self_commit_ts = rec.commit_trans
    /\ rec.start_trans <= rec.commit_trans

\* A commit has the vote of every participant and the largest timestamp; a
\* participant that voted rolls back only because another one did so without
\* having voted.
DecisionInv ==
    \A n \in Host, t \in Trans :
        /\ State(n, t) = "Commited" =>
             (\A m \in logic[t].trans_list : Voted(m, t)) /\ HasMaxTS(Records(t), trans[n][t])
        /\ State(n, t) = "Rollback" /\ Voted(n, t) =>
             \E m \in logic[t].trans_list : ~Voted(m, t) /\ State(m, t) = "Rollback"

\* What the PrepareTask pass of n has counted and read is true of the records.
TaskFits(n, recs, pass) ==
    /\ pass.todo # {} =>
         /\ recs[n].state = "Prepared"
         /\ n \in pass.prepared \ pass.todo
         /\ pass.prepared \cup pass.todo \subseteq recs[n].trans_list
    /\ \A p \in pass.prepared : recs[p].trans_list # {}
    /\ \A p \in Host : First(p, pass.todo) =>
         /\ pass.answer.state = "Prepared" => recs[p].trans_list # {}
         /\ pass.answer.state \in {"Commited", "Rollback"} =>
              recs[p].state = pass.answer.state

\* Its max_commit_ts is the largest timestamp counted, and the answer carries
\* the timestamp of the record it came from.
StampsFit(n, recs, pass) ==
    n \in pass.prepared =>
        /\ \A p \in pass.prepared : recs[p].self_commit_ts <= pass.max_commit_ts
        /\ recs[n].self_commit_ts # 0 =>
             \E p \in pass.prepared : recs[p].self_commit_ts = pass.max_commit_ts
        /\ recs[n].start_trans <= pass.max_commit_ts
        /\ \A p \in Host : First(p, pass.todo) =>
             /\ pass.answer.state = "Prepared" =>
                  pass.answer.commit_ts = recs[p].self_commit_ts
             /\ pass.answer.state = "Commited" =>
                  pass.answer.commit_ts = recs[p].commit_trans

\* Answers are used after the peer may have moved on, been closed or crashed:
\* none of them is ever out of date in a way that matters to the decision.
TaskInv ==
    \A n \in Host, t \in Trans :
        TaskFits(n, Records(t), task[n][t]) /\ StampsFit(n, Records(t), task[n][t])

\* The timestamps of a session are in the order in which it takes them.
TimeInv ==
    \A t \in Trans :
        /\ logic[t].begin_ts <= clock /\ logic[t].start_ts <= clock
        /\ logic[t].trans_list # {} =>
             logic[t].start_ts # 0 /\ logic[t].begin_ts <= logic[t].start_ts

VotingInv == ListInv /\ VoteInv /\ DecisionInv /\ TaskInv /\ TimeInv

\* What the two ends of a connection know of each other: whoever is sent a
\* Prepare, or may still be, holds the transaction open, and the record it
\* needs is there.
SessionInv ==
    \A n \in Host, t \in Trans :
        /\ ~up[n] => sess[n] = {} /\ wire[t][n] \notin Requests /\ link[t][n] # "open"
        /\ t \in sess[n] => State(n, t) = "Begin"
        /\ wire[t][n] = "begin" => State(n, t) = "none"
        /\ wire[t][n] = "prepare" => t \in sess[n]
        /\ wire[t][n] \in {"prepare", "prepared"} =>
             n \in logic[t].trans_list \ logic[t].todo
        /\ wire[t][n] = "begun" \/ n \in logic[t].stat => State(n, t) # "none"
        /\ /\ link[t][n] = "open"
           /\ \/ wire[t][n] = "begun"
              \/ logic[t].pc = "active" /\ n \in logic[t].stat
              \/ logic[t].pc = "send" /\ n \in logic[t].todo
           => t \in sess[n]

\* Storage n voted and wrote its timestamp.
Stamped(n, t) == Voted(n, t) /\ trans[n][t].self_commit_ts # 0

\* Success is told when every participant has answered, and an answer means
\* that the vote is in the database with its timestamp.
AnswerInv ==
    \A n \in Host, t \in Trans :
        /\ wire[t][n] = "prepared" => Stamped(n, t)
        /\ logic[t].pc = "send" => logic[t].stat = logic[t].trans_list
        /\ logic[t].pc = "wait" /\ n \in logic[t].trans_list \ logic[t].stat => Stamped(n, t)
        /\ logic[t].pc \in {"send", "wait"} \/ logic[t].result = "ok" =>
             (link[t][n] # "none" => n \in logic[t].trans_list)
        /\ logic[t].result = "ok" =>
             logic[t].pc = "done" /\ (n \in logic[t].trans_list => Stamped(n, t))

\* A PrepareTask that works has somebody to ask; it works on every transaction
\* its process holds prepared.
PursuitInv ==
    \A n \in Host, t \in Trans :
        /\ task[n][t] # NoTask => up[n] /\ task[n][t].todo # {}
        /\ up[n] /\ State(n, t) = "Prepared" => task[n][t] # NoTask

ProtocolInv == VotingInv /\ SessionInv /\ AnswerInv /\ PursuitInv

-----------------------------------------------------------------------------
(***************************************************************************)
(* Liveness.                                                               *)
(***************************************************************************)

\* Every prepared transaction is decided once no more crash hits its
\* participants: none of them waits for ever for another one.
PreparedIsDecided ==
    \A n \in Host, t \in Trans :
        State(n, t) = "Prepared" ~> State(n, t) \in {"Commited", "Rollback"}

\* Every commit request ends: with an answer, or with the connection closed.
CommitEnds == \A t \in Trans : logic[t].pc = "send" ~> logic[t].pc = "done"

\* What the client was told is committed is committed in the end everywhere.
OkIsCommited ==
    \A t \in Trans : logic[t].result = "ok" ~>
        \A n \in logic[t].trans_list : State(n, t) = "Commited"

\* A storage never keeps a transaction open whose session is over: it commits
\* or rolls it back, so its locks do not block other transactions for ever.
NothingLeftOpen ==
    \A n \in Host, t \in Trans :
        (State(n, t) = "Begin" /\ logic[t].pc = "done") ~>
            State(n, t) \in {"Commited", "Rollback"}

-----------------------------------------------------------------------------
(***************************************************************************)
(* Each transaction is an atomic commitment: its records at the storages   *)
(* and the list its coordinator fixed implement AtomicCommit.              *)
(***************************************************************************)
Promise(t) == INSTANCE AtomicCommit WITH
    MaxTimestamp <- MaxTS,
    state <- [n \in Host |-> trans[n][t].state],
    members <- logic[t].trans_list,
    vote <- [n \in Host |-> trans[n][t].self_commit_ts],
    decision <- [n \in Host |-> trans[n][t].commit_trans]

\* The specification of AtomicCommit for each transaction: whatever a step of
\* a storage, a PrepareTask, a crash or a restart does, it is for each
\* transaction a step of AtomicCommit or leaves it alone.
ImplementsAtomicCommit ==
    /\ \A t \in Trans : Promise(t)!AbstractInit
    /\ [][\A t \in Trans : [Promise(t)!AbstractNext]_(Promise(t)!acVars)]_vars

=============================================================================
