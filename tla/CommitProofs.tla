---------------------------- MODULE CommitProofs ----------------------------
(***************************************************************************)
(* Theorems about CommitProtocol, for any number of storages and           *)
(* transactions and for any bounds.                                        *)
(***************************************************************************)
EXTENDS CommitProtocol, TLAPS

USE NumHostAssumption, ClockAssumption, BudgetAssumption

-----------------------------------------------------------------------------
(***************************************************************************)
(* What the helpers return.                                                *)
(***************************************************************************)

LEMMA TimeIsTS == 1 .. MaxTS \subseteq TS /\ 0 \in TS
BY DEF TS

LEMMA NotFoundType == NotFound \in TransRec /\ NoTask \in PrepareTask /\ NoAnswer \in Answer
BY DEF NotFound, TransRec, NoTask, PrepareTask, NoAnswer, Answer, TS

LEMMA GetTSType ==
    ASSUME clock \in 1 .. MaxTS, NEW ts \in GetTS
    PROVE  ts \in 1 .. MaxTS /\ ts >= clock
BY DEF GetTS

LEMMA PassTSType ==
    ASSUME clock \in 1 .. MaxTS, NEW rec, NEW ts \in PassTS(rec)
    PROVE  ts \in 1 .. MaxTS /\ ts >= clock
BY GetTSType DEF PassTS

LEMMA NewPassType ==
    ASSUME NEW n \in Host, NEW rec \in TransRec, NEW ts \in TS
    PROVE  NewPass(n, rec, ts) \in PrepareTask
<1>1. rec.self_commit_ts \in TS /\ rec.trans_list \in SUBSET Host
  BY DEF TransRec
<1> QED BY <1>1, NotFoundType DEF NewPass, PrepareTask

LEMMA ContinueType ==
    ASSUME NEW n \in Host, NEW rec \in TransRec, NEW pass \in PrepareTask, NEW ts \in TS
    PROVE  /\ Continue(n, rec, pass, ts).rec \in TransRec
           /\ Continue(n, rec, pass, ts).task \in PrepareTask
<1>1. [rec EXCEPT !.state = "Commited", !.commit_trans = pass.max_commit_ts] \in TransRec
  BY DEF TransRec, PrepareTask
<1> QED BY <1>1, NewPassType, NotFoundType DEF Continue

LEMMA CleanType ==
    ASSUME NEW n \in Host, NEW rec \in TransRec, NEW tk \in PrepareTask, NEW ts \in TS
    PROVE  /\ startCleanTrans(n, rec, tk, ts).rec \in TransRec
           /\ startCleanTrans(n, rec, tk, ts).task \in PrepareTask
<1>1. [rec EXCEPT !.state = "Rollback"] \in TransRec
  BY DEF TransRec
<1> QED BY <1>1, NewPassType, ContinueType DEF startCleanTrans

LEMMA PreparedType ==
    ASSUME NEW rec \in TransRec, NEW req \in LogicSession
    PROVE  updateTransPrepared(rec, req) \in TransRec
BY DEF updateTransPrepared, TransRec, LogicSession

LEMMA CountAnswerType ==
    ASSUME NEW p \in Host, NEW pass \in PrepareTask
    PROVE  CountAnswer(pass, p) \in PrepareTask
BY NotFoundType DEF CountAnswer, PrepareTask, Answer

LEMMA TransStateOfType ==
    ASSUME NEW rec \in TransRec
    PROVE  TransStateOf(rec) \in Answer
BY DEF TransStateOf, TransRec, Answer, TS

-----------------------------------------------------------------------------
(***************************************************************************)
(* The helpers keep the timestamps of a commit set.                        *)
(***************************************************************************)

LEMMA NotFoundDated == Dated(NotFound, NoTask)
BY DEF Dated, NotFound, NoTask, NoAnswer

\* Nobody works on the transaction, or a pass is abandoned.
LEMMA IdleDated ==
    ASSUME NEW rec, NEW pass, Dated(rec, pass)
    PROVE  Dated(rec, NoTask)
BY DEF Dated, NoTask, NoAnswer

\* A step that leaves the record without a decision keeps it dated.
LEMMA OpenDated ==
    ASSUME NEW rec, NEW pass, Dated(rec, pass), NEW new, new.state # "Commited"
    PROVE  Dated(new, pass)
BY DEF Dated

\* A pass that has somebody left to ask is one of a PrepareTask at work.
LEMMA AskingDated ==
    ASSUME NEW rec, NEW pass, Dated(rec, pass), NEW p, First(p, pass.todo)
    PROVE  pass.max_commit_ts # 0
BY DEF Dated, First, NoTask

LEMMA NewPassDated ==
    ASSUME NEW n \in Host, NEW rec, NEW ts \in 1 .. MaxTS
    PROVE  /\ NewPass(n, rec, ts).max_commit_ts # 0
           /\ NewPass(n, rec, ts).answer = NoAnswer
BY DEF NewPass

LEMMA ContinueDated ==
    ASSUME NEW n \in Host, NEW rec \in TransRec, NEW pass, NEW ts \in 1 .. MaxTS,
           rec.state = "Commited" => rec.commit_trans # 0,
           pass.max_commit_ts # 0, pass.answer = NoAnswer
    PROVE  Dated(Continue(n, rec, pass, ts).rec, Continue(n, rec, pass, ts).task)
<1>1. /\ [rec EXCEPT !.state = "Commited", !.commit_trans = pass.max_commit_ts].commit_trans
            = pass.max_commit_ts
      /\ NoTask.answer = NoAnswer /\ NoAnswer.state = "none"
  BY DEF TransRec, NoTask, NoAnswer
<1> QED BY <1>1, NewPassDated DEF Continue, Dated

LEMMA CleanDated ==
    ASSUME NEW n \in Host, NEW rec \in TransRec, NEW tk, NEW ts \in 1 .. MaxTS,
           Dated(rec, tk)
    PROVE  Dated(startCleanTrans(n, rec, tk, ts).rec, startCleanTrans(n, rec, tk, ts).task)
<1>1. [rec EXCEPT !.state = "Rollback"].state = "Rollback"
  BY DEF TransRec
<1>2. rec.state = "Commited" => rec.commit_trans # 0
  BY DEF Dated
<1>3. Dated(Continue(n, rec, NewPass(n, rec, ts), ts).rec,
            Continue(n, rec, NewPass(n, rec, ts), ts).task)
  BY <1>2, NewPassDated, ContinueDated
<1> QED BY <1>1, <1>3, OpenDated DEF startCleanTrans

LEMMA CountAnswerDated ==
    ASSUME NEW rec, NEW pass \in PrepareTask, Dated(rec, pass), NEW p, First(p, pass.todo)
    PROVE  /\ CountAnswer(pass, p).max_commit_ts # 0
           /\ CountAnswer(pass, p).answer = NoAnswer
<1>1. pass.max_commit_ts # 0 /\ pass.max_commit_ts \in TS /\ pass.answer.commit_ts \in TS
  BY AskingDated DEF PrepareTask, Answer
<1> QED BY <1>1 DEF CountAnswer, PrepareTask, TS

LEMMA TransStateOfDated ==
    ASSUME NEW rec, NEW pass, Dated(rec, pass)
    PROVE  TransStateOf(rec).state = "Commited" => TransStateOf(rec).commit_ts # 0
BY DEF TransStateOf, Dated

-----------------------------------------------------------------------------
(***************************************************************************)
(* Type correctness, variable by variable.                                 *)
(***************************************************************************)

TransType == trans \in [Host -> [Trans -> TransRec]]
ProcessType == up \in [Host -> BOOLEAN] /\ sess \in [Host -> SUBSET Trans]
TaskType == task \in [Host -> [Trans -> PrepareTask]]
LogicType == logic \in [Trans -> LogicSession]
LinkType == link \in [Trans -> [Host -> {"none", "open", "broken"}]]
WireType == wire \in [Trans -> [Host -> Requests \cup Responses \cup {"none"}]]
ClockType == clock \in 1 .. MaxTS
BudgetType == budget \in [crash : 0 .. MaxCrash, torn : 0 .. MaxTorn, fault : 0 .. MaxFault]
DateType == \A n \in Host, t \in Trans : Dated(trans[n][t], task[n][t])

LEMMA TypeParts ==
    /\ TypeOK <=> /\ TransType /\ ProcessType /\ TaskType /\ LogicType
                  /\ LinkType /\ WireType /\ ClockType /\ BudgetType /\ DateType
    /\ TypeOK' <=> /\ TransType' /\ ProcessType' /\ TaskType' /\ LogicType'
                   /\ LinkType' /\ WireType' /\ ClockType' /\ BudgetType' /\ DateType'
BY DEF TypeOK, TransType, ProcessType, TaskType, LogicType, LinkType, WireType,
       ClockType, BudgetType, DateType

LEMMA TypeUnchanged ==
    /\ TransType /\ UNCHANGED trans => TransType'
    /\ ProcessType /\ UNCHANGED <<up, sess>> => ProcessType'
    /\ TaskType /\ UNCHANGED task => TaskType'
    /\ LogicType /\ UNCHANGED logic => LogicType'
    /\ LinkType /\ UNCHANGED link => LinkType'
    /\ WireType /\ UNCHANGED wire => WireType'
    /\ ClockType /\ UNCHANGED clock => ClockType'
    /\ BudgetType /\ UNCHANGED budget => BudgetType'
    /\ DateType /\ UNCHANGED <<trans, task>> => DateType'
BY DEF TransType, ProcessType, TaskType, LogicType, LinkType, WireType, ClockType,
       BudgetType, DateType

LEMMA EndSessionType ==
    ASSUME LogicType, LinkType, NEW t \in Trans, NEW res \in {"fail", "rollback", "lost"},
           EndSession(t, res)
    PROVE  LogicType' /\ LinkType'
<1>1. ASSUME NEW r \in LogicSession
      PROVE  [r EXCEPT !.pc = "done", !.result = res, !.todo = {}] \in LogicSession
  BY DEF LogicSession
<1>2. logic' = [logic EXCEPT ![t].pc = "done", ![t].result = res, ![t].todo = {}]
  BY DEF EndSession
<1>3. LogicType'
  BY <1>1, <1>2 DEF LogicType
<1>4. LinkType'
  BY DEF EndSession, CloseLinks, LinkType
<1> QED BY <1>3, <1>4

LEMMA RespondType ==
    ASSUME WireType, NEW t \in Trans, NEW n \in Host, NEW m \in Responses, Respond(t, n, m)
    PROVE  WireType'
BY DEF Respond, WireType

LEMMA DieDate ==
    ASSUME TransType, TaskType, NEW n \in Host, Die(n),
           \A m \in Host, t \in Trans : Dated(trans'[m][t], task[m][t])
    PROVE  DateType'
<1>1. \A m \in Host, t \in Trans : task'[m][t] = IF m = n THEN NoTask ELSE task[m][t]
  BY DEF Die, TaskType
<1> QED BY <1>1, IdleDated DEF DateType

LEMMA DieType ==
    ASSUME ProcessType, TaskType, LinkType, WireType, NEW n \in Host, Die(n)
    PROVE  ProcessType' /\ TaskType' /\ LinkType' /\ WireType'
<1>1. ProcessType'
  BY DEF Die, ProcessType
<1>2. TaskType'
  BY NotFoundType DEF Die, TaskType
<1>3. LinkType'
  BY DEF Die, LinkType
<1>4. WireType'
  BY DEF Die, WireType
<1> QED BY <1>1, <1>2, <1>3, <1>4

\* One record and one PrepareTask of a storage are replaced.
LEMMA RowType ==
    ASSUME TransType, TaskType, NEW n \in Host, NEW t \in Trans,
           NEW rec \in TransRec, NEW tk \in PrepareTask,
           trans' = [trans EXCEPT ![n][t] = rec],
           task' = [task EXCEPT ![n][t] = tk]
    PROVE  TransType' /\ TaskType'
BY DEF TransType, TaskType

LEMMA RowDate ==
    ASSUME TransType, TaskType, DateType, NEW n \in Host, NEW t \in Trans,
           NEW rec, NEW tk, Dated(rec, tk),
           trans' = [trans EXCEPT ![n][t] = rec],
           task' = [task EXCEPT ![n][t] = tk]
    PROVE  DateType'
<1>1. \A m \in Host, u \in Trans :
        /\ trans'[m][u] = IF m = n /\ u = t THEN rec ELSE trans[m][u]
        /\ task'[m][u] = IF m = n /\ u = t THEN tk ELSE task[m][u]
  BY DEF TransType, TaskType
<1> QED BY <1>1 DEF DateType

LEMMA TypeInit == Init => TypeOK
<1> SUFFICES ASSUME Init PROVE TypeOK
  OBVIOUS
<1>1. NewSession \in LogicSession
  BY DEF NewSession, LogicSession, TS
<1>2. clock \in 1 .. MaxTS
  BY DEF Init
<1>3. TransType /\ ProcessType /\ TaskType /\ LogicType
  BY <1>1, NotFoundType DEF Init, TransType, ProcessType, TaskType, LogicType
<1>4. LinkType /\ WireType /\ ClockType /\ BudgetType
  BY <1>2 DEF Init, LinkType, WireType, ClockType, BudgetType
<1>5. DateType
  BY NotFoundDated DEF Init, DateType
<1> QED BY <1>3, <1>4, <1>5, TypeParts

LEMMA TypeNext == TypeOK /\ [Next]_vars => TypeOK'
<1> SUFFICES ASSUME TypeOK, [Next]_vars PROVE TypeOK'
  OBVIOUS
<1>0. /\ TransType /\ ProcessType /\ TaskType /\ LogicType
      /\ LinkType /\ WireType /\ ClockType /\ BudgetType /\ DateType
  BY TypeParts
<1>1. ASSUME NEW t \in Trans, ReqBegin(t) PROVE TypeOK'
  <2>1. PICK ts \in GetTS : /\ logic' = [logic EXCEPT ![t].pc = "active", ![t].begin_ts = ts]
                            /\ clock' = ts
    BY <1>1 DEF ReqBegin
  <2>2. ts \in 1 .. MaxTS /\ ts \in TS
    BY <1>0, GetTSType, TimeIsTS DEF ClockType
  <2>3. ASSUME NEW r \in LogicSession
        PROVE  [r EXCEPT !.pc = "active", !.begin_ts = ts] \in LogicSession
    BY <2>2 DEF LogicSession
  <2>4. LogicType'
    BY <1>0, <2>1, <2>3 DEF LogicType
  <2>5. ClockType'
    BY <2>1, <2>2 DEF ClockType
  <2> QED BY <1>0, <1>1, <2>4, <2>5, TypeParts, TypeUnchanged DEF ReqBegin
<1>2. ASSUME NEW t \in Trans, ReqCommit(t) PROVE TypeOK'
  <2>1. PICK ts \in GetTS :
          /\ logic' = [logic EXCEPT
               ![t].pc = IF logic[t].stat = {} THEN "done" ELSE "send",
               ![t].start_ts = ts,
               ![t].trans_list = logic[t].stat,
               ![t].todo = logic[t].stat,
               ![t].result = IF logic[t].stat = {} THEN "ok" ELSE "none"]
          /\ clock' = ts
    BY <1>2 DEF ReqCommit
  <2>2. ts \in 1 .. MaxTS /\ ts \in TS
    BY <1>0, GetTSType, TimeIsTS DEF ClockType
  <2>3. ASSUME NEW r \in LogicSession
        PROVE  [r EXCEPT !.pc = IF r.stat = {} THEN "done" ELSE "send",
                         !.start_ts = ts, !.trans_list = r.stat, !.todo = r.stat,
                         !.result = IF r.stat = {} THEN "ok" ELSE "none"] \in LogicSession
    BY <2>2 DEF LogicSession
  <2>4. LogicType'
    BY <1>0, <2>1, <2>3 DEF LogicType
  <2>5. ClockType'
    BY <2>1, <2>2 DEF ClockType
  <2> QED BY <1>0, <1>2, <2>4, <2>5, TypeParts, TypeUnchanged DEF ReqCommit
<1>3. ASSUME NEW t \in Trans, ReqRollback(t) PROVE TypeOK'
  BY <1>0, <1>3, EndSessionType, TypeParts, TypeUnchanged DEF ReqRollback
<1>4. ASSUME NEW t \in Trans, SessionLost(t) PROVE TypeOK'
  BY <1>0, <1>4, EndSessionType, TypeParts, TypeUnchanged DEF SessionLost
<1>5. ASSUME NEW t \in Trans, NEW n \in Host, getFd(t, n) PROVE TypeOK'
  <2>1. LinkType' /\ WireType'
    BY <1>0, <1>5 DEF getFd, LinkType, WireType, Requests
  <2> QED BY <1>0, <1>5, <2>1, TypeParts, TypeUnchanged DEF getFd
<1>6. ASSUME NEW t \in Trans, NEW n \in Host, ConnectFails(t, n) PROVE TypeOK'
  BY <1>0, <1>6, EndSessionType, TypeParts, TypeUnchanged DEF ConnectFails
<1>7. ASSUME NEW t \in Trans, NEW n \in Host, LinkBreaks(t, n) PROVE TypeOK'
  <2>1. LinkType'
    BY <1>0, <1>7 DEF LinkBreaks, LinkType
  <2>2. BudgetType'
    BY <1>0, <1>7 DEF LinkBreaks, BudgetType
  <2> QED BY <1>0, <1>7, <2>1, <2>2, TypeParts, TypeUnchanged DEF LinkBreaks
<1>8. ASSUME NEW t \in Trans, NEW n \in Host, BeginDone(t, n) PROVE TypeOK'
  <2>1. LogicType'
    BY <1>0, <1>8 DEF BeginDone, LogicType, LogicSession
  <2>2. WireType'
    BY <1>0, <1>8 DEF BeginDone, WireType
  <2> QED BY <1>0, <1>8, <2>1, <2>2, TypeParts, TypeUnchanged DEF BeginDone
<1>9. ASSUME NEW t \in Trans, NEW n \in Host, SendPrepare(t, n) PROVE TypeOK'
  <2>1. ASSUME NEW r \in LogicSession
        PROVE  [r EXCEPT !.todo = @ \ {n},
                         !.pc = IF r.todo = {n} THEN "wait" ELSE "send"] \in LogicSession
    BY DEF LogicSession
  <2>2. LogicType'
    BY <1>0, <1>9, <2>1 DEF SendPrepare, LogicType
  <2>3. WireType'
    BY <1>0, <1>9 DEF SendPrepare, WireType, Requests
  <2> QED BY <1>0, <1>9, <2>2, <2>3, TypeParts, TypeUnchanged DEF SendPrepare
<1>10. ASSUME NEW t \in Trans, NEW n \in Host, PrepareDone(t, n) PROVE TypeOK'
  <2>1. ASSUME NEW r \in LogicSession
        PROVE  [r EXCEPT !.stat = @ \ {n},
                         !.pc = IF r.stat = {n} THEN "done" ELSE "wait",
                         !.result = IF r.stat = {n} THEN "ok" ELSE "none"] \in LogicSession
    BY DEF LogicSession
  <2>2. LogicType'
    BY <1>0, <1>10, <2>1 DEF PrepareDone, LogicType
  <2>3. WireType'
    BY <1>0, <1>10 DEF PrepareDone, WireType
  <2> QED BY <1>0, <1>10, <2>2, <2>3, TypeParts, TypeUnchanged DEF PrepareDone
<1>11. ASSUME NEW t \in Trans, NEW n \in Host, StorageError(t, n) PROVE TypeOK'
  <2>1. PICK res \in {"fail", "rollback", "lost"} : EndSession(t, res)
    BY <1>11 DEF StorageError
  <2> QED BY <1>0, <1>11, <2>1, EndSessionType, TypeParts, TypeUnchanged DEF StorageError
<1>12. ASSUME NEW t \in Trans, NEW n \in Host, Begin(n, t) PROVE TypeOK'
  <2>0. ASSUME NEW r \in TransRec
        PROVE  [r EXCEPT !.state = "Begin"] \in TransRec
    BY DEF TransRec
  <2>1. TransType'
    BY <1>0, <1>12, <2>0 DEF Begin, TransType
  <2>2. ProcessType'
    BY <1>0, <1>12 DEF Begin, ProcessType
  <2>3. WireType'
    BY <1>0, <1>12, RespondType DEF Begin, Responses
  <2>4. DateType'
    <3>1. [trans[n][t] EXCEPT !.state = "Begin"].state = "Begin"
      BY <1>0 DEF TransType, TransRec
    <3>2. \A m \in Host, u \in Trans :
            trans'[m][u] = trans[m][u] \/ trans'[m][u].state = "Begin"
      BY <1>0, <1>12, <3>1 DEF Begin, TransType
    <3> QED BY <1>0, <1>12, <3>2, OpenDated DEF Begin, DateType
  <2> QED BY <1>0, <1>12, <2>1, <2>2, <2>3, <2>4, TypeParts, TypeUnchanged DEF Begin
<1>13. ASSUME NEW t \in Trans, NEW n \in Host, Prepare(n, t) PROVE TypeOK'
  <2> DEFINE rec(ts) == [updateTransPrepared(trans[n][t], logic[t]) EXCEPT !.self_commit_ts = ts]
             res(ts) == startCleanTrans(n, rec(ts), task[n][t], ts)
  <2>1. PICK ts \in GetTS : /\ trans' = [trans EXCEPT ![n][t] = res(ts).rec]
                            /\ task' = [task EXCEPT ![n][t] = res(ts).task]
                            /\ clock' = ts
    BY <1>13 DEF Prepare, updateTransSelfCommitTs
  <2>2. ts \in 1 .. MaxTS /\ ts \in TS
    BY <1>0, GetTSType, TimeIsTS DEF ClockType
  <2>3. trans[n][t] \in TransRec /\ logic[t] \in LogicSession /\ task[n][t] \in PrepareTask
    BY <1>0 DEF TransType, LogicType, TaskType
  <2>4. rec(ts) \in TransRec
    BY <2>2, <2>3, PreparedType DEF TransRec
  <2>5. res(ts).rec \in TransRec /\ res(ts).task \in PrepareTask
    BY <2>2, <2>3, <2>4, CleanType
  <2>6. TransType' /\ TaskType'
    BY <1>0, <2>1, <2>5, RowType
  <2>7. ProcessType'
    BY <1>0, <1>13 DEF Prepare, ProcessType
  <2>8. WireType'
    BY <1>0, <1>13, RespondType DEF Prepare, Responses
  <2>9. ClockType'
    BY <2>1, <2>2 DEF ClockType
  <2>10. rec(ts).state = "Prepared"
    BY <2>3 DEF updateTransPrepared, TransRec
  <2>11. Dated(res(ts).rec, res(ts).task)
    BY <1>0, <2>2, <2>4, <2>10, OpenDated, CleanDated DEF DateType
  <2>12. DateType'
    BY <1>0, <2>1, <2>11, RowDate
  <2> QED BY <1>0, <1>13, <2>6, <2>7, <2>8, <2>9, <2>12, TypeParts, TypeUnchanged DEF Prepare
<1>14. ASSUME NEW t \in Trans, NEW n \in Host, SessionEnd(n, t) PROVE TypeOK'
  <2> DEFINE res(ts) == startCleanTrans(n, trans[n][t], task[n][t], ts)
  <2>1. PICK ts \in PassTS(trans[n][t]) :
                            /\ trans' = [trans EXCEPT ![n][t] = res(ts).rec]
                            /\ task' = [task EXCEPT ![n][t] = res(ts).task]
                            /\ clock' = ts
    BY <1>14 DEF SessionEnd
  <2>2. ts \in 1 .. MaxTS /\ ts \in TS
    BY <1>0, PassTSType, TimeIsTS DEF ClockType
  <2>3. res(ts).rec \in TransRec /\ res(ts).task \in PrepareTask
    BY <1>0, <2>2, CleanType DEF TransType, TaskType
  <2>4. TransType' /\ TaskType'
    BY <1>0, <2>1, <2>3, RowType
  <2>5. ProcessType'
    BY <1>0, <1>14 DEF SessionEnd, ProcessType
  <2>6. WireType'
    BY <1>0, <1>14 DEF SessionEnd, WireType
  <2>7. ClockType'
    BY <2>1, <2>2 DEF ClockType
  <2>8. Dated(res(ts).rec, res(ts).task)
    BY <1>0, <2>2, CleanDated DEF TransType, DateType
  <2>9. DateType'
    BY <1>0, <2>1, <2>8, RowDate
  <2> QED BY <1>0, <1>14, <2>4, <2>5, <2>6, <2>7, <2>9, TypeParts, TypeUnchanged DEF SessionEnd
<1>15. ASSUME NEW t \in Trans, NEW n \in Host, NEW p \in Host, AskTransState(n, t, p) PROVE TypeOK'
  <2>1. TransStateOf(trans[p][t]) \in Answer
    BY <1>0, TransStateOfType DEF TransType
  <2>2. ASSUME NEW r \in PrepareTask, NEW a \in Answer
        PROVE  [r EXCEPT !.answer = a] \in PrepareTask
    BY DEF PrepareTask
  <2>3. TaskType'
    BY <1>0, <1>15, <2>1, <2>2 DEF AskTransState, TaskType
  <2>4. DateType'
    <3> DEFINE tk == [task[n][t] EXCEPT !.answer = TransStateOf(trans[p][t])]
    <3>1. task[n][t].max_commit_ts # 0
      BY <1>0, <1>15, AskingDated DEF AskTransState, DateType
    <3>2. /\ tk.max_commit_ts = task[n][t].max_commit_ts
          /\ tk.answer = TransStateOf(trans[p][t])
      BY <1>0 DEF TaskType, PrepareTask
    <3>3. Dated(trans[n][t], tk)
      BY <1>0, <3>1, <3>2, TransStateOfDated DEF DateType, Dated
    <3>4. \A m \in Host, u \in Trans :
            task'[m][u] = IF m = n /\ u = t THEN tk ELSE task[m][u]
      BY <1>0, <1>15 DEF AskTransState, TaskType
    <3> HIDE DEF tk
    <3> QED BY <1>0, <1>15, <3>3, <3>4 DEF AskTransState, DateType
  <2> QED BY <1>0, <1>15, <2>3, <2>4, TypeParts, TypeUnchanged DEF AskTransState
<1>16. ASSUME NEW t \in Trans, NEW n \in Host, NEW p \in Host, AskFails(n, t, p) PROVE TypeOK'
  <2> DEFINE pass == [task[n][t] EXCEPT !.todo = @ \ {p}, !.answer = NoAnswer]
             res(ts) == Continue(n, trans[n][t], pass, ts)
  <2>1. PICK ts \in PassTS(trans[n][t]) :
                            /\ trans' = [trans EXCEPT ![n][t] = res(ts).rec]
                            /\ task' = [task EXCEPT ![n][t] = res(ts).task]
                            /\ clock' = ts
    BY <1>16 DEF AskFails
  <2>2. ts \in 1 .. MaxTS /\ ts \in TS
    BY <1>0, PassTSType, TimeIsTS DEF ClockType
  <2>3. task[n][t] \in PrepareTask /\ trans[n][t] \in TransRec
    BY <1>0 DEF TaskType, TransType
  <2>4. pass \in PrepareTask
    BY <2>3, NotFoundType DEF PrepareTask
  <2>5. res(ts).rec \in TransRec /\ res(ts).task \in PrepareTask
    BY <2>2, <2>3, <2>4, ContinueType
  <2>6. TransType' /\ TaskType'
    BY <1>0, <2>1, <2>5, RowType
  <2>7. BudgetType'
    BY <1>0, <1>16 DEF AskFails, BudgetType
  <2>8. ClockType'
    BY <2>1, <2>2 DEF ClockType
  <2>9. pass.max_commit_ts # 0 /\ pass.answer = NoAnswer
    BY <1>0, <1>16, <2>3, AskingDated DEF AskFails, DateType, PrepareTask
  <2>10. trans[n][t].state = "Commited" => trans[n][t].commit_trans # 0
    BY <1>0 DEF DateType, Dated
  <2>11. Dated(res(ts).rec, res(ts).task)
    BY <2>2, <2>3, <2>9, <2>10, ContinueDated
  <2>12. DateType'
    BY <1>0, <2>1, <2>11, RowDate
  <2> QED BY <1>0, <1>16, <2>6, <2>7, <2>8, <2>12, TypeParts, TypeUnchanged DEF AskFails
<1>17. ASSUME NEW t \in Trans, NEW n \in Host, NEW p \in Host, GetTransState(n, t, p) PROVE TypeOK'
  <2>0. task[n][t] \in PrepareTask /\ trans[n][t] \in TransRec
    BY <1>0 DEF TaskType, TransType
  <2>1. TransType' /\ TaskType' /\ ClockType' /\ DateType'
    <3>1. CASE task[n][t].answer.state \in {"Begin", "Prepared"}
      <4> DEFINE res(ts) == Continue(n, trans[n][t], CountAnswer(task[n][t], p), ts)
      <4>1. PICK ts \in PassTS(trans[n][t]) :
                            /\ trans' = [trans EXCEPT ![n][t] = res(ts).rec]
                            /\ task' = [task EXCEPT ![n][t] = res(ts).task]
                            /\ clock' = ts
        BY <1>17, <3>1 DEF GetTransState
      <4>2. ts \in 1 .. MaxTS /\ ts \in TS
        BY <1>0, PassTSType, TimeIsTS DEF ClockType
      <4>3. res(ts).rec \in TransRec /\ res(ts).task \in PrepareTask
        BY <2>0, <4>2, CountAnswerType, ContinueType
      <4>4. /\ CountAnswer(task[n][t], p).max_commit_ts # 0
            /\ CountAnswer(task[n][t], p).answer = NoAnswer
        BY <1>0, <1>17, <2>0, CountAnswerDated DEF GetTransState, DateType
      <4>5. trans[n][t].state = "Commited" => trans[n][t].commit_trans # 0
        BY <1>0 DEF DateType, Dated
      <4>6. Dated(res(ts).rec, res(ts).task)
        BY <2>0, <4>2, <4>4, <4>5, ContinueDated
      <4>7. DateType'
        BY <1>0, <4>1, <4>6, RowDate
      <4> QED BY <1>0, <4>1, <4>2, <4>3, <4>7, RowType DEF ClockType
    <3>2. CASE task[n][t].answer.state = "Commited"
      <4> DEFINE rec == [trans[n][t] EXCEPT !.state = "Commited",
                                            !.commit_trans = task[n][t].answer.commit_ts]
      <4>1. rec \in TransRec
        BY <2>0 DEF TransRec, PrepareTask, Answer
      <4>2. trans' = [trans EXCEPT ![n][t] = rec] /\ task' = [task EXCEPT ![n][t] = NoTask]
            /\ UNCHANGED clock
        BY <1>17, <3>2 DEF GetTransState
      <4>3. rec.commit_trans = task[n][t].answer.commit_ts
        BY <2>0 DEF TransRec
      <4>4. Dated(rec, NoTask)
        BY <1>0, <3>2, <4>3 DEF DateType, Dated, NoTask, NoAnswer
      <4>5. DateType'
        BY <1>0, <4>2, <4>4, RowDate
      <4> QED BY <1>0, <4>1, <4>2, <4>5, NotFoundType, RowType, TypeUnchanged
    <3>3. CASE task[n][t].answer.state = "Rollback"
      <4> DEFINE rec == [trans[n][t] EXCEPT !.state = "Rollback"]
      <4>1. rec \in TransRec
        BY <2>0 DEF TransRec
      <4>2. trans' = [trans EXCEPT ![n][t] = rec] /\ task' = [task EXCEPT ![n][t] = NoTask]
            /\ UNCHANGED clock
        BY <1>17, <3>3 DEF GetTransState
      <4>3. rec.state = "Rollback"
        BY <2>0 DEF TransRec
      <4>4. Dated(rec, NoTask)
        BY <1>0, <4>3, IdleDated, OpenDated DEF DateType
      <4>5. DateType'
        BY <1>0, <4>2, <4>4, RowDate
      <4> QED BY <1>0, <4>1, <4>2, <4>5, NotFoundType, RowType, TypeUnchanged
    <3> QED BY <1>17, <3>1, <3>2, <3>3 DEF GetTransState
  <2> QED BY <1>0, <1>17, <2>1, TypeParts, TypeUnchanged DEF GetTransState
<1>18. ASSUME NEW n \in Host, Crash(n) PROVE TypeOK'
  <2>1. BudgetType'
    BY <1>0, <1>18 DEF Crash, BudgetType
  <2>2. DateType'
    BY <1>0, <1>18, DieDate DEF Crash, DateType
  <2> QED BY <1>0, <1>18, <2>1, <2>2, DieType, TypeParts, TypeUnchanged DEF Crash
<1>19. ASSUME NEW n \in Host, NEW t \in Trans, CrashInPrepare(n, t) PROVE TypeOK'
  <2>1. BudgetType'
    BY <1>0, <1>19 DEF CrashInPrepare, BudgetType
  <2>2. updateTransPrepared(trans[n][t], logic[t]) \in TransRec
    BY <1>0, PreparedType DEF TransType, LogicType
  <2>3. TransType'
    BY <1>0, <1>19, <2>2 DEF CrashInPrepare, TransType
  <2>4. updateTransPrepared(trans[n][t], logic[t]).state = "Prepared"
    BY <1>0 DEF updateTransPrepared, TransType, TransRec
  <2>5. \A m \in Host, u \in Trans :
          trans'[m][u] = trans[m][u] \/ trans'[m][u].state = "Prepared"
    BY <1>0, <1>19, <2>4 DEF CrashInPrepare, TransType
  <2>6. \A m \in Host, u \in Trans : Dated(trans'[m][u], task[m][u])
    BY <1>0, <2>5, OpenDated DEF DateType
  <2>7. DateType'
    BY <1>0, <1>19, <2>6, DieDate DEF CrashInPrepare
  <2> QED BY <1>0, <1>19, <2>1, <2>3, <2>7, DieType, TypeParts, TypeUnchanged DEF CrashInPrepare
<1>20. ASSUME NEW n \in Host, startUpClean(n) PROVE TypeOK'
  <2> DEFINE res(ts, t) == startCleanTrans(n, trans[n][t], NoTask, ts)
  <2>1. PICK ts \in GetTS :
          /\ trans' = [trans EXCEPT ![n] = [t \in Trans |-> res(ts, t).rec]]
          /\ task' = [task EXCEPT ![n] = [t \in Trans |-> res(ts, t).task]]
          /\ clock' = ts
    BY <1>20 DEF startUpClean
  <2>2. ts \in 1 .. MaxTS /\ ts \in TS
    BY <1>0, GetTSType, TimeIsTS DEF ClockType
  <2>3. \A t \in Trans : res(ts, t).rec \in TransRec /\ res(ts, t).task \in PrepareTask
    BY <1>0, <2>2, CleanType, NotFoundType DEF TransType
  <2>4. \A t \in Trans : Dated(res(ts, t).rec, res(ts, t).task)
    BY <1>0, <2>2, IdleDated, CleanDated DEF TransType, DateType
  <2> HIDE DEF res
  <2>5. TransType' /\ TaskType'
    BY <1>0, <2>1, <2>3 DEF TransType, TaskType
  <2>6. ProcessType'
    BY <1>0, <1>20 DEF startUpClean, ProcessType
  <2>7. ClockType'
    BY <2>1, <2>2 DEF ClockType
  <2>8. DateType'
    <3>1. \A m \in Host, u \in Trans :
            /\ trans'[m][u] = IF m = n THEN res(ts, u).rec ELSE trans[m][u]
            /\ task'[m][u] = IF m = n THEN res(ts, u).task ELSE task[m][u]
      BY <1>0, <2>1 DEF TransType, TaskType
    <3> QED BY <1>0, <2>4, <3>1 DEF DateType
  <2> QED BY <1>0, <1>20, <2>5, <2>6, <2>7, <2>8, TypeParts, TypeUnchanged DEF startUpClean
<1>21. CASE UNCHANGED vars
  BY <1>0, <1>21, TypeParts, TypeUnchanged DEF vars
<1> QED
  BY <1>1, <1>2, <1>3, <1>4, <1>5, <1>6, <1>7, <1>8, <1>9, <1>10, <1>11, <1>12, <1>13,
     <1>14, <1>15, <1>16, <1>17, <1>18, <1>19, <1>20, <1>21
  DEF Next, LogicStep, StorageStep, TaskStep

\* Every variable keeps its type in every behaviour of the protocol.
THEOREM TypeCorrect == Spec => []TypeOK
BY TypeInit, TypeNext, PTL DEF Spec
=============================================================================
