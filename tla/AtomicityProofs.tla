-------------------------- MODULE AtomicityProofs ---------------------------
(***************************************************************************)
(* The commit protocol is atomic, and every storage commits with the same  *)
(* timestamp.  Each step moves each record in one of six ways (RecMove);   *)
(* the lists, the votes, the decisions and what the PrepareTasks believe   *)
(* are invariant under those moves.                                        *)
(***************************************************************************)
EXTENDS CommitProofs

\* What a vote consists of, and what is left of it in a later record.
SameVote(old, new) ==
    /\ new.trans_list = old.trans_list
    /\ new.start_trans = old.start_trans
    /\ new.self_commit_ts = old.self_commit_ts

SameStamps(old, new) == SameVote(old, new) /\ new.commit_trans = old.commit_trans

\* How one step may change the record of t at n.
Joins(n, t) ==
    /\ State(n, t) = "none" /\ wire[t][n] = "begin"
    /\ trans'[n][t].state = "Begin" /\ SameStamps(trans[n][t], trans'[n][t])

Aborts(n, t) ==
    /\ State(n, t) = "Begin"
    /\ trans'[n][t].state = "Rollback" /\ SameStamps(trans[n][t], trans'[n][t])

Votes(n, t) ==
    /\ State(n, t) = "Begin" /\ wire[t][n] = "prepare"
    /\ trans'[n][t].trans_list = logic[t].trans_list
    /\ trans'[n][t].start_trans = logic[t].start_ts
    /\ \/ /\ trans'[n][t].state = "Prepared"
          /\ trans'[n][t].commit_trans = trans[n][t].commit_trans
          /\ \/ trans'[n][t].self_commit_ts = trans[n][t].self_commit_ts
             \/ trans'[n][t].self_commit_ts \in clock .. clock'
       \/ /\ trans'[n][t].state = "Commited" /\ logic[t].trans_list = {n}
          /\ trans'[n][t].self_commit_ts \in clock .. clock'
          /\ trans'[n][t].commit_trans = trans'[n][t].self_commit_ts

Commits(n, t) ==
    /\ State(n, t) = "Prepared"
    /\ trans'[n][t].state = "Commited" /\ SameVote(trans[n][t], trans'[n][t])
    /\ \A m \in logic[t].trans_list : Voted(m, t)
    /\ HasMaxTS(Records(t), trans'[n][t])

FollowsAbort(n, t) ==
    /\ State(n, t) = "Prepared"
    /\ trans'[n][t].state = "Rollback" /\ SameStamps(trans[n][t], trans'[n][t])
    /\ \E m \in logic[t].trans_list : State(m, t) = "Rollback"

RecMove(n, t) ==
    \/ trans'[n][t] = trans[n][t]
    \/ Joins(n, t) \/ Aborts(n, t) \/ Votes(n, t) \/ Commits(n, t) \/ FollowsAbort(n, t)

\* How one step may change the list of participants of t.
ListMove(t) ==
    \/ logic'[t].trans_list = logic[t].trans_list
    \/ /\ logic[t].trans_list = {} /\ UNCHANGED trans
       /\ logic'[t].trans_list = logic[t].stat
       /\ \A n \in Host : State(n, t) # "none" => n \in logic'[t].trans_list

\* The clock goes on, and the timestamp of a commit request stays.
TimeMove ==
    /\ clock' \in Nat /\ clock <= clock'
    /\ \A t \in Trans :
         logic[t].trans_list # {} => logic'[t].start_ts = logic[t].start_ts

\* What a PrepareTask believes.
Fits(n, recs, pass) == TaskFits(n, recs, pass) /\ StampsFit(n, recs, pass)

-----------------------------------------------------------------------------
(***************************************************************************)
(* Votes and decisions under the moves.                                    *)
(***************************************************************************)

LEMMA RecordsType ==
    ASSUME TypeOK, NEW t \in Trans
    PROVE  /\ Records(t) \in [Host -> TransRec]
           /\ \A n \in Host : Records(t)[n] = trans[n][t] /\ Records(t)'[n] = trans'[n][t]
BY DEF TypeOK, Records

\* A vote is never taken back, nor is a decision.
LEMMA VotesStay ==
    ASSUME VoteInv, ListInv, NEW n \in Host, NEW t \in Trans, RecMove(n, t)
    PROVE  /\ Voted(n, t) => Voted(n, t)' /\ SameVote(trans[n][t], trans'[n][t])
           /\ State(n, t) \in {"Commited", "Rollback"} => trans'[n][t] = trans[n][t]
<1>1. State(n, t) \in {"none", "Begin"} => ~Voted(n, t)
  BY DEF VoteInv
<1>2. CASE trans'[n][t] = trans[n][t]
  BY <1>2 DEF Voted, SameVote
<1>3. CASE Joins(n, t) \/ Aborts(n, t) \/ Votes(n, t)
  BY <1>1, <1>3 DEF Joins, Aborts, Votes
<1>4. CASE Commits(n, t) \/ FollowsAbort(n, t)
  BY <1>4 DEF Commits, FollowsAbort, SameStamps, SameVote, Voted
<1> QED BY <1>2, <1>3, <1>4 DEF RecMove

\* Who votes is on the list, so that the list is not empty.
LEMMA VoterListed ==
    ASSUME ListInv, NEW n \in Host, NEW t \in Trans, Votes(n, t)
    PROVE  n \in logic[t].trans_list /\ Voted(n, t)'
BY DEF ListInv, Votes, Voted

LEMMA VoteNext ==
    ASSUME TypeOK, VoteInv, ListInv, TimeInv, TimeMove,
           \A n \in Host, t \in Trans : RecMove(n, t), \A t \in Trans : ListMove(t)
    PROVE  VoteInv'
<1> SUFFICES ASSUME NEW n \in Host, NEW t \in Trans
             PROVE  /\ Voted(n, t)' => trans'[n][t].trans_list = logic'[t].trans_list
                    /\ trans'[n][t].state \in {"none", "Begin"} => ~Voted(n, t)'
                    /\ trans'[n][t].state \in {"Prepared", "Commited"} =>
                         n \in trans'[n][t].trans_list
                    /\ trans'[n][t].state # "none" /\ logic'[t].trans_list # {} =>
                         n \in logic'[t].trans_list
                    /\ ~Voted(n, t)' => trans'[n][t].self_commit_ts = 0
                    /\ Voted(n, t)' =>
                         /\ trans'[n][t].start_trans = logic'[t].start_ts
                         /\ \/ trans'[n][t].self_commit_ts = 0
                            \/ trans'[n][t].self_commit_ts \in logic'[t].start_ts .. clock'
  BY DEF VoteInv, State
<1>1. /\ Voted(n, t) => trans[n][t].trans_list = logic[t].trans_list
      /\ State(n, t) \in {"none", "Begin"} => ~Voted(n, t)
      /\ State(n, t) \in {"Prepared", "Commited"} => n \in trans[n][t].trans_list
      /\ State(n, t) # "none" /\ logic[t].trans_list # {} => n \in logic[t].trans_list
      /\ ~Voted(n, t) => trans[n][t].self_commit_ts = 0
      /\ Voted(n, t) =>
           /\ trans[n][t].start_trans = logic[t].start_ts
           /\ \/ trans[n][t].self_commit_ts = 0
              \/ trans[n][t].self_commit_ts \in logic[t].start_ts .. clock
  BY DEF VoteInv
<1>2. /\ wire[t][n] = "prepare" => n \in logic[t].trans_list
      /\ wire[t][n] = "begin" => logic[t].trans_list = {}
  BY DEF ListInv
<1>3. CASE logic'[t].trans_list = logic[t].trans_list
  <2>1. /\ Voted(n, t)' => trans'[n][t].trans_list = logic'[t].trans_list
        /\ trans'[n][t].state \in {"none", "Begin"} => ~Voted(n, t)'
        /\ trans'[n][t].state \in {"Prepared", "Commited"} => n \in trans'[n][t].trans_list
        /\ trans'[n][t].state # "none" /\ logic'[t].trans_list # {} =>
             n \in logic'[t].trans_list
    <3>1. CASE trans'[n][t] = trans[n][t]
      BY <1>1, <1>3, <3>1 DEF Voted, State
    <3>2. CASE Joins(n, t)
      BY <1>1, <1>2, <1>3, <3>2 DEF Joins, SameStamps, SameVote, Voted
    <3>3. CASE Aborts(n, t) \/ Commits(n, t) \/ FollowsAbort(n, t)
      BY <1>1, <1>3, <3>3 DEF Aborts, Commits, FollowsAbort, SameStamps, SameVote, Voted
    <3>4. CASE Votes(n, t)
      BY <1>2, <1>3, <3>4 DEF Votes, Voted
    <3> QED BY <3>1, <3>2, <3>3, <3>4 DEF RecMove
  <2>2. CASE Votes(n, t)
    <3>1. n \in logic[t].trans_list /\ Voted(n, t)'
      BY <2>2, VoterListed
    <3>2. logic'[t].start_ts = logic[t].start_ts /\ logic[t].start_ts \in TS
          /\ clock \in Nat /\ clock' \in Nat /\ clock <= clock' /\ logic[t].start_ts <= clock
      BY <3>1 DEF TimeMove, TimeInv, TypeOK, LogicSession
    <3>3. trans'[n][t].self_commit_ts = 0 \/ trans'[n][t].self_commit_ts \in clock .. clock'
      BY <1>1, <2>2 DEF Votes
    <3>4. trans'[n][t].start_trans = logic[t].start_ts
      BY <2>2 DEF Votes
    <3>5. trans'[n][t].self_commit_ts \in clock .. clock' =>
            trans'[n][t].self_commit_ts \in logic[t].start_ts .. clock'
      BY <3>2 DEF TS
    <3> QED BY <2>1, <3>1, <3>2, <3>3, <3>4, <3>5
  <2>3. CASE ~Votes(n, t)
    <3>1. SameVote(trans[n][t], trans'[n][t])
      BY <2>3 DEF RecMove, Joins, Aborts, Commits, FollowsAbort, SameStamps, SameVote
    <3>2. Voted(n, t) <=> Voted(n, t)'
      BY <3>1 DEF SameVote, Voted
    <3>3. CASE ~Voted(n, t)
      BY <1>1, <2>1, <3>1, <3>2, <3>3 DEF SameVote
    <3>4. CASE Voted(n, t)
      <4>1. logic'[t].start_ts = logic[t].start_ts
        BY <1>1, <3>4 DEF TimeMove, Voted
      <4>2. trans[n][t].self_commit_ts \in logic[t].start_ts .. clock =>
              trans[n][t].self_commit_ts \in logic[t].start_ts .. clock'
        <5>1. clock \in Nat /\ clock' \in Nat /\ clock <= clock' /\ logic[t].start_ts \in Nat
          BY DEF TimeMove, TypeOK, LogicSession, TS
        <5> QED BY <5>1
      <4> QED BY <1>1, <2>1, <3>1, <3>2, <3>4, <4>1, <4>2 DEF SameVote
    <3> QED BY <3>3, <3>4
  <2> QED BY <2>2, <2>3
<1>4. CASE /\ logic[t].trans_list = {} /\ UNCHANGED trans
           /\ \A m \in Host : State(m, t) # "none" => m \in logic'[t].trans_list
  BY <1>1, <1>4 DEF Voted, State
<1> QED BY <1>3, <1>4 DEF ListMove

\* The largest timestamp of the participants is theirs as long as they keep
\* their own ones.
LEMMA MaxStays ==
    ASSUME NEW recs, NEW new, NEW rec, HasMaxTS(recs, rec),
           \A m \in rec.trans_list : new[m].self_commit_ts = recs[m].self_commit_ts
    PROVE  HasMaxTS(new, rec)
BY DEF HasMaxTS

\* A participant that commits alone commits with its own timestamp.
LEMMA SoleMax ==
    ASSUME TypeOK, ListInv, TimeInv, NEW n \in Host, NEW t \in Trans,
           Votes(n, t), trans'[n][t].state = "Commited"
    PROVE  HasMaxTS(Records(t)', trans'[n][t])
<1>1. /\ trans'[n][t].trans_list = {n} /\ trans'[n][t].start_trans = logic[t].start_ts
      /\ trans'[n][t].self_commit_ts \in clock .. clock'
      /\ trans'[n][t].commit_trans = trans'[n][t].self_commit_ts
  BY DEF Votes
<1>2. Records(t)'[n] = trans'[n][t]
  BY RecordsType
<1>3. logic[t].start_ts <= clock /\ logic[t].start_ts \in Nat /\ clock \in Nat
  BY DEF TypeOK, TimeInv, LogicSession, TS
<1> QED BY <1>1, <1>2, <1>3 DEF HasMaxTS

LEMMA DecisionNext ==
    ASSUME TypeOK, VoteInv, ListInv, DecisionInv, TimeInv,
           \A n \in Host, t \in Trans : RecMove(n, t), \A t \in Trans : ListMove(t)
    PROVE  DecisionInv'
<1> SUFFICES ASSUME NEW n \in Host, NEW t \in Trans
             PROVE  /\ trans'[n][t].state = "Commited" =>
                         /\ \A m \in logic'[t].trans_list : Voted(m, t)'
                         /\ HasMaxTS(Records(t)', trans'[n][t])
                    /\ trans'[n][t].state = "Rollback" /\ Voted(n, t)' =>
                         \E m \in logic'[t].trans_list :
                            ~Voted(m, t)' /\ trans'[m][t].state = "Rollback"
  BY DEF DecisionInv, State, HasMaxTS
<1>1. logic[t].trans_list \subseteq Host
  BY DEF TypeOK, LogicSession
<1>2. \A m \in Host : /\ Voted(m, t) => Voted(m, t)' /\ SameVote(trans[m][t], trans'[m][t])
                      /\ State(m, t) \in {"Commited", "Rollback"} =>
                           trans'[m][t] = trans[m][t]
  BY VotesStay
<1>3. \A m \in Host : State(m, t) \in {"none", "Begin"} => ~Voted(m, t)
  BY DEF VoteInv
<1>4. CASE logic'[t].trans_list = logic[t].trans_list
  <2>0. ASSUME \A m \in logic[t].trans_list : Voted(m, t),
               HasMaxTS(Records(t), trans'[n][t]),
               trans'[n][t].trans_list = logic[t].trans_list
        PROVE  HasMaxTS(Records(t)', trans'[n][t])
    <3>1. \A m \in trans'[n][t].trans_list :
            Records(t)'[m].self_commit_ts = Records(t)[m].self_commit_ts
      BY <1>1, <1>2, <2>0, RecordsType DEF SameVote
    <3> QED BY <2>0, <3>1, MaxStays
  <2>1. CASE trans'[n][t] = trans[n][t]
    <3>1. CASE State(n, t) = "Commited"
      <4>1. /\ \A m \in logic[t].trans_list : Voted(m, t)
            /\ HasMaxTS(Records(t), trans[n][t])
        BY <3>1 DEF DecisionInv
      <4>2. trans[n][t].trans_list = logic[t].trans_list
        BY <3>1 DEF VoteInv, Voted
      <4>3. HasMaxTS(Records(t)', trans'[n][t])
        BY <2>0, <2>1, <4>1, <4>2
      <4> QED BY <1>1, <1>2, <1>4, <2>1, <3>1, <4>1, <4>3 DEF State
    <3>2. CASE State(n, t) = "Rollback" /\ Voted(n, t)
      <4>1. PICK m \in logic[t].trans_list : ~Voted(m, t) /\ State(m, t) = "Rollback"
        BY <3>2 DEF DecisionInv
      <4>2. trans'[m][t] = trans[m][t]
        BY <1>1, <1>2, <4>1
      <4> QED BY <1>4, <2>1, <3>2, <4>1, <4>2 DEF State, Voted
    <3> QED BY <2>1, <3>1, <3>2 DEF State, Voted
  <2>2. CASE Joins(n, t)
    BY <2>2 DEF Joins
  <2>3. CASE Aborts(n, t)
    BY <1>3, <2>3 DEF Aborts, Voted, SameStamps, SameVote
  <2>4. CASE Votes(n, t)
    <3>1. Voted(n, t)'
      BY <2>4, VoterListed
    <3>2. trans'[n][t].state = "Commited" => HasMaxTS(Records(t)', trans'[n][t])
      BY <2>4, SoleMax
    <3> QED BY <1>4, <2>4, <3>1, <3>2 DEF Votes
  <2>5. CASE Commits(n, t)
    <3>1. trans'[n][t].trans_list = logic[t].trans_list
      BY <2>5 DEF Commits, SameVote, VoteInv, Voted
    <3>2. HasMaxTS(Records(t)', trans'[n][t])
      BY <2>0, <2>5, <3>1 DEF Commits
    <3> QED BY <1>1, <1>2, <1>4, <2>5, <3>2 DEF Commits
  <2>6. CASE FollowsAbort(n, t)
    <3>1. PICK p \in logic[t].trans_list : State(p, t) = "Rollback"
      BY <2>6 DEF FollowsAbort
    <3>2. PICK m \in logic[t].trans_list : ~Voted(m, t) /\ State(m, t) = "Rollback"
      BY <1>1, <3>1 DEF DecisionInv
    <3>3. trans'[m][t] = trans[m][t]
      BY <1>1, <1>2, <3>2
    <3> QED BY <1>4, <2>6, <3>2, <3>3 DEF FollowsAbort, Voted, State
  <2> QED BY <2>1, <2>2, <2>3, <2>4, <2>5, <2>6 DEF RecMove
<1>5. CASE /\ logic[t].trans_list = {} /\ UNCHANGED trans
           /\ \A m \in Host : State(m, t) # "none" => m \in logic'[t].trans_list
  <2>1. ~Voted(n, t) /\ State(n, t) # "Commited"
    BY <1>5 DEF VoteInv, Voted
  <2> QED BY <1>5, <2>1 DEF Voted, State
<1> QED BY <1>4, <1>5 DEF ListMove

-----------------------------------------------------------------------------
(***************************************************************************)
(* What PrepareTasks believe.                                              *)
(***************************************************************************)

\* The result res of running the PrepareTask of n from the record rec: what it
\* believes next is true, and the record is left alone or committed with the
\* vote and the largest timestamp of the participants.
Pursued(n, recs, rec, res) ==
    /\ Fits(n, [recs EXCEPT ![n] = res.rec], res.task)
    /\ \/ res.rec = rec
       \/ /\ rec.state = "Prepared" /\ res.rec.state = "Commited"
          /\ SameVote(rec, res.rec)
          /\ \A m \in rec.trans_list : recs[m].trans_list # {}
          /\ HasMaxTS(recs, res.rec)

\* The same for startCleanTrans, which may also roll back.
Cleaned(n, recs, rec, res) ==
    \/ Pursued(n, recs, rec, res)
    \/ /\ Fits(n, [recs EXCEPT ![n] = res.rec], res.task)
       /\ rec.state = "Begin" /\ res.rec.state = "Rollback"
       /\ SameStamps(rec, res.rec)

LEMMA FitsMonotone ==
    ASSUME NEW n \in Host, NEW recs, NEW new, NEW pass \in PrepareTask,
           Fits(n, recs, pass),
           \A p \in Host : /\ recs[p].trans_list # {} => SameVote(recs[p], new[p])
                           /\ recs[p].state \in {"Commited", "Rollback"} => new[p] = recs[p],
           pass.todo = {} \/ new[n] = recs[n]
    PROVE  Fits(n, new, pass)
<1>1. pass.prepared \subseteq Host /\ pass.todo \subseteq Host
  BY DEF PrepareTask
<1>2. TaskFits(n, new, pass)
  BY <1>1 DEF Fits, TaskFits, SameVote
<1>3. ASSUME n \in pass.prepared PROVE StampsFit(n, new, pass)
  <2>1. \A p \in pass.prepared : SameVote(recs[p], new[p])
    BY <1>1 DEF Fits, TaskFits
  <2>2. /\ \A p \in pass.prepared : new[p].self_commit_ts <= pass.max_commit_ts
        /\ new[n].self_commit_ts # 0 =>
             \E p \in pass.prepared : new[p].self_commit_ts = pass.max_commit_ts
        /\ new[n].start_trans <= pass.max_commit_ts
    BY <1>3, <2>1 DEF Fits, StampsFit, SameVote
  <2>3. ASSUME NEW p \in Host, First(p, pass.todo)
        PROVE  /\ pass.answer.state = "Prepared" =>
                    pass.answer.commit_ts = new[p].self_commit_ts
               /\ pass.answer.state = "Commited" =>
                    pass.answer.commit_ts = new[p].commit_trans
    BY <1>3, <2>3 DEF Fits, StampsFit, TaskFits, SameVote
  <2> QED BY <2>2, <2>3 DEF StampsFit
<1>4. n \notin pass.prepared => StampsFit(n, new, pass)
  BY DEF StampsFit
<1> QED BY <1>2, <1>3, <1>4 DEF Fits

LEMMA NewPassFits ==
    ASSUME NEW n \in Host, NEW recs, NEW rec \in TransRec, NEW ts \in TS, recs[n] = rec,
           rec.state = "Prepared", n \in rec.trans_list, rec.start_trans <= ts,
           rec.self_commit_ts = 0 \/ rec.start_trans <= rec.self_commit_ts
    PROVE  Fits(n, recs, NewPass(n, rec, ts))
<1>1. TaskFits(n, recs, NewPass(n, rec, ts))
  BY DEF TaskFits, NewPass, NoAnswer
<1>2. rec.self_commit_ts \in Nat /\ rec.start_trans \in Nat /\ ts \in Nat
  BY DEF TransRec, TS
<1>3. StampsFit(n, recs, NewPass(n, rec, ts))
  BY <1>2 DEF StampsFit, NewPass, NoAnswer
<1> QED BY <1>1, <1>3 DEF Fits

LEMMA NoTaskFits ==
    ASSUME NEW n \in Host, NEW recs
    PROVE  Fits(n, recs, NoTask)
BY DEF Fits, TaskFits, StampsFit, NoTask, First

LEMMA ContinueFits ==
    ASSUME NEW n \in Host, NEW recs \in [Host -> TransRec], NEW rec \in TransRec,
           NEW pass \in PrepareTask, NEW ts \in TS, recs[n] = rec,
           rec.state = "Prepared", n \in rec.trans_list, rec.start_trans <= ts,
           rec.self_commit_ts = 0 \/ rec.start_trans <= rec.self_commit_ts,
           Fits(n, recs, pass),
           NEW res, res = Continue(n, rec, pass, ts)
    PROVE  Pursued(n, recs, rec, res)
<1>1. CASE pass.todo # {}
  <2>1. res.rec = rec /\ res.task = pass
    BY <1>1 DEF Continue
  <2>2. [recs EXCEPT ![n] = rec] = recs
    OBVIOUS
  <2> QED BY <2>1, <2>2 DEF Pursued
<1>2. CASE pass.todo = {} /\ AllPrepared(rec, pass)
  <2>1. res.rec = [rec EXCEPT !.state = "Commited", !.commit_trans = pass.max_commit_ts]
        /\ res.task = NoTask
    BY <1>2 DEF Continue
  <2>2. res.rec.state = "Commited" /\ SameVote(rec, res.rec)
        /\ res.rec.commit_trans = pass.max_commit_ts
    BY <2>1 DEF TransRec, SameVote
  <2>3. \A m \in rec.trans_list : recs[m].trans_list # {}
    BY <1>2 DEF AllPrepared, Fits, TaskFits
  <2>4. Fits(n, [recs EXCEPT ![n] = res.rec], NoTask)
    BY NoTaskFits
  <2>5. HasMaxTS(recs, res.rec)
    BY <1>2, <2>2 DEF AllPrepared, Fits, StampsFit, HasMaxTS, SameVote
  <2> QED BY <2>1, <2>2, <2>3, <2>4, <2>5 DEF Pursued
<1>3. CASE pass.todo = {} /\ ~AllPrepared(rec, pass)
  <2>1. res.rec = rec /\ res.task = NewPass(n, rec, ts)
    BY <1>3 DEF Continue
  <2>2. [recs EXCEPT ![n] = rec] = recs
    OBVIOUS
  <2>3. Fits(n, recs, NewPass(n, rec, ts))
    BY NewPassFits
  <2> QED BY <2>1, <2>2, <2>3 DEF Pursued
<1> QED BY <1>1, <1>2, <1>3

LEMMA CleanFits ==
    ASSUME NEW n \in Host, NEW recs \in [Host -> TransRec], NEW rec \in TransRec,
           NEW tk \in PrepareTask, NEW ts \in TS, recs[n] = rec,
           rec.state = "Prepared" =>
             /\ n \in rec.trans_list /\ rec.start_trans <= ts
             /\ rec.self_commit_ts = 0 \/ rec.start_trans <= rec.self_commit_ts,
           rec.state = "Begin" => rec.trans_list = {},
           Fits(n, recs, tk),
           NEW res, res = startCleanTrans(n, rec, tk, ts)
    PROVE  Cleaned(n, recs, rec, res)
<1>1. CASE rec.state = "Begin"
  <2>1. res.rec = [rec EXCEPT !.state = "Rollback"] /\ res.task = tk
    BY <1>1 DEF startCleanTrans
  <2>2. res.rec.state = "Rollback" /\ SameStamps(rec, res.rec)
    BY <2>1 DEF TransRec, SameStamps, SameVote
  <2>3. tk.todo = {}
    BY <1>1 DEF Fits, TaskFits
  <2> DEFINE new == [recs EXCEPT ![n] = res.rec]
  <2>4. \A p \in Host : /\ recs[p].trans_list # {} => SameVote(recs[p], new[p])
                        /\ recs[p].state \in {"Commited", "Rollback"} => new[p] = recs[p]
    <3>1. \A p \in Host \ {n} : new[p] = recs[p]
      OBVIOUS
    <3>2. recs[n].trans_list = {} /\ recs[n].state = "Begin"
      BY <1>1
    <3> QED BY <3>1, <3>2 DEF SameVote
  <2> HIDE DEF new
  <2>5. Fits(n, new, tk)
    BY <2>3, <2>4, FitsMonotone
  <2> QED BY <1>1, <2>1, <2>2, <2>5 DEF Cleaned, new
<1>2. CASE rec.state = "Prepared"
  <2> DEFINE pass == NewPass(n, rec, ts)
  <2>1. /\ n \in rec.trans_list /\ rec.start_trans <= ts
        /\ rec.self_commit_ts = 0 \/ rec.start_trans <= rec.self_commit_ts
    BY <1>2
  <2>2. pass \in PrepareTask
    BY NewPassType
  <2>3. Fits(n, recs, pass)
    BY <1>2, <2>1, NewPassFits
  <2>4. res = Continue(n, rec, pass, ts)
    BY <1>2 DEF startCleanTrans
  <2> HIDE DEF pass
  <2>5. Pursued(n, recs, rec, res)
    BY <1>2, <2>1, <2>2, <2>3, <2>4, ContinueFits
  <2> QED BY <2>5 DEF Cleaned
<1>3. CASE rec.state \notin {"Begin", "Prepared"}
  <2>1. res.rec = rec /\ res.task = tk
    BY <1>3 DEF startCleanTrans
  <2>2. [recs EXCEPT ![n] = rec] = recs
    OBVIOUS
  <2> QED BY <2>1, <2>2 DEF Cleaned, Pursued
<1> QED BY <1>1, <1>2, <1>3

-----------------------------------------------------------------------------
(***************************************************************************)
(* Every step of the protocol.                                             *)
(***************************************************************************)

\* One record changes.
LEMMA TransRow ==
    ASSUME TypeOK, NEW n \in Host, NEW t \in Trans, NEW rec,
           trans' = [trans EXCEPT ![n][t] = rec]
    PROVE  /\ trans'[n][t] = rec
           /\ \A m \in Host, u \in Trans : m # n \/ u # t => trans'[m][u] = trans[m][u]
BY DEF TypeOK

LEMMA RecordsRow ==
    ASSUME TypeOK, NEW n \in Host, NEW t \in Trans, NEW rec,
           trans' = [trans EXCEPT ![n][t] = rec]
    PROVE  Records(t)' = [Records(t) EXCEPT ![n] = rec]
BY DEF TypeOK, Records

\* The record of a PrepareTask that has someone to ask is prepared.
LEMMA IdleTask ==
    ASSUME TypeOK, TaskInv, NEW n \in Host, NEW t \in Trans
    PROVE  /\ Fits(n, Records(t), task[n][t]) /\ task[n][t] \in PrepareTask
           /\ State(n, t) # "Prepared" => task[n][t].todo = {}
<1>1. Fits(n, Records(t), task[n][t])
  BY DEF TaskInv, Fits
<1>2. task[n][t] \in PrepareTask
  BY DEF TypeOK
<1>3. Records(t)[n] = trans[n][t]
  BY RecordsType
<1> QED BY <1>1, <1>2, <1>3 DEF Fits, TaskFits, State

\* A PrepareTask that did not run still believes what is true.
LEMMA TasksNext ==
    ASSUME TypeOK, VoteInv, ListInv, TaskInv,
           \A n \in Host, t \in Trans : RecMove(n, t),
           \A n \in Host, t \in Trans :
             \/ Fits(n, Records(t)', task'[n][t])
             \/ /\ task'[n][t] = task[n][t]
                /\ trans'[n][t] = trans[n][t] \/ task[n][t].todo = {}
    PROVE  TaskInv'
<1> SUFFICES ASSUME NEW n \in Host, NEW t \in Trans
             PROVE  Fits(n, Records(t)', task'[n][t])
  BY DEF TaskInv, Fits
<1>1. CASE /\ task'[n][t] = task[n][t]
           /\ trans'[n][t] = trans[n][t] \/ task[n][t].todo = {}
  <2> DEFINE recs == Records(t)
             new == Records(t)'
  <2>1. \A p \in Host : /\ recs[p].trans_list # {} => SameVote(recs[p], new[p])
                        /\ recs[p].state \in {"Commited", "Rollback"} => new[p] = recs[p]
    BY VotesStay, RecordsType DEF Voted, State
  <2>2. Fits(n, recs, task[n][t]) /\ task[n][t] \in PrepareTask
    BY IdleTask
  <2>3. task[n][t].todo = {} \/ new[n] = recs[n]
    BY <1>1, RecordsType
  <2> HIDE DEF recs, new
  <2>4. Fits(n, new, task[n][t])
    BY <2>1, <2>2, <2>3, FitsMonotone
  <2> QED BY <1>1, <2>4 DEF new
<1> QED BY <1>1

\* What a vote brings to a pass: its list, and timestamps in their order.
LEMMA VoteFacts ==
    ASSUME TypeOK, VoteInv, TimeInv, NEW n \in Host, NEW t \in Trans
    PROVE  LET c == trans[n][t]
           IN  /\ c \in TransRec /\ logic[t] \in LogicSession /\ clock \in Nat
               /\ c.state = "Begin" => c.trans_list = {}
               /\ c.trans_list = {} => c.self_commit_ts = 0
               /\ c.state = "Prepared" =>
                    /\ n \in c.trans_list /\ c.trans_list = logic[t].trans_list
                    /\ c.start_trans = logic[t].start_ts /\ c.start_trans <= clock
                    /\ c.self_commit_ts = 0 \/ c.start_trans <= c.self_commit_ts
<1>1. trans[n][t] \in TransRec /\ logic[t] \in LogicSession /\ clock \in Nat
  BY DEF TypeOK
<1>2. /\ State(n, t) = "Begin" => ~Voted(n, t)
      /\ ~Voted(n, t) => trans[n][t].self_commit_ts = 0
      /\ State(n, t) = "Prepared" => n \in trans[n][t].trans_list
      /\ Voted(n, t) => /\ trans[n][t].trans_list = logic[t].trans_list
                        /\ trans[n][t].start_trans = logic[t].start_ts
                        /\ \/ trans[n][t].self_commit_ts = 0
                           \/ trans[n][t].self_commit_ts \in logic[t].start_ts .. clock
  BY DEF VoteInv
<1>3. logic[t].start_ts <= clock /\ logic[t].start_ts \in Nat
  BY <1>1 DEF TimeInv, LogicSession, TS
<1> QED BY <1>1, <1>2, <1>3 DEF State, Voted

\* What startCleanTrans or a PrepareTask does to a record is one of the moves.
LEMMA CleanedMoves ==
    ASSUME TypeOK, VoteInv, NEW n \in Host, NEW t \in Trans, NEW res,
           Cleaned(n, Records(t), trans[n][t], res), trans'[n][t] = res.rec
    PROVE  RecMove(n, t)
<1>1. \A m \in Host : Records(t)[m] = trans[m][t]
  BY RecordsType
<1>2. logic[t].trans_list \subseteq Host
  BY DEF TypeOK, LogicSession
<1>3. State(n, t) = "Prepared" => trans[n][t].trans_list = logic[t].trans_list
  BY DEF VoteInv, Voted
<1> QED
  BY <1>1, <1>2, <1>3 DEF Cleaned, Pursued, RecMove, Commits, Aborts, State, Voted

\* A PrepareTask of a prepared record goes on.
LEMMA PursuedNext ==
    ASSUME TypeOK, VoteInv, TimeInv, NEW n \in Host, NEW t \in Trans,
           NEW pass \in PrepareTask, NEW ts \in TS, clock <= ts,
           State(n, t) = "Prepared", Fits(n, Records(t), pass)
    PROVE  Pursued(n, Records(t), trans[n][t], Continue(n, trans[n][t], pass, ts))
<1> DEFINE r == Continue(n, trans[n][t], pass, ts)
           c == trans[n][t]
           cs == Records(t)
<1>1. cs \in [Host -> TransRec] /\ c \in TransRec /\ cs[n] = c /\ Fits(n, cs, pass)
      /\ r = Continue(n, c, pass, ts)
  BY RecordsType DEF TypeOK
<1>2. c.state = "Prepared" /\ n \in c.trans_list /\ c.start_trans <= clock
      /\ (c.self_commit_ts = 0 \/ c.start_trans <= c.self_commit_ts)
  BY VoteFacts DEF State
<1>3. c.start_trans <= ts
  <2>1. c.start_trans \in Nat /\ clock \in Nat /\ ts \in Nat
    BY <1>1 DEF TypeOK, TransRec, TS
  <2> QED BY <1>2, <2>1
<1> HIDE DEF r, c, cs
<1>4. Pursued(n, cs, c, r)
  BY <1>1, <1>2, <1>3, ContinueFits
<1> QED BY <1>4 DEF r, c, cs

\* startCleanTrans closes the record of a storage.
LEMMA CleanedNext ==
    ASSUME TypeOK, VoteInv, TimeInv, NEW n \in Host, NEW t \in Trans,
           NEW tk \in PrepareTask, NEW ts \in TS, clock <= ts,
           Fits(n, Records(t), tk)
    PROVE  Cleaned(n, Records(t), trans[n][t], startCleanTrans(n, trans[n][t], tk, ts))
<1> DEFINE r == startCleanTrans(n, trans[n][t], tk, ts)
           c == trans[n][t]
           cs == Records(t)
<1>1. cs \in [Host -> TransRec] /\ c \in TransRec /\ cs[n] = c /\ Fits(n, cs, tk)
      /\ r = startCleanTrans(n, c, tk, ts)
  BY RecordsType DEF TypeOK
<1>2. /\ c.state = "Begin" => c.trans_list = {}
      /\ c.state = "Prepared" =>
           /\ n \in c.trans_list /\ c.start_trans <= clock
           /\ c.self_commit_ts = 0 \/ c.start_trans <= c.self_commit_ts
  BY VoteFacts
<1>3. c.start_trans <= clock => c.start_trans <= ts
  <2>1. c.start_trans \in Nat /\ clock \in Nat /\ ts \in Nat
    BY <1>1 DEF TypeOK, TransRec, TS
  <2> QED BY <2>1
<1> HIDE DEF r, c, cs
<1>4. Cleaned(n, cs, c, r)
  BY <1>1, <1>2, <1>3, CleanFits
<1> QED BY <1>4 DEF r, c, cs

\* One record and the PrepareTask that works on it change.
LEMMA RowNext ==
    ASSUME TypeOK, VoteInv, ListInv, TaskInv, NEW n \in Host, NEW t \in Trans,
           NEW rec, NEW tk,
           trans' = [trans EXCEPT ![n][t] = rec],
           task' = [task EXCEPT ![n][t] = tk],
           RecMove(n, t),
           Fits(n, [Records(t) EXCEPT ![n] = rec], tk)
    PROVE  (\A m \in Host, u \in Trans : RecMove(m, u)) /\ TaskInv'
<1>1. ASSUME NEW m \in Host, NEW u \in Trans PROVE RecMove(m, u)
  <2>1. CASE m = n /\ u = t
    BY <2>1
  <2>2. CASE m # n \/ u # t
    <3>1. trans'[m][u] = trans[m][u]
      BY <2>2, TransRow
    <3> QED BY <3>1 DEF RecMove
  <2> QED BY <2>1, <2>2
<1>2. task'[n][t] = tk
      /\ \A m \in Host, u \in Trans : m # n \/ u # t => task'[m][u] = task[m][u]
  BY DEF TypeOK
<1>3. Fits(n, Records(t)', task'[n][t])
  <2>1. Records(t)' = [Records(t) EXCEPT ![n] = rec]
    BY RecordsRow
  <2> QED BY <1>2, <2>1
<1>4. \A m \in Host, u \in Trans : m # n \/ u # t => trans'[m][u] = trans[m][u]
  BY TransRow
<1> QED BY <1>1, <1>2, <1>3, <1>4, TasksNext

\* Steps that leave the records alone.
LEMMA SameNext ==
    ASSUME TaskInv, UNCHANGED <<trans, task>>
    PROVE  (\A m \in Host, u \in Trans : RecMove(m, u)) /\ TaskInv'
BY DEF TaskInv, Records, RecMove

\* Process n dies: its PrepareTasks are gone.
LEMMA DieNext ==
    ASSUME TypeOK, VoteInv, ListInv, TaskInv, NEW n \in Host, Die(n),
           \A m \in Host, u \in Trans : RecMove(m, u),
           \A m \in Host, u \in Trans : m # n => trans'[m][u] = trans[m][u]
    PROVE  TaskInv'
<1>1. \A u \in Trans : task'[n][u] = NoTask
  BY DEF Die, TypeOK
<1>2. \A m \in Host, u \in Trans : m # n => task'[m][u] = task[m][u]
  BY DEF Die, TypeOK
<1>3. \A u \in Trans : Fits(n, Records(u)', task'[n][u])
  BY <1>1, NoTaskFits
<1> QED BY <1>2, <1>3, TasksNext

\* Counting the answer of p keeps the maximum.
LEMMA CountedStamps ==
    ASSUME TypeOK, NEW n \in Host, NEW t \in Trans, NEW p \in Host,
           NEW pass \in PrepareTask, Fits(n, Records(t), pass), First(p, pass.todo)
    PROVE  StampsFit(n, Records(t), CountAnswer(pass, p))
<1> DEFINE new == CountAnswer(pass, p)
           counts == pass.answer.state = "Prepared"
           later == counts /\ pass.answer.commit_ts > pass.max_commit_ts
           cs == Records(t)
<1>1. /\ new.prepared = (IF counts THEN pass.prepared \cup {p} ELSE pass.prepared)
      /\ new.max_commit_ts = (IF later THEN pass.answer.commit_ts ELSE pass.max_commit_ts)
      /\ new.answer = NoAnswer
  BY DEF CountAnswer, PrepareTask
<1>2. pass.max_commit_ts \in Nat /\ pass.answer.commit_ts \in Nat
      /\ pass.prepared \subseteq Host
  BY DEF PrepareTask, Answer, TS
<1>3. n \in pass.prepared
  BY DEF Fits, TaskFits, First
<1>4. /\ \A q \in pass.prepared : cs[q].self_commit_ts <= pass.max_commit_ts
      /\ cs[n].self_commit_ts # 0 =>
           \E q \in pass.prepared : cs[q].self_commit_ts = pass.max_commit_ts
      /\ cs[n].start_trans <= pass.max_commit_ts
      /\ counts => pass.answer.commit_ts = cs[p].self_commit_ts
  BY <1>3 DEF Fits, StampsFit
<1>5. \A q \in Host : cs[q].self_commit_ts \in Nat /\ cs[q].start_trans \in Nat
  BY RecordsType DEF TransRec, TS
<1> HIDE DEF new, cs
<1>6. new.answer.state = "none"
  BY <1>1 DEF NoAnswer
<1>7. pass.max_commit_ts <= new.max_commit_ts /\ new.max_commit_ts \in Nat
  BY <1>1, <1>2
<1>8. \A q \in new.prepared : cs[q].self_commit_ts <= new.max_commit_ts
  <2>1. \A q \in pass.prepared : cs[q].self_commit_ts <= new.max_commit_ts
    BY <1>2, <1>4, <1>5, <1>7
  <2>2. counts => cs[p].self_commit_ts <= new.max_commit_ts
    BY <1>1, <1>2, <1>4, <1>7
  <2> QED BY <1>1, <2>1, <2>2
<1>9. cs[n].self_commit_ts # 0 =>
        \E q \in new.prepared : cs[q].self_commit_ts = new.max_commit_ts
  BY <1>1, <1>4
<1>10. cs[n].start_trans <= new.max_commit_ts
  BY <1>2, <1>4, <1>5, <1>7
<1>11. StampsFit(n, cs, new)
  BY <1>6, <1>8, <1>9, <1>10 DEF StampsFit
<1> QED BY <1>11 DEF new, cs

\* A record that is prepared is committed at once if its storage is the only
\* participant, and is left alone otherwise.
LEMMA CleanPrepared ==
    ASSUME NEW n \in Host, NEW rec \in TransRec, NEW tk, NEW ts, rec.state = "Prepared",
           n \in rec.trans_list, rec.self_commit_ts # 0,
           NEW new, new = startCleanTrans(n, rec, tk, ts).rec
    PROVE  \/ new = rec
           \/ /\ rec.trans_list = {n} /\ new.state = "Commited" /\ SameVote(rec, new)
              /\ new.commit_trans = rec.self_commit_ts
<1> DEFINE pass == NewPass(n, rec, ts)
<1>1. new = Continue(n, rec, pass, ts).rec
  BY DEF startCleanTrans
<1>2. CASE rec.trans_list = {n}
  <2>1. pass.todo = {} /\ pass.prepared = rec.trans_list
        /\ pass.max_commit_ts = rec.self_commit_ts
    BY <1>2 DEF NewPass
  <2> HIDE DEF pass
  <2>2. new = [rec EXCEPT !.state = "Commited", !.commit_trans = rec.self_commit_ts]
    BY <1>1, <2>1 DEF Continue, AllPrepared
  <2> QED BY <1>2, <2>2 DEF TransRec, SameVote
<1>3. CASE rec.trans_list # {n}
  <2>1. pass.todo # {}
    BY <1>3 DEF NewPass
  <2> HIDE DEF pass
  <2> QED BY <1>1, <2>1 DEF Continue
<1> QED BY <1>2, <1>3

\* A commit timestamp that is adopted from a peer is the largest one.
LEMMA AdoptedMax ==
    ASSUME TypeOK, VoteInv, DecisionInv, TaskInv, NEW n \in Host, NEW t \in Trans,
           NEW p \in Host, First(p, task[n][t].todo),
           task[n][t].answer.state = "Commited",
           NEW rec, SameVote(trans[n][t], rec),
           rec.commit_trans = task[n][t].answer.commit_ts
    PROVE  HasMaxTS(Records(t), rec)
<1>1. Fits(n, Records(t), task[n][t]) /\ State(n, t) = "Prepared"
  BY IdleTask DEF First
<1>2. Records(t)[p] = trans[p][t]
  BY RecordsType
<1>3. n \in task[n][t].prepared
  BY <1>1 DEF Fits, TaskFits, First
<1>4. State(p, t) = "Commited" /\ rec.commit_trans = trans[p][t].commit_trans
  BY <1>1, <1>2, <1>3 DEF Fits, TaskFits, StampsFit, State
<1>5. Voted(n, t) /\ Voted(p, t)
  BY <1>1, <1>4 DEF VoteInv, Voted
<1>6. rec.trans_list = trans[p][t].trans_list /\ rec.start_trans = trans[p][t].start_trans
  BY <1>5 DEF VoteInv, SameVote
<1>7. HasMaxTS(Records(t), trans[p][t])
  BY <1>4 DEF DecisionInv
<1> QED BY <1>4, <1>6, <1>7 DEF HasMaxTS

\* The protocol changes records only by the moves, and PrepareTasks keep
\* believing what is true.
LEMMA MovesNext ==
    ASSUME TypeOK, VoteInv, ListInv, DecisionInv, TaskInv, TimeInv, [Next]_vars
    PROVE  (\A n \in Host, t \in Trans : RecMove(n, t)) /\ TaskInv'
<1> DEFINE Goal == (\A n \in Host, t \in Trans : RecMove(n, t)) /\ TaskInv'
<1> SUFFICES Goal
  OBVIOUS
<1> HIDE DEF Goal
<1>0. trans \in [Host -> [Trans -> TransRec]] /\ task \in [Host -> [Trans -> PrepareTask]]
      /\ logic \in [Trans -> LogicSession] /\ clock \in 1 .. MaxTS
  BY DEF TypeOK
<1>1. CASE UNCHANGED <<trans, task>>
  BY <1>1, SameNext DEF Goal
<1>2. ASSUME NEW t \in Trans, NEW n \in Host, Begin(n, t) PROVE Goal
  <2> DEFINE rec == [trans[n][t] EXCEPT !.state = "Begin"]
  <2>1. trans' = [trans EXCEPT ![n][t] = rec] /\ task' = task
    BY <1>2 DEF Begin
  <2>2. rec.state = "Begin" /\ SameStamps(trans[n][t], rec)
    BY <1>0 DEF TransRec, SameStamps, SameVote
  <2>3. trans'[n][t] = rec
    <3> HIDE DEF rec
    <3> QED BY <1>0, <2>1
  <2>4. RecMove(n, t)
    BY <1>2, <2>2, <2>3 DEF Begin, RecMove, Joins, State
  <2>5. \A m \in Host, u \in Trans : m # n \/ u # t => trans'[m][u] = trans[m][u]
    BY <2>1, TransRow
  <2>6. \A m \in Host, u \in Trans : RecMove(m, u)
    <3> SUFFICES ASSUME NEW m \in Host, NEW u \in Trans, m # n \/ u # t PROVE RecMove(m, u)
      BY <2>4
    <3> QED BY <2>5 DEF RecMove
  <2>7. task[n][t].todo = {}
    BY <1>2, IdleTask DEF Begin, State
  <2>8. \A m \in Host, u \in Trans : /\ task'[m][u] = task[m][u]
                                     /\ trans'[m][u] = trans[m][u] \/ task[m][u].todo = {}
    BY <2>1, <2>5, <2>7
  <2> QED BY <2>6, <2>8, TasksNext DEF Goal
<1>3. ASSUME NEW t \in Trans, NEW n \in Host, Prepare(n, t) PROVE Goal
  <2> DEFINE rec(ts) == [updateTransPrepared(trans[n][t], logic[t]) EXCEPT !.self_commit_ts = ts]
             res(ts) == startCleanTrans(n, rec(ts), task[n][t], ts)
             recs(ts) == [Records(t) EXCEPT ![n] = rec(ts)]
  <2>1. PICK ts \in GetTS : /\ trans' = [trans EXCEPT ![n][t] = res(ts).rec]
                            /\ task' = [task EXCEPT ![n][t] = res(ts).task]
                            /\ clock' = ts
    BY <1>3 DEF Prepare, updateTransSelfCommitTs
  <2>2. ts \in TS /\ ts \in clock .. clock' /\ ts # 0
    BY <1>0, <2>1, GetTSType, TimeIsTS
  <2>3. rec(ts) \in TransRec
    <3>1. updateTransPrepared(trans[n][t], logic[t]) \in TransRec
      BY <1>0, PreparedType
    <3> QED BY <2>2, <3>1 DEF TransRec
  <2>4. /\ rec(ts).state = "Prepared" /\ rec(ts).trans_list = logic[t].trans_list
        /\ rec(ts).start_trans = logic[t].start_ts /\ rec(ts).self_commit_ts = ts
        /\ rec(ts).commit_trans = trans[n][t].commit_trans
    BY <1>0 DEF updateTransPrepared, TransRec
  <2>5. State(n, t) = "Begin" /\ wire[t][n] = "prepare" /\ n \in logic[t].trans_list
    BY <1>3 DEF Prepare, CanPrepare, State, ListInv
  <2>6. task[n][t].todo = {} /\ task[n][t] \in PrepareTask /\ Fits(n, Records(t), task[n][t])
    BY <2>5, IdleTask
  <2>7. Records(t) \in [Host -> TransRec] /\ Records(t)[n] = trans[n][t]
    BY RecordsType
  <2>8. recs(ts) \in [Host -> TransRec] /\ recs(ts)[n] = rec(ts)
        /\ \A m \in Host \ {n} : recs(ts)[m] = trans[m][t]
    BY <2>3, <2>7, RecordsType
  <2>9. Fits(n, recs(ts), task[n][t])
    <3>1. \A p \in Host : /\ Records(t)[p].trans_list # {} =>
                               SameVote(Records(t)[p], recs(ts)[p])
                          /\ Records(t)[p].state \in {"Commited", "Rollback"} =>
                               recs(ts)[p] = Records(t)[p]
      <4>1. Records(t)[n].trans_list = {} /\ Records(t)[n].state = "Begin"
        BY <2>5, <2>7, VoteFacts DEF State
      <4>2. \A p \in Host \ {n} : recs(ts)[p] = Records(t)[p]
        BY <2>8, RecordsType
      <4> QED BY <4>1, <4>2 DEF SameVote
    <3> HIDE DEF recs
    <3> QED BY <2>6, <3>1, FitsMonotone
  <2>10. logic[t].start_ts <= ts
    <3>1. logic[t].start_ts \in Nat /\ logic[t].start_ts <= clock
      BY <1>0 DEF TimeInv, LogicSession, TS
    <3> QED BY <1>0, <2>2, <3>1
  <2>11. Cleaned(n, recs(ts), rec(ts), res(ts))
    <3> DEFINE r == res(ts)
               c == rec(ts)
               cs == recs(ts)
    <3>1. r = startCleanTrans(n, c, task[n][t], ts) /\ cs \in [Host -> TransRec] /\ c \in TransRec
          /\ cs[n] = c /\ n \in c.trans_list /\ Fits(n, cs, task[n][t])
          /\ c.start_trans <= ts /\ c.start_trans <= c.self_commit_ts
          /\ c.state = "Prepared"
      BY <2>3, <2>4, <2>5, <2>8, <2>9, <2>10
    <3> HIDE DEF r, c, cs
    <3>2. Cleaned(n, cs, c, r)
      BY <2>2, <2>6, <3>1, CleanFits
    <3> QED BY <3>2 DEF r, c, cs
  <2>12. Pursued(n, recs(ts), rec(ts), res(ts))
    BY <2>4, <2>11 DEF Cleaned
  <2>13. Fits(n, [Records(t) EXCEPT ![n] = res(ts).rec], res(ts).task)
    <3>1. [recs(ts) EXCEPT ![n] = res(ts).rec] = [Records(t) EXCEPT ![n] = res(ts).rec]
      BY <2>7
    <3> QED BY <2>12, <3>1 DEF Pursued
  <2>14. trans'[n][t] = res(ts).rec
    <3> HIDE DEF res
    <3> QED BY <1>0, <2>1
  <2>15. \/ res(ts).rec = rec(ts)
         \/ /\ rec(ts).trans_list = {n} /\ res(ts).rec.state = "Commited"
            /\ SameVote(rec(ts), res(ts).rec)
            /\ res(ts).rec.commit_trans = rec(ts).self_commit_ts
    <3> DEFINE c == rec(ts)
               new == res(ts).rec
    <3>1. c \in TransRec /\ c.state = "Prepared" /\ n \in c.trans_list /\ c.self_commit_ts # 0
          /\ new = startCleanTrans(n, c, task[n][t], ts).rec
      BY <2>2, <2>3, <2>4, <2>5
    <3> HIDE DEF c, new
    <3>2. \/ new = c
          \/ /\ c.trans_list = {n} /\ new.state = "Commited" /\ SameVote(c, new)
             /\ new.commit_trans = c.self_commit_ts
      BY <3>1, CleanPrepared
    <3> QED BY <3>2 DEF c, new
  <2>16. Votes(n, t)
    <3> HIDE DEF rec, res
    <3>1. CASE res(ts).rec = rec(ts)
      BY <2>2, <2>4, <2>5, <2>14, <3>1 DEF Votes
    <3>2. CASE res(ts).rec # rec(ts)
      BY <2>2, <2>4, <2>5, <2>14, <2>15, <3>2 DEF Votes, SameVote
    <3> QED BY <3>1, <3>2
  <2>17. RecMove(n, t)
    BY <2>16 DEF RecMove
  <2> HIDE DEF res
  <2> QED BY <2>1, <2>13, <2>17, RowNext DEF Goal
<1>4. ASSUME NEW t \in Trans, NEW n \in Host, SessionEnd(n, t) PROVE Goal
  <2> DEFINE res(ts) == startCleanTrans(n, trans[n][t], task[n][t], ts)
  <2>1. PICK ts \in PassTS(trans[n][t]) :
          /\ trans' = [trans EXCEPT ![n][t] = res(ts).rec]
          /\ task' = [task EXCEPT ![n][t] = res(ts).task]
    BY <1>4 DEF SessionEnd
  <2>2. ts \in TS /\ clock <= ts
    BY <1>0, PassTSType, TimeIsTS
  <2>3. Cleaned(n, Records(t), trans[n][t], res(ts))
    BY <2>2, IdleTask, CleanedNext
  <2>4. trans'[n][t] = res(ts).rec
    <3> HIDE DEF res
    <3> QED BY <1>0, <2>1
  <2>5. Fits(n, [Records(t) EXCEPT ![n] = res(ts).rec], res(ts).task)
    BY <2>3 DEF Cleaned, Pursued
  <2> HIDE DEF res
  <2>6. RecMove(n, t)
    BY <2>3, <2>4, CleanedMoves
  <2> QED BY <2>1, <2>5, <2>6, RowNext DEF Goal
<1>5. ASSUME NEW t \in Trans, NEW n \in Host, NEW p \in Host, AskTransState(n, t, p) PROVE Goal
  <2> DEFINE ans == TransStateOf(trans[p][t])
             tk == [task[n][t] EXCEPT !.answer = ans]
  <2>1. task' = [task EXCEPT ![n][t] = tk] /\ trans' = trans
    BY <1>5 DEF AskTransState
  <2>2. Fits(n, Records(t), task[n][t]) /\ task[n][t] \in PrepareTask
    BY IdleTask
  <2>3. tk.todo = task[n][t].todo /\ tk.prepared = task[n][t].prepared /\ tk.answer = ans
        /\ tk.max_commit_ts = task[n][t].max_commit_ts
    BY <2>2 DEF PrepareTask
  <2>4. First(p, tk.todo)
    BY <1>5, <2>3 DEF AskTransState
  <2>5. \A q \in Host : First(q, tk.todo) => q = p
    BY <2>4 DEF First, Host
  <2>6. /\ ans.state = "Prepared" => State(p, t) = "Prepared"
        /\ ans.state \in {"Commited", "Rollback"} => State(p, t) = ans.state
        /\ ans.state = "Prepared" => ans.commit_ts = trans[p][t].self_commit_ts
        /\ ans.state = "Commited" => ans.commit_ts = trans[p][t].commit_trans
    BY DEF TransStateOf, State
  <2>7. State(p, t) = "Prepared" => Voted(p, t)
    BY DEF VoteInv, Voted
  <2>8. Records(t)[p] = trans[p][t]
    BY RecordsType
  <2>9. Fits(n, Records(t), tk)
    <3> HIDE DEF ans, tk
    <3>1. TaskFits(n, Records(t), tk)
      BY <2>2, <2>3, <2>5, <2>6, <2>7, <2>8 DEF Fits, TaskFits, State, Voted
    <3>2. StampsFit(n, Records(t), tk)
      BY <2>2, <2>3, <2>5, <2>6, <2>8 DEF Fits, StampsFit
    <3> QED BY <3>1, <3>2 DEF Fits
  <2>10. \A m \in Host, u \in Trans : m # n \/ u # t => task'[m][u] = task[m][u]
    BY <1>0, <2>1
  <2>11. task'[n][t] = tk
    <3> HIDE DEF tk
    <3> QED BY <1>0, <2>1
  <2>12. Records(t)' = Records(t)
    BY <2>1 DEF Records
  <2>13. Fits(n, Records(t)', task'[n][t])
    BY <2>9, <2>11, <2>12
  <2>14. \A m \in Host, u \in Trans : RecMove(m, u)
    BY <2>1 DEF RecMove
  <2> HIDE DEF tk
  <2> QED BY <2>1, <2>10, <2>13, <2>14, TasksNext DEF Goal
<1>6. ASSUME NEW t \in Trans, NEW n \in Host, NEW p \in Host, AskFails(n, t, p) PROVE Goal
  <2> DEFINE pass == [task[n][t] EXCEPT !.todo = @ \ {p}, !.answer = NoAnswer]
             res(ts) == Continue(n, trans[n][t], pass, ts)
  <2>1. PICK ts \in PassTS(trans[n][t]) :
          /\ trans' = [trans EXCEPT ![n][t] = res(ts).rec]
          /\ task' = [task EXCEPT ![n][t] = res(ts).task]
    BY <1>6 DEF AskFails
  <2>2. ts \in TS /\ clock <= ts
    BY <1>0, PassTSType, TimeIsTS
  <2>3. Fits(n, Records(t), task[n][t]) /\ task[n][t] \in PrepareTask
    BY IdleTask
  <2>4. pass.todo = task[n][t].todo \ {p} /\ pass.prepared = task[n][t].prepared
        /\ pass.answer = NoAnswer /\ pass.max_commit_ts = task[n][t].max_commit_ts
        /\ pass \in PrepareTask
    BY <2>3, NotFoundType DEF PrepareTask
  <2>5. State(n, t) = "Prepared"
    BY <1>6, IdleTask DEF AskFails, First
  <2> HIDE DEF pass
  <2>6. Fits(n, Records(t), pass)
    <3>1. TaskFits(n, Records(t), pass)
      BY <2>3, <2>4 DEF Fits, TaskFits, NoAnswer
    <3>2. StampsFit(n, Records(t), pass)
      BY <2>3, <2>4 DEF Fits, StampsFit, NoAnswer
    <3> QED BY <3>1, <3>2 DEF Fits
  <2>7. Pursued(n, Records(t), trans[n][t], res(ts))
    BY <2>2, <2>4, <2>5, <2>6, PursuedNext
  <2>8. trans'[n][t] = res(ts).rec
    <3> HIDE DEF res
    <3> QED BY <1>0, <2>1
  <2>9. Fits(n, [Records(t) EXCEPT ![n] = res(ts).rec], res(ts).task)
    BY <2>7 DEF Pursued
  <2> HIDE DEF res
  <2>10. RecMove(n, t)
    BY <2>7, <2>8, CleanedMoves DEF Cleaned
  <2> QED BY <2>1, <2>9, <2>10, RowNext DEF Goal
<1>7. ASSUME NEW t \in Trans, NEW n \in Host, NEW p \in Host, GetTransState(n, t, p) PROVE Goal
  <2> DEFINE ans == task[n][t].answer
  <2>1. Fits(n, Records(t), task[n][t]) /\ task[n][t] \in PrepareTask
    BY IdleTask
  <2>2. State(n, t) = "Prepared" /\ First(p, task[n][t].todo)
    BY <1>7, IdleTask DEF GetTransState, First
  <2>3. p \in logic[t].trans_list
    <3>1. p \in trans[n][t].trans_list
      BY <2>1, <2>2, RecordsType DEF Fits, TaskFits, First
    <3> QED BY <2>2, <3>1 DEF VoteInv, Voted
  <2>4. /\ ans.state = "Prepared" => Voted(p, t)
        /\ ans.state \in {"Commited", "Rollback"} => State(p, t) = ans.state
    BY <2>1, <2>2, RecordsType DEF Fits, TaskFits, Voted, State
  <2>5. CASE ans.state \in {"Begin", "Prepared"}
    <3> DEFINE pass == CountAnswer(task[n][t], p)
               res(ts) == Continue(n, trans[n][t], pass, ts)
    <3>1. PICK ts \in PassTS(trans[n][t]) :
            /\ trans' = [trans EXCEPT ![n][t] = res(ts).rec]
            /\ task' = [task EXCEPT ![n][t] = res(ts).task]
      BY <1>7, <2>5 DEF GetTransState
    <3>2. ts \in TS /\ clock <= ts
      BY <1>0, PassTSType, TimeIsTS
    <3>3. pass.todo = task[n][t].todo \ {p} /\ pass.answer = NoAnswer
          /\ pass.prepared \subseteq task[n][t].prepared \cup {p}
          /\ task[n][t].prepared \subseteq pass.prepared
          /\ (p \in pass.prepared => p \in task[n][t].prepared \/ ans.state = "Prepared")
      BY <2>1 DEF CountAnswer, PrepareTask
    <3>4. pass \in PrepareTask
      BY <2>1, CountAnswerType
    <3> HIDE DEF pass
    <3>5. Fits(n, Records(t), pass)
      <4>1. TaskFits(n, Records(t), pass)
        BY <2>1, <2>2, <2>4, <3>3, RecordsType DEF Fits, TaskFits, First, NoAnswer, Voted
      <4>2. StampsFit(n, Records(t), pass)
        BY <2>1, <2>2, CountedStamps DEF pass
      <4> QED BY <4>1, <4>2 DEF Fits
    <3>6. Pursued(n, Records(t), trans[n][t], res(ts))
      BY <2>2, <3>2, <3>4, <3>5, PursuedNext
    <3>7. trans'[n][t] = res(ts).rec
      <4> HIDE DEF res
      <4> QED BY <1>0, <3>1
    <3>8. Fits(n, [Records(t) EXCEPT ![n] = res(ts).rec], res(ts).task)
      BY <3>6 DEF Pursued
    <3> HIDE DEF res
    <3>9. RecMove(n, t)
      BY <3>6, <3>7, CleanedMoves DEF Cleaned
    <3> QED BY <3>1, <3>8, <3>9, RowNext DEF Goal
  <2>6. CASE ans.state = "Commited"
    <3> DEFINE rec == [trans[n][t] EXCEPT !.state = "Commited", !.commit_trans = ans.commit_ts]
    <3>1. trans' = [trans EXCEPT ![n][t] = rec] /\ task' = [task EXCEPT ![n][t] = NoTask]
      BY <1>7, <2>6 DEF GetTransState
    <3>2. rec.state = "Commited" /\ SameVote(trans[n][t], rec)
          /\ rec.commit_trans = ans.commit_ts
      BY <1>0 DEF TransRec, SameVote
    <3> HIDE DEF rec
    <3>3. trans'[n][t] = rec
      BY <1>0, <3>1
    <3>4. \A m \in logic[t].trans_list : Voted(m, t)
      BY <1>0, <2>3, <2>4, <2>6 DEF DecisionInv, LogicSession
    <3>5. HasMaxTS(Records(t), rec)
      BY <1>7, <2>6, <3>2, AdoptedMax DEF GetTransState
    <3>6. RecMove(n, t)
      BY <2>2, <3>2, <3>3, <3>4, <3>5 DEF RecMove, Commits
    <3> QED BY <3>1, <3>6, NoTaskFits, RowNext DEF Goal
  <2>7. CASE ans.state = "Rollback"
    <3> DEFINE rec == [trans[n][t] EXCEPT !.state = "Rollback"]
    <3>1. trans' = [trans EXCEPT ![n][t] = rec] /\ task' = [task EXCEPT ![n][t] = NoTask]
      BY <1>7, <2>7 DEF GetTransState
    <3>2. rec.state = "Rollback" /\ SameStamps(trans[n][t], rec)
      BY <1>0 DEF TransRec, SameStamps, SameVote
    <3> HIDE DEF rec
    <3>3. trans'[n][t] = rec
      BY <1>0, <3>1
    <3>4. RecMove(n, t)
      BY <2>2, <2>3, <2>4, <2>7, <3>2, <3>3 DEF RecMove, FollowsAbort
    <3> QED BY <3>1, <3>4, NoTaskFits, RowNext DEF Goal
  <2> QED BY <1>7, <2>5, <2>6, <2>7 DEF GetTransState
<1>8. ASSUME NEW n \in Host, Crash(n) PROVE Goal
  <2>1. trans' = trans /\ Die(n)
    BY <1>8 DEF Crash
  <2>2. \A m \in Host, u \in Trans : RecMove(m, u)
    BY <2>1 DEF RecMove
  <2> QED BY <2>1, <2>2, DieNext DEF Goal
<1>9. ASSUME NEW n \in Host, NEW t \in Trans, CrashInPrepare(n, t) PROVE Goal
  <2> DEFINE rec == updateTransPrepared(trans[n][t], logic[t])
  <2>1. trans' = [trans EXCEPT ![n][t] = rec] /\ Die(n)
    BY <1>9 DEF CrashInPrepare
  <2>2. /\ rec.state = "Prepared" /\ rec.trans_list = logic[t].trans_list
        /\ rec.start_trans = logic[t].start_ts
        /\ rec.self_commit_ts = trans[n][t].self_commit_ts
        /\ rec.commit_trans = trans[n][t].commit_trans
    BY <1>0 DEF updateTransPrepared, TransRec
  <2>3. trans'[n][t] = rec
    <3> HIDE DEF rec
    <3> QED BY <1>0, <2>1
  <2>4. RecMove(n, t)
    BY <1>9, <2>2, <2>3 DEF CrashInPrepare, CanPrepare, RecMove, Votes, State
  <2>5. \A m \in Host, u \in Trans : m # n \/ u # t => trans'[m][u] = trans[m][u]
    <3> HIDE DEF rec
    <3> QED BY <2>1, TransRow
  <2>6. \A m \in Host, u \in Trans : RecMove(m, u)
    <3> SUFFICES ASSUME NEW m \in Host, NEW u \in Trans, m # n \/ u # t PROVE RecMove(m, u)
      BY <2>4
    <3> QED BY <2>5 DEF RecMove
  <2> QED BY <2>1, <2>5, <2>6, DieNext DEF Goal
<1>10. ASSUME NEW n \in Host, startUpClean(n) PROVE Goal
  <2> DEFINE res(ts, u) == startCleanTrans(n, trans[n][u], NoTask, ts)
  <2>1. PICK ts \in GetTS :
          /\ trans' = [trans EXCEPT ![n] = [u \in Trans |-> res(ts, u).rec]]
          /\ task' = [task EXCEPT ![n] = [u \in Trans |-> res(ts, u).task]]
    BY <1>10 DEF startUpClean
  <2>2. ts \in TS /\ clock <= ts
    BY <1>0, GetTSType, TimeIsTS
  <2>3. ASSUME NEW u \in Trans
        PROVE  Cleaned(n, Records(u), trans[n][u], res(ts, u))
    BY <2>2, NoTaskFits, NotFoundType, CleanedNext
  <2> HIDE DEF res
  <2>4. /\ \A u \in Trans : trans'[n][u] = res(ts, u).rec /\ task'[n][u] = res(ts, u).task
        /\ \A m \in Host, u \in Trans :
             m # n => trans'[m][u] = trans[m][u] /\ task'[m][u] = task[m][u]
    BY <1>0, <2>1
  <2>5. ASSUME NEW m \in Host, NEW u \in Trans PROVE RecMove(m, u)
    <3>1. CASE m = n
      BY <2>3, <2>4, <3>1, CleanedMoves
    <3>2. CASE m # n
      BY <2>4, <3>2 DEF RecMove
    <3> QED BY <3>1, <3>2
  <2>6. ASSUME NEW u \in Trans PROVE Fits(n, Records(u)', task'[n][u])
    <3>1. Records(u)' = [Records(u) EXCEPT ![n] = res(ts, u).rec]
      BY <2>4, RecordsType DEF Records
    <3>2. Fits(n, [Records(u) EXCEPT ![n] = res(ts, u).rec], res(ts, u).task)
      BY <2>3 DEF Cleaned, Pursued
    <3> QED BY <2>4, <3>1, <3>2
  <2> QED BY <2>4, <2>5, <2>6, TasksNext DEF Goal
<1>11. ASSUME NEW t \in Trans, NEW n \in Host,
              \/ ReqBegin(t) \/ ReqCommit(t) \/ ReqRollback(t) \/ SessionLost(t)
              \/ getFd(t, n) \/ ConnectFails(t, n) \/ LinkBreaks(t, n) \/ BeginDone(t, n)
              \/ SendPrepare(t, n) \/ PrepareDone(t, n) \/ StorageError(t, n)
       PROVE  UNCHANGED <<trans, task>>
  BY <1>11 DEF ReqBegin, ReqCommit, ReqRollback, SessionLost, getFd, ConnectFails,
     LinkBreaks, BeginDone, SendPrepare, PrepareDone, StorageError
<1>12. CASE UNCHANGED vars
  BY <1>1, <1>12 DEF vars
<1>13. 0 \in Host
  BY NumHostAssumption DEF Host
<1> QED
  BY <1>1, <1>2, <1>3, <1>4, <1>5, <1>6, <1>7, <1>8, <1>9, <1>10, <1>11, <1>12, <1>13
  DEF Next, LogicStep, StorageStep, TaskStep

\* The sessions and their messages: how one step changes what ListInv is about.
LEMMA ListNext ==
    ASSUME TypeOK, ListInv, \A n \in Host, t \in Trans : RecMove(n, t), [Next]_vars
    PROVE  ListInv' /\ \A t \in Trans : ListMove(t)
<1> DEFINE Session(l, u) ==
             /\ l.pc = "init" => l.stat = {}
             /\ l.pc \in {"init", "active"} => l.trans_list = {}
             /\ l.pc = "send" => l.todo \subseteq l.trans_list
           Message(l, k, w, n, u) ==
             /\ w = "begin" => l.trans_list = {} /\ k # "none"
             /\ w = "begin" /\ l.pc = "active" => n \notin l.stat
             /\ w = "prepare" => n \in l.trans_list
             /\ k = "none" => w = "none"
<1>0. logic \in [Trans -> LogicSession] /\ link \in [Trans -> [Host -> {"none", "open", "broken"}]]
      /\ wire \in [Trans -> [Host -> Requests \cup Responses \cup {"none"}]]
  BY DEF TypeOK
<1>1. ASSUME NEW n \in Host, NEW u \in Trans, trans'[n][u].state # "none"
      PROVE  link[u][n] # "none"
  BY <1>1 DEF ListInv, RecMove, Joins, Aborts, Votes, Commits, FollowsAbort, State
<1>2. SUFFICES ASSUME NEW u \in Trans
               PROVE  /\ Session(logic'[u], u)
                      /\ \A n \in Host : Message(logic'[u], link'[u][n], wire'[u][n], n, u)
                      /\ \A n \in Host : link[u][n] # "none" => link'[u][n] # "none"
                      /\ ListMove(u)
  BY <1>1 DEF ListInv, State
<1>3. /\ Session(logic[u], u)
      /\ \A n \in Host : Message(logic[u], link[u][n], wire[u][n], n, u)
  BY DEF ListInv
<1> DEFINE Goal == /\ Session(logic'[u], u)
                   /\ \A n \in Host : Message(logic'[u], link'[u][n], wire'[u][n], n, u)
                   /\ \A n \in Host : link[u][n] # "none" => link'[u][n] # "none"
                   /\ ListMove(u)
<1> SUFFICES Goal
  OBVIOUS
<1>4. CASE logic'[u] = logic[u] /\ link'[u] = link[u] /\ wire'[u] = wire[u]
  BY <1>3, <1>4 DEF ListMove
<1>5. ASSUME NEW t \in Trans, ReqBegin(t) PROVE Goal
  <2>1. link' = link /\ wire' = wire
    BY <1>5 DEF ReqBegin
  <2>2. CASE u = t
    <3>1. /\ logic[u].pc = "init" /\ logic'[u].trans_list = logic[u].trans_list
          /\ logic'[u].pc = "active" /\ logic'[u].stat = logic[u].stat
      BY <1>0, <1>5, <2>2 DEF ReqBegin, LogicSession
    <3> QED BY <1>3, <2>1, <3>1 DEF ListMove
  <2>3. CASE u # t
    <3>1. logic'[u] = logic[u]
      BY <1>0, <1>5, <2>3 DEF ReqBegin
    <3> QED BY <1>4, <2>1, <3>1
  <2> QED BY <2>2, <2>3
<1>6. ASSUME NEW t \in Trans, ReqCommit(t) PROVE Goal
  <2>1. link' = link /\ wire' = wire /\ trans' = trans
    BY <1>6 DEF ReqCommit
  <2>2. CASE u = t
    <3>1. /\ logic[u].pc = "active" /\ ~InGetFd(u)
          /\ logic'[u].trans_list = logic[u].stat /\ logic'[u].todo = logic[u].stat
          /\ logic'[u].stat = logic[u].stat
          /\ logic'[u].pc \in {"send", "done"}
      <4>1. /\ logic[u].pc = "active" /\ ~InGetFd(u)
            /\ logic[u] \in LogicSession
        BY <1>0, <1>6, <2>2 DEF ReqCommit
      <4>2. PICK ts \in GetTS :
              logic'[u] = [logic[u] EXCEPT
                !.pc = IF logic[u].stat = {} THEN "done" ELSE "send",
                !.start_ts = ts,
                !.trans_list = logic[u].stat,
                !.todo = logic[u].stat,
                !.result = IF logic[u].stat = {} THEN "ok" ELSE "none"]
        BY <1>0, <1>6, <2>2 DEF ReqCommit
      <4> QED BY <4>1, <4>2 DEF LogicSession
    <3>2. \A n \in Host : link[u][n] # "none" => n \in logic[u].stat
      BY <3>1 DEF InGetFd
    <3>3. \A n \in Host : wire[u][n] # "begin"
      BY <1>3, <3>1, <3>2
    <3>4. \A n \in Host : State(n, u) # "none" => n \in logic'[u].trans_list
      BY <3>1, <3>2 DEF ListInv, State
    <3>5. ListMove(u)
      BY <1>3, <2>1, <3>1, <3>4 DEF ListMove
    <3> QED BY <1>3, <2>1, <3>1, <3>2, <3>3, <3>5
  <2>3. CASE u # t
    <3>1. logic'[u] = logic[u]
      BY <1>0, <1>6, <2>3 DEF ReqCommit
    <3> QED BY <1>4, <2>1, <3>1
  <2> QED BY <2>2, <2>3
<1>7. ASSUME NEW t \in Trans, NEW res \in {"fail", "rollback", "lost"}, EndSession(t, res),
             wire' = wire
      PROVE  Goal
  <2>1. CASE u = t
    <3>1. /\ logic'[u].trans_list = logic[u].trans_list
          /\ logic'[u].stat = logic[u].stat
          /\ logic'[u].pc = "done"
      BY <1>0, <1>7, <2>1 DEF EndSession, LogicSession
    <3>2. \A n \in Host : link'[u][n] = "none" <=> link[u][n] = "none"
      BY <1>0, <1>7, <2>1 DEF EndSession, CloseLinks
    <3> QED BY <1>3, <1>7, <3>1, <3>2 DEF ListMove
  <2>2. CASE u # t
    <3>1. logic'[u] = logic[u] /\ link'[u] = link[u]
      BY <1>0, <1>7, <2>2 DEF EndSession, CloseLinks
    <3> QED BY <1>4, <1>7, <3>1
  <2> QED BY <2>1, <2>2
<1>8. ASSUME NEW t \in Trans, NEW p \in Host, getFd(t, p) PROVE Goal
  <2>1. logic' = logic
    BY <1>8 DEF getFd
  <2>2. CASE u = t
    <3>1. /\ logic[u].pc = "active" /\ p \notin logic[u].stat
          /\ link'[u][p] = "open" /\ wire'[u][p] = "begin"
          /\ \A n \in Host \ {p} : link'[u][n] = link[u][n] /\ wire'[u][n] = wire[u][n]
      BY <1>0, <1>8, <2>2 DEF getFd
    <3> QED BY <1>3, <2>1, <3>1 DEF ListMove
  <2>3. CASE u # t
    <3>1. link'[u] = link[u] /\ wire'[u] = wire[u]
      BY <1>0, <1>8, <2>3 DEF getFd
    <3> QED BY <1>4, <2>1, <3>1
  <2> QED BY <2>2, <2>3
<1>9. ASSUME NEW t \in Trans, NEW p \in Host, LinkBreaks(t, p) PROVE Goal
  <2>1. logic' = logic /\ wire' = wire
    BY <1>9 DEF LinkBreaks
  <2>2. \A n \in Host : link'[u][n] = "none" <=> link[u][n] = "none"
    BY <1>0, <1>9 DEF LinkBreaks
  <2> QED BY <1>3, <2>1, <2>2 DEF ListMove
<1>10. ASSUME NEW t \in Trans, NEW p \in Host, BeginDone(t, p) PROVE Goal
  <2>1. link' = link
    BY <1>10 DEF BeginDone
  <2>2. CASE u = t
    <3>1. /\ logic[u].pc = "active" /\ logic'[u].pc = "active"
          /\ logic'[u].trans_list = logic[u].trans_list
          /\ logic'[u].stat = logic[u].stat \cup {p}
          /\ wire'[u][p] = "none"
          /\ \A n \in Host \ {p} : wire'[u][n] = wire[u][n]
      BY <1>0, <1>10, <2>2 DEF BeginDone, LogicSession
    <3> QED BY <1>3, <2>1, <3>1 DEF ListMove
  <2>3. CASE u # t
    <3>1. logic'[u] = logic[u] /\ wire'[u] = wire[u]
      BY <1>0, <1>10, <2>3 DEF BeginDone
    <3> QED BY <1>4, <2>1, <3>1
  <2> QED BY <2>2, <2>3
<1>11. ASSUME NEW t \in Trans, NEW p \in Host, SendPrepare(t, p) PROVE Goal
  <2>1. link' = link
    BY <1>11 DEF SendPrepare
  <2>2. CASE u = t
    <3>1. /\ logic[u].pc = "send" /\ p \in logic[u].todo
          /\ logic'[u].pc \in {"send", "wait"}
          /\ logic'[u].trans_list = logic[u].trans_list
          /\ logic'[u].stat = logic[u].stat
          /\ logic'[u].todo \subseteq logic[u].todo
      BY <1>0, <1>11, <2>2 DEF SendPrepare, LogicSession, First
    <3>2. /\ \/ wire'[u][p] = wire[u][p]
             \/ link[u][p] = "open" /\ wire'[u][p] = "prepare"
          /\ \A n \in Host \ {p} : wire'[u][n] = wire[u][n]
      <4>1. wire'[u] = [wire[u] EXCEPT ![p] =
                          IF link[u][p] = "open" THEN "prepare" ELSE wire[u][p]]
        BY <1>0, <1>11, <2>2 DEF SendPrepare
      <4>2. wire[u] \in [Host -> Requests \cup Responses \cup {"none"}]
        BY <1>0
      <4>3. CASE link[u][p] = "open"
        <5>1. wire'[u] = [wire[u] EXCEPT ![p] = "prepare"]
          BY <4>1, <4>3
        <5> QED BY <4>2, <4>3, <5>1
      <4>4. CASE link[u][p] # "open"
        <5>1. wire'[u] = wire[u]
          BY <4>1, <4>2, <4>4
        <5> QED BY <5>1
      <4> QED BY <4>3, <4>4
    <3> QED BY <1>3, <2>1, <3>1, <3>2 DEF ListMove
  <2>3. CASE u # t
    <3>1. logic'[u] = logic[u] /\ wire'[u] = wire[u]
      BY <1>0, <1>11, <2>3 DEF SendPrepare
    <3> QED BY <1>4, <2>1, <3>1
  <2> QED BY <2>2, <2>3
<1>12. ASSUME NEW t \in Trans, NEW p \in Host, PrepareDone(t, p) PROVE Goal
  <2>1. link' = link
    BY <1>12 DEF PrepareDone
  <2>2. CASE u = t
    <3>1. /\ logic'[u].pc \in {"wait", "done"}
          /\ logic'[u].trans_list = logic[u].trans_list
      <4>1. logic[u] \in LogicSession
        BY <1>0
      <4>2. logic'[u] = [logic[u] EXCEPT
              !.stat = @ \ {p},
              !.pc = IF logic[u].stat = {p} THEN "done" ELSE "wait",
              !.result = IF logic[u].stat = {p} THEN "ok" ELSE "none"]
        BY <1>0, <1>12, <2>2 DEF PrepareDone
      <4> QED BY <4>1, <4>2 DEF LogicSession
    <3>2. \A n \in Host : wire'[u][n] \in {wire[u][n], "none"}
      BY <1>0, <1>12, <2>2 DEF PrepareDone
    <3> QED BY <1>3, <2>1, <3>1, <3>2 DEF ListMove
  <2>3. CASE u # t
    <3>1. logic'[u] = logic[u] /\ wire'[u] = wire[u]
      BY <1>0, <1>12, <2>3 DEF PrepareDone
    <3> QED BY <1>4, <2>1, <3>1
  <2> QED BY <2>2, <2>3
<1>13. ASSUME NEW t \in Trans, NEW p \in Host, StorageError(t, p) PROVE Goal
  BY <1>7, <1>13 DEF StorageError
<1>14. ASSUME NEW t \in Trans, NEW p \in Host, Begin(p, t) \/ Prepare(p, t) PROVE Goal
  <2>1. logic' = logic /\ link' = link
    BY <1>14 DEF Begin, Prepare
  <2>2. \A n \in Host : \/ wire'[u][n] = wire[u][n]
                        \/ link[u][n] = "open" /\ wire'[u][n] \in Responses
                        \/ wire'[u][n] = "none"
    <3>1. PICK m \in Responses : Respond(t, p, m)
      BY <1>14 DEF Begin, Prepare, Responses
    <3>2. wire' = [wire EXCEPT ![t][p] = IF link[t][p] = "open" THEN m ELSE "none"]
      BY <3>1 DEF Respond
    <3>3. CASE u = t
      <4>1. \A n \in Host \ {p} : wire'[u][n] = wire[u][n]
        BY <1>0, <3>2, <3>3
      <4>2. wire'[u][p] = IF link[u][p] = "open" THEN m ELSE "none"
        BY <1>0, <3>2, <3>3
      <4> QED BY <3>1, <4>1, <4>2
    <3>4. CASE u # t
      BY <1>0, <3>2, <3>4
    <3> QED BY <3>3, <3>4
  <2> QED BY <1>3, <2>1, <2>2 DEF ListMove, Responses
<1>15. ASSUME NEW t \in Trans, NEW p \in Host, SessionEnd(p, t) PROVE Goal
  <2>1. logic' = logic /\ link' = link
    BY <1>15 DEF SessionEnd
  <2>2. \A n \in Host : wire'[u][n] \in {wire[u][n], "none"}
    BY <1>0, <1>15 DEF SessionEnd
  <2> QED BY <1>3, <2>1, <2>2 DEF ListMove
<1>16. ASSUME NEW p \in Host, Die(p), logic' = logic PROVE Goal
  <2>1. \A n \in Host : /\ wire'[u][n] \in {wire[u][n], "none"}
                        /\ link'[u][n] = "none" <=> link[u][n] = "none"
    BY <1>0, <1>16 DEF Die
  <2> QED BY <1>3, <1>16, <2>1 DEF ListMove
<1>17. ASSUME NEW t \in Trans, NEW n \in Host, NEW p \in Host,
              \/ AskTransState(n, t, p) \/ AskFails(n, t, p) \/ GetTransState(n, t, p)
              \/ startUpClean(n)
       PROVE  UNCHANGED <<logic, link, wire>>
  BY <1>17 DEF AskTransState, AskFails, GetTransState, startUpClean
<1>18. CASE UNCHANGED <<logic, link, wire>>
  BY <1>4, <1>18
<1>19. CASE UNCHANGED vars
  BY <1>18, <1>19 DEF vars
<1>20. ASSUME NEW t \in Trans, NEW p \in Host,
              ReqRollback(t) \/ SessionLost(t) \/ ConnectFails(t, p)
       PROVE  Goal
  BY <1>7, <1>20 DEF ReqRollback, SessionLost, ConnectFails
<1>21. ASSUME NEW t \in Trans, NEW p \in Host, Crash(p) \/ CrashInPrepare(p, t)
       PROVE  Goal
  BY <1>16, <1>21 DEF Crash, CrashInPrepare
<1>22. 0 \in Host
  BY NumHostAssumption DEF Host
<1> HIDE DEF Goal
<1> QED
  BY <1>5, <1>6, <1>8, <1>9, <1>10, <1>11, <1>12, <1>13, <1>14, <1>15, <1>17, <1>18,
     <1>19, <1>20, <1>21, <1>22
  DEF Next, LogicStep, StorageStep, TaskStep

\* How one step may change the timestamps of the session of t.
SessionTimes(t) ==
    \/ /\ logic'[t].begin_ts = logic[t].begin_ts /\ logic'[t].start_ts = logic[t].start_ts
       /\ logic'[t].trans_list = logic[t].trans_list
    \/ /\ logic[t].trans_list = {} /\ logic'[t].trans_list = {}
       /\ logic'[t].begin_ts = clock' /\ logic'[t].start_ts = logic[t].start_ts
    \/ /\ logic[t].trans_list = {}
       /\ logic'[t].begin_ts = logic[t].begin_ts /\ logic'[t].start_ts = clock'

\* A session takes its timestamps from the clock, before there is a list.
LEMMA SessionTimesNext ==
    ASSUME TypeOK, ListInv, [Next]_vars, NEW u \in Trans
    PROVE  SessionTimes(u)
<1>0. logic \in [Trans -> LogicSession]
  BY DEF TypeOK
<1>1. CASE logic'[u] = logic[u]
  BY <1>1 DEF SessionTimes
<1>2. ASSUME NEW t \in Trans, ReqBegin(t) PROVE SessionTimes(u)
  <2>1. CASE u = t
    <3>1. logic[u] \in LogicSession /\ logic[u].trans_list = {}
      BY <1>0, <1>2, <2>1 DEF ReqBegin, ListInv
    <3>2. logic'[u] = [logic[u] EXCEPT !.pc = "active", !.begin_ts = clock']
      BY <1>0, <1>2, <2>1 DEF ReqBegin
    <3> QED BY <3>1, <3>2 DEF SessionTimes, LogicSession
  <2>2. CASE u # t
    BY <1>0, <1>1, <1>2, <2>2 DEF ReqBegin
  <2> QED BY <2>1, <2>2
<1>3. ASSUME NEW t \in Trans, ReqCommit(t) PROVE SessionTimes(u)
  <2>1. CASE u = t
    <3>1. logic[u] \in LogicSession /\ logic[u].trans_list = {}
      BY <1>0, <1>3, <2>1 DEF ReqCommit, ListInv
    <3>2. PICK ts \in GetTS :
            /\ logic' = [logic EXCEPT
                 ![t].pc = IF logic[t].stat = {} THEN "done" ELSE "send",
                 ![t].start_ts = ts,
                 ![t].trans_list = logic[t].stat,
                 ![t].todo = logic[t].stat,
                 ![t].result = IF logic[t].stat = {} THEN "ok" ELSE "none"]
            /\ clock' = ts
      BY <1>3 DEF ReqCommit
    <3>3. logic'[u] = [logic[u] EXCEPT
                         !.pc = IF logic[u].stat = {} THEN "done" ELSE "send",
                         !.start_ts = ts,
                         !.trans_list = logic[u].stat,
                         !.todo = logic[u].stat,
                         !.result = IF logic[u].stat = {} THEN "ok" ELSE "none"]
      BY <1>0, <2>1, <3>2
    <3>4. logic'[u].begin_ts = logic[u].begin_ts /\ logic'[u].start_ts = ts
      BY <3>1, <3>3 DEF LogicSession
    <3> QED BY <3>1, <3>2, <3>4 DEF SessionTimes
  <2>2. CASE u # t
    BY <1>0, <1>1, <1>3, <2>2 DEF ReqCommit
  <2> QED BY <2>1, <2>2
<1>4. ASSUME NEW t \in Trans, NEW res \in {"fail", "rollback", "lost"}, EndSession(t, res)
      PROVE  SessionTimes(u)
  <2>1. CASE u = t
    <3>1. logic[u] \in LogicSession
      BY <1>0
    <3>2. logic'[u] = [logic[u] EXCEPT !.pc = "done", !.result = res, !.todo = {}]
      BY <1>0, <1>4, <2>1 DEF EndSession
    <3> QED BY <3>1, <3>2 DEF SessionTimes, LogicSession
  <2>2. CASE u # t
    BY <1>0, <1>1, <1>4, <2>2 DEF EndSession
  <2> QED BY <2>1, <2>2
<1>5. ASSUME NEW t \in Trans, NEW n \in Host, BeginDone(t, n) PROVE SessionTimes(u)
  <2>1. CASE u = t
    <3>1. logic[u] \in LogicSession
      BY <1>0
    <3>2. logic'[u] = [logic[u] EXCEPT !.stat = @ \cup {n}]
      BY <1>0, <1>5, <2>1 DEF BeginDone
    <3> QED BY <3>1, <3>2 DEF SessionTimes, LogicSession
  <2>2. CASE u # t
    BY <1>0, <1>1, <1>5, <2>2 DEF BeginDone
  <2> QED BY <2>1, <2>2
<1>6. ASSUME NEW t \in Trans, NEW n \in Host, SendPrepare(t, n) PROVE SessionTimes(u)
  <2>1. CASE u = t
    <3>1. logic[u] \in LogicSession
      BY <1>0
    <3>2. logic'[u] = [logic[u] EXCEPT
                         !.todo = @ \ {n},
                         !.pc = IF logic[u].todo = {n} THEN "wait" ELSE "send"]
      BY <1>0, <1>6, <2>1 DEF SendPrepare
    <3> QED BY <3>1, <3>2 DEF SessionTimes, LogicSession
  <2>2. CASE u # t
    BY <1>0, <1>1, <1>6, <2>2 DEF SendPrepare
  <2> QED BY <2>1, <2>2
<1>7. ASSUME NEW t \in Trans, NEW n \in Host, PrepareDone(t, n) PROVE SessionTimes(u)
  <2>1. CASE u = t
    <3>1. logic[u] \in LogicSession
      BY <1>0
    <3>2. logic'[u] = [logic[u] EXCEPT
                         !.stat = @ \ {n},
                         !.pc = IF logic[u].stat = {n} THEN "done" ELSE "wait",
                         !.result = IF logic[u].stat = {n} THEN "ok" ELSE "none"]
      BY <1>0, <1>7, <2>1 DEF PrepareDone
    <3> QED BY <3>1, <3>2 DEF SessionTimes, LogicSession
  <2>2. CASE u # t
    BY <1>0, <1>1, <1>7, <2>2 DEF PrepareDone
  <2> QED BY <2>1, <2>2
<1>8. ASSUME NEW t \in Trans, NEW n \in Host,
             \/ ReqRollback(t) \/ SessionLost(t) \/ ConnectFails(t, n) \/ StorageError(t, n)
      PROVE  SessionTimes(u)
  BY <1>4, <1>8 DEF ReqRollback, SessionLost, ConnectFails, StorageError
<1>9. ASSUME NEW t \in Trans, NEW n \in Host, NEW p \in Host,
             \/ getFd(t, n) \/ LinkBreaks(t, n) \/ StorageStep(n, t)
             \/ AskTransState(n, t, p) \/ AskFails(n, t, p) \/ GetTransState(n, t, p)
             \/ Crash(n) \/ startUpClean(n) \/ CrashInPrepare(n, t)
      PROVE  logic' = logic
  BY <1>9 DEF getFd, LinkBreaks, StorageStep, Begin, Prepare, SessionEnd, AskTransState,
     AskFails, GetTransState, Crash, startUpClean, CrashInPrepare
<1>10. CASE UNCHANGED vars
  BY <1>1, <1>10 DEF vars
<1>11. 0 \in Host
  BY NumHostAssumption DEF Host
<1> QED
  BY <1>1, <1>2, <1>3, <1>5, <1>6, <1>7, <1>8, <1>9, <1>10, <1>11
  DEF Next, LogicStep, TaskStep

\* The clock never goes back.
LEMMA ClockNext ==
    ASSUME TypeOK, [Next]_vars
    PROVE  clock <= clock'
<1> DEFINE Goal == clock <= clock'
<1> SUFFICES Goal
  OBVIOUS
<1>1. clock \in 1 .. MaxTS
  BY DEF TypeOK
<1>2. clock' = clock => Goal
  BY <1>1
<1>3. clock' \in GetTS => Goal
  BY <1>1, GetTSType
<1>4. ASSUME NEW rec, clock' \in PassTS(rec) PROVE Goal
  BY <1>1, <1>4, PassTSType
<1> HIDE DEF Goal
<1>5. ASSUME NEW t \in Trans, ReqBegin(t) \/ ReqCommit(t) PROVE Goal
  BY <1>3, <1>5 DEF ReqBegin, ReqCommit
<1>6. ASSUME NEW n \in Host, startUpClean(n) \/ (\E t \in Trans : Prepare(n, t)) PROVE Goal
  BY <1>3, <1>6 DEF Prepare, startUpClean
<1>7. ASSUME NEW t \in Trans, NEW n \in Host, NEW p \in Host,
             SessionEnd(n, t) \/ AskFails(n, t, p) \/ GetTransState(n, t, p)
      PROVE  Goal
  BY <1>2, <1>4, <1>7 DEF SessionEnd, AskFails, GetTransState
<1>8. ASSUME NEW t \in Trans, NEW n \in Host, NEW p \in Host,
             \/ ReqRollback(t) \/ SessionLost(t) \/ LogicStep(t) \/ getFd(t, n)
             \/ ConnectFails(t, n) \/ LinkBreaks(t, n) \/ Begin(n, t)
             \/ AskTransState(n, t, p) \/ CrashInPrepare(n, t)
      PROVE  clock' = clock
  BY <1>8 DEF ReqRollback, SessionLost, LogicStep, BeginDone, SendPrepare, PrepareDone,
     StorageError, getFd, ConnectFails, LinkBreaks, Begin, AskTransState, CrashInPrepare
<1>9. 0 \in Host
  BY NumHostAssumption DEF Host
<1>10. ASSUME NEW t \in Trans, NEW n \in Host, StorageStep(n, t) PROVE Goal
  BY <1>2, <1>6, <1>7, <1>8, <1>9, <1>10 DEF StorageStep
<1>11. ASSUME NEW t \in Trans, NEW n \in Host, TaskStep(n, t) PROVE Goal
  BY <1>2, <1>7, <1>8, <1>11 DEF TaskStep
<1>12. ASSUME NEW t \in Trans, NEW n \in Host,
              \/ ReqRollback(t) \/ SessionLost(t) \/ LogicStep(t) \/ getFd(t, n)
              \/ ConnectFails(t, n) \/ LinkBreaks(t, n) \/ CrashInPrepare(n, t)
       PROVE  Goal
  BY <1>2, <1>8, <1>9, <1>12
<1>13. ASSUME UNCHANGED vars \/ (\E n \in Host : Crash(n)) PROVE Goal
  BY <1>2, <1>13 DEF vars, Crash
<1> QED BY <1>5, <1>6, <1>9, <1>10, <1>11, <1>12, <1>13 DEF Next

LEMMA TimeNext ==
    ASSUME TypeOK, ListInv, TimeInv, [Next]_vars
    PROVE  TimeInv' /\ TimeMove
<1>1. clock \in Nat /\ clock' \in Nat /\ clock' # 0 /\ clock <= clock'
  BY TypeNext, ClockNext DEF TypeOK
<1>2. \A t \in Trans : SessionTimes(t)
  BY SessionTimesNext
<1>3. ASSUME NEW t \in Trans
      PROVE  /\ logic'[t].begin_ts <= clock' /\ logic'[t].start_ts <= clock'
             /\ logic'[t].trans_list # {} =>
                  logic'[t].start_ts # 0 /\ logic'[t].begin_ts <= logic'[t].start_ts
  <2>1. /\ logic[t].begin_ts <= clock /\ logic[t].start_ts <= clock
        /\ logic[t].trans_list # {} =>
             logic[t].start_ts # 0 /\ logic[t].begin_ts <= logic[t].start_ts
    BY DEF TimeInv
  <2>2. logic[t].begin_ts \in Nat /\ logic[t].start_ts \in Nat
    BY DEF TypeOK, LogicSession, TS
  <2>3. SessionTimes(t)
    BY <1>2
  <2> QED BY <1>1, <2>1, <2>2, <2>3 DEF SessionTimes
<1>4. TimeInv'
  BY <1>3 DEF TimeInv
<1> QED BY <1>1, <1>2, <1>4 DEF TimeMove, SessionTimes

-----------------------------------------------------------------------------
(***************************************************************************)
(* The theorems.                                                           *)
(***************************************************************************)

LEMMA VotingInvInit == Init => VotingInv
<1> SUFFICES ASSUME Init PROVE VotingInv
  OBVIOUS
<1>1. ListInv
  BY DEF Init, ListInv, NewSession, State, NotFound
<1>2. VoteInv /\ DecisionInv
  BY DEF Init, VoteInv, DecisionInv, State, Voted, NotFound
<1>3. TaskInv
  BY NoTaskFits DEF Init, TaskInv, Fits
<1>4. TimeInv
  BY DEF Init, TimeInv, NewSession
<1> QED BY <1>1, <1>2, <1>3, <1>4 DEF VotingInv

\* What a step does to the records, the lists and the clock.
LEMMA MoveNext ==
    ASSUME TypeOK, VotingInv, [Next]_vars
    PROVE  /\ \A n \in Host, t \in Trans : RecMove(n, t)
           /\ \A t \in Trans : ListMove(t)
           /\ TimeMove /\ VotingInv'
<1>1. ListInv /\ VoteInv /\ DecisionInv /\ TaskInv /\ TimeInv
  BY DEF VotingInv
<1>2. (\A n \in Host, t \in Trans : RecMove(n, t)) /\ TaskInv'
  BY <1>1, MovesNext
<1>3. ListInv' /\ \A t \in Trans : ListMove(t)
  BY <1>1, <1>2, ListNext
<1>4. TimeInv' /\ TimeMove
  BY <1>1, TimeNext
<1>5. VoteInv' /\ DecisionInv'
  BY <1>1, <1>2, <1>3, <1>4, VoteNext, DecisionNext
<1> QED BY <1>2, <1>3, <1>4, <1>5 DEF VotingInv

\* The lists, the votes, the decisions and the beliefs of the PrepareTasks
\* are invariant: what the code relies on when it decides from old answers.
THEOREM VotingCorrect == Spec => []VotingInv
<1>1. TypeOK /\ VotingInv /\ [Next]_vars => VotingInv'
  BY MoveNext
<1> QED BY <1>1, TypeCorrect, VotingInvInit, PTL DEF Spec

\* A storage that rolled back and one that committed exclude each other.
LEMMA InvAtomicity == VotingInv => Atomicity
<1> SUFFICES ASSUME VotingInv, NEW t \in Trans, NEW m \in Host, NEW n \in Host,
                    State(m, t) = "Commited", State(n, t) = "Rollback"
             PROVE  FALSE
  BY DEF Atomicity
<1>1. ListInv /\ VoteInv /\ DecisionInv
  BY DEF VotingInv
<1>2. m \in trans[m][t].trans_list /\ trans[m][t].trans_list = logic[t].trans_list
  BY <1>1 DEF VoteInv, Voted
<1>3. \A r \in logic[t].trans_list : Voted(r, t)
  BY <1>1 DEF DecisionInv
<1>4. n \in logic[t].trans_list
  BY <1>1, <1>2 DEF VoteInv
<1> QED BY <1>1, <1>3, <1>4 DEF DecisionInv

\* No storage ever commits a transaction that another one rolled back, with
\* any number of storages, crashes, torn prepares and broken connections.
THEOREM AtomicCommitment == Spec => []Atomicity
BY VotingCorrect, InvAtomicity, PTL
=============================================================================
