-------------------------- MODULE AgreementProofs --------------------------
(***************************************************************************)
(* AtomicCommit keeps its promise for any set of storages.                 *)
(***************************************************************************)
EXTENDS AtomicCommit, TLAPS

LEMMA AbstractTypeInit == AbstractInit => AbstractTypeOK
BY DEF AbstractInit, AbstractTypeOK, Stamp

LEMMA AbstractTypeNext == AbstractTypeOK /\ [AbstractNext]_acVars => AbstractTypeOK'
<1> SUFFICES ASSUME AbstractTypeOK, [AbstractNext]_acVars PROVE AbstractTypeOK'
  OBVIOUS
<1> USE DEF AbstractTypeOK, Stamp
<1>1. CASE FixMembers
  BY <1>1 DEF FixMembers
<1>2. ASSUME NEW n \in Host, Join(n) \/ Abort(n) \/ FollowAbort(n) PROVE AbstractTypeOK'
  BY <1>2 DEF Join, Abort, FollowAbort
<1>3. ASSUME NEW n \in Host, Vote(n) PROVE AbstractTypeOK'
  BY <1>3 DEF Vote
<1>4. ASSUME NEW n \in Host, Commit(n) PROVE AbstractTypeOK'
  BY <1>4 DEF Commit
<1>5. ASSUME NEW n \in Host, VoteAndCommit(n) PROVE AbstractTypeOK'
  BY <1>5 DEF VoteAndCommit
<1>6. CASE UNCHANGED acVars
  BY <1>6 DEF acVars
<1> QED BY <1>1, <1>2, <1>3, <1>4, <1>5, <1>6 DEF AbstractNext

\* The abstract storages keep to the types of their state.
THEOREM AbstractTypeCorrect == AbstractSpec => []AbstractTypeOK
BY AbstractTypeInit, AbstractTypeNext, PTL DEF AbstractSpec

LEMMA AbstractInvNext ==
    AbstractTypeOK /\ AbstractInv /\ [AbstractNext]_acVars => AbstractInv'
<1> SUFFICES ASSUME AbstractTypeOK, AbstractInv, [AbstractNext]_acVars PROVE AbstractInv'
  OBVIOUS
<1> USE DEF AbstractTypeOK, AbstractInv, Voted, IsMaxVote, AllStamped
<1>1. CASE FixMembers
  BY <1>1 DEF FixMembers
<1>2. ASSUME NEW n \in Host, Join(n) PROVE AbstractInv'
  BY <1>2 DEF Join
<1>3. ASSUME NEW n \in Host, Abort(n) PROVE AbstractInv'
  BY <1>3 DEF Abort
<1>4. ASSUME NEW n \in Host, Vote(n) PROVE AbstractInv'
  <2>1. \A m \in Host : state[m] # "Commited"
    BY <1>4 DEF Vote
  <2> QED BY <1>4, <2>1 DEF Vote
<1>5. ASSUME NEW n \in Host, Commit(n) PROVE AbstractInv'
  BY <1>5 DEF Commit
<1>6. ASSUME NEW n \in Host, VoteAndCommit(n) PROVE AbstractInv'
  <2>1. \A m \in Host \ {n} : state'[m] = state[m] /\ state[m] = "none"
    BY <1>6 DEF VoteAndCommit
  <2>2. vote'[n] = decision'[n] /\ vote'[n] \in Nat
    BY <1>6 DEF VoteAndCommit, Timestamp, Stamp
  <2> QED BY <1>6, <2>1, <2>2 DEF VoteAndCommit
<1>7. ASSUME NEW n \in Host, FollowAbort(n) PROVE AbstractInv'
  <2>1. \A m \in Host : state[m] # "Commited"
    BY <1>7 DEF FollowAbort
  <2> QED BY <1>7, <2>1 DEF FollowAbort
<1>8. CASE UNCHANGED acVars
  BY <1>8 DEF acVars
<1> QED BY <1>1, <1>2, <1>3, <1>4, <1>5, <1>6, <1>7, <1>8 DEF AbstractNext

\* A commit always has the vote of every participant and no smaller timestamp,
\* the largest of them if all votes have one.
THEOREM AbstractInvCorrect == AbstractSpec => []AbstractInv
<1>1. AbstractInit => AbstractInv
  BY DEF AbstractInit, AbstractInv, Voted
<1> QED BY <1>1, AbstractTypeCorrect, AbstractInvNext, PTL DEF AbstractSpec

LEMMA InvAgreement == AbstractTypeOK /\ AbstractInv => Agreement
<1> SUFFICES ASSUME AbstractTypeOK, AbstractInv, NEW m \in Host, NEW n \in Host,
                    state[m] = "Commited"
             PROVE  /\ state[n] # "Rollback"
                    /\ state[n] = "Commited" /\ AllStamped(vote) =>
                         decision[m] = decision[n]
  BY DEF Agreement
<1>1. state[n] # "Rollback"
  BY DEF AbstractInv, Voted
<1>2. ASSUME state[n] = "Commited", AllStamped(vote) PROVE decision[m] = decision[n]
  <2>1. IsMaxVote(decision[m], vote) /\ IsMaxVote(decision[n], vote)
    BY <1>2 DEF AbstractInv
  <2>2. decision[m] <= decision[n] /\ decision[n] <= decision[m]
    BY <1>2, <2>1 DEF IsMaxVote
  <2>3. decision[m] \in Nat /\ decision[n] \in Nat
    BY DEF AbstractTypeOK, Timestamp, Stamp
  <2> QED BY <2>2, <2>3
<1> QED BY <1>1, <1>2

\* The storages agree on commit or rollback and on the commit timestamp,
\* however many there are and whatever timestamps they vote with.
THEOREM StoragesAgree == AbstractSpec => []Agreement
BY AbstractTypeCorrect, AbstractInvCorrect, InvAgreement, PTL
=============================================================================
