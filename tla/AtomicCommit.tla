---------------------------- MODULE AtomicCommit ----------------------------
(***************************************************************************)
(* What the storages promise together about one transaction, without the   *)
(* messages, connections, processes and tasks that bring it about.         *)
(*                                                                         *)
(* A storage joins the transaction; the list of participants is fixed      *)
(* once, from storages that joined; a participant votes with a timestamp,  *)
(* and from then on only follows the others: it commits when all of them   *)
(* have voted, with the largest timestamp voted, or rolls back when one of *)
(* them rolled back instead of voting.  Nothing is ever taken back.        *)
(*                                                                         *)
(* A storage that dies before it has written its timestamp has voted       *)
(* without one, 0.  Then the commit timestamp need not be one of the votes *)
(* and may differ from storage to storage, but is never below a vote.      *)
(***************************************************************************)
EXTENDS Naturals

CONSTANTS
    Host,           \* the storages
    MaxTimestamp    \* the largest timestamp

Timestamp == 1 .. MaxTimestamp

\* What a storage votes with: 0 stands for no timestamp.
Stamp == Timestamp \cup {0}

VARIABLES
    state,      \* state[n]: what storage n did with the transaction
    members,    \* the participants, empty until they are fixed
    vote,       \* vote[n]: the timestamp of n's vote
    decision    \* decision[n]: the commit timestamp n decided on

acVars == <<state, members, vote, decision>>

AbstractInit ==
    /\ state = [n \in Host |-> "none"]
    /\ members = {}
    /\ vote = [n \in Host |-> 0]
    /\ decision = [n \in Host |-> 0]

Join(n) ==
    /\ members = {} /\ state[n] = "none"
    /\ state' = [state EXCEPT ![n] = "Begin"]
    /\ UNCHANGED <<members, vote, decision>>

\* The participants are every storage that joined, those included that have
\* rolled back already.
FixMembers ==
    /\ members = {}
    /\ members' = {n \in Host : state[n] # "none"}
    /\ UNCHANGED <<state, vote, decision>>

\* A storage that has not voted may roll back at any time.
Abort(n) ==
    /\ state[n] = "Begin"
    /\ state' = [state EXCEPT ![n] = "Rollback"]
    /\ UNCHANGED <<members, vote, decision>>

Vote(n) ==
    /\ n \in members /\ state[n] = "Begin"
    /\ state' = [state EXCEPT ![n] = "Prepared"]
    /\ \E ts \in Stamp : vote' = [vote EXCEPT ![n] = ts]
    /\ UNCHANGED <<members, decision>>

Voted(n) == state[n] \in {"Prepared", "Commited"}

AllStamped(v) == \A m \in members : v[m] # 0

IsMaxVote(ts, v) ==
    /\ \A m \in members : v[m] <= ts
    /\ AllStamped(v) => \E m \in members : v[m] = ts

Commit(n) ==
    /\ state[n] = "Prepared"
    /\ \A m \in members : Voted(m)
    /\ \E ts \in Timestamp :
         /\ IsMaxVote(ts, vote)
         /\ decision' = [decision EXCEPT ![n] = ts]
    /\ state' = [state EXCEPT ![n] = "Commited"]
    /\ UNCHANGED <<members, vote>>

\* The only participant votes and commits in one step.
VoteAndCommit(n) ==
    /\ members = {n} /\ state[n] = "Begin"
    /\ \E ts \in Timestamp :
         /\ vote' = [vote EXCEPT ![n] = ts]
         /\ decision' = [decision EXCEPT ![n] = ts]
    /\ state' = [state EXCEPT ![n] = "Commited"]
    /\ UNCHANGED members

FollowAbort(n) ==
    /\ state[n] = "Prepared"
    /\ \E m \in members : state[m] = "Rollback"
    /\ state' = [state EXCEPT ![n] = "Rollback"]
    /\ UNCHANGED <<members, vote, decision>>

AbstractNext ==
    \/ FixMembers
    \/ \E n \in Host : \/ Join(n) \/ Abort(n) \/ Vote(n) \/ Commit(n)
                       \/ VoteAndCommit(n) \/ FollowAbort(n)

AbstractSpec == AbstractInit /\ [][AbstractNext]_acVars

-----------------------------------------------------------------------------
AbstractTypeOK ==
    /\ state \in [Host -> {"none", "Begin", "Prepared", "Commited", "Rollback"}]
    /\ members \subseteq Host
    /\ vote \in [Host -> Stamp]
    /\ decision \in [Host -> Stamp]

\* All storages decide alike: what one commits no other one rolls back, and
\* every participant that commits does so with one and the same timestamp,
\* if none of them died before it wrote its own one.
Agreement ==
    \A m, n \in Host : state[m] = "Commited" =>
        /\ state[n] # "Rollback"
        /\ state[n] = "Commited" /\ AllStamped(vote) => decision[m] = decision[n]

\* Why they agree: whoever voted is a participant, and a commit has the vote
\* of every participant, so that no vote can change any more.
AbstractInv ==
    \A n \in Host :
        /\ Voted(n) => n \in members
        /\ state[n] # "none" /\ members # {} => n \in members
        /\ state[n] = "Commited" =>
             /\ \A m \in members : Voted(m)
             /\ IsMaxVote(decision[n], vote)
=============================================================================
