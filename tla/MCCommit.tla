------------------------------ MODULE MCCommit ------------------------------
(***************************************************************************)
(* CommitProtocol on small instances, and what documents and comments of   *)
(* the repository say of it that the code does not do: TLC finds how these *)
(* are violated.                                                           *)
(***************************************************************************)
EXTENDS CommitProtocol

\* storageServ.cpp:246 says of the timestamps of the participants that the
\* largest one is the final commit_ts: a transaction has one commit_ts.  With
\* a crash between the two writes of a prepare it may have several.
SameCommitTs ==
    \A t \in Trans : \A m, n \in Host :
        State(m, t) = "Commited" /\ State(n, t) = "Commited" =>
            trans[m][t].commit_trans = trans[n][t].commit_trans
=============================================================================
