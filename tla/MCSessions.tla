----------------------------- MODULE MCSessions -----------------------------
(***************************************************************************)
(* Sessions on small instances, and what comments of the repository say of *)
(* it that the code does not do.                                           *)
(***************************************************************************)
EXTENDS Sessions

\* logicServ.cpp:192 says that the client is told success if all prepares
\* returned success: whatever it has done in the transaction is prepared then.
SuccessIsPrepared ==
    \A c \in Client, ts \in TS, n \in Host :
        {<<ts>>, <<ts, n>>} \subseteq told[c] => rec[n][ts] = "Prepared"

\* Msg.cpp:15 says that ReadOneMsg returns a negative value on failure, for
\* which its callers close the connection: a message that arrives only in part
\* costs a session and no storage process.
CutMessageIsError == Faults = {"cut"} => \A n \in Host : up[n]
=============================================================================
