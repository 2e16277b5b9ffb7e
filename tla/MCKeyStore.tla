----------------------------- MODULE MCKeyStore -----------------------------
(***************************************************************************)
(* KeyStore on small instances, and what documents and comments of the     *)
(* repository say of it that the code does not do.                         *)
(***************************************************************************)
EXTENDS KeyStore, TLC

\* Transactions differ by their timestamps only.
Symmetry == Permutations(Trans)

\* README1.md:49 says of get that a version written by the transaction itself
\* is returned.  get_for_update reads with a fresh timestamp in the place of
\* begin_ts and passes its own version over.
OwnWriteIsRead ==
    \A t \in Trans :
        /\ t \in session /\ reply[t].type = "get_for_update"
        /\ entry[reply[t].key].cur_version = t
        => reply[t].version = t

\* README1.md:50 and storageServ.cpp:336 say that a read waits while a
\* transaction is being committed: no response says "being committed".
CommitIsAwaited == \A t \in Trans : reply[t].type = "get" => reply[t].result # 66
=============================================================================
