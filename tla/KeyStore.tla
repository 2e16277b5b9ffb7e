------------------------------ MODULE KeyStore ------------------------------
(***************************************************************************)
(* The locks and the version chains of one storageServ, and the reads and  *)
(* writes of the transactions on them (Core/Storage.cpp and the data       *)
(* requests of readwrite_routine in storageServ.cpp).                      *)
(*                                                                         *)
(* A key has a lock record, naming the last transaction that locked it,    *)
(* and a chain of versions that starts at its entry.  Nothing is ever      *)
(* unlocked or undone: what a lock or a version means follows from the     *)
(* state of the transaction that wrote it.  How that state is agreed on    *)
(* with the other storages is CommitProtocol's; here a prepared            *)
(* transaction commits, with a timestamp CommitProtocol allows, or rolls   *)
(* back at any time.                                                       *)
(***************************************************************************)
EXTENDS Integers, Sequences, FiniteSetsExt

CONSTANTS
    Trans,      \* the transactions, each with a begin_ts of its own
    Key,        \* the keys that hash to this storage
    Value,      \* the values written
    Writes,     \* the writes that are sent; an insert is an update here
    Nil,        \* the empty string in lock.trans and data.next
    SameTick,   \* may two calls of GetTS fall into the same microsecond?
    MaxTS,      \* bound on the clock
    MaxCrash    \* bound on the crashes

ASSUME NilAssumption == Nil \notin Trans
ASSUME ValueAssumption == Value # {} /\ Writes \subseteq {"update", "delete"}
ASSUME TickAssumption == SameTick \in BOOLEAN /\ MaxTS \in Nat \ {0} /\ MaxCrash \in Nat

VARIABLES
    begin_ts,   \* begin_ts[t]: given by logicServ, 0 before
    start_ts,   \* start_ts[t]: of the commit request on its way, 0 before
    rec,        \* rec[t]: the record trans_<t>
    session,    \* the transactions whose session holds them as begin_ts
    req,        \* req[t]: the request that session is serving
    reply,      \* reply[t]: its last response
    lock,       \* lock[k]: the record lock_<k>
    entry,      \* entry[k]: the record data_<k>_entry
    data,       \* data[k][t]: the record data_<k>_<t>
    clock,      \* what gettimeofday returns
    crashes     \* crashes so far

storeVars == <<begin_ts, start_ts, rec, session, req, reply, lock, entry, data, clock, crashes>>

TS == 0 .. MaxTS

TransRec ==
    [state : {"none", "Begin", "Prepared", "Commited", "Rollback"},
     start_trans : TS, self_commit_ts : TS, commit_trans : TS]

NotFound == [state |-> "none", start_trans |-> 0, self_commit_ts |-> 0, commit_trans |-> 0]

Version ==
    [state : {"update", "delete"}, value : Value, next : Trans \cup {Nil}, cur_version : Trans]

\* No record under the key.
NoVersion == [cur_version |-> Nil]

\* waited: ReadData has answered 66 to this request before.
Request ==
    [type : {"get", "get_for_update", "update", "delete"}, key : Key, value : Value,
     waited : BOOLEAN]

NoRequest == [type |-> "none"]

\* result 0: found or written, 33: deleted, 66: being committed, 99: not
\* found, -1: the transaction of a version has no record.
Result == {-1, 0, 33, 66, 99}

Reply ==
    [type : {"get", "get_for_update", "update", "delete"}, key : Key,
     result : Result, version : Trans \cup {Nil}]

NoReply == [type |-> "none"]

\* The database and the timestamps.
DatabaseTypeOK ==
    /\ begin_ts \in [Trans -> TS]
    /\ start_ts \in [Trans -> TS]
    /\ rec \in [Trans -> TransRec]
    /\ session \in SUBSET Trans
    /\ req \in [Trans -> Request \cup {NoRequest}]
    /\ lock \in [Key -> Trans \cup {Nil}]
    /\ entry \in [Key -> Version \cup {NoVersion}]
    /\ data \in [Key -> [Trans -> Version \cup {NoVersion}]]
    /\ clock \in 1 .. MaxTS
    /\ crashes \in 0 .. MaxCrash

StoreTypeOK == DatabaseTypeOK /\ reply \in [Trans -> Reply \cup {NoReply}]

StoreInit ==
    /\ begin_ts = [t \in Trans |-> 0]
    /\ start_ts = [t \in Trans |-> 0]
    /\ rec = [t \in Trans |-> NotFound]
    /\ session = {}
    /\ req = [t \in Trans |-> NoRequest]
    /\ reply = [t \in Trans |-> NoReply]
    /\ lock = [k \in Key |-> Nil]
    /\ entry = [k \in Key |-> NoVersion]
    /\ data = [k \in Key |-> [t \in Trans |-> NoVersion]]
    /\ clock = 1
    /\ crashes = 0

\* What GetTS may return: a later microsecond, perhaps the current one again.
GetTS == {ts \in {clock, clock + 1} : ts <= MaxTS /\ (ts = clock => SameTick)}

Decided(t) == rec[t].state \in {"Commited", "Rollback"}

-----------------------------------------------------------------------------
(***************************************************************************)
(* Core/Storage.cpp.                                                       *)
(***************************************************************************)

\* Faulty: the lock of a prepared transaction is taken over.
LockUnlessOpen(k, t) ==
    lock[k] \notin {Nil, t} =>
        rec[lock[k]].state \in {"Prepared", "Commited", "Rollback"}

\* Faulty: the lock of a transaction that rolled back is respected.
LockAfterCommit(k, t) ==
    lock[k] \notin {Nil, t} => rec[lock[k]].state = "Commited"

\* addLock succeeds: the key is not locked, or by t itself, or by a
\* transaction that is over.  The lock then is t's.
CanLock(k, t) == lock[k] \notin {Nil, t} => Decided(lock[k])

\* Faulty: the chain below the new version is lost.
VersionWithoutNext(k, t, type, value) ==
    [state |-> type, value |-> value, next |-> Nil, cur_version |-> t]

\* The entry that addData leaves: a second write of t replaces the first one,
\* otherwise the former entry becomes the next of the new one.
NewEntry(k, t, type, value) ==
    [state |-> type, value |-> value, cur_version |-> t,
     next |-> IF entry[k].cur_version = t THEN entry[k].next ELSE entry[k].cur_version]

\* The records of older versions after addData copied the former entry.
Copied(k, t) ==
    IF entry[k].cur_version \in {Nil, t} THEN data
    ELSE [data EXCEPT ![k][entry[k].cur_version] = entry[k]]

\* The versions that ReadData comes by, from the entry along next.
Chain(k) ==
    LET From[x \in Trans \cup {Nil}] ==
            LET v == IF x = Nil THEN entry[k] ELSE data[k][x]
            IN  IF v = NoVersion THEN <<>>
                ELSE IF v.next = Nil THEN <<v>>
                ELSE <<v>> \o From[v.next]
    IN  From[Nil]

\* Faulty: a version that is being committed is passed over.
PassedUnlessCommited(v, ts) ==
    LET writer == rec[v.cur_version]
    IN  /\ begin_ts[v.cur_version] # ts
        /\ \/ writer.state \in {"Begin", "Prepared", "Rollback"}
           \/ writer.state = "Commited" /\ ts <= writer.commit_trans

\* Faulty: a version committed at the very timestamp of the read is read.
PassedIfLater(v, ts) ==
    LET writer == rec[v.cur_version]
    IN  /\ begin_ts[v.cur_version] # ts
        /\ \/ writer.state \in {"Begin", "Rollback"}
           \/ writer.state = "Prepared" /\ ts <= writer.start_trans
           \/ writer.state = "Commited" /\ ts < writer.commit_trans

\* ReadData with timestamp ts goes on to the next version: v is another
\* transaction's, which is open, rolled back, or too late for ts.
Passed(v, ts) ==
    LET writer == rec[v.cur_version]
    IN  /\ begin_ts[v.cur_version] # ts
        /\ \/ writer.state \in {"Begin", "Rollback"}
           \/ writer.state = "Prepared" /\ ts <= writer.start_trans
           \/ writer.state = "Commited" /\ ts <= writer.commit_trans

\* What ReadData returns for the version at which it stops.
Found(v, ts) ==
    [ret |-> IF begin_ts[v.cur_version] # ts /\ rec[v.cur_version].state = "none" THEN -1
             ELSE IF begin_ts[v.cur_version] # ts /\ rec[v.cur_version].state = "Prepared"
             THEN 66
             ELSE IF v.state = "delete" THEN 33 ELSE 0,
     version |-> v.cur_version]

ReadData(k, ts) ==
    LET chain == Chain(k)
        stops == {i \in DOMAIN chain : ~Passed(chain[i], ts)}
    IN  IF stops = {} THEN [ret |-> 99, version |-> Nil]
        ELSE Found(chain[Min(stops)], ts)

-----------------------------------------------------------------------------
(***************************************************************************)
(* Requests.                                                               *)
(***************************************************************************)

\* logicServ gives out a begin_ts.
ReqBegin(t) ==
    /\ begin_ts[t] = 0
    /\ \E ts \in GetTS :
         /\ \A u \in Trans : begin_ts[u] # ts
         /\ begin_ts' = [begin_ts EXCEPT ![t] = ts]
         /\ clock' = ts
    /\ UNCHANGED <<start_ts, rec, session, req, reply, lock, entry, data, crashes>>

\* Begin, sent when the transaction first touches this storage.
Begin(t) ==
    /\ begin_ts[t] # 0 /\ rec[t].state = "none"
    /\ rec' = [rec EXCEPT ![t].state = "Begin"]
    /\ session' = session \cup {t}
    /\ UNCHANGED <<begin_ts, start_ts, req, reply, lock, entry, data, clock, crashes>>

\* A request arrives; logicServ sends the next one after the response only.
Receive(t, type, k, value) ==
    /\ t \in session /\ req[t] = NoRequest /\ start_ts[t] = 0
    /\ req' = [req EXCEPT ![t] =
                 [type |-> type, key |-> k, value |-> value, waited |-> FALSE]]
    /\ reply' = [reply EXCEPT ![t] = NoReply]
    /\ UNCHANGED <<begin_ts, start_ts, rec, session, lock, entry, data, clock, crashes>>

\* The response of a read.  The result of a read that had to wait is never
\* reset when the version is found at last.
Respond(t, r) ==
    /\ reply' = [reply EXCEPT ![t] =
         [type |-> req[t].type, key |-> req[t].key,
          result |-> IF r.ret = 0 /\ req[t].waited THEN 66 ELSE r.ret,
          version |-> r.version]]
    /\ req' = [req EXCEPT ![t] = NoRequest]

\* The read of a Get: respond, or try again while a commit is under way.
Read(t, ts) ==
    LET r == ReadData(req[t].key, ts)
    IN  \/ r.ret # 66 /\ Respond(t, r)
        \/ r.ret = 66 /\ req' = [req EXCEPT ![t].waited = TRUE] /\ UNCHANGED reply

Get(t) ==
    /\ req[t].type = "get"
    /\ Read(t, begin_ts[t])
    /\ UNCHANGED <<begin_ts, start_ts, rec, session, lock, entry, data, clock, crashes>>

\* get_for_update: lock, then read with a timestamp of now.
GetForUpdate(t) ==
    /\ req[t].type = "get_for_update" /\ CanLock(req[t].key, t)
    /\ lock' = [lock EXCEPT ![req[t].key] = t]
    /\ \E ts \in GetTS : Read(t, ts) /\ clock' = ts
    /\ UNCHANGED <<begin_ts, start_ts, rec, session, entry, data, crashes>>

\* Delete, Update, Insert: lock, then write.
Write(t) ==
    /\ req[t].type \in {"update", "delete"} /\ CanLock(req[t].key, t)
    /\ LET k == req[t].key
       IN  /\ lock' = [lock EXCEPT ![k] = t]
           /\ data' = Copied(k, t)
           /\ entry' = [entry EXCEPT ![k] = NewEntry(k, t, req[t].type, req[t].value)]
    /\ Respond(t, [ret |-> 0, version |-> Nil])
    /\ UNCHANGED <<begin_ts, start_ts, rec, session, clock, crashes>>

-----------------------------------------------------------------------------
(***************************************************************************)
(* The end of a transaction.                                               *)
(***************************************************************************)

\* The client's commit request: logicServ takes start_ts and sends Prepare.
ReqCommit(t) ==
    /\ t \in session /\ req[t] = NoRequest /\ start_ts[t] = 0
    /\ \E ts \in GetTS : start_ts' = [start_ts EXCEPT ![t] = ts] /\ clock' = ts
    /\ UNCHANGED <<begin_ts, rec, session, req, reply, lock, entry, data, crashes>>

Prepare(t) ==
    /\ t \in session /\ start_ts[t] # 0 /\ rec[t].state = "Begin"
    /\ \E ts \in GetTS :
         /\ rec' = [rec EXCEPT ![t].state = "Prepared", ![t].start_trans = start_ts[t],
                               ![t].self_commit_ts = ts]
         /\ clock' = ts
    /\ session' = session \ {t}
    /\ UNCHANGED <<begin_ts, start_ts, req, reply, lock, entry, data, crashes>>

\* Faulty: the commit timestamp may lie before the own one.
CommitFromStart(t) ==
    /\ rec[t].state = "Prepared"
    /\ \E now \in GetTS \cup {clock} :
         /\ \E ts \in rec[t].start_trans .. now :
              rec' = [rec EXCEPT ![t].state = "Commited", ![t].commit_trans = ts]
         /\ clock' = now
    /\ UNCHANGED <<begin_ts, start_ts, session, req, reply, lock, entry, data, crashes>>

\* Faulty: the clock of another participant is ahead.
CommitAhead(t) ==
    /\ rec[t].state = "Prepared"
    /\ \E now \in GetTS \cup {clock} :
         /\ \E ts \in rec[t].self_commit_ts .. (now + 1) :
              rec' = [rec EXCEPT ![t].state = "Commited", ![t].commit_trans = ts]
         /\ clock' = now
    /\ UNCHANGED <<begin_ts, start_ts, session, req, reply, lock, entry, data, crashes>>

\* prepare_routine commits, with the own timestamp or a larger one that
\* another participant took by now.
Commit(t) ==
    /\ rec[t].state = "Prepared"
    /\ \E now \in GetTS \cup {clock} :
         /\ \E ts \in rec[t].self_commit_ts .. now :
              rec' = [rec EXCEPT ![t].state = "Commited", ![t].commit_trans = ts]
         /\ clock' = now
    /\ UNCHANGED <<begin_ts, start_ts, session, req, reply, lock, entry, data, crashes>>

\* prepare_routine learns that another participant rolled back.
Rollback(t) ==
    /\ rec[t].state = "Prepared"
    /\ rec' = [rec EXCEPT ![t].state = "Rollback"]
    /\ UNCHANGED <<begin_ts, start_ts, session, req, reply, lock, entry, data, clock, crashes>>

\* The connection of the session is closed: what is open is rolled back, a
\* request that waits is given up.
SessionEnd(t) ==
    /\ t \in session
    /\ session' = session \ {t}
    /\ req' = [req EXCEPT ![t] = NoRequest]
    /\ rec' = [rec EXCEPT ![t].state = "Rollback"]
    /\ UNCHANGED <<begin_ts, start_ts, reply, lock, entry, data, clock, crashes>>

\* A crash, and startUpClean at the restart: the sessions are gone, what is
\* open is rolled back, the rest of the database stays.
Restart ==
    /\ crashes < MaxCrash /\ crashes' = crashes + 1
    /\ session' = {}
    /\ req' = [t \in Trans |-> NoRequest]
    /\ rec' = [t \in Trans |-> IF rec[t].state = "Begin"
                               THEN [rec[t] EXCEPT !.state = "Rollback"] ELSE rec[t]]
    /\ UNCHANGED <<begin_ts, start_ts, reply, clock>>

Crash == Restart /\ UNCHANGED <<lock, entry, data>>

\* Faulty: the entry is replaced before the former one is copied.
CrashInWriteOfEntry(t) ==
    /\ req[t].type \in {"update", "delete"} /\ CanLock(req[t].key, t)
    /\ LET k == req[t].key
       IN  /\ lock' = [lock EXCEPT ![k] = t]
           /\ entry' = [entry EXCEPT ![k] = NewEntry(k, t, req[t].type, req[t].value)]
    /\ Restart
    /\ UNCHANGED data

\* A crash between two Puts of a write: after the lock, or after the copy of
\* the former entry.
CrashInWrite(t) ==
    /\ req[t].type \in {"update", "delete"} /\ CanLock(req[t].key, t)
    /\ lock' = [lock EXCEPT ![req[t].key] = t]
    /\ data' \in {data, Copied(req[t].key, t)}
    /\ Restart
    /\ UNCHANGED entry

-----------------------------------------------------------------------------
Serve(t) == Get(t) \/ GetForUpdate(t) \/ Write(t) \/ Prepare(t)

Decide(t) == Commit(t) \/ Rollback(t)

StoreNext ==
    \/ \E t \in Trans :
         \/ ReqBegin(t) \/ Begin(t) \/ ReqCommit(t) \/ SessionEnd(t)
         \/ Serve(t) \/ Decide(t) \/ CrashInWrite(t)
         \/ \E k \in Key :
              \/ \E type \in {"get", "get_for_update"} :
                   Receive(t, type, k, CHOOSE value \in Value : TRUE)
              \/ \E type \in Writes, value \in Value : Receive(t, type, k, value)
    \/ Crash

StoreSpec == StoreInit /\ [][StoreNext]_storeVars

\* The client ends a transaction that has no request under way.
EndIdle(t) == ReqCommit(t) \/ (req[t] = NoRequest /\ SessionEnd(t))

(***************************************************************************)
(* A session polls again and again (500 ms), and CommitProtocol decides    *)
(* every prepared transaction.  There is no timeout on a lock: that        *)
(* somebody who holds one ends the transaction is an assumption about the  *)
(* clients: none sends requests for ever without ending its transaction.   *)
(* No client is assumed to give up while it waits.                         *)
(***************************************************************************)
StoreFairness ==
    \A t \in Trans : /\ WF_storeVars(Serve(t))
                     /\ WF_storeVars(Decide(t))
                     /\ SF_storeVars(EndIdle(t))

FairStoreSpec == StoreSpec /\ StoreFairness

-----------------------------------------------------------------------------
(***************************************************************************)
(* Safety.                                                                 *)
(***************************************************************************)

\* addLock and addData write only what the lock protects: as long as the
\* writer of a version is undecided the key is locked by it, and its version
\* is the entry.  So a key never has two undecided versions, and a rollback
\* or a commit needs to touch no data.
WritersExclude ==
    \A k \in Key, t \in Trans :
        /\ entry[k].cur_version = t /\ ~Decided(t) => lock[k] = t
        /\ data[k][t] # NoVersion => Decided(t)

\* No write loses a committed version: it stays on its chain with its
\* contents, also if the process dies between the two Puts of addData.
VersionsKept ==
    [][\A k \in Key : \A i \in DOMAIN Chain(k) :
         LET v == Chain(k)[i]
         IN  rec[v.cur_version].state = "Commited" =>
               \E j \in DOMAIN Chain(k)' :
                   LET w == Chain(k)'[j]
                   IN  w.cur_version = v.cur_version /\ w.state = v.state
                       /\ w.value = v.value]_storeVars

\* ReadData stops at the first version that suits: the chain is in the order
\* of the commits, although the commit timestamps come from other storages
\* and are known long after the versions were written.
ChainOrder ==
    \A k \in Key :
        LET chain == Chain(k)
            committed == {i \in DOMAIN chain : rec[chain[i].cur_version].state = "Commited"}
        IN  \A i, j \in committed :
                i < j => rec[chain[i].cur_version].commit_trans
                           >= rec[chain[j].cur_version].commit_trans

\* The versions of a key that were committed before ts.
CommittedBefore(k, ts) ==
    {v \in {entry[k]} \cup {data[k][u] : u \in Trans} :
        v # NoVersion /\ rec[v.cur_version].state = "Commited"
          /\ rec[v.cur_version].commit_trans < ts}

\* x wrote the newest of them; Nil if there is none.
IsNewest(k, ts, x) ==
    LET before == CommittedBefore(k, ts)
    IN  IF x = Nil THEN before = {}
        ELSE \E v \in before :
               /\ v.cur_version = x
               /\ \A w \in before :
                    rec[w.cur_version].commit_trans <= rec[x].commit_trans

\* A read of an open transaction returns its own write, or the version with
\* the largest commit timestamp before its begin_ts (README1.md:51), or waits
\* for a writer that may still commit before it.
ReadsSnapshot ==
    \A t \in session, k \in Key :
        LET r == ReadData(k, begin_ts[t])
        IN  IF entry[k].cur_version = t THEN r.version = t /\ r.ret \in {0, 33}
            ELSE IF r.ret = 66
            THEN /\ rec[r.version].state = "Prepared"
                 /\ rec[r.version].start_trans < begin_ts[t]
            ELSE r.ret # -1 /\ IsNewest(k, begin_ts[t], r.version)

\* What a transaction read it would read again at any later time, whatever
\* commits in between, until it writes the key itself: a transaction that
\* prepares after the read never commits before the begin_ts of the reader.
RepeatableRead ==
    \A t \in session :
        reply[t].type = "get" /\ entry[reply[t].key].cur_version # t =>
            IsNewest(reply[t].key, begin_ts[t], reply[t].version)

\* What get_for_update returned stays the newest committed version of the key
\* until the reader is decided: nobody else writes in between.  It holds if
\* no two calls of GetTS fall into the same microsecond.
LockedReadIsNewest ==
    \A t \in Trans :
        ~Decided(t) /\ reply[t].type = "get_for_update"
            /\ entry[reply[t].key].cur_version # t
        => IsNewest(reply[t].key, MaxTS + 1, reply[t].version)

-----------------------------------------------------------------------------
(***************************************************************************)
(* Liveness.                                                               *)
(***************************************************************************)

\* t asks for a lock that another transaction holds.
WaitsForLock(t) ==
    req[t].type \in {"get_for_update", "update", "delete"} /\ ~CanLock(req[t].key, t)

\* t is one of a set of transactions that all wait for locks within the set.
Deadlocked(t) ==
    \E S \in SUBSET Trans :
        t \in S /\ \A u \in S : WaitsForLock(u) /\ lock[req[u].key] \in S

\* Every read or write is answered, or its session ends: a reader waits for a
\* commit under way, a writer for the locks of those before it, and neither
\* for ever.  The one exception is a deadlock, which nothing resolves.
RequestEnds == \A t \in Trans : req[t] # NoRequest ~> req[t] = NoRequest \/ Deadlocked(t)
=============================================================================
