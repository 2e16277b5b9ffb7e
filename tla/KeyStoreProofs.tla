--------------------------- MODULE KeyStoreProofs ---------------------------
(***************************************************************************)
(* A storage, for any number of transactions, keys and crashes: its locks  *)
(* keep the writers apart; its version chains are in the order of the      *)
(* commits and lose no committed version; what a transaction reads is the  *)
(* snapshot of its begin_ts.                                               *)
(***************************************************************************)
EXTENDS KeyStore, SequenceTheorems, WellFoundedInduction, TLAPS

LEMMA StoreTSFacts ==
    /\ 0 \in TS
    /\ 1 .. MaxTS \subseteq TS
    /\ \A ts \in GetTS : clock \in 1 .. MaxTS => ts \in 1 .. MaxTS
BY TickAssumption DEF TS, GetTS

LEMMA EntryType ==
    ASSUME DatabaseTypeOK, NEW k \in Key
    PROVE  /\ entry[k].cur_version \in Trans \cup {Nil}
           /\ entry[k].cur_version = Nil <=> entry[k] = NoVersion
           /\ entry[k].cur_version # Nil => entry[k] \in Version
<1>1. entry[k] \in Version \/ entry[k] = NoVersion
  BY DEF DatabaseTypeOK
<1>2. CASE entry[k] \in Version
  BY <1>2, NilAssumption DEF Version, NoVersion
<1>3. CASE entry[k] = NoVersion
  BY <1>3 DEF NoVersion
<1> QED BY <1>1, <1>2, <1>3

LEMMA CopiedType ==
    ASSUME DatabaseTypeOK, NEW k \in Key, NEW t \in Trans
    PROVE  Copied(k, t) \in [Key -> [Trans -> Version \cup {NoVersion}]]
<1>1. CASE entry[k].cur_version \in {Nil, t}
  BY <1>1 DEF Copied, DatabaseTypeOK
<1>2. CASE entry[k].cur_version \notin {Nil, t}
  <2>1. entry[k].cur_version \in Trans /\ entry[k] \in Version
    BY <1>2, EntryType
  <2> QED BY <1>2, <2>1 DEF Copied, DatabaseTypeOK
<1> QED BY <1>1, <1>2

LEMMA NewEntryType ==
    ASSUME DatabaseTypeOK, NEW k \in Key, NEW t \in Trans,
           NEW type \in {"update", "delete"}, NEW value \in Value
    PROVE  NewEntry(k, t, type, value) \in Version
<1>1. CASE entry[k].cur_version = t
  <2>1. entry[k] \in Version
    BY <1>1, EntryType, NilAssumption
  <2>2. entry[k].next \in Trans \cup {Nil}
    BY <2>1 DEF Version
  <2> QED BY <1>1, <2>2 DEF NewEntry, Version
<1>2. CASE entry[k].cur_version # t
  BY <1>2, EntryType DEF NewEntry, Version
<1> QED BY <1>1, <1>2

LEMMA RequestType ==
    ASSUME DatabaseTypeOK, NEW t \in Trans, req[t].type # "none"
    PROVE  req[t] \in Request
BY DEF DatabaseTypeOK, NoRequest

-----------------------------------------------------------------------------
LEMMA DatabaseTypeInit == StoreInit => DatabaseTypeOK
<1> SUFFICES ASSUME StoreInit PROVE DatabaseTypeOK
  OBVIOUS
<1>1. NotFound \in TransRec
  BY StoreTSFacts DEF NotFound, TransRec
<1>2. clock \in 1 .. MaxTS /\ crashes \in 0 .. MaxCrash
  BY TickAssumption DEF StoreInit
<1> QED BY <1>1, <1>2, StoreTSFacts DEF StoreInit, DatabaseTypeOK

\* A read changes the request only to note that it waits, or to end it.
LEMMA ReadType ==
    ASSUME DatabaseTypeOK, NEW t \in Trans, req[t].type # "none", NEW ts, Read(t, ts)
    PROVE  req' \in [Trans -> Request \cup {NoRequest}]
<1>1. req[t] \in Request
  BY RequestType
<1>2. CASE req' = [req EXCEPT ![t] = NoRequest]
  BY <1>2 DEF DatabaseTypeOK
<1>3. CASE req' = [req EXCEPT ![t].waited = TRUE]
  BY <1>1, <1>3 DEF DatabaseTypeOK, Request
<1> QED BY <1>2, <1>3 DEF Read, Respond

\* A restart rolls back what is open and leaves every other record alone.
LEMMA RestartType ==
    ASSUME DatabaseTypeOK, Restart
    PROVE  /\ rec' \in [Trans -> TransRec]
           /\ session' \in SUBSET Trans
           /\ req' \in [Trans -> Request \cup {NoRequest}]
           /\ crashes' \in 0 .. MaxCrash
           /\ begin_ts' = begin_ts /\ start_ts' = start_ts /\ clock' = clock
<1>0. ASSUME NEW r \in TransRec
      PROVE  [r EXCEPT !.state = "Rollback"] \in TransRec
  BY DEF TransRec
<1>1. rec' \in [Trans -> TransRec]
  BY <1>0 DEF Restart, DatabaseTypeOK
<1>2. crashes' \in 0 .. MaxCrash
  BY TickAssumption DEF Restart, DatabaseTypeOK
<1> QED BY <1>1, <1>2 DEF Restart

LEMMA DatabaseTypeNext == DatabaseTypeOK /\ [StoreNext]_storeVars => DatabaseTypeOK'
<1> SUFFICES ASSUME DatabaseTypeOK, [StoreNext]_storeVars PROVE DatabaseTypeOK'
  OBVIOUS
<1>1. ASSUME NEW t \in Trans, ReqBegin(t) PROVE DatabaseTypeOK'
  BY <1>1, StoreTSFacts DEF ReqBegin, DatabaseTypeOK
<1>2. ASSUME NEW t \in Trans, Begin(t) PROVE DatabaseTypeOK'
  BY <1>2 DEF Begin, DatabaseTypeOK, TransRec
<1>3. ASSUME NEW t \in Trans, ReqCommit(t) PROVE DatabaseTypeOK'
  BY <1>3, StoreTSFacts DEF ReqCommit, DatabaseTypeOK
<1>4. ASSUME NEW t \in Trans, SessionEnd(t) PROVE DatabaseTypeOK'
  BY <1>4 DEF SessionEnd, DatabaseTypeOK, TransRec
<1>5. ASSUME NEW t \in Trans, NEW k \in Key, NEW value \in Value,
             NEW type \in {"get", "get_for_update", "update", "delete"},
             Receive(t, type, k, value)
      PROVE  DatabaseTypeOK'
  <2>1. [type |-> type, key |-> k, value |-> value, waited |-> FALSE] \in Request
    BY DEF Request
  <2> QED BY <1>5, <2>1 DEF Receive, DatabaseTypeOK
<1>6. ASSUME NEW t \in Trans, Get(t) PROVE DatabaseTypeOK'
  <2>1. req' \in [Trans -> Request \cup {NoRequest}]
    BY <1>6, ReadType DEF Get
  <2> QED BY <1>6, <2>1 DEF Get, DatabaseTypeOK
<1>7. ASSUME NEW t \in Trans, GetForUpdate(t) PROVE DatabaseTypeOK'
  <2>1. PICK ts \in GetTS : Read(t, ts) /\ clock' = ts
    BY <1>7 DEF GetForUpdate
  <2>2. req' \in [Trans -> Request \cup {NoRequest}]
    BY <1>7, <2>1, ReadType DEF GetForUpdate
  <2>3. clock' \in 1 .. MaxTS
    BY <2>1, StoreTSFacts DEF DatabaseTypeOK
  <2> QED BY <1>7, <2>2, <2>3 DEF GetForUpdate, DatabaseTypeOK
<1>8. ASSUME NEW t \in Trans, Write(t) PROVE DatabaseTypeOK'
  <2>1. req[t] \in Request /\ req[t].type \in {"update", "delete"}
    BY <1>8, RequestType DEF Write
  <2>2. req[t].key \in Key /\ req[t].value \in Value
    BY <2>1 DEF Request
  <2>3. NewEntry(req[t].key, t, req[t].type, req[t].value) \in Version
    BY <2>1, <2>2, NewEntryType
  <2>4. data' \in [Key -> [Trans -> Version \cup {NoVersion}]]
    BY <1>8, <2>2, CopiedType DEF Write
  <2>5. entry' \in [Key -> Version \cup {NoVersion}]
    BY <1>8, <2>2, <2>3 DEF Write, DatabaseTypeOK
  <2> QED BY <1>8, <2>4, <2>5 DEF Write, Respond, DatabaseTypeOK
<1>9. ASSUME NEW t \in Trans, Prepare(t) PROVE DatabaseTypeOK'
  <2>1. PICK ts \in GetTS :
          /\ rec' = [rec EXCEPT ![t].state = "Prepared", ![t].start_trans = start_ts[t],
                                ![t].self_commit_ts = ts]
          /\ clock' = ts
    BY <1>9 DEF Prepare
  <2>2. ts \in TS /\ clock' \in 1 .. MaxTS
    BY <2>1, StoreTSFacts DEF DatabaseTypeOK
  <2> DEFINE new == [rec[t] EXCEPT !.state = "Prepared", !.start_trans = start_ts[t],
                                   !.self_commit_ts = ts]
  <2>3. rec' = [rec EXCEPT ![t] = new]
    BY <2>1 DEF DatabaseTypeOK
  <2>4. rec[t] \in TransRec /\ start_ts[t] \in TS
    BY DEF DatabaseTypeOK
  <2>5. new \in TransRec
    BY <2>2, <2>4 DEF TransRec
  <2>6. rec' \in [Trans -> TransRec]
    <3> HIDE DEF new
    <3> QED BY <2>3, <2>5 DEF DatabaseTypeOK
  <2> QED BY <1>9, <2>2, <2>6 DEF Prepare, DatabaseTypeOK
<1>10. ASSUME NEW t \in Trans, Commit(t) PROVE DatabaseTypeOK'
  <2>1. PICK now \in GetTS \cup {clock} :
          /\ \E ts \in rec[t].self_commit_ts .. now :
               rec' = [rec EXCEPT ![t].state = "Commited", ![t].commit_trans = ts]
          /\ clock' = now
    BY <1>10 DEF Commit
  <2>2. now \in 1 .. MaxTS
    BY <2>1, StoreTSFacts DEF DatabaseTypeOK
  <2>3. PICK ts \in rec[t].self_commit_ts .. now :
          rec' = [rec EXCEPT ![t].state = "Commited", ![t].commit_trans = ts]
    BY <2>1
  <2>4. rec[t].self_commit_ts \in TS
    BY DEF DatabaseTypeOK, TransRec
  <2>5. ts \in TS
    BY <2>2, <2>3, <2>4, TickAssumption DEF TS
  <2>6. ASSUME NEW r \in TransRec
        PROVE  [r EXCEPT !.state = "Commited", !.commit_trans = ts] \in TransRec
    BY <2>5 DEF TransRec
  <2>7. rec' \in [Trans -> TransRec]
    BY <2>3, <2>6 DEF DatabaseTypeOK
  <2> QED BY <1>10, <2>1, <2>2, <2>7 DEF Commit, DatabaseTypeOK
<1>11. ASSUME NEW t \in Trans, Rollback(t) PROVE DatabaseTypeOK'
  BY <1>11 DEF Rollback, DatabaseTypeOK, TransRec
<1>12. ASSUME Crash PROVE DatabaseTypeOK'
  BY <1>12, RestartType DEF Crash, DatabaseTypeOK
<1>13. ASSUME NEW t \in Trans, CrashInWrite(t) PROVE DatabaseTypeOK'
  <2>1. req[t].key \in Key
    BY <1>13, RequestType DEF CrashInWrite, Request
  <2>2. data' \in [Key -> [Trans -> Version \cup {NoVersion}]]
    BY <1>13, <2>1, CopiedType DEF CrashInWrite, DatabaseTypeOK
  <2> QED BY <1>13, <2>2, RestartType DEF CrashInWrite, DatabaseTypeOK
<1>14. CASE UNCHANGED storeVars
  BY <1>14 DEF storeVars, DatabaseTypeOK
<1>15. ASSUME NEW t \in Trans, NEW k \in Key, NEW type \in {"get", "get_for_update"},
              Receive(t, type, k, CHOOSE value \in Value : TRUE)
       PROVE  DatabaseTypeOK'
  BY <1>5, <1>15, ValueAssumption
<1> QED
  BY <1>1, <1>2, <1>3, <1>4, <1>5, <1>6, <1>7, <1>8, <1>9, <1>10, <1>11, <1>12, <1>13,
     <1>14, <1>15, ValueAssumption
  DEF StoreNext, Serve, Decide

\* The records of the database, the sessions and the clock keep to their types.
THEOREM DatabaseTypeCorrect == StoreSpec => []DatabaseTypeOK
BY DatabaseTypeInit, DatabaseTypeNext, PTL DEF StoreSpec

-----------------------------------------------------------------------------
LEMMA WritersExcludeInit == StoreInit => WritersExclude
<1> SUFFICES ASSUME StoreInit, NEW k \in Key, NEW t \in Trans
             PROVE  /\ entry[k].cur_version # t
                    /\ data[k][t] = NoVersion
  BY DEF WritersExclude
<1> QED BY NilAssumption DEF StoreInit, NoVersion

\* A transaction that is over stays over.
LEMMA DecidedStays ==
    ASSUME DatabaseTypeOK, [StoreNext]_storeVars, NEW t \in Trans, Decided(t)
    PROVE  Decided(t)'
<1>1. CASE rec' = rec
  BY <1>1 DEF Decided
<1>2. ASSUME NEW u \in Trans, Begin(u) \/ Prepare(u) \/ Commit(u) \/ Rollback(u) \/ SessionEnd(u)
      PROVE  Decided(t)'
  <2>1. CASE u = t
    <3>1. ~Begin(u) /\ ~Prepare(u)
      BY <2>1 DEF Begin, Prepare, Decided
    <3>2. CASE Commit(u)
      <4>1. rec'[t].state = "Commited"
        BY <2>1, <3>2 DEF Commit, DatabaseTypeOK, TransRec
      <4> QED BY <4>1 DEF Decided
    <3>3. CASE Rollback(u) \/ SessionEnd(u)
      <4>1. rec'[t].state = "Rollback"
        BY <2>1, <3>3 DEF Rollback, SessionEnd, DatabaseTypeOK, TransRec
      <4> QED BY <4>1 DEF Decided
    <3> QED BY <1>2, <3>1, <3>2, <3>3
  <2>2. CASE u # t
    <3>1. rec'[t] = rec[t]
      BY <1>2, <2>2 DEF Begin, Prepare, Commit, Rollback, SessionEnd, DatabaseTypeOK
    <3> QED BY <3>1 DEF Decided
  <2> QED BY <2>1, <2>2
<1>3. ASSUME Restart PROVE Decided(t)'
  BY <1>3 DEF Restart, Decided, DatabaseTypeOK
<1>4. ASSUME NEW u \in Trans,
             ReqBegin(u) \/ ReqCommit(u) \/ Get(u) \/ GetForUpdate(u) \/ Write(u)
      PROVE  rec' = rec
  BY <1>4 DEF ReqBegin, ReqCommit, Get, GetForUpdate, Write
<1>5. ASSUME NEW u \in Trans, NEW k, NEW type, NEW value, Receive(u, type, k, value)
      PROVE  rec' = rec
  BY <1>5 DEF Receive
<1>6. CASE UNCHANGED storeVars
  BY <1>1, <1>6 DEF storeVars
<1> QED
  BY <1>1, <1>2, <1>3, <1>4, <1>5, <1>6
  DEF StoreNext, Serve, Decide, Crash, CrashInWrite

\* Whoever can lock a key finds no other undecided writer on it.
LEMMA LockedOut ==
    ASSUME DatabaseTypeOK, WritersExclude, NEW k \in Key, NEW t \in Trans, CanLock(k, t),
           NEW u \in Trans, entry[k].cur_version = u, u # t
    PROVE  Decided(u)
<1>1. lock[k] = u \/ Decided(u)
  BY DEF WritersExclude
<1> QED BY <1>1, NilAssumption DEF CanLock

LEMMA WritersExcludeNext ==
    DatabaseTypeOK /\ WritersExclude /\ [StoreNext]_storeVars => WritersExclude'
<1> SUFFICES ASSUME DatabaseTypeOK, WritersExclude, [StoreNext]_storeVars,
                    NEW k \in Key, NEW t \in Trans
             PROVE  /\ entry'[k].cur_version = t /\ ~Decided(t)' => lock'[k] = t
                    /\ data'[k][t] # NoVersion => Decided(t)'
  BY DEF WritersExclude
<1> DEFINE Goal == /\ entry'[k].cur_version = t /\ ~Decided(t)' => lock'[k] = t
                   /\ data'[k][t] # NoVersion => Decided(t)'
<1> SUFFICES Goal
  OBVIOUS
<1>1. Decided(t) => Decided(t)'
  BY DecidedStays
<1>2. CASE UNCHANGED <<lock, entry, data>>
  BY <1>1, <1>2 DEF WritersExclude
<1>3. ASSUME NEW u \in Trans, GetForUpdate(u) PROVE Goal
  <2>1. req[u].key \in Key
    BY <1>3, RequestType DEF GetForUpdate, Request
  <2>2. CASE req[u].key = k
    <3>1. lock'[k] = u /\ entry' = entry /\ data' = data /\ CanLock(k, u)
      BY <1>3, <2>1, <2>2 DEF GetForUpdate, DatabaseTypeOK
    <3>2. entry[k].cur_version = t /\ t # u => Decided(t)
      BY <3>1, LockedOut
    <3> QED BY <1>1, <3>1, <3>2 DEF WritersExclude
  <2>3. CASE req[u].key # k
    <3>1. lock'[k] = lock[k] /\ entry' = entry /\ data' = data
      BY <1>3, <2>1, <2>3 DEF GetForUpdate, DatabaseTypeOK
    <3> QED BY <1>1, <3>1 DEF WritersExclude
  <2> QED BY <2>2, <2>3
\* A write and a write cut short by a crash: the lock is the writer's, the
\* copy is of a decided version, the entry is the former or the writer's own.
<1>4. ASSUME NEW u \in Trans, NEW p \in Key, CanLock(p, u),
             lock' = [lock EXCEPT ![p] = u],
             data' \in {data, Copied(p, u)},
             entry' = entry \/ \E e \in Version : /\ e.cur_version = u
                                                   /\ entry' = [entry EXCEPT ![p] = e]
      PROVE  Goal
  <2>1. CASE p = k
    <3>1. lock'[k] = u
      BY <1>4, <2>1 DEF DatabaseTypeOK
    <3>2. entry[k].cur_version = t /\ t # u => Decided(t)
      BY <1>4, <2>1, LockedOut
    <3>3. entry'[k] = entry[k] \/ entry'[k].cur_version = u
      BY <1>4, <2>1 DEF DatabaseTypeOK
    <3>4. data'[k][t] = data[k][t] \/ (entry[k].cur_version = t /\ t # u)
      <4>1. CASE data' = data
        BY <4>1
      <4>2. CASE data' = Copied(k, u)
        <5>1. CASE entry[k].cur_version \in {Nil, u}
          BY <4>2, <5>1 DEF Copied
        <5>2. CASE entry[k].cur_version \notin {Nil, u}
          <6>1. data' = [data EXCEPT ![k][entry[k].cur_version] = entry[k]]
            BY <4>2, <5>2 DEF Copied
          <6> QED BY <5>2, <6>1 DEF DatabaseTypeOK
        <5> QED BY <5>1, <5>2
      <4> QED BY <1>4, <2>1, <4>1, <4>2
    <3> QED BY <1>1, <3>1, <3>2, <3>3, <3>4 DEF WritersExclude
  <2>2. CASE p # k
    <3>1. lock'[k] = lock[k] /\ entry'[k] = entry[k]
      BY <1>4, <2>2 DEF DatabaseTypeOK
    <3>2. data'[k] = data[k]
      BY <1>4, <2>2 DEF Copied, DatabaseTypeOK
    <3> QED BY <1>1, <3>1, <3>2 DEF WritersExclude
  <2> QED BY <2>1, <2>2
<1>5. ASSUME NEW u \in Trans, Write(u) PROVE Goal
  <2>1. req[u] \in Request /\ req[u].type \in {"update", "delete"}
    BY <1>5, RequestType DEF Write
  <2>2. req[u].key \in Key /\ req[u].value \in Value
    BY <2>1 DEF Request
  <2> DEFINE e == NewEntry(req[u].key, u, req[u].type, req[u].value)
  <2>3. e \in Version /\ e.cur_version = u
    BY <2>1, <2>2, NewEntryType DEF NewEntry
  <2>4. /\ CanLock(req[u].key, u)
        /\ lock' = [lock EXCEPT ![req[u].key] = u]
        /\ data' = Copied(req[u].key, u)
        /\ entry' = [entry EXCEPT ![req[u].key] = e]
    BY <1>5 DEF Write
  <2> HIDE DEF e, Goal
  <2> QED BY <1>4, <2>2, <2>3, <2>4
<1>6. ASSUME NEW u \in Trans, CrashInWrite(u) PROVE Goal
  <2>1. req[u].key \in Key
    BY <1>6, RequestType DEF CrashInWrite, Request
  <2> HIDE DEF Goal
  <2> QED BY <1>4, <1>6, <2>1 DEF CrashInWrite
<1>7. ASSUME NEW u \in Trans,
             \/ ReqBegin(u) \/ Begin(u) \/ ReqCommit(u) \/ SessionEnd(u) \/ Get(u)
             \/ Prepare(u) \/ Commit(u) \/ Rollback(u)
             \/ \E p, type, value : Receive(u, type, p, value)
      PROVE  UNCHANGED <<lock, entry, data>>
  BY <1>7 DEF ReqBegin, Begin, ReqCommit, SessionEnd, Get, Prepare, Commit, Rollback, Receive
<1>8. CASE Crash \/ UNCHANGED storeVars
  BY <1>2, <1>8 DEF Crash, storeVars
<1> HIDE DEF Goal
<1> QED BY <1>2, <1>3, <1>5, <1>6, <1>7, <1>8 DEF StoreNext, Serve, Decide

\* A key never has two undecided writers: what the lock of a key protects is
\* written by the transaction that holds it, however many transactions, keys
\* and crashes there are.
THEOREM WritersAreExclusive == StoreSpec => []WritersExclude
BY DatabaseTypeCorrect, WritersExcludeInit, WritersExcludeNext, PTL DEF StoreSpec

-----------------------------------------------------------------------------
(***************************************************************************)
(* The recursive function of Chain.                                        *)
(***************************************************************************)

\* Induction over the naturals, for a set of them.
LEMMA NaturalsFrom0 ==
    ASSUME NEW T, 0 \in T, \A n \in Nat : n \in T => n + 1 \in T
    PROVE  \A n \in Nat : n \in T
<1> DEFINE R == OpToRel(<, Nat)
<1>1. ASSUME Nat \ T # {} PROVE FALSE
  <2>1. PICK m \in Nat \ T : \A y \in Nat \ T : <<y, m>> \notin R
    <3>1. Nat \ T \subseteq Nat
      OBVIOUS
    <3> HIDE DEF R
    <3>2. IsWellFoundedOn(R, Nat)
      BY NatLessThanWellFounded DEF R
    <3> QED BY <1>1, <3>1, <3>2, WFMin
  <2>2. \A y \in Nat \ T : ~(y < m)
    BY <2>1 DEF OpToRel
  <2>3. m \in Nat /\ m \notin T /\ m # 0
    OBVIOUS
  <2>4. m - 1 \in Nat /\ m - 1 < m /\ (m - 1) + 1 = m
    BY <2>3
  <2>5. m - 1 \in T
    BY <2>2, <2>4
  <2> QED BY <2>3, <2>4, <2>5
<1> QED BY <1>1

\* c lists the versions from the entry e along next, by the records d of older
\* versions, and leaves none of these out.
Linked(e, d, c) ==
    /\ c \in Seq(Version)
    /\ e = NoVersion => c = <<>>
    /\ e # NoVersion => Len(c) > 0 /\ c[1] = e
    /\ \A i \in 1 .. Len(c) : i = Len(c) => c[i].next = Nil
    /\ \A i \in 1 .. Len(c) : i # Len(c) =>
         c[i].next = c[i + 1].cur_version /\ d[c[i].next] = c[i + 1]
    /\ \A i, j \in 1 .. Len(c) : c[i].cur_version = c[j].cur_version => i = j
    /\ \A x \in Trans : d[x] # NoVersion =>
         \E i \in 1 .. Len(c) : c[i].cur_version = x /\ d[x] = c[i]

\* The version from which Chain goes on at x.
VersionAt(e, d, x) == IF x = Nil THEN e ELSE d[x]

\* The body of the recursive function of Chain.
FromBody(e, d, g, x) ==
    IF VersionAt(e, d, x) = NoVersion THEN <<>>
    ELSE IF VersionAt(e, d, x).next = Nil THEN <<VersionAt(e, d, x)>>
    ELSE <<VersionAt(e, d, x)>> \o g[VersionAt(e, d, x).next]

LEMMA LinkedFacts ==
    ASSUME NEW e, NEW d, NEW c, Linked(e, d, c)
    PROVE  /\ Len(c) \in Nat /\ c \in Seq(Version)
           /\ \A i \in 1 .. Len(c) :
                /\ c[i] \in Version /\ c[i] # NoVersion
                /\ c[i].cur_version \in Trans /\ c[i].cur_version # Nil
                /\ c[i].next = Nil <=> i = Len(c)
                /\ i # Len(c) => /\ i + 1 \in 1 .. Len(c) /\ c[i].next \in Trans
                                 /\ VersionAt(e, d, c[i].next) = c[i + 1]
           /\ \A x \in Trans \cup {Nil} : VersionAt(e, d, x) # NoVersion =>
                \E i \in 1 .. Len(c) : VersionAt(e, d, x) = c[i]
<1>1. Len(c) \in Nat /\ c \in Seq(Version)
  BY DEF Linked
<1>2. ASSUME NEW i \in 1 .. Len(c)
      PROVE  /\ c[i] \in Version /\ c[i] # NoVersion
             /\ c[i].cur_version \in Trans /\ c[i].cur_version # Nil
  <2>1. c[i] \in Version
    BY <1>1
  <2> QED BY <2>1, NilAssumption DEF Version, NoVersion
<1>3. ASSUME NEW i \in 1 .. Len(c)
      PROVE  /\ c[i].next = Nil <=> i = Len(c)
             /\ i # Len(c) => /\ i + 1 \in 1 .. Len(c) /\ c[i].next \in Trans
                              /\ VersionAt(e, d, c[i].next) = c[i + 1]
  <2>1. CASE i = Len(c)
    BY <2>1 DEF Linked
  <2>2. CASE i # Len(c)
    <3>1. i + 1 \in 1 .. Len(c)
      BY <1>1, <2>2
    <3>2. c[i].next = c[i + 1].cur_version /\ d[c[i].next] = c[i + 1]
      BY <2>2 DEF Linked
    <3>3. c[i].next \in Trans /\ c[i].next # Nil
      BY <1>2, <3>1, <3>2
    <3> QED BY <2>2, <3>1, <3>2, <3>3 DEF VersionAt
  <2> QED BY <2>1, <2>2
<1>4. ASSUME NEW x \in Trans \cup {Nil}, VersionAt(e, d, x) # NoVersion
      PROVE  \E i \in 1 .. Len(c) : VersionAt(e, d, x) = c[i]
  <2>1. CASE x = Nil
    <3>1. Len(c) > 0 /\ c[1] = e /\ VersionAt(e, d, x) = e
      BY <1>4, <2>1 DEF Linked, VersionAt
    <3> QED BY <1>1, <3>1
  <2>2. CASE x # Nil
    BY <1>4, <2>2 DEF Linked, VersionAt
  <2> QED BY <2>1, <2>2
<1> QED BY <1>1, <1>2, <1>3, <1>4

\* What is left of a sequence from its last element.
LEMMA OneLeft ==
    ASSUME NEW S, NEW s \in Seq(S), NEW n \in 1 .. Len(s)
    PROVE  SubSeq(s, n, n) = <<s[n]>>
<1>1. n \in 1 .. Len(s) /\ n \in n .. Len(s) /\ n \in Int /\ n + 1 \in Int
  OBVIOUS
<1>2. SubSeq(s, n, n) = <<s[n]>> \o SubSeq(s, n + 1, n)
  BY <1>1, SubSeqRecursiveFirst
<1>3. SubSeq(s, n + 1, n) = <<>>
  BY <1>1, SubSeqEmpty
<1>4. <<s[n]>> \in Seq(S)
  BY <1>1
<1>5. <<s[n]>> \o <<>> = <<s[n]>>
  BY <1>4, ConcatEmptySeq
<1> QED BY <1>2, <1>3, <1>5

\* There is a function that satisfies the recursion, ...
LEMMA FromExists ==
    ASSUME NEW e, NEW d, NEW c, Linked(e, d, c)
    PROVE  \E g : g = [x \in Trans \cup {Nil} |-> FromBody(e, d, g, x)]
<1> DEFINE S == Trans \cup {Nil}
           At(x) == VersionAt(e, d, x)
           Pos(v) == CHOOSE i \in 1 .. Len(c) : c[i] = v
           Rest(x) == IF At(x) = NoVersion THEN <<>> ELSE SubSeq(c, Pos(At(x)), Len(c))
           g == [x \in S |-> Rest(x)]
<1>1. /\ Len(c) \in Nat /\ c \in Seq(Version)
      /\ \A i \in 1 .. Len(c) :
           /\ c[i] # NoVersion
           /\ c[i].next = Nil <=> i = Len(c)
           /\ i # Len(c) => /\ i + 1 \in 1 .. Len(c) /\ c[i].next \in Trans
                            /\ At(c[i].next) = c[i + 1]
      /\ \A x \in S : At(x) # NoVersion => \E i \in 1 .. Len(c) : At(x) = c[i]
  BY LinkedFacts
<1> HIDE DEF At
<1>2. ASSUME NEW i \in 1 .. Len(c) PROVE Pos(c[i]) = i
  <2>1. Pos(c[i]) \in 1 .. Len(c) /\ c[Pos(c[i])] = c[i]
    OBVIOUS
  <2> QED BY <2>1 DEF Linked
<1> HIDE DEF Pos
<1>3. ASSUME NEW x \in S PROVE Rest(x) = FromBody(e, d, g, x)
  <2>1. CASE At(x) = NoVersion
    BY <2>1 DEF FromBody, At
  <2>2. CASE At(x) # NoVersion
    <3>1. PICK i \in 1 .. Len(c) : At(x) = c[i]
      BY <1>1, <2>2
    <3>2. Rest(x) = SubSeq(c, i, Len(c))
      BY <1>2, <2>2, <3>1
    <3>3. CASE i = Len(c)
      <4>1. SubSeq(c, i, Len(c)) = <<c[i]>>
        BY <1>1, <3>3, OneLeft
      <4>2. FromBody(e, d, g, x) = <<c[i]>>
        BY <1>1, <2>2, <3>1, <3>3 DEF FromBody, At
      <4> QED BY <3>2, <4>1, <4>2
    <3>4. CASE i # Len(c)
      <4>1. /\ i + 1 \in 1 .. Len(c) /\ c[i].next \in S /\ c[i].next # Nil
            /\ At(c[i].next) = c[i + 1] /\ c[i + 1] # NoVersion
        BY <1>1, <3>4
      <4>2. g[c[i].next] = SubSeq(c, i + 1, Len(c))
        BY <1>2, <4>1
      <4>3. SubSeq(c, i, Len(c)) = <<c[i]>> \o SubSeq(c, i + 1, Len(c))
        <5>1. Len(c) \in i .. Len(c)
          BY <1>1
        <5> QED BY <1>1, <5>1, SubSeqRecursiveFirst
      <4> HIDE DEF g
      <4>4. FromBody(e, d, g, x) = <<c[i]>> \o g[c[i].next]
        BY <2>2, <3>1, <4>1 DEF FromBody, At
      <4> QED BY <3>2, <4>2, <4>3, <4>4
    <3> QED BY <3>3, <3>4
  <2> QED BY <2>1, <2>2
<1>4. g = [x \in S |-> FromBody(e, d, g, x)]
  BY <1>3
<1> HIDE DEF g
<1> QED BY <1>4

\* ... and whichever does gives the chain from the entry.
LEMMA FromUnique ==
    ASSUME NEW e, NEW d, NEW c, Linked(e, d, c),
           NEW g, g = [x \in Trans \cup {Nil} |-> FromBody(e, d, g, x)]
    PROVE  g[Nil] = c
<1> DEFINE S == Trans \cup {Nil}
           At(x) == VersionAt(e, d, x)
           Rest(n) == n < Len(c) => \A x \in S :
                        At(x) = c[Len(c) - n] => g[x] = SubSeq(c, Len(c) - n, Len(c))
           T == {n \in Nat : Rest(n)}
<1>1. /\ Len(c) \in Nat /\ c \in Seq(Version)
      /\ \A i \in 1 .. Len(c) :
           /\ c[i] # NoVersion
           /\ c[i].next = Nil <=> i = Len(c)
           /\ i # Len(c) => /\ i + 1 \in 1 .. Len(c) /\ c[i].next \in Trans
                            /\ At(c[i].next) = c[i + 1]
  BY LinkedFacts
<1>2. \A x \in S : g[x] = FromBody(e, d, g, x)
  OBVIOUS
<1> HIDE DEF At
<1>3. Rest(0)
  <2> SUFFICES ASSUME 0 < Len(c), NEW x \in S, At(x) = c[Len(c) - 0]
               PROVE  g[x] = SubSeq(c, Len(c) - 0, Len(c))
    OBVIOUS
  <2> DEFINE n == Len(c)
  <2>1. n \in 1 .. Len(c) /\ n - 0 = n /\ At(x) = c[n]
    BY <1>1
  <2>2. c[n] # NoVersion /\ c[n].next = Nil
    BY <1>1, <2>1
  <2>3. g[x] = FromBody(e, d, g, x)
    BY <1>2
  <2> HIDE DEF n
  <2>4. g[x] = <<c[n]>>
    BY <2>1, <2>2, <2>3 DEF FromBody, At
  <2>5. SubSeq(c, n, n) = <<c[n]>>
    BY <1>1, <2>1, OneLeft
  <2> QED BY <2>1, <2>4, <2>5 DEF n
<1>4. ASSUME NEW n \in Nat, Rest(n) PROVE Rest(n + 1)
  <2> SUFFICES ASSUME n + 1 < Len(c), NEW x \in S, At(x) = c[Len(c) - (n + 1)]
               PROVE  g[x] = SubSeq(c, Len(c) - (n + 1), Len(c))
    OBVIOUS
  <2> DEFINE i == Len(c) - (n + 1)
  <2>1. i \in 1 .. Len(c) /\ i # Len(c) /\ i + 1 = Len(c) - n /\ n < Len(c)
    BY <1>1
  <2>2. At(x) = c[i]
    OBVIOUS
  <2>3. \A y \in S : At(y) = c[i + 1] => g[y] = SubSeq(c, i + 1, Len(c))
    BY <1>4, <2>1
  <2> HIDE DEF i
  <2>4. c[i].next \in S /\ c[i].next # Nil /\ At(c[i].next) = c[i + 1]
    BY <1>1, <2>1
  <2>5. g[x] = <<c[i]>> \o g[c[i].next]
    BY <1>1, <1>2, <2>1, <2>2, <2>4 DEF FromBody, At
  <2>6. SubSeq(c, i, Len(c)) = <<c[i]>> \o SubSeq(c, i + 1, Len(c))
    <3>1. Len(c) \in i .. Len(c)
      BY <1>1, <2>1
    <3> QED BY <1>1, <2>1, <3>1, SubSeqRecursiveFirst
  <2>7. g[x] = SubSeq(c, i, Len(c))
    BY <2>3, <2>4, <2>5, <2>6
  <2> QED BY <2>7 DEF i
<1> HIDE DEF Rest
<1>5. \A n \in Nat : Rest(n)
  <2>1. 0 \in T /\ \A n \in Nat : n \in T => n + 1 \in T
    BY <1>3, <1>4
  <2> HIDE DEF T
  <2>2. \A n \in Nat : n \in T
    BY <2>1, NaturalsFrom0
  <2> QED BY <2>2 DEF T
<1>6. CASE e = NoVersion
  <2>1. c = <<>> /\ At(Nil) = NoVersion
    BY <1>6 DEF Linked, At, VersionAt
  <2> QED BY <1>2, <2>1 DEF FromBody, At
<1>7. CASE e # NoVersion
  <2>1. Len(c) > 0 /\ At(Nil) = c[1]
    BY <1>7 DEF Linked, At, VersionAt
  <2>2. Len(c) - 1 \in Nat /\ Len(c) - 1 < Len(c) /\ Len(c) - (Len(c) - 1) = 1
    BY <1>1, <2>1
  <2>3. Rest(Len(c) - 1)
    BY <1>5, <2>2
  <2>4. g[Nil] = SubSeq(c, 1, Len(c))
    BY <2>1, <2>2, <2>3 DEF Rest
  <2> QED BY <1>1, <2>4, SubSeqFull
<1> QED BY <1>6, <1>7

\* Chain gives the chain, whatever e and d are.
ChainOf(e, d) ==
    LET From[x \in Trans \cup {Nil}] ==
            LET v == IF x = Nil THEN e ELSE d[x]
            IN  IF v = NoVersion THEN <<>>
                ELSE IF v.next = Nil THEN <<v>>
                ELSE <<v>> \o From[v.next]
    IN  From[Nil]

LEMMA ChainOfLinked ==
    ASSUME NEW e, NEW d, NEW c, Linked(e, d, c)
    PROVE  ChainOf(e, d) = c
<1> DEFINE f == CHOOSE g : g = [x \in Trans \cup {Nil} |-> FromBody(e, d, g, x)]
<1>1. f = [x \in Trans \cup {Nil} |-> FromBody(e, d, f, x)]
  BY FromExists
<1>2. ChainOf(e, d) = f[Nil]
  BY DEF ChainOf, FromBody, VersionAt
<1> HIDE DEF f
<1> QED BY <1>1, <1>2, FromUnique

LEMMA ChainLinked ==
    ASSUME NEW k, NEW c, Linked(entry[k], data[k], c)
    PROVE  Chain(k) = c
<1>1. Chain(k) = ChainOf(entry[k], data[k])
  BY DEF Chain, ChainOf
<1> QED BY <1>1, ChainOfLinked

LEMMA ChainLinkedNext ==
    ASSUME NEW k, NEW c, Linked(entry'[k], data'[k], c)
    PROVE  Chain(k)' = c
<1>1. Chain(k)' = ChainOf(entry'[k], data'[k])
  BY DEF Chain, ChainOf
<1> QED BY <1>1, ChainOfLinked

-----------------------------------------------------------------------------
(***************************************************************************)
(* Timestamps, sessions and the states of transactions.                    *)
(***************************************************************************)

\* Whoever has a record has a begin_ts, and nobody else has the same.  An own
\* timestamp is not before the start of the commit, a commit timestamp not
\* before the own one, and none is after the clock.
Times(t) ==
    /\ begin_ts[t] <= clock /\ start_ts[t] <= clock
    /\ rec[t].state # "none" => begin_ts[t] # 0
    /\ \A u \in Trans : begin_ts[t] = begin_ts[u] /\ begin_ts[t] # 0 => t = u
    /\ t \in session => rec[t].state = "Begin"
    /\ req[t] # NoRequest => t \in session /\ start_ts[t] = 0
    /\ rec[t].state \in {"Prepared", "Commited"} =>
         /\ rec[t].start_trans <= rec[t].self_commit_ts
         /\ rec[t].self_commit_ts <= clock
    /\ rec[t].state = "Commited" =>
         rec[t].self_commit_ts <= rec[t].commit_trans /\ rec[t].commit_trans <= clock

TimesInv == \A t \in Trans : Times(t)

\* What a step may do to the record of t.
Moves(t) ==
    \/ rec'[t] = rec[t]
    \/ /\ rec[t].state = "none" /\ begin_ts[t] # 0
       /\ rec'[t] = [rec[t] EXCEPT !.state = "Begin"]
    \/ /\ rec[t].state = "Begin"
       /\ rec'[t] = [rec[t] EXCEPT !.state = "Prepared", !.start_trans = start_ts[t],
                                   !.self_commit_ts = clock']
    \/ /\ rec[t].state = "Prepared"
       /\ \E ts \in rec[t].self_commit_ts .. clock' :
            rec'[t] = [rec[t] EXCEPT !.state = "Commited", !.commit_trans = ts]
    \/ /\ rec[t].state \in {"Begin", "Prepared"}
       /\ rec'[t] = [rec[t] EXCEPT !.state = "Rollback"]

LEMMA GetTSLater ==
    ASSUME DatabaseTypeOK, NEW ts \in GetTS
    PROVE  clock <= ts /\ ts \in 1 .. MaxTS /\ ts # 0
BY StoreTSFacts, TickAssumption DEF GetTS, DatabaseTypeOK

LEMMA ClockForward ==
    ASSUME DatabaseTypeOK, [StoreNext]_storeVars
    PROVE  clock <= clock'
<1>1. clock \in Nat
  BY TickAssumption DEF DatabaseTypeOK
<1>2. ASSUME clock' = clock PROVE clock <= clock'
  BY <1>1, <1>2
<1>3. ASSUME clock' \in GetTS \cup {clock} PROVE clock <= clock'
  BY <1>1, <1>3, GetTSLater
<1>4. ASSUME NEW t \in Trans,
             \/ ReqBegin(t) \/ ReqCommit(t) \/ Commit(t) \/ GetForUpdate(t) \/ Prepare(t)
      PROVE  clock <= clock'
  BY <1>3, <1>4 DEF ReqBegin, ReqCommit, Commit, GetForUpdate, Prepare
<1>5. ASSUME NEW t \in Trans,
             \/ Begin(t) \/ SessionEnd(t) \/ Get(t) \/ Write(t) \/ Rollback(t)
             \/ CrashInWrite(t) \/ \E k, type, value : Receive(t, type, k, value)
      PROVE  clock' = clock
  BY <1>5 DEF Begin, SessionEnd, Get, Write, Rollback, CrashInWrite, Restart, Receive
<1>6. Crash \/ UNCHANGED storeVars => clock' = clock
  BY DEF Crash, Restart, storeVars
<1> QED BY <1>2, <1>4, <1>5, <1>6 DEF StoreNext, Serve, Decide

LEMMA RecMoves ==
    ASSUME DatabaseTypeOK, TimesInv, [StoreNext]_storeVars, NEW t \in Trans
    PROVE  Moves(t)
<1>1. CASE rec' = rec
  BY <1>1 DEF Moves
<1>2. rec[t] \in TransRec /\ \A u \in Trans : rec[u] \in TransRec
  BY DEF DatabaseTypeOK
<1>3. ASSUME NEW u \in Trans, Begin(u) PROVE Moves(t)
  <2>1. rec' = [rec EXCEPT ![u] = [rec[u] EXCEPT !.state = "Begin"]]
        /\ begin_ts[u] # 0 /\ rec[u].state = "none"
    BY <1>3 DEF Begin
  <2> QED BY <2>1 DEF Moves, DatabaseTypeOK
<1>4. ASSUME NEW u \in Trans, Prepare(u) PROVE Moves(t)
  <2>1. rec' = [rec EXCEPT ![u] = [rec[u] EXCEPT !.state = "Prepared",
                                   !.start_trans = start_ts[u], !.self_commit_ts = clock']]
        /\ rec[u].state = "Begin"
    BY <1>4 DEF Prepare, DatabaseTypeOK
  <2> QED BY <2>1 DEF Moves, DatabaseTypeOK
<1>5. ASSUME NEW u \in Trans, Commit(u) PROVE Moves(t)
  <2>1. PICK ts \in rec[u].self_commit_ts .. clock' :
          rec' = [rec EXCEPT ![u] = [rec[u] EXCEPT !.state = "Commited", !.commit_trans = ts]]
    BY <1>5 DEF Commit, DatabaseTypeOK
  <2>2. rec[u].state = "Prepared"
    BY <1>5 DEF Commit
  <2> QED BY <2>1, <2>2 DEF Moves, DatabaseTypeOK
<1>6. ASSUME NEW u \in Trans, Rollback(u) \/ SessionEnd(u) PROVE Moves(t)
  <2>1. rec' = [rec EXCEPT ![u] = [rec[u] EXCEPT !.state = "Rollback"]]
        /\ rec[u].state \in {"Begin", "Prepared"}
    BY <1>6 DEF Rollback, SessionEnd, TimesInv, Times
  <2> QED BY <2>1 DEF Moves, DatabaseTypeOK
<1>7. ASSUME Restart PROVE Moves(t)
  BY <1>7 DEF Restart, Moves
<1>8. ASSUME NEW u \in Trans,
             ReqBegin(u) \/ ReqCommit(u) \/ Get(u) \/ GetForUpdate(u) \/ Write(u)
      PROVE  rec' = rec
  BY <1>8 DEF ReqBegin, ReqCommit, Get, GetForUpdate, Write
<1>9. ASSUME NEW u \in Trans, NEW k, NEW type, NEW value, Receive(u, type, k, value)
      PROVE  rec' = rec
  BY <1>9 DEF Receive
<1>10. CASE UNCHANGED storeVars
  BY <1>1, <1>10 DEF storeVars
<1> QED
  BY <1>1, <1>3, <1>4, <1>5, <1>6, <1>7, <1>8, <1>9, <1>10
  DEF StoreNext, Serve, Decide, Crash, CrashInWrite

LEMMA TimesInit == StoreInit => TimesInv
<1> SUFFICES ASSUME StoreInit, NEW t \in Trans PROVE Times(t)
  BY DEF TimesInv
<1>1. /\ begin_ts[t] = 0 /\ start_ts[t] = 0 /\ clock = 1 /\ rec[t] = NotFound
      /\ session = {} /\ req[t] = NoRequest
  BY DEF StoreInit
<1>2. rec[t].state = "none"
  BY <1>1 DEF NotFound
<1> QED BY <1>1, <1>2 DEF Times

\* Timestamps that are given out stay, and stay unique.
LEMMA BeginTSStays ==
    ASSUME DatabaseTypeOK, TimesInv, [StoreNext]_storeVars, NEW t \in Trans
    PROVE  /\ begin_ts[t] # 0 => begin_ts'[t] = begin_ts[t]
           /\ begin_ts'[t] <= clock'
           /\ \A u \in Trans : begin_ts'[t] = begin_ts'[u] /\ begin_ts'[t] # 0 => t = u
<1>1. clock <= clock' /\ clock \in Nat /\ clock' \in Nat
  BY ClockForward, DatabaseTypeNext, TickAssumption DEF DatabaseTypeOK
<1>2. begin_ts[t] <= clock /\ begin_ts \in [Trans -> Nat]
  BY DEF TimesInv, Times, DatabaseTypeOK, TS
<1>3. CASE begin_ts' = begin_ts
  BY <1>1, <1>2, <1>3 DEF TimesInv, Times
<1>4. ASSUME NEW v \in Trans, ReqBegin(v)
      PROVE  /\ begin_ts[t] # 0 => begin_ts'[t] = begin_ts[t]
             /\ begin_ts'[t] <= clock'
             /\ \A u \in Trans : begin_ts'[t] = begin_ts'[u] /\ begin_ts'[t] # 0 => t = u
  <2>1. PICK ts \in GetTS : /\ \A u \in Trans : begin_ts[u] # ts
                            /\ begin_ts' = [begin_ts EXCEPT ![v] = ts] /\ clock' = ts
    BY <1>4 DEF ReqBegin
  <2>2. begin_ts[v] = 0
    BY <1>4 DEF ReqBegin
  <2>3. begin_ts'[v] = ts /\ \A u \in Trans \ {v} : begin_ts'[u] = begin_ts[u]
    BY <1>2, <2>1
  <2>4. begin_ts'[t] <= clock'
    BY <1>1, <1>2, <2>1, <2>3
  <2> QED BY <2>1, <2>2, <2>3, <2>4 DEF TimesInv, Times
<1>5. ASSUME NEW u \in Trans,
             \/ Begin(u) \/ ReqCommit(u) \/ SessionEnd(u) \/ Get(u) \/ GetForUpdate(u)
             \/ Write(u) \/ Prepare(u) \/ Commit(u) \/ Rollback(u) \/ CrashInWrite(u)
             \/ \E k, type, value : Receive(u, type, k, value)
      PROVE  begin_ts' = begin_ts
  BY <1>5 DEF Begin, ReqCommit, SessionEnd, Get, GetForUpdate, Write, Prepare, Commit,
              Rollback, CrashInWrite, Restart, Receive
<1>6. Crash \/ UNCHANGED storeVars => begin_ts' = begin_ts
  BY DEF Crash, Restart, storeVars
<1> QED BY <1>3, <1>4, <1>5, <1>6 DEF StoreNext, Serve, Decide

\* A session is open only while its transaction is, and serves one request at
\* a time, none of them after the commit request.
LEMMA SessionsNext ==
    ASSUME DatabaseTypeOK, TimesInv, [StoreNext]_storeVars, NEW t \in Trans
    PROVE  /\ t \in session' => rec'[t].state = "Begin"
           /\ req'[t] # NoRequest => t \in session' /\ start_ts'[t] = 0
           /\ start_ts'[t] <= clock'
<1> DEFINE Goal == /\ t \in session' => rec'[t].state = "Begin"
                   /\ req'[t] # NoRequest => t \in session' /\ start_ts'[t] = 0
                   /\ start_ts'[t] <= clock'
<1> SUFFICES Goal
  OBVIOUS
<1>1. /\ clock <= clock' /\ clock \in Nat /\ clock' \in Nat
      /\ start_ts[t] <= clock /\ start_ts[t] \in Nat
  BY ClockForward, DatabaseTypeNext, TickAssumption DEF DatabaseTypeOK, TS, TimesInv, Times
<1>2. start_ts[t] <= clock'
  BY <1>1
<1>3. /\ t \in session => rec[t].state = "Begin"
      /\ req[t] # NoRequest => t \in session /\ start_ts[t] = 0
      /\ rec \in [Trans -> TransRec] /\ req \in [Trans -> Request \cup {NoRequest}]
      /\ start_ts \in [Trans -> TS]
  BY DEF TimesInv, Times, DatabaseTypeOK
<1>4. CASE UNCHANGED <<session, rec, req, start_ts>>
  BY <1>2, <1>3, <1>4
<1>5. ASSUME NEW u \in Trans, Begin(u) PROVE Goal
  <2>1. /\ rec'[u].state = "Begin" /\ \A v \in Trans \ {u} : rec'[v] = rec[v]
        /\ session' = session \cup {u} /\ req' = req /\ start_ts' = start_ts
    BY <1>3, <1>5 DEF Begin, TransRec
  <2> QED BY <1>2, <1>3, <2>1
<1>6. ASSUME NEW u \in Trans, ReqCommit(u) PROVE Goal
  <2>1. PICK ts : start_ts' = [start_ts EXCEPT ![u] = ts] /\ clock' = ts
    BY <1>6 DEF ReqCommit
  <2>2. req[u] = NoRequest /\ UNCHANGED <<session, rec, req>>
    BY <1>6 DEF ReqCommit
  <2> QED BY <1>1, <1>2, <1>3, <2>1, <2>2
<1>7. ASSUME NEW u \in Trans, SessionEnd(u) PROVE Goal
  <2>1. /\ session' = session \ {u} /\ req' = [req EXCEPT ![u] = NoRequest]
        /\ start_ts' = start_ts /\ \A v \in Trans \ {u} : rec'[v] = rec[v]
    BY <1>3, <1>7 DEF SessionEnd
  <2> QED BY <1>2, <1>3, <2>1
<1>8. ASSUME NEW u \in Trans, req[u] # NoRequest, NEW new,
             req' = [req EXCEPT ![u] = new], UNCHANGED <<session, rec, start_ts>>
      PROVE  Goal
  BY <1>2, <1>3, <1>8
<1>9. ASSUME NEW u \in Trans, Get(u) \/ GetForUpdate(u) \/ Write(u) PROVE Goal
  <2>1. UNCHANGED <<session, rec, start_ts>> /\ req[u] # NoRequest
    BY <1>9 DEF Get, GetForUpdate, Write, NoRequest
  <2>2. \E new : req' = [req EXCEPT ![u] = new]
    <3>1. CASE Get(u)
      BY <3>1 DEF Get, Read, Respond
    <3>2. CASE GetForUpdate(u)
      <4>1. PICK ts : Read(u, ts)
        BY <3>2 DEF GetForUpdate
      <4> QED BY <4>1 DEF Read, Respond
    <3>3. CASE Write(u)
      BY <3>3 DEF Write, Respond
    <3> QED BY <1>9, <3>1, <3>2, <3>3
  <2> QED BY <1>8, <2>1, <2>2
<1>10. ASSUME NEW u \in Trans, NEW k, NEW type, NEW value, Receive(u, type, k, value)
       PROVE  Goal
  <2>1. /\ u \in session /\ start_ts[u] = 0 /\ UNCHANGED <<session, rec, start_ts>>
        /\ \A v \in Trans \ {u} : req'[v] = req[v]
    BY <1>3, <1>10 DEF Receive
  <2> QED BY <1>2, <1>3, <2>1
<1>11. ASSUME NEW u \in Trans, Prepare(u) PROVE Goal
  <2>1. /\ session' = session \ {u} /\ req' = req /\ start_ts' = start_ts /\ start_ts[u] # 0
        /\ \A v \in Trans \ {u} : rec'[v] = rec[v]
    BY <1>3, <1>11 DEF Prepare
  <2>2. req[u] = NoRequest
    BY <2>1 DEF TimesInv, Times
  <2> QED BY <1>2, <1>3, <2>1, <2>2
<1>12. ASSUME NEW u \in Trans, Commit(u) \/ Rollback(u) PROVE Goal
  <2>1. /\ UNCHANGED <<session, req, start_ts>> /\ rec[u].state = "Prepared"
        /\ \A v \in Trans \ {u} : rec'[v] = rec[v]
    BY <1>3, <1>12 DEF Commit, Rollback
  <2> QED BY <1>2, <1>3, <2>1
<1>13. ASSUME Restart PROVE Goal
  BY <1>2, <1>13 DEF Restart
<1>14. ASSUME NEW u \in Trans, ReqBegin(u) PROVE UNCHANGED <<session, rec, req, start_ts>>
  BY <1>14 DEF ReqBegin
<1>15. CASE UNCHANGED storeVars
  BY <1>4, <1>15 DEF storeVars
<1> HIDE DEF Goal
<1> QED
  BY <1>4, <1>5, <1>6, <1>7, <1>9, <1>10, <1>11, <1>12, <1>13, <1>14, <1>15
  DEF StoreNext, Serve, Decide, Crash, CrashInWrite

LEMMA TimesNext == DatabaseTypeOK /\ TimesInv /\ [StoreNext]_storeVars => TimesInv'
<1> SUFFICES ASSUME DatabaseTypeOK, TimesInv, [StoreNext]_storeVars, NEW t \in Trans
             PROVE  Times(t)'
  BY DEF TimesInv
<1>1. Times(t) /\ Moves(t)
  BY RecMoves DEF TimesInv
<1>2. /\ rec[t] \in TransRec /\ clock \in Nat /\ clock' \in Nat /\ clock <= clock'
      /\ rec[t].self_commit_ts \in Nat /\ rec[t].start_trans \in Nat
      /\ rec[t].commit_trans \in Nat /\ start_ts[t] \in Nat
  BY ClockForward, DatabaseTypeNext, TickAssumption DEF DatabaseTypeOK, TransRec, TS
<1>3. /\ begin_ts[t] # 0 => begin_ts'[t] = begin_ts[t]
      /\ begin_ts'[t] <= clock'
      /\ \A u \in Trans : begin_ts'[t] = begin_ts'[u] /\ begin_ts'[t] # 0 => t = u
  BY BeginTSStays
<1>4. rec'[t].state # "none" => begin_ts[t] # 0
  BY <1>1, <1>2 DEF Moves, Times, TransRec
<1>5. /\ rec'[t].state \in {"Prepared", "Commited"} =>
           /\ rec'[t].start_trans <= rec'[t].self_commit_ts
           /\ rec'[t].self_commit_ts <= clock'
      /\ rec'[t].state = "Commited" =>
           /\ rec'[t].self_commit_ts <= rec'[t].commit_trans
           /\ rec'[t].commit_trans <= clock'
  <2>1. CASE rec'[t] = rec[t]
    BY <1>1, <1>2, <2>1 DEF Times
  <2>2. CASE /\ rec[t].state = "Begin"
             /\ rec'[t] = [rec[t] EXCEPT !.state = "Prepared", !.start_trans = start_ts[t],
                                         !.self_commit_ts = clock']
    <3>1. /\ rec'[t].state = "Prepared" /\ rec'[t].start_trans = start_ts[t]
          /\ rec'[t].self_commit_ts = clock'
      BY <1>2, <2>2 DEF TransRec
    <3> QED BY <1>1, <1>2, <3>1 DEF Times
  <2>3. ASSUME rec[t].state = "Prepared", NEW ts \in rec[t].self_commit_ts .. clock',
               rec'[t] = [rec[t] EXCEPT !.state = "Commited", !.commit_trans = ts]
        PROVE  /\ rec'[t].start_trans <= rec'[t].self_commit_ts
               /\ rec'[t].self_commit_ts <= clock'
               /\ rec'[t].self_commit_ts <= rec'[t].commit_trans
               /\ rec'[t].commit_trans <= clock'
    <3>1. /\ rec'[t].start_trans = rec[t].start_trans
          /\ rec'[t].self_commit_ts = rec[t].self_commit_ts
          /\ rec'[t].commit_trans = ts
      BY <1>2, <2>3 DEF TransRec
    <3> QED BY <1>1, <1>2, <2>3, <3>1 DEF Times
  <2>4. CASE \/ rec'[t] = [rec[t] EXCEPT !.state = "Begin"]
             \/ rec'[t] = [rec[t] EXCEPT !.state = "Rollback"]
    <3>1. rec'[t].state \in {"Begin", "Rollback"}
      BY <1>2, <2>4 DEF TransRec
    <3> QED BY <3>1
  <2> QED BY <1>1, <2>1, <2>2, <2>3, <2>4 DEF Moves
<1>6. /\ t \in session' => rec'[t].state = "Begin"
      /\ req'[t] # NoRequest => t \in session' /\ start_ts'[t] = 0
      /\ start_ts'[t] <= clock'
  BY SessionsNext
<1> QED BY <1>3, <1>4, <1>5, <1>6 DEF Times

-----------------------------------------------------------------------------
(***************************************************************************)
(* What a write does to a chain.                                           *)
(***************************************************************************)

\* The former entry is copied before it is replaced: that changes nothing.
LEMMA LinkedCopy ==
    ASSUME NEW e, NEW d \in [Trans -> Version \cup {NoVersion}], NEW c, Linked(e, d, c),
           e # NoVersion
    PROVE  Linked(e, [d EXCEPT ![e.cur_version] = e], c)
<1> DEFINE new == [d EXCEPT ![e.cur_version] = e]
<1>1. /\ Len(c) \in Nat /\ Len(c) > 0 /\ c[1] = e /\ 1 \in 1 .. Len(c)
      /\ e.cur_version \in Trans
  <2>1. Len(c) \in Nat /\ Len(c) > 0 /\ c[1] = e
    BY DEF Linked
  <2>2. 1 \in 1 .. Len(c)
    BY <2>1
  <2> QED BY <2>1, <2>2, LinkedFacts
<1>2. new[e.cur_version] = e /\ \A x \in Trans \ {e.cur_version} : new[x] = d[x]
  BY <1>1
<1> HIDE DEF new
<1>3. ASSUME NEW i \in 1 .. Len(c), i # Len(c)
      PROVE  c[i].next = c[i + 1].cur_version /\ new[c[i].next] = c[i + 1]
  <2>1. i + 1 \in 1 .. Len(c) /\ i + 1 # 1 /\ c[i].next \in Trans
    BY <1>1, <1>3, LinkedFacts
  <2>2. c[i].next = c[i + 1].cur_version /\ d[c[i].next] = c[i + 1]
    BY <1>3 DEF Linked
  <2>3. c[i + 1].cur_version # c[1].cur_version
    BY <1>1, <2>1 DEF Linked
  <2> QED BY <1>1, <1>2, <2>1, <2>2, <2>3
<1>4. ASSUME NEW x \in Trans, new[x] # NoVersion
      PROVE  \E i \in 1 .. Len(c) : c[i].cur_version = x /\ new[x] = c[i]
  BY <1>1, <1>2, <1>4 DEF Linked
<1>5. Linked(e, new, c)
  BY <1>3, <1>4 DEF Linked
<1> QED BY <1>5 DEF new

\* A transaction writes the key for the first time.
LEMMA LinkedPush ==
    ASSUME NEW e, NEW d, NEW c, Linked(e, d, c), NEW v \in Version,
           v.next = e.cur_version, e = NoVersion \/ d[e.cur_version] = e,
           \A i \in 1 .. Len(c) : c[i].cur_version # v.cur_version
    PROVE  Linked(v, d, <<v>> \o c)
<1> DEFINE new == <<v>> \o c
<1>1. Len(c) \in Nat /\ c \in Seq(Version)
  BY DEF Linked
<1>2. /\ new \in Seq(Version) /\ Len(new) = Len(c) + 1 /\ new[1] = v
      /\ \A i \in 1 .. Len(c) : new[i + 1] = c[i]
  BY <1>1
<1> HIDE DEF new
<1>3. \A i \in 1 .. Len(new) : i = 1 \/ (i - 1 \in 1 .. Len(c) /\ new[i] = c[i - 1])
  <2> SUFFICES ASSUME NEW i \in 1 .. Len(new), i # 1
               PROVE  i - 1 \in 1 .. Len(c) /\ new[i] = c[i - 1]
    OBVIOUS
  <2>1. i - 1 \in 1 .. Len(c) /\ (i - 1) + 1 = i
    BY <1>1, <1>2
  <2> QED BY <1>2, <2>1
<1>4. v # NoVersion
  BY NilAssumption DEF Version, NoVersion
<1>5. ASSUME NEW i \in 1 .. Len(new), i = Len(new) PROVE new[i].next = Nil
  <2>1. CASE i = 1
    <3>1. Len(c) = 0
      BY <1>1, <1>2, <1>5, <2>1
    <3>2. e = NoVersion
      BY <3>1 DEF Linked
    <3> QED BY <1>2, <2>1, <3>2 DEF NoVersion
  <2>2. CASE i # 1
    <3>1. i - 1 \in 1 .. Len(c) /\ new[i] = c[i - 1] /\ i - 1 = Len(c)
      BY <1>1, <1>2, <1>3, <1>5, <2>2
    <3> QED BY <3>1 DEF Linked
  <2> QED BY <2>1, <2>2
<1>6. ASSUME NEW i \in 1 .. Len(new), i # Len(new)
      PROVE  new[i].next = new[i + 1].cur_version /\ d[new[i].next] = new[i + 1]
  <2>1. CASE i = 1
    <3>1. Len(c) > 0 /\ new[2] = c[1] /\ i + 1 = 2
      <4>1. Len(c) > 0 /\ 1 \in 1 .. Len(c) /\ 1 + 1 = 2
        BY <1>1, <1>2, <1>6, <2>1
      <4> QED BY <1>2, <2>1, <4>1
    <3>2. e # NoVersion /\ c[1] = e
      BY <1>1, <3>1 DEF Linked
    <3> QED BY <1>2, <2>1, <3>1, <3>2
  <2>2. CASE i # 1
    <3>1. i - 1 \in 1 .. Len(c) /\ new[i] = c[i - 1] /\ i - 1 # Len(c)
      BY <1>1, <1>2, <1>3, <1>6, <2>2
    <3>2. i \in 1 .. Len(c) /\ (i - 1) + 1 = i
      BY <1>1, <3>1
    <3>3. new[i + 1] = c[i]
      BY <1>2, <3>2
    <3> QED BY <3>1, <3>2, <3>3 DEF Linked
  <2> QED BY <2>1, <2>2
<1>7. ASSUME NEW i \in 1 .. Len(new), NEW j \in 1 .. Len(new),
             new[i].cur_version = new[j].cur_version
      PROVE  i = j
  <2>1. CASE i = 1 \/ j = 1
    BY <1>2, <1>3, <1>7, <2>1
  <2>2. CASE i # 1 /\ j # 1
    <3>1. i - 1 = j - 1
      BY <1>3, <1>7, <2>2 DEF Linked
    <3> QED BY <3>1
  <2> QED BY <2>1, <2>2
<1>8. ASSUME NEW x \in Trans, d[x] # NoVersion
      PROVE  \E i \in 1 .. Len(new) : new[i].cur_version = x /\ d[x] = new[i]
  <2>1. PICK i \in 1 .. Len(c) : c[i].cur_version = x /\ d[x] = c[i]
    BY <1>8 DEF Linked
  <2>2. i + 1 \in 1 .. Len(new) /\ new[i + 1] = c[i]
    BY <1>1, <1>2
  <2> QED BY <2>1, <2>2
<1>9. Len(new) > 0
  BY <1>1, <1>2
<1>10. Linked(v, d, new)
  BY <1>2, <1>4, <1>5, <1>6, <1>7, <1>8, <1>9 DEF Linked
<1> QED BY <1>10 DEF new

\* It writes the key again.
LEMMA LinkedReplace ==
    ASSUME NEW e, NEW d, NEW c, Linked(e, d, c), e # NoVersion, NEW v \in Version,
           v.next = e.next, v.cur_version = e.cur_version, d[e.cur_version] = NoVersion
    PROVE  Linked(v, d, [c EXCEPT ![1] = v])
<1> DEFINE new == [c EXCEPT ![1] = v]
<1>1. Len(c) \in Nat /\ c \in Seq(Version) /\ Len(c) > 0 /\ c[1] = e
  BY DEF Linked
<1>2. /\ new \in Seq(Version) /\ Len(new) = Len(c) /\ new[1] = v
      /\ \A i \in 1 .. Len(c) : i # 1 => new[i] = c[i]
  BY <1>1
<1> HIDE DEF new
<1>3. v # NoVersion
  BY NilAssumption DEF Version, NoVersion
<1>4. \A i \in 1 .. Len(c) : new[i].next = c[i].next /\ new[i].cur_version = c[i].cur_version
  BY <1>1, <1>2
<1>5. ASSUME NEW i \in 1 .. Len(new), i # Len(new)
      PROVE  new[i].next = new[i + 1].cur_version /\ d[new[i].next] = new[i + 1]
  <2>1. i + 1 \in 1 .. Len(c) /\ i + 1 # 1 /\ i # Len(c)
    BY <1>1, <1>2, <1>5
  <2>2. c[i].next = c[i + 1].cur_version /\ d[c[i].next] = c[i + 1]
    BY <1>2, <2>1 DEF Linked
  <2> QED BY <1>2, <1>4, <2>1, <2>2
<1>6. ASSUME NEW x \in Trans, d[x] # NoVersion
      PROVE  \E i \in 1 .. Len(new) : new[i].cur_version = x /\ d[x] = new[i]
  <2>1. PICK i \in 1 .. Len(c) : c[i].cur_version = x /\ d[x] = c[i]
    BY <1>6 DEF Linked
  <2>2. i # 1
    BY <1>1, <1>6, <2>1
  <2> QED BY <1>2, <2>1, <2>2
<1>7. /\ \A i \in 1 .. Len(new) : i = Len(new) => new[i].next = Nil
      /\ \A i, j \in 1 .. Len(new) : new[i].cur_version = new[j].cur_version => i = j
      /\ Len(new) > 0
  BY <1>1, <1>2, <1>4 DEF Linked
<1>8. Linked(v, d, new)
  BY <1>2, <1>3, <1>5, <1>6, <1>7 DEF Linked
<1> QED BY <1>8 DEF new

\* Transaction t, whose session is open and which can lock k, has written the
\* newest version of k: the chain was c and now is d.
Grown(k, c, d) ==
    \E t \in session, v \in Version :
        /\ v.cur_version = t /\ CanLock(k, t)
        /\ \/ entry[k].cur_version # t /\ d = <<v>> \o c
           \/ entry[k].cur_version = t /\ d = [c EXCEPT ![1] = v]

\* The versions below the entry are of transactions that are over.
LEMMA OlderDecided ==
    ASSUME WritersExclude, NEW k \in Key, NEW c, Linked(entry[k], data[k], c),
           NEW i \in 1 .. Len(c), i # 1
    PROVE  Decided(c[i].cur_version) /\ c[i].cur_version \in Trans
<1>1. i - 1 \in 1 .. Len(c) /\ i - 1 # Len(c) /\ (i - 1) + 1 = i
  BY LinkedFacts
<1>2. c[i - 1].next = c[i].cur_version /\ data[k][c[i - 1].next] = c[i]
  BY <1>1 DEF Linked
<1>3. c[i] # NoVersion /\ c[i].cur_version \in Trans
  BY LinkedFacts
<1> QED BY <1>2, <1>3 DEF WritersExclude

\* The entry is that of the chain.
LEMMA EntryOfChain ==
    ASSUME DatabaseTypeOK, NEW k \in Key, NEW c, Linked(entry[k], data[k], c)
    PROVE  /\ entry[k].cur_version = Nil <=> Len(c) = 0
           /\ entry[k].cur_version # Nil =>
                /\ entry[k] \in Version /\ entry[k].cur_version \in Trans
                /\ 1 \in 1 .. Len(c) /\ c[1] = entry[k]
<1>1. Len(c) \in Nat
  BY DEF Linked
<1>2. /\ entry[k].cur_version = Nil <=> entry[k] = NoVersion
      /\ entry[k].cur_version # Nil => entry[k] \in Version /\ entry[k].cur_version \in Trans
  BY EntryType
<1>3. entry[k] = NoVersion => Len(c) = 0
  BY DEF Linked
<1>4. entry[k] # NoVersion => Len(c) > 0 /\ c[1] = entry[k]
  BY DEF Linked
<1> QED BY <1>1, <1>2, <1>3, <1>4

LEMMA WriteGrows ==
    ASSUME DatabaseTypeOK, TimesInv, WritersExclude, NEW u \in Trans, Write(u),
           NEW k \in Key, NEW c, Linked(entry[k], data[k], c)
    PROVE  \E d : /\ Linked(entry'[k], data'[k], d)
                  /\ d = c \/ (req[u].key = k /\ Grown(k, c, d))
<1>1. /\ req[u] \in Request /\ req[u].type \in {"update", "delete"} /\ req[u] # NoRequest
      /\ req[u].key \in Key /\ req[u].value \in Value
  BY RequestType DEF Write, Request, NoRequest
<1>2. u \in session /\ rec[u].state = "Begin"
  BY <1>1 DEF TimesInv, Times
<1>3. CASE req[u].key # k
  <2>1. entry'[k] = entry[k] /\ data'[k] = data[k]
    BY <1>1, <1>3 DEF Write, Copied, DatabaseTypeOK
  <2> QED BY <2>1
<1>4. CASE req[u].key = k
  <2> DEFINE v == NewEntry(k, u, req[u].type, req[u].value)
  <2>1. /\ CanLock(k, u) /\ data' = Copied(k, u) /\ entry'[k] = v
        /\ v \in Version /\ v.cur_version = u
        /\ v.next = IF entry[k].cur_version = u THEN entry[k].next ELSE entry[k].cur_version
    <3>1. v \in Version
      BY <1>1, NewEntryType
    <3>2. /\ v.cur_version = u
          /\ v.next = IF entry[k].cur_version = u THEN entry[k].next ELSE entry[k].cur_version
      BY DEF NewEntry
    <3> HIDE DEF v
    <3>3. CanLock(k, u) /\ data' = Copied(k, u) /\ entry' = [entry EXCEPT ![k] = v]
      BY <1>4 DEF Write, v
    <3> QED BY <3>1, <3>2, <3>3 DEF DatabaseTypeOK
  <2> HIDE DEF v
  <2>2. data[k][u] = NoVersion
    BY <1>2 DEF WritersExclude, Decided
  <2>3. data[k] \in [Trans -> Version \cup {NoVersion}]
    BY DEF DatabaseTypeOK
  <2>4. CASE entry[k].cur_version = u
    <3>1. data' = data /\ entry[k] # NoVersion /\ v.next = entry[k].next
      BY <2>1, <2>4, NilAssumption DEF Copied, NoVersion
    <3>2. Linked(v, data[k], [c EXCEPT ![1] = v])
      BY <2>1, <2>2, <2>4, <3>1, LinkedReplace
    <3> QED BY <1>2, <1>4, <2>1, <2>4, <3>1, <3>2 DEF Grown
  <2>5. CASE entry[k].cur_version # u
    <3>1. v.next = entry[k].cur_version
      BY <2>1, <2>5
    <3>2. ASSUME NEW i \in 1 .. Len(c) PROVE c[i].cur_version # u
      <4>1. CASE i = 1
        BY <2>5, <4>1, EntryOfChain
      <4>2. CASE i # 1
        <5>1. Decided(c[i].cur_version)
          BY <4>2, OlderDecided
        <5> QED BY <1>2, <5>1 DEF Decided
      <4> QED BY <4>1, <4>2
    <3>3. Linked(entry[k], data'[k], c) /\ (entry[k] = NoVersion \/ data'[k][entry[k].cur_version] = entry[k])
      <4>1. CASE entry[k].cur_version = Nil
        <5>1. data' = data /\ entry[k] = NoVersion
          BY <2>1, <4>1, EntryType DEF Copied
        <5> QED BY <5>1
      <4>2. CASE entry[k].cur_version # Nil
        <5>1. /\ entry[k] # NoVersion /\ entry[k].cur_version \in Trans
              /\ data'[k] = [data[k] EXCEPT ![entry[k].cur_version] = entry[k]]
          BY <2>1, <2>5, <4>2, EntryType DEF Copied, DatabaseTypeOK
        <5>2. Linked(entry[k], data'[k], c)
          BY <2>3, <5>1, LinkedCopy
        <5>3. data'[k][entry[k].cur_version] = entry[k]
          BY <2>3, <5>1
        <5> QED BY <5>2, <5>3
      <4> QED BY <4>1, <4>2
    <3>4. Linked(v, data'[k], <<v>> \o c)
      BY <2>1, <3>1, <3>2, <3>3, LinkedPush
    <3> QED BY <1>2, <1>4, <2>1, <2>5, <3>4 DEF Grown
  <2> QED BY <2>4, <2>5
<1> QED BY <1>3, <1>4

\* Only a write changes what is on a chain.
LEMMA ChainStep ==
    ASSUME DatabaseTypeOK, TimesInv, WritersExclude, [StoreNext]_storeVars,
           NEW k \in Key, NEW c, Linked(entry[k], data[k], c)
    PROVE  \E d : /\ Linked(entry'[k], data'[k], d)
                  /\ \/ d = c
                     \/ \E u \in Trans : Write(u) /\ req[u].key = k /\ Grown(k, c, d)
<1>1. CASE UNCHANGED <<entry, data>>
  BY <1>1
<1>2. ASSUME NEW u \in Trans, Write(u)
      PROVE  \E d : /\ Linked(entry'[k], data'[k], d)
                    /\ \/ d = c
                       \/ \E t \in Trans : Write(t) /\ req[t].key = k /\ Grown(k, c, d)
  BY <1>2, WriteGrows
<1>3. ASSUME NEW u \in Trans, CrashInWrite(u)
      PROVE  Linked(entry'[k], data'[k], c)
  <2>1. req[u].key \in Key /\ entry' = entry /\ data' \in {data, Copied(req[u].key, u)}
    BY <1>3, RequestType DEF CrashInWrite, Request
  <2>2. CASE data'[k] = data[k]
    BY <2>1, <2>2
  <2>3. CASE data'[k] # data[k]
    <3>1. req[u].key = k /\ entry[k].cur_version \notin {Nil, u} /\ data' = Copied(k, u)
      BY <2>1, <2>3 DEF Copied, DatabaseTypeOK
    <3>2. /\ entry[k] # NoVersion /\ data[k] \in [Trans -> Version \cup {NoVersion}]
          /\ data'[k] = [data[k] EXCEPT ![entry[k].cur_version] = entry[k]]
      BY <3>1, EntryType DEF Copied, DatabaseTypeOK
    <3> QED BY <2>1, <3>2, LinkedCopy
  <2> QED BY <2>2, <2>3
<1>4. ASSUME NEW u \in Trans,
             \/ ReqBegin(u) \/ Begin(u) \/ ReqCommit(u) \/ SessionEnd(u) \/ Get(u)
             \/ GetForUpdate(u) \/ Prepare(u) \/ Commit(u) \/ Rollback(u)
             \/ \E p, type, value : Receive(u, type, p, value)
      PROVE  UNCHANGED <<entry, data>>
  BY <1>4 DEF ReqBegin, Begin, ReqCommit, SessionEnd, Get, GetForUpdate, Prepare, Commit,
              Rollback, Receive
<1>5. Crash \/ UNCHANGED storeVars => UNCHANGED <<entry, data>>
  BY DEF Crash, storeVars
<1> QED BY <1>1, <1>2, <1>3, <1>4, <1>5 DEF StoreNext, Serve, Decide

-----------------------------------------------------------------------------
(***************************************************************************)
(* The order of a chain.                                                   *)
(***************************************************************************)

\* Every writer of the chain c has a record, and what is committed on it was
\* so before those further up took their own timestamp.
Ordered(c) ==
    /\ \A i \in 1 .. Len(c) : rec[c[i].cur_version].state # "none"
    /\ \A i, j \in 1 .. Len(c) :
         /\ i < j
         /\ rec[c[j].cur_version].state = "Commited"
         /\ rec[c[i].cur_version].state \in {"Prepared", "Commited"}
         => rec[c[j].cur_version].commit_trans <= rec[c[i].cur_version].self_commit_ts

ChainInv == \A k \in Key : Linked(entry[k], data[k], Chain(k)) /\ Ordered(Chain(k))

LEMMA RecStep ==
    ASSUME DatabaseTypeOK, TimesInv, [StoreNext]_storeVars, NEW t \in Trans
    PROVE  /\ rec[t].state # "none" => rec'[t].state # "none"
           /\ Decided(t) => rec'[t] = rec[t]
           /\ rec'[t].state \in {"Prepared", "Commited"} =>
                \/ /\ rec[t].state \in {"Prepared", "Commited"}
                   /\ rec'[t].self_commit_ts = rec[t].self_commit_ts
                \/ rec'[t].self_commit_ts = clock'
           /\ rec'[t].state = "Commited" =>
                rec'[t] = rec[t] \/ rec[t].state = "Prepared"
<1>1. Moves(t) /\ rec[t] \in TransRec
  BY RecMoves DEF DatabaseTypeOK
<1> QED BY <1>1 DEF Moves, TransRec, Decided

LEMMA OrderedStays ==
    ASSUME DatabaseTypeOK, TimesInv, WritersExclude, [StoreNext]_storeVars,
           NEW k \in Key, NEW c, Linked(entry[k], data[k], c), Ordered(c)
    PROVE  Ordered(c)'
<1>1. \A i \in 1 .. Len(c) : c[i].cur_version \in Trans
  BY LinkedFacts
<1>2. \A i \in 1 .. Len(c) : rec'[c[i].cur_version].state # "none"
  BY <1>1, RecStep DEF Ordered
<1>3. ASSUME NEW i \in 1 .. Len(c), NEW j \in 1 .. Len(c), i < j,
             rec'[c[j].cur_version].state = "Commited",
             rec'[c[i].cur_version].state \in {"Prepared", "Commited"}
      PROVE  rec'[c[j].cur_version].commit_trans <= rec'[c[i].cur_version].self_commit_ts
  <2> DEFINE u == c[j].cur_version
             w == c[i].cur_version
  <2>1. u \in Trans /\ w \in Trans
    BY <1>1
  <2>2. Decided(u)
    <3>1. j # 1
      BY <1>3
    <3> QED BY <3>1, OlderDecided
  <2>3. rec[u].state # "none" /\ rec[w].state # "none"
    BY DEF Ordered
  <2>4. /\ rec[u].state = "Commited"
        /\ rec[w].state \in {"Prepared", "Commited"} =>
             rec[u].commit_trans <= rec[w].self_commit_ts
    <3>1. rec'[u] = rec[u]
      BY <2>1, <2>2, RecStep
    <3> QED BY <1>3, <3>1 DEF Ordered
  <2>5. rec'[u].state = "Commited" /\ rec'[w].state \in {"Prepared", "Commited"}
    BY <1>3
  <2> HIDE DEF u, w
  <2>6. rec'[u] = rec[u]
    BY <2>1, <2>2, RecStep
  <2>7. rec[u].commit_trans <= clock'
    <3>1. rec[u].commit_trans <= clock /\ clock <= clock'
      BY <2>1, <2>4, ClockForward DEF TimesInv, Times
    <3>2. clock \in Nat /\ clock' \in Nat
      BY DatabaseTypeNext, TickAssumption DEF DatabaseTypeOK
    <3>3. rec[u].commit_trans \in Nat
      BY <2>1 DEF DatabaseTypeOK, TransRec, TS
    <3> QED BY <3>1, <3>2, <3>3
  <2>8. \/ /\ rec[w].state \in {"Prepared", "Commited"}
           /\ rec'[w].self_commit_ts = rec[w].self_commit_ts
        \/ rec'[w].self_commit_ts = clock'
    BY <2>1, <2>5, RecStep
  <2>9. rec'[u].commit_trans <= rec'[w].self_commit_ts
    BY <2>4, <2>6, <2>7, <2>8
  <2> QED BY <2>9 DEF u, w
<1> QED BY <1>2, <1>3 DEF Ordered

\* The head that t puts onto a chain is open: nothing on it has to be in order.
LEMMA GrownFacts ==
    ASSUME DatabaseTypeOK, TimesInv, WritersExclude, NEW k \in Key,
           NEW c, Linked(entry[k], data[k], c), NEW d, Grown(k, c, d)
    PROVE  \E t \in session : 
             /\ Len(d) \in Nat /\ Len(d) > 0 /\ d[1].cur_version = t
             /\ \/ /\ Len(d) = Len(c) /\ entry[k].cur_version = t
                   /\ \A i \in 1 .. Len(c) : i # 1 => d[i] = c[i]
                   /\ \A i \in 1 .. Len(c) : d[i].cur_version = c[i].cur_version
                \/ /\ Len(d) = Len(c) + 1 /\ entry[k].cur_version # t
                   /\ \A i \in 1 .. Len(c) : d[i + 1] = c[i]
                   /\ \A i \in 1 .. Len(c) : Decided(c[i].cur_version)
                   /\ \A i \in 1 .. Len(d) : i # 1 => i - 1 \in 1 .. Len(c) /\ d[i] = c[i - 1]
<1>1. PICK t \in session, v \in Version :
        /\ v.cur_version = t /\ CanLock(k, t)
        /\ \/ entry[k].cur_version # t /\ d = <<v>> \o c
           \/ entry[k].cur_version = t /\ d = [c EXCEPT ![1] = v]
  BY DEF Grown
<1>2. t \in Trans /\ Len(c) \in Nat /\ c \in Seq(Version)
  BY LinkedFacts DEF DatabaseTypeOK
<1>3. CASE entry[k].cur_version = t
  <2>1. 1 \in 1 .. Len(c) /\ c[1] = entry[k]
    BY <1>2, <1>3, NilAssumption, EntryOfChain
  <2>2. /\ Len(d) = Len(c) /\ d[1] = v
        /\ \A i \in 1 .. Len(c) : i # 1 => d[i] = c[i]
    BY <1>1, <1>2, <1>3, <2>1
  <2>3. \A i \in 1 .. Len(c) : d[i].cur_version = c[i].cur_version
    BY <1>1, <1>3, <2>1, <2>2
  <2> QED BY <1>1, <1>2, <1>3, <2>1, <2>2, <2>3
<1>4. CASE entry[k].cur_version # t
  <2>1. Len(d) = Len(c) + 1 /\ d[1] = v /\ \A i \in 1 .. Len(c) : d[i + 1] = c[i]
    BY <1>1, <1>2, <1>4
  <2>2. ASSUME NEW i \in 1 .. Len(c) PROVE Decided(c[i].cur_version)
    <3>1. CASE i = 1
      <4>1. entry[k].cur_version \in Trans /\ c[1] = entry[k]
        <5>1. Len(c) # 0
          BY <1>2
        <5> QED BY <5>1, EntryOfChain
      <4> QED BY <1>1, <1>2, <1>4, <3>1, <4>1, LockedOut
    <3>2. CASE i # 1
      BY <3>2, OlderDecided
    <3> QED BY <3>1, <3>2
  <2>3. ASSUME NEW i \in 1 .. Len(d), i # 1
        PROVE  i - 1 \in 1 .. Len(c) /\ d[i] = c[i - 1]
    <3>1. i - 1 \in 1 .. Len(c) /\ (i - 1) + 1 = i
      BY <1>2, <2>1, <2>3
    <3> QED BY <2>1, <3>1
  <2> QED BY <1>1, <1>2, <1>4, <2>1, <2>2, <2>3
<1> QED BY <1>3, <1>4

LEMMA OrderedGrown ==
    ASSUME DatabaseTypeOK, TimesInv, WritersExclude, NEW k \in Key,
           NEW c, Linked(entry[k], data[k], c), Ordered(c), NEW d, Grown(k, c, d),
           rec' = rec
    PROVE  Ordered(d)'
<1>1. PICK t \in session :
             /\ Len(d) \in Nat /\ Len(d) > 0 /\ d[1].cur_version = t
             /\ \/ /\ Len(d) = Len(c) /\ entry[k].cur_version = t
                   /\ \A i \in 1 .. Len(c) : i # 1 => d[i] = c[i]
                   /\ \A i \in 1 .. Len(c) : d[i].cur_version = c[i].cur_version
                \/ /\ Len(d) = Len(c) + 1 /\ entry[k].cur_version # t
                   /\ \A i \in 1 .. Len(c) : d[i + 1] = c[i]
                   /\ \A i \in 1 .. Len(c) : Decided(c[i].cur_version)
                   /\ \A i \in 1 .. Len(d) : i # 1 => i - 1 \in 1 .. Len(c) /\ d[i] = c[i - 1]
  BY GrownFacts
<1>2. rec[t].state = "Begin"
  BY DEF TimesInv, Times, DatabaseTypeOK
<1>3. CASE Len(d) = Len(c) /\ \A i \in 1 .. Len(c) : d[i].cur_version = c[i].cur_version
  BY <1>3 DEF Ordered
<1>4. CASE /\ Len(d) = Len(c) + 1
           /\ \A i \in 1 .. Len(d) : i # 1 => i - 1 \in 1 .. Len(c) /\ d[i] = c[i - 1]
  <2>1. ASSUME NEW i \in 1 .. Len(d) PROVE rec[d[i].cur_version].state # "none"
    <3>1. CASE i = 1
      BY <1>1, <1>2, <3>1
    <3>2. CASE i # 1
      BY <1>4, <3>2 DEF Ordered
    <3> QED BY <3>1, <3>2
  <2>2. ASSUME NEW i \in 1 .. Len(d), NEW j \in 1 .. Len(d), i < j,
               rec[d[j].cur_version].state = "Commited",
               rec[d[i].cur_version].state \in {"Prepared", "Commited"}
        PROVE  rec[d[j].cur_version].commit_trans <= rec[d[i].cur_version].self_commit_ts
    <3>1. i # 1 /\ j # 1
      BY <1>1, <1>2, <2>2
    <3>2. i - 1 < j - 1
      BY <2>2
    <3> QED BY <1>4, <2>2, <3>1, <3>2 DEF Ordered
  <2> QED BY <2>1, <2>2 DEF Ordered
<1> QED BY <1>1, <1>3, <1>4

LEMMA ChainInvInit == StoreInit => ChainInv
<1> SUFFICES ASSUME StoreInit, NEW k \in Key
             PROVE  Linked(entry[k], data[k], Chain(k)) /\ Ordered(Chain(k))
  BY DEF ChainInv
<1>1. entry[k] = NoVersion /\ \A x \in Trans : data[k][x] = NoVersion
  BY DEF StoreInit
<1>2. <<>> \in Seq(Version) /\ Len(<<>>) = 0
  OBVIOUS
<1>3. Linked(entry[k], data[k], <<>>)
  BY <1>1, <1>2 DEF Linked
<1>4. Chain(k) = <<>>
  BY <1>3, ChainLinked
<1>5. Ordered(<<>>)
  BY <1>2 DEF Ordered
<1> QED BY <1>3, <1>4, <1>5

LEMMA ChainInvNext ==
    DatabaseTypeOK /\ TimesInv /\ WritersExclude /\ ChainInv /\ [StoreNext]_storeVars
    => ChainInv'
<1> SUFFICES ASSUME DatabaseTypeOK, TimesInv, WritersExclude, ChainInv,
                    [StoreNext]_storeVars, NEW k \in Key
             PROVE  Linked(entry'[k], data'[k], Chain(k)') /\ Ordered(Chain(k))'
  BY DEF ChainInv
<1>1. PICK c : c = Chain(k)
  OBVIOUS
<1>2. Linked(entry[k], data[k], c) /\ Ordered(c)
  BY <1>1 DEF ChainInv
<1>3. PICK d : /\ Linked(entry'[k], data'[k], d)
               /\ \/ d = c
                  \/ \E u \in Trans : Write(u) /\ req[u].key = k /\ Grown(k, c, d)
  BY <1>2, ChainStep
<1>4. Chain(k)' = d
  BY <1>3, ChainLinkedNext
<1>5. ASSUME d = c PROVE Ordered(d)'
  BY <1>2, <1>5, OrderedStays
<1>6. ASSUME NEW u \in Trans, Write(u), Grown(k, c, d) PROVE Ordered(d)'
  <2>1. rec' = rec
    BY <1>6 DEF Write
  <2> QED BY <1>2, <1>6, <2>1, OrderedGrown
<1>7. Ordered(d)'
  BY <1>3, <1>5, <1>6
<1>8. Ordered(Chain(k))' 
  BY <1>4, <1>7 DEF Ordered
<1> QED BY <1>3, <1>4, <1>8

StoreInv == DatabaseTypeOK /\ TimesInv /\ WritersExclude /\ ChainInv

\* The inductive invariant of a storage: types, timestamps, the exclusion of
\* writers and the shape and order of its version chains.
THEOREM StoreCorrect == StoreSpec => []StoreInv
<1>1. StoreInit => StoreInv
  BY DatabaseTypeInit, TimesInit, WritersExcludeInit, ChainInvInit DEF StoreInv
<1>2. StoreInv /\ [StoreNext]_storeVars => StoreInv'
  BY DatabaseTypeNext, TimesNext, WritersExcludeNext, ChainInvNext DEF StoreInv
<1> QED BY <1>1, <1>2, PTL DEF StoreSpec

LEMMA ChainIsOrdered == StoreInv => ChainOrder
<1> SUFFICES ASSUME StoreInv, NEW k \in Key,
                    NEW i \in DOMAIN Chain(k), NEW j \in DOMAIN Chain(k),
                    rec[Chain(k)[i].cur_version].state = "Commited",
                    rec[Chain(k)[j].cur_version].state = "Commited", i < j
             PROVE  rec[Chain(k)[i].cur_version].commit_trans
                      >= rec[Chain(k)[j].cur_version].commit_trans
  BY DEF ChainOrder
<1>1. PICK c : c = Chain(k)
  OBVIOUS
<1>2. Linked(entry[k], data[k], c) /\ Ordered(c)
  BY <1>1 DEF StoreInv, ChainInv
<1>3. i \in 1 .. Len(c) /\ j \in 1 .. Len(c)
  BY <1>1, <1>2 DEF Linked
<1>4. c[i].cur_version \in Trans /\ c[j].cur_version \in Trans
  BY <1>2, <1>3, LinkedFacts
<1>5. rec[c[j].cur_version].commit_trans <= rec[c[i].cur_version].self_commit_ts
  BY <1>1, <1>2, <1>3 DEF Ordered
<1>6. rec[c[i].cur_version].self_commit_ts <= rec[c[i].cur_version].commit_trans
  BY <1>1, <1>4 DEF StoreInv, TimesInv, Times
<1>7. /\ rec[c[i].cur_version].commit_trans \in Int /\ rec[c[j].cur_version].commit_trans \in Int
      /\ rec[c[i].cur_version].self_commit_ts \in Int
  BY <1>4 DEF StoreInv, DatabaseTypeOK, TransRec, TS
<1> QED BY <1>1, <1>5, <1>6, <1>7

\* On every chain the commit timestamps never grow from the entry downwards,
\* although they come from other storages (addData, ReadData): a version is
\* pushed only onto versions whose writers are over, and takes its own
\* timestamp, which bounds the commit timestamp from below, after them.
THEOREM ChainsAreOrdered == StoreSpec => []ChainOrder
BY StoreCorrect, ChainIsOrdered, PTL

\* No step takes a committed version off its chain or changes its contents: a
\* write (addData) pushes onto the chain or replaces a version of its own, and
\* a crash between its two Puts leaves at most the copy of the entry.
THEOREM NoVersionLost == StoreSpec => VersionsKept
<1>1. ASSUME StoreInv, [StoreNext]_storeVars, NEW k \in Key, NEW i \in DOMAIN Chain(k),
             rec[Chain(k)[i].cur_version].state = "Commited"
      PROVE  \E j \in DOMAIN Chain(k)' :
               /\ Chain(k)'[j].cur_version = Chain(k)[i].cur_version
               /\ Chain(k)'[j].state = Chain(k)[i].state
               /\ Chain(k)'[j].value = Chain(k)[i].value
  <2>1. PICK c : c = Chain(k)
    OBVIOUS
  <2>2. Linked(entry[k], data[k], c)
    BY <1>1, <2>1 DEF StoreInv, ChainInv
  <2>3. PICK d : /\ Linked(entry'[k], data'[k], d)
                 /\ \/ d = c
                    \/ \E u \in Trans : Write(u) /\ req[u].key = k /\ Grown(k, c, d)
    BY <1>1, <2>2, ChainStep DEF StoreInv
  <2>4. /\ Chain(k)' = d /\ i \in 1 .. Len(c) /\ Len(c) \in Nat /\ Len(d) \in Nat
        /\ \A j \in 1 .. Len(d) : j \in DOMAIN d
    <3>1. Chain(k)' = d
      BY <2>3, ChainLinkedNext
    <3>2. c \in Seq(Version) /\ d \in Seq(Version)
      BY <2>2, <2>3 DEF Linked
    <3> QED BY <2>1, <3>1, <3>2
  <2>5. ASSUME Grown(k, c, d) PROVE \E j \in 1 .. Len(d) : d[j] = c[i]
    <3>1. PICK t \in session :
             /\ Len(d) \in Nat /\ Len(d) > 0 /\ d[1].cur_version = t
             /\ \/ /\ Len(d) = Len(c) /\ entry[k].cur_version = t
                   /\ \A j \in 1 .. Len(c) : j # 1 => d[j] = c[j]
                   /\ \A j \in 1 .. Len(c) : d[j].cur_version = c[j].cur_version
                \/ /\ Len(d) = Len(c) + 1 /\ entry[k].cur_version # t
                   /\ \A j \in 1 .. Len(c) : d[j + 1] = c[j]
                   /\ \A j \in 1 .. Len(c) : Decided(c[j].cur_version)
                   /\ \A j \in 1 .. Len(d) : j # 1 => j - 1 \in 1 .. Len(c) /\ d[j] = c[j - 1]
      BY <1>1, <2>2, <2>5, GrownFacts DEF StoreInv
    <3>2. rec[t].state = "Begin"
      BY <1>1 DEF StoreInv, TimesInv, Times, DatabaseTypeOK
    <3>3. CASE /\ Len(d) = Len(c)
               /\ \A j \in 1 .. Len(c) : j # 1 => d[j] = c[j]
               /\ \A j \in 1 .. Len(c) : d[j].cur_version = c[j].cur_version
      <4>1. i # 1
        BY <1>1, <2>1, <2>4, <3>1, <3>2, <3>3
      <4> QED BY <2>4, <3>3, <4>1
    <3>4. CASE Len(d) = Len(c) + 1 /\ \A j \in 1 .. Len(c) : d[j + 1] = c[j]
      <4>1. i + 1 \in 1 .. Len(d)
        BY <2>4, <3>4
      <4> QED BY <2>4, <3>4, <4>1
    <3> QED BY <3>1, <3>3, <3>4
  <2>6. PICK j \in 1 .. Len(d) : d[j] = c[i]
    BY <2>3, <2>4, <2>5
  <2> QED BY <2>1, <2>4, <2>6
<1>2. StoreInv /\ [StoreNext]_storeVars
      => [\A k \in Key : \A i \in DOMAIN Chain(k) :
            LET v == Chain(k)[i]
            IN  rec[v.cur_version].state = "Commited" =>
                  \E j \in DOMAIN Chain(k)' :
                      LET w == Chain(k)'[j]
                      IN  w.cur_version = v.cur_version /\ w.state = v.state
                          /\ w.value = v.value]_storeVars
  BY <1>1
<1> QED BY <1>2, StoreCorrect, PTL DEF StoreSpec, VersionsKept

-----------------------------------------------------------------------------
(***************************************************************************)
(* What ReadData returns.                                                  *)
(***************************************************************************)

LEMMA MinOfNaturals ==
    ASSUME NEW S, S \subseteq Nat, S # {}
    PROVE  Min(S) \in S /\ \A y \in S : Min(S) <= y
<1> DEFINE R == OpToRel(<, Nat)
<1>1. IsWellFoundedOn(R, Nat)
  BY NatLessThanWellFounded
<1> HIDE DEF R
<1>2. PICK m \in S : \A y \in S : <<y, m>> \notin R
  BY <1>1, WFMin
<1>3. \A y \in S : m <= y
  <2>1. \A y \in S : ~(y < m)
    BY <1>2 DEF R, OpToRel
  <2> QED BY <2>1
<1>4. Min(S) = CHOOSE x \in S : \A y \in S : x <= y
  BY DEF Min
<1> QED BY <1>3, <1>4

\* ReadData stops at a version of the chain with all those above it passed, or
\* passes all of them.
LEMMA ReadDataStops ==
    ASSUME StoreInv, NEW k \in Key, NEW ts, NEW c, c = Chain(k)
    PROVE  /\ Linked(entry[k], data[k], c) /\ Ordered(c) /\ Len(c) \in Nat
           /\ \/ /\ ReadData(k, ts) = [ret |-> 99, version |-> Nil]
                 /\ \A i \in 1 .. Len(c) : Passed(c[i], ts)
              \/ \E m \in 1 .. Len(c) :
                   /\ ~Passed(c[m], ts)
                   /\ \A i \in 1 .. Len(c) : i < m => Passed(c[i], ts)
                   /\ ReadData(k, ts) = Found(c[m], ts)
<1>1. Linked(entry[k], data[k], c) /\ Ordered(c)
  BY DEF StoreInv, ChainInv
<1>2. Len(c) \in Nat /\ DOMAIN c = 1 .. Len(c)
  BY <1>1 DEF Linked
<1> DEFINE stops == {i \in DOMAIN c : ~Passed(c[i], ts)}
<1>3. ReadData(k, ts) = IF stops = {} THEN [ret |-> 99, version |-> Nil]
                        ELSE Found(c[Min(stops)], ts)
  BY DEF ReadData
<1>4. CASE stops = {}
  BY <1>1, <1>2, <1>3, <1>4
<1>5. CASE stops # {}
  <2>1. stops \subseteq Nat
    BY <1>2
  <2> HIDE DEF stops
  <2>2. PICK m : m = Min(stops)
    OBVIOUS
  <2>3. m \in stops /\ \A y \in stops : m <= y
    BY <1>5, <2>1, <2>2, MinOfNaturals
  <2>4. m \in 1 .. Len(c) /\ ~Passed(c[m], ts)
    BY <1>2, <2>3 DEF stops
  <2>5. \A i \in 1 .. Len(c) : i < m => Passed(c[i], ts)
    BY <1>2, <2>3, <2>4 DEF stops
  <2>6. ReadData(k, ts) = Found(c[m], ts)
    BY <1>3, <1>5, <2>2
  <2> QED BY <1>1, <1>2, <2>4, <2>5, <2>6
<1> QED BY <1>4, <1>5

LEMMA ReadDataType ==
    ASSUME StoreInv, NEW k \in Key, NEW ts
    PROVE  ReadData(k, ts).ret \in Result /\ ReadData(k, ts).version \in Trans \cup {Nil}
<1>1. PICK c : c = Chain(k)
  OBVIOUS
<1>2. Linked(entry[k], data[k], c)
  BY <1>1, ReadDataStops
<1>3. CASE ReadData(k, ts) = [ret |-> 99, version |-> Nil]
  BY <1>3 DEF Result
<1>4. ASSUME NEW m \in 1 .. Len(c), ReadData(k, ts) = Found(c[m], ts)
      PROVE  ReadData(k, ts).ret \in Result /\ ReadData(k, ts).version \in Trans \cup {Nil}
  <2>1. c[m].cur_version \in Trans
    BY <1>2, LinkedFacts
  <2> QED BY <1>4, <2>1 DEF Found, Result
<1> QED BY <1>1, <1>3, <1>4, ReadDataStops

\* The entry and the records of older versions are those of the chain.
LEMMA VersionsOfChain ==
    ASSUME NEW e, NEW d, NEW c, Linked(e, d, c)
    PROVE  /\ e # NoVersion => \E i \in 1 .. Len(c) : e = c[i]
           /\ \A u \in Trans : d[u] # NoVersion => \E i \in 1 .. Len(c) : d[u] = c[i]
           /\ \A i \in 1 .. Len(c) :
                c[i] # NoVersion /\ (c[i] = e \/ \E u \in Trans : c[i] = d[u])
<1>1. Len(c) \in Nat
  BY DEF Linked
<1>2. e # NoVersion => \E i \in 1 .. Len(c) : e = c[i]
  BY <1>1 DEF Linked
<1>3. \A u \in Trans : d[u] # NoVersion => \E i \in 1 .. Len(c) : d[u] = c[i]
  BY DEF Linked
<1>4. ASSUME NEW i \in 1 .. Len(c)
      PROVE  c[i] # NoVersion /\ (c[i] = e \/ \E u \in Trans : c[i] = d[u])
  <2>1. c[i] # NoVersion
    BY LinkedFacts
  <2>2. CASE i = 1
    BY <1>1, <2>1, <2>2 DEF Linked
  <2>3. CASE i # 1
    <3>1. i - 1 \in 1 .. Len(c) /\ i - 1 # Len(c) /\ (i - 1) + 1 = i
      BY <1>1, <2>3
    <3>2. d[c[i - 1].next] = c[i]
      BY <3>1 DEF Linked
    <3>3. c[i - 1].next \in Trans
      BY <3>1, LinkedFacts
    <3> QED BY <2>1, <3>2, <3>3
  <2> QED BY <2>2, <2>3
<1> QED BY <1>2, <1>3, <1>4

\* If none of the writers has the timestamp of the read and all that are
\* committed before bound are so before ts, a read that need not wait returns
\* what is newest before bound.
LEMMA ReadIsNewest ==
    ASSUME StoreInv, NEW k \in Key, NEW ts \in Int, NEW bound \in Int,
           NEW c, c = Chain(k),
           \A i \in 1 .. Len(c) :
             /\ begin_ts[c[i].cur_version] # ts
             /\ rec[c[i].cur_version].state = "Commited" =>
                  (rec[c[i].cur_version].commit_trans < bound
                   <=> rec[c[i].cur_version].commit_trans < ts),
           ReadData(k, ts).ret # 66
    PROVE  ReadData(k, ts).ret # -1 /\ IsNewest(k, bound, ReadData(k, ts).version)
<1>1. Linked(entry[k], data[k], c) /\ Ordered(c) /\ Len(c) \in Nat
  BY ReadDataStops
<1>2. \A i \in 1 .. Len(c) : /\ c[i].cur_version \in Trans /\ c[i].cur_version # Nil
                             /\ rec[c[i].cur_version].commit_trans \in Int
  <2>1. \A i \in 1 .. Len(c) : c[i].cur_version \in Trans /\ c[i].cur_version # Nil
    BY <1>1, LinkedFacts
  <2>2. \A u \in Trans : rec[u].commit_trans \in Int
    BY DEF StoreInv, DatabaseTypeOK, TransRec, TS
  <2> QED BY <2>1, <2>2
<1>3. ASSUME NEW v
      PROVE  v \in CommittedBefore(k, bound) <=>
               \E i \in 1 .. Len(c) :
                 /\ v = c[i] /\ rec[c[i].cur_version].state = "Commited"
                 /\ rec[c[i].cur_version].commit_trans < ts
  <2>1. (v = entry[k] \/ \E u \in Trans : v = data[k][u]) /\ v # NoVersion
        <=> \E i \in 1 .. Len(c) : v = c[i]
    <3>1. /\ entry[k] # NoVersion => \E i \in 1 .. Len(c) : entry[k] = c[i]
          /\ \A u \in Trans : data[k][u] # NoVersion =>
                \E i \in 1 .. Len(c) : data[k][u] = c[i]
          /\ \A i \in 1 .. Len(c) :
                /\ c[i] # NoVersion
                /\ c[i] = entry[k] \/ \E u \in Trans : c[i] = data[k][u]
      BY <1>1, VersionsOfChain
    <3> QED BY <3>1
  <2>2. v \in CommittedBefore(k, bound) <=>
          /\ (v = entry[k] \/ \E u \in Trans : v = data[k][u]) /\ v # NoVersion
          /\ rec[v.cur_version].state = "Commited"
          /\ rec[v.cur_version].commit_trans < bound
    BY DEF CommittedBefore
  <2> QED BY <2>1, <2>2
<1>4. CASE /\ ReadData(k, ts) = [ret |-> 99, version |-> Nil]
           /\ \A i \in 1 .. Len(c) : Passed(c[i], ts)
  <2>1. ASSUME NEW i \in 1 .. Len(c), rec[c[i].cur_version].state = "Commited"
        PROVE  ~(rec[c[i].cur_version].commit_trans < ts)
    BY <1>2, <1>4, <2>1 DEF Passed
  <2>2. CommittedBefore(k, bound) = {}
    BY <1>3, <2>1
  <2> QED BY <1>4, <2>2 DEF IsNewest
<1>5. ASSUME NEW m \in 1 .. Len(c), ~Passed(c[m], ts), ReadData(k, ts) = Found(c[m], ts),
             \A i \in 1 .. Len(c) : i < m => Passed(c[i], ts)
      PROVE  ReadData(k, ts).ret # -1 /\ IsNewest(k, bound, ReadData(k, ts).version)
  <2> DEFINE x == c[m].cur_version
  <2>1. rec[x].state \in {"Begin", "Prepared", "Commited", "Rollback"}
    BY <1>1, <1>2 DEF StoreInv, DatabaseTypeOK, TransRec, Ordered
  <2>2. begin_ts[x] # ts
    OBVIOUS
  <2>3. ReadData(k, ts).version = x /\ ReadData(k, ts).ret # -1 /\ rec[x].state # "Prepared"
    <3>1. Found(c[m], ts).version = x /\ Found(c[m], ts).ret # -1
      BY <2>1, <2>2 DEF Found
    <3>2. rec[x].state = "Prepared" => Found(c[m], ts).ret = 66
      BY <2>2 DEF Found
    <3> HIDE DEF x
    <3> QED BY <1>5, <3>1, <3>2
  <2>4. rec[x].state = "Commited" /\ rec[x].commit_trans < ts
    BY <1>2, <1>5, <2>1, <2>2, <2>3 DEF Passed
  <2>5. c[m] \in CommittedBefore(k, bound)
    BY <1>3, <2>4
  <2>6. ASSUME NEW w \in CommittedBefore(k, bound)
        PROVE  rec[w.cur_version].commit_trans <= rec[x].commit_trans
    <3>1. PICK j \in 1 .. Len(c) :
            /\ w = c[j] /\ rec[c[j].cur_version].state = "Commited"
            /\ rec[c[j].cur_version].commit_trans < ts
      BY <1>3
    <3>2. ~(j < m)
      BY <1>2, <1>5, <3>1 DEF Passed
    <3>3. CASE j = m
      BY <1>2, <3>1, <3>3
    <3>4. CASE m < j
      <4>1. DOMAIN c = 1 .. Len(c)
        BY <1>1 DEF Linked
      <4>2. rec[x].commit_trans >= rec[c[j].cur_version].commit_trans
        BY <2>4, <3>1, <3>4, <4>1, ChainIsOrdered DEF ChainOrder
      <4> QED BY <1>2, <3>1, <4>2
    <3> QED BY <1>1, <3>2, <3>3, <3>4
  <2>7. IsNewest(k, bound, x)
    <3>1. x # Nil /\ c[m].cur_version = x
      BY <1>2
    <3> HIDE DEF x
    <3> QED BY <2>5, <2>6, <3>1 DEF IsNewest
  <2> QED BY <2>3, <2>7
<1> QED BY <1>4, <1>5, ReadDataStops

\* Nobody but t wrote a version with the begin_ts of t, and t none but the entry.
LEMMA OthersOnChain ==
    ASSUME StoreInv, NEW t \in session, NEW k \in Key, entry[k].cur_version # t,
           NEW c, c = Chain(k), NEW i \in 1 .. Len(c)
    PROVE  begin_ts[c[i].cur_version] # begin_ts[t]
<1>1. Linked(entry[k], data[k], c)
  BY ReadDataStops
<1>2. t \in Trans /\ rec[t].state = "Begin" /\ begin_ts[t] # 0
  BY DEF StoreInv, DatabaseTypeOK, TimesInv, Times
<1>3. c[i].cur_version \in Trans
  BY <1>1, LinkedFacts
<1>4. c[i].cur_version # t
  <2>1. CASE i = 1
    <3>1. Len(c) # 0 /\ DatabaseTypeOK
      BY <1>1, <2>1 DEF Linked, StoreInv
    <3> QED BY <1>1, <2>1, <3>1, EntryOfChain
  <2>2. CASE i # 1
    <3>1. Decided(c[i].cur_version)
      BY <1>1, <2>2, OlderDecided DEF StoreInv
    <3> QED BY <1>2, <3>1 DEF Decided
  <2> QED BY <2>1, <2>2
<1> QED BY <1>2, <1>3, <1>4 DEF StoreInv, TimesInv, Times

LEMMA ReadsAreSnapshots == StoreInv => ReadsSnapshot
<1> SUFFICES ASSUME StoreInv, NEW t \in session, NEW k \in Key, NEW r,
                    r = ReadData(k, begin_ts[t])
             PROVE  IF entry[k].cur_version = t THEN r.version = t /\ r.ret \in {0, 33}
                    ELSE IF r.ret = 66
                    THEN /\ rec[r.version].state = "Prepared"
                         /\ rec[r.version].start_trans < begin_ts[t]
                    ELSE r.ret # -1 /\ IsNewest(k, begin_ts[t], r.version)
  BY DEF ReadsSnapshot
<1>1. PICK c : c = Chain(k)
  OBVIOUS
<1>2. Linked(entry[k], data[k], c) /\ Ordered(c) /\ Len(c) \in Nat
  BY <1>1, ReadDataStops
<1>3. t \in Trans /\ t # Nil /\ begin_ts[t] \in Int
  BY NilAssumption DEF StoreInv, DatabaseTypeOK, TS
<1>4. CASE entry[k].cur_version = t
  <2>1. 1 \in 1 .. Len(c) /\ c[1] = entry[k]
    BY <1>2, <1>3, <1>4, EntryOfChain DEF StoreInv
  <2>2. begin_ts[c[1].cur_version] = begin_ts[t]
    BY <1>4, <2>1
  <2>3. ~Passed(c[1], begin_ts[t])
    BY <2>2 DEF Passed
  <2>4. r = Found(c[1], begin_ts[t])
    <3>1. ASSUME NEW m \in 1 .. Len(c),
                 \A i \in 1 .. Len(c) : i < m => Passed(c[i], begin_ts[t])
          PROVE  m = 1
      BY <1>2, <2>1, <2>3, <3>1
    <3> QED BY <1>1, <2>1, <2>3, <3>1, ReadDataStops
  <2>5. r.ret \in {0, 33} /\ r.version = t
    BY <1>4, <2>1, <2>2, <2>4 DEF Found
  <2> QED BY <1>4, <2>5
<1>5. CASE entry[k].cur_version # t /\ r.ret = 66
  <2>1. PICK m \in 1 .. Len(c) : ~Passed(c[m], begin_ts[t]) /\ r = Found(c[m], begin_ts[t])
    BY <1>1, <1>5, ReadDataStops
  <2>2. begin_ts[c[m].cur_version] # begin_ts[t] /\ c[m].cur_version \in Trans
    <3>1. c[m].cur_version \in Trans
      BY <1>2, LinkedFacts
    <3> QED BY <1>1, <1>5, <3>1, OthersOnChain
  <2>3. r.version = c[m].cur_version /\ rec[c[m].cur_version].state = "Prepared"
    BY <1>5, <2>1 DEF Found
  <2>4. ~(begin_ts[t] <= rec[c[m].cur_version].start_trans)
    BY <2>1, <2>2, <2>3 DEF Passed
  <2>5. rec[c[m].cur_version].start_trans \in Int
    BY <2>2 DEF StoreInv, DatabaseTypeOK, TransRec, TS
  <2> QED BY <1>3, <1>5, <2>3, <2>4, <2>5
<1>6. CASE entry[k].cur_version # t /\ r.ret # 66
  <2>1. \A i \in 1 .. Len(c) : begin_ts[c[i].cur_version] # begin_ts[t]
    BY <1>1, <1>6, OthersOnChain
  <2>2. r.ret # -1 /\ IsNewest(k, begin_ts[t], r.version)
    BY <1>1, <1>3, <1>6, <2>1, ReadIsNewest
  <2> QED BY <1>6, <2>2
<1> QED BY <1>4, <1>5, <1>6

\* ReadData gives a transaction its own write, or the newest version that was
\* committed before its begin_ts, or has it wait for a writer that took its
\* start_ts before that and is being committed.
THEOREM ReadsAreOfTheSnapshot == StoreSpec => []ReadsSnapshot
BY StoreCorrect, ReadsAreSnapshots, PTL

-----------------------------------------------------------------------------
(***************************************************************************)
(* What is answered.                                                       *)
(***************************************************************************)

\* The response to the request of t, if the read or write gives r.
Answer(t, r) ==
    [type |-> req[t].type, key |-> req[t].key,
     result |-> IF r.ret = 0 /\ req[t].waited THEN 66 ELSE r.ret,
     version |-> r.version]

\* A read of t with timestamp ts that is answered in this step.
ReadAnswered(t, ts) ==
    /\ req[t] \in Request /\ ReadData(req[t].key, ts).ret # 66
    /\ reply' = [reply EXCEPT ![t] = Answer(t, ReadData(req[t].key, ts))]

LEMMA ReplyStep ==
    ASSUME StoreInv, [StoreNext]_storeVars
    PROVE  \/ reply' = reply
           \/ \E t \in Trans : reply' = [reply EXCEPT ![t] = NoReply]
           \/ \E t \in Trans : Get(t) /\ ReadAnswered(t, begin_ts[t])
           \/ \E t \in Trans, ts \in GetTS :
                GetForUpdate(t) /\ clock' = ts /\ ReadAnswered(t, ts)
           \/ \E t \in Trans :
                /\ Write(t) /\ req[t] \in Request
                /\ reply' = [reply EXCEPT ![t] = Answer(t, [ret |-> 0, version |-> Nil])]
<1> DEFINE Goal ==
           \/ reply' = reply
           \/ \E t \in Trans : reply' = [reply EXCEPT ![t] = NoReply]
           \/ \E t \in Trans : Get(t) /\ ReadAnswered(t, begin_ts[t])
           \/ \E t \in Trans, ts \in GetTS :
                GetForUpdate(t) /\ clock' = ts /\ ReadAnswered(t, ts)
           \/ \E t \in Trans :
                /\ Write(t) /\ req[t] \in Request
                /\ reply' = [reply EXCEPT ![t] = Answer(t, [ret |-> 0, version |-> Nil])]
<1>0. DatabaseTypeOK
  BY DEF StoreInv
<1>1. ASSUME NEW t \in Trans, NEW ts, req[t] \in Request, Read(t, ts)
      PROVE  reply' = reply \/ ReadAnswered(t, ts)
  BY <1>1 DEF Read, Respond, ReadAnswered, Answer
<1>2. ASSUME NEW t \in Trans, Get(t) PROVE Goal
  <2>1. req[t] \in Request /\ Read(t, begin_ts[t])
    BY <1>0, <1>2, RequestType DEF Get
  <2> QED BY <1>1, <1>2, <2>1
<1>3. ASSUME NEW t \in Trans, GetForUpdate(t) PROVE Goal
  <2>1. req[t] \in Request
    BY <1>0, <1>3, RequestType DEF GetForUpdate
  <2>2. PICK ts \in GetTS : Read(t, ts) /\ clock' = ts
    BY <1>3 DEF GetForUpdate
  <2> QED BY <1>1, <1>3, <2>1, <2>2
<1>4. ASSUME NEW t \in Trans, Write(t) PROVE Goal
  <2>1. req[t] \in Request
    BY <1>0, <1>4, RequestType DEF Write
  <2>2. reply' = [reply EXCEPT ![t] = Answer(t, [ret |-> 0, version |-> Nil])]
    BY <1>4 DEF Write, Respond, Answer
  <2> QED BY <1>4, <2>1, <2>2
<1>5. ASSUME NEW t \in Trans, NEW k, NEW type, NEW value, Receive(t, type, k, value)
      PROVE  Goal
  BY <1>5 DEF Receive
<1>6. ASSUME NEW t \in Trans,
             \/ ReqBegin(t) \/ Begin(t) \/ ReqCommit(t) \/ SessionEnd(t) \/ Prepare(t)
             \/ Commit(t) \/ Rollback(t) \/ CrashInWrite(t)
      PROVE  reply' = reply
  BY <1>6 DEF ReqBegin, Begin, ReqCommit, SessionEnd, Prepare, Commit, Rollback,
              CrashInWrite, Restart
<1>7. Crash \/ UNCHANGED storeVars => reply' = reply
  BY DEF Crash, Restart, storeVars
<1>8. reply' = reply => Goal
  OBVIOUS
<1> HIDE DEF Goal
<1>9. Goal
  BY <1>2, <1>3, <1>4, <1>5, <1>6, <1>7, <1>8 DEF StoreNext, Serve, Decide
<1> QED BY <1>9 DEF Goal

LEMMA StoreTypeNext == StoreInv /\ StoreTypeOK /\ [StoreNext]_storeVars => StoreTypeOK'
<1> SUFFICES ASSUME StoreInv, StoreTypeOK, [StoreNext]_storeVars
             PROVE  reply' \in [Trans -> Reply \cup {NoReply}]
  BY DatabaseTypeNext DEF StoreTypeOK
<1>1. reply \in [Trans -> Reply \cup {NoReply}]
  BY DEF StoreTypeOK
<1>2. ASSUME NEW t \in Trans, req[t] \in Request, NEW r, r.ret \in Result,
             r.version \in Trans \cup {Nil}
      PROVE  Answer(t, r) \in Reply
  BY <1>2 DEF Answer, Reply, Request, Result
<1>3. ASSUME NEW t \in Trans, NEW ts, ReadAnswered(t, ts)
      PROVE  reply' \in [Trans -> Reply \cup {NoReply}]
  <2>1. req[t] \in Request /\ req[t].key \in Key
    BY <1>3 DEF ReadAnswered, Request
  <2>2. /\ ReadData(req[t].key, ts).ret \in Result
        /\ ReadData(req[t].key, ts).version \in Trans \cup {Nil}
    BY <2>1, ReadDataType
  <2>3. Answer(t, ReadData(req[t].key, ts)) \in Reply
    BY <1>2, <2>1, <2>2
  <2> QED BY <1>1, <1>3, <2>3 DEF ReadAnswered
<1>4. ASSUME NEW t \in Trans, req[t] \in Request,
             reply' = [reply EXCEPT ![t] = Answer(t, [ret |-> 0, version |-> Nil])]
      PROVE  reply' \in [Trans -> Reply \cup {NoReply}]
  <2>1. Answer(t, [ret |-> 0, version |-> Nil]) \in Reply
    BY <1>2, <1>4 DEF Result
  <2> QED BY <1>1, <1>4, <2>1
<1> QED BY <1>1, <1>3, <1>4, ReplyStep

\* Every record and response of a storage is of its type; above all a read
\* returns a version that a transaction wrote, or none.
THEOREM StoreTypeCorrect == StoreSpec => []StoreTypeOK
<1>1. StoreInit => StoreTypeOK
  BY DatabaseTypeInit DEF StoreTypeOK, StoreInit
<1> QED BY <1>1, StoreCorrect, StoreTypeNext, PTL DEF StoreSpec

\* Only whoever can lock a key gets its lock or changes its entry.
LEMMA LockAndEntryStep ==
    ASSUME StoreInv, [StoreNext]_storeVars, NEW k \in Key
    PROVE  /\ lock'[k] = lock[k] \/ \E w \in Trans : CanLock(k, w) /\ lock'[k] = w
           /\ \/ entry'[k] = entry[k]
              \/ \E w \in session : /\ CanLock(k, w) /\ entry'[k].cur_version = w
                                    /\ rec' = rec
<1>1. CASE UNCHANGED <<lock, entry>>
  BY <1>1
<1>2. /\ lock \in [Key -> Trans \cup {Nil}]
      /\ entry \in [Key -> Version \cup {NoVersion}]
  BY DEF StoreInv, DatabaseTypeOK
<1>3. ASSUME NEW w \in Trans, CanLock(req[w].key, w), lock' = [lock EXCEPT ![req[w].key] = w]
      PROVE  lock'[k] = lock[k] \/ \E u \in Trans : CanLock(k, u) /\ lock'[k] = u
  BY <1>2, <1>3
<1>4. ASSUME NEW w \in Trans, GetForUpdate(w) \/ CrashInWrite(w)
      PROVE  /\ entry' = entry /\ CanLock(req[w].key, w)
             /\ lock' = [lock EXCEPT ![req[w].key] = w]
  BY <1>4 DEF GetForUpdate, CrashInWrite
<1>5. ASSUME NEW w \in Trans, Write(w)
      PROVE  /\ CanLock(req[w].key, w) /\ lock' = [lock EXCEPT ![req[w].key] = w]
             /\ \/ entry'[k] = entry[k]
                \/ \E u \in session : CanLock(k, u) /\ entry'[k].cur_version = u /\ rec' = rec
  <2>1. /\ CanLock(req[w].key, w) /\ lock' = [lock EXCEPT ![req[w].key] = w]
        /\ rec' = rec /\ req[w] # NoRequest
        /\ entry' = [entry EXCEPT ![req[w].key] =
                       NewEntry(req[w].key, w, req[w].type, req[w].value)]
    BY <1>5 DEF Write, NoRequest
  <2>2. w \in session
    BY <2>1 DEF StoreInv, TimesInv, Times
  <2>3. NewEntry(req[w].key, w, req[w].type, req[w].value).cur_version = w
    BY DEF NewEntry
  <2> QED BY <1>2, <2>1, <2>2, <2>3
<1>6. ASSUME NEW u \in Trans,
             \/ ReqBegin(u) \/ Begin(u) \/ ReqCommit(u) \/ SessionEnd(u) \/ Get(u)
             \/ Prepare(u) \/ Commit(u) \/ Rollback(u)
             \/ \E p, type, value : Receive(u, type, p, value)
      PROVE  UNCHANGED <<lock, entry>>
  BY <1>6 DEF ReqBegin, Begin, ReqCommit, SessionEnd, Get, Prepare, Commit, Rollback, Receive
<1>7. Crash \/ UNCHANGED storeVars => UNCHANGED <<lock, entry>>
  BY DEF Crash, storeVars
<1> QED BY <1>1, <1>3, <1>4, <1>5, <1>6, <1>7 DEF StoreNext, Serve, Decide

-----------------------------------------------------------------------------
(***************************************************************************)
(* What was read is read again.                                            *)
(***************************************************************************)

\* Version v was committed before ts.
Before(v, ts) ==
    rec[v.cur_version].state = "Commited" /\ rec[v.cur_version].commit_trans < ts

\* IsNewest, by the chain c of the key.
NewestOn(c, ts, x) ==
    /\ x = Nil => \A i \in 1 .. Len(c) : ~Before(c[i], ts)
    /\ x # Nil =>
         /\ \E i \in 1 .. Len(c) : c[i].cur_version = x /\ Before(c[i], ts)
         /\ \A j \in 1 .. Len(c) : Before(c[j], ts) =>
              rec[c[j].cur_version].commit_trans <= rec[x].commit_trans

LEMMA NewestByChain ==
    \A k, c, ts, x : Linked(entry[k], data[k], c) => (IsNewest(k, ts, x) <=> NewestOn(c, ts, x))
<1> SUFFICES ASSUME NEW k, NEW c, NEW ts, NEW x, Linked(entry[k], data[k], c)
             PROVE  IsNewest(k, ts, x) <=> NewestOn(c, ts, x)
  OBVIOUS
<1>1. /\ entry[k] # NoVersion => \E i \in 1 .. Len(c) : entry[k] = c[i]
      /\ \A u \in Trans : data[k][u] # NoVersion =>
            \E i \in 1 .. Len(c) : data[k][u] = c[i]
      /\ \A i \in 1 .. Len(c) :
            /\ c[i] # NoVersion
            /\ c[i] = entry[k] \/ \E u \in Trans : c[i] = data[k][u]
  BY VersionsOfChain
<1>2. ASSUME NEW v
      PROVE  v \in CommittedBefore(k, ts) <=> \E i \in 1 .. Len(c) : v = c[i] /\ Before(v, ts)
  <2>1. v \in CommittedBefore(k, ts) <=>
          /\ (v = entry[k] \/ \E u \in Trans : v = data[k][u]) /\ v # NoVersion
          /\ Before(v, ts)
    BY DEF CommittedBefore, Before
  <2> QED BY <1>1, <2>1
<1>3. \A i \in 1 .. Len(c) : Before(c[i], ts) => c[i] \in CommittedBefore(k, ts)
  BY <1>2
<1>4. \A v \in CommittedBefore(k, ts) : \E i \in 1 .. Len(c) : v = c[i] /\ Before(c[i], ts)
  BY <1>2
<1>5. CASE x = Nil
  <2>1. IsNewest(k, ts, x) <=> CommittedBefore(k, ts) = {}
    BY <1>5 DEF IsNewest
  <2> QED BY <1>3, <1>4, <1>5, <2>1 DEF NewestOn
<1>6. CASE x # Nil
  <2>1. IsNewest(k, ts, x) <=>
          \E v \in CommittedBefore(k, ts) :
            /\ v.cur_version = x
            /\ \A w \in CommittedBefore(k, ts) :
                 rec[w.cur_version].commit_trans <= rec[x].commit_trans
    BY <1>6 DEF IsNewest
  <2> QED BY <1>3, <1>4, <1>6, <2>1 DEF NewestOn
<1> QED BY <1>5, <1>6

LEMMA NewestByChainNext ==
    (\A k, c, ts, x : Linked(entry[k], data[k], c)
                        => (IsNewest(k, ts, x) <=> NewestOn(c, ts, x)))'
BY NewestByChain, PTL

\* As long as nobody prepared before ts can still commit before ts, what is
\* newest before ts stays so.
LEMMA NewestStays ==
    ASSUME StoreInv, [StoreNext]_storeVars, NEW k \in Key, NEW ts \in Int, NEW x,
           /\ entry[k].cur_version # Nil
           /\ rec[entry[k].cur_version].state = "Prepared"
           => ts <= rec[entry[k].cur_version].self_commit_ts,
           x \in Trans \cup {Nil}, IsNewest(k, ts, x)
    PROVE  IsNewest(k, ts, x)'
<1>0. DatabaseTypeOK /\ TimesInv /\ WritersExclude /\ ChainInv
  BY DEF StoreInv
<1>1. PICK c : c = Chain(k)
  OBVIOUS
<1>2. Linked(entry[k], data[k], c) /\ Ordered(c)
  BY <1>0, <1>1 DEF ChainInv
<1>3. PICK d : /\ Linked(entry'[k], data'[k], d)
               /\ \/ d = c
                  \/ \E u \in Trans : Write(u) /\ req[u].key = k /\ Grown(k, c, d)
  BY <1>0, <1>2, ChainStep
<1>4. /\ \A i \in 1 .. Len(c) : c[i].cur_version \in Trans
      /\ \A i \in 1 .. Len(d) : d[i].cur_version \in Trans
      /\ Len(c) \in Nat /\ Len(d) \in Nat
  <2>1. \A i \in 1 .. Len(c) : c[i].cur_version \in Trans
    BY <1>2, LinkedFacts
  <2>2. \A i \in 1 .. Len(d) : d[i].cur_version \in Trans
    BY <1>3, LinkedFacts
  <2> QED BY <1>2, <1>3, <2>1, <2>2 DEF Linked
\* Who was committed before ts was so before this step.
<1>5. ASSUME NEW i \in 1 .. Len(c), Before(c[i], ts)' PROVE Before(c[i], ts)
  <2> DEFINE w == c[i].cur_version
  <2>1. w \in Trans /\ rec'[w].state = "Commited" /\ rec'[w].commit_trans < ts
    BY <1>4, <1>5 DEF Before
  <2>2. rec'[w] = rec[w] \/ rec[w].state = "Prepared"
    BY <1>0, <2>1, RecStep
  <2>3. CASE rec'[w] = rec[w]
    BY <2>1, <2>3 DEF Before
  <2>4. ASSUME rec'[w] # rec[w], rec[w].state = "Prepared" PROVE FALSE
    <3>1. i = 1
      <4>1. ~Decided(w)
        BY <2>4 DEF Decided
      <4> QED BY <1>0, <1>2, <4>1, OlderDecided
    <3>2. w = entry[k].cur_version /\ w # Nil
      <4>1. Len(c) # 0
        BY <1>4, <3>1
      <4> QED BY <1>0, <1>2, <3>1, <4>1, EntryOfChain
    <3> HIDE DEF w
    <3>3. ts <= rec[w].self_commit_ts
      BY <2>4, <3>2
    <3>4. Moves(w) /\ rec[w] \in TransRec
      BY <1>0, <2>1, RecMoves DEF DatabaseTypeOK
    <3>5. rec[w].self_commit_ts \in Int /\ clock' \in Int
      <4>1. DatabaseTypeOK'
        BY <1>0, DatabaseTypeNext
      <4> QED BY <3>4, <4>1 DEF DatabaseTypeOK, TransRec, TS
    <3>6. PICK at \in rec[w].self_commit_ts .. clock' :
            rec'[w] = [rec[w] EXCEPT !.state = "Commited", !.commit_trans = at]
      BY <2>1, <2>4, <3>4 DEF Moves, TransRec
    <3>7. rec'[w].commit_trans = at
      BY <3>4, <3>6 DEF TransRec
    <3> QED BY <2>1, <3>3, <3>5, <3>6, <3>7
  <2> QED BY <2>2, <2>3, <2>4
<1>6. ASSUME NEW i \in 1 .. Len(c), Before(c[i], ts)
      PROVE  Before(c[i], ts)' /\ rec'[c[i].cur_version] = rec[c[i].cur_version]
  <2>1. Decided(c[i].cur_version)
    BY <1>6 DEF Before, Decided
  <2>2. rec'[c[i].cur_version] = rec[c[i].cur_version]
    BY <1>0, <1>4, <2>1, RecStep
  <2> QED BY <1>6, <2>2 DEF Before
<1>7. NewestOn(c, ts, x)
  BY <1>2, NewestByChain
\* It is on the new chain if and only if it was on the old one.
<1>8. /\ \A i \in 1 .. Len(d) : Before(d[i], ts)' =>
           \E j \in 1 .. Len(c) : c[j].cur_version = d[i].cur_version
      /\ \A j \in 1 .. Len(c) : Before(c[j], ts) =>
           \E i \in 1 .. Len(d) : c[j].cur_version = d[i].cur_version
  <2>1. CASE d = c
    BY <2>1
  <2>2. ASSUME NEW u \in Trans, Write(u), Grown(k, c, d)
        PROVE  /\ \A i \in 1 .. Len(d) : Before(d[i], ts)' =>
                    \E j \in 1 .. Len(c) : c[j].cur_version = d[i].cur_version
               /\ \A j \in 1 .. Len(c) : Before(c[j], ts) =>
                    \E i \in 1 .. Len(d) : c[j].cur_version = d[i].cur_version
    <3>1. PICK t \in session :
             /\ Len(d) \in Nat /\ Len(d) > 0 /\ d[1].cur_version = t
             /\ \/ /\ Len(d) = Len(c) /\ entry[k].cur_version = t
                   /\ \A j \in 1 .. Len(c) : j # 1 => d[j] = c[j]
                   /\ \A j \in 1 .. Len(c) : d[j].cur_version = c[j].cur_version
                \/ /\ Len(d) = Len(c) + 1 /\ entry[k].cur_version # t
                   /\ \A j \in 1 .. Len(c) : d[j + 1] = c[j]
                   /\ \A j \in 1 .. Len(c) : Decided(c[j].cur_version)
                   /\ \A j \in 1 .. Len(d) : j # 1 => j - 1 \in 1 .. Len(c) /\ d[j] = c[j - 1]
      BY <1>0, <1>2, <2>2, GrownFacts
    <3>2. rec'[t].state = "Begin"
      <4>1. rec[t].state = "Begin" /\ rec' = rec
        BY <1>0, <2>2 DEF TimesInv, Times, DatabaseTypeOK, Write
      <4> QED BY <4>1
    <3>3. CASE Len(d) = Len(c) /\ \A j \in 1 .. Len(c) : d[j].cur_version = c[j].cur_version
      BY <3>3
    <3>4. CASE /\ Len(d) = Len(c) + 1
               /\ \A j \in 1 .. Len(c) : d[j + 1] = c[j]
               /\ \A j \in 1 .. Len(d) : j # 1 => j - 1 \in 1 .. Len(c) /\ d[j] = c[j - 1]
      <4>1. ASSUME NEW i \in 1 .. Len(d), Before(d[i], ts)'
            PROVE  \E j \in 1 .. Len(c) : c[j].cur_version = d[i].cur_version
        <5>1. i # 1
          BY <3>1, <3>2, <4>1 DEF Before
        <5> QED BY <3>4, <5>1
      <4>2. ASSUME NEW j \in 1 .. Len(c)
            PROVE  \E i \in 1 .. Len(d) : c[j].cur_version = d[i].cur_version
        <5>1. j + 1 \in 1 .. Len(d)
          BY <1>4, <3>4
        <5> QED BY <3>4, <5>1
      <4> QED BY <4>1, <4>2
    <3> QED BY <3>1, <3>3, <3>4
  <2> QED BY <1>3, <2>1, <2>2
<1>9. ASSUME NEW i \in 1 .. Len(d), Before(d[i], ts)'
      PROVE  \E j \in 1 .. Len(c) : /\ c[j].cur_version = d[i].cur_version
                                    /\ Before(c[j], ts)
                                    /\ rec'[d[i].cur_version] = rec[c[j].cur_version]
  <2>1. PICK j \in 1 .. Len(c) : c[j].cur_version = d[i].cur_version
    BY <1>8, <1>9
  <2>2. Before(c[j], ts)'
    BY <1>9, <2>1 DEF Before
  <2>3. Before(c[j], ts)
    BY <1>5, <2>2
  <2> QED BY <1>6, <2>1, <2>3
<1>10. CASE x = Nil
  <2>1. NewestOn(d, ts, x)'
    BY <1>7, <1>9, <1>10 DEF NewestOn
  <2> QED BY <1>3, <2>1, NewestByChainNext
<1>11. CASE x # Nil
  <2>1. PICK j \in 1 .. Len(c) : c[j].cur_version = x /\ Before(c[j], ts)
    BY <1>7, <1>11 DEF NewestOn
  <2>2. PICK i \in 1 .. Len(d) : d[i].cur_version = x
    BY <1>8, <2>1
  <2>3. Before(d[i], ts)' /\ rec'[x] = rec[x]
    BY <1>6, <2>1, <2>2 DEF Before
  <2>4. ASSUME NEW h \in 1 .. Len(d), Before(d[h], ts)'
        PROVE  rec'[d[h].cur_version].commit_trans <= rec'[x].commit_trans
    BY <1>7, <1>9, <1>11, <2>3, <2>4 DEF NewestOn
  <2>5. NewestOn(d, ts, x)'
    BY <1>11, <2>2, <2>3, <2>4 DEF NewestOn
  <2> QED BY <1>3, <2>5, NewestByChainNext
<1> QED BY <1>10, <1>11

\* Nobody has an answer without a record, and what an open transaction read is
\* newest before its begin_ts; who prepares the key now will not commit before.
ReadKept(t) ==
    /\ reply[t] # NoReply => rec[t].state # "none"
    /\ t \in session /\ reply[t].type = "get" /\ entry[reply[t].key].cur_version # t =>
         /\ IsNewest(reply[t].key, begin_ts[t], reply[t].version)
         /\ /\ entry[reply[t].key].cur_version # Nil
            /\ rec[entry[reply[t].key].cur_version].state = "Prepared"
            => begin_ts[t] <= rec[entry[reply[t].key].cur_version].self_commit_ts

ReadInv == \A t \in Trans : ReadKept(t)

\* If t is open and its entry is not the one of the key, nobody puts it there.
LEMMA NotWrittenBefore ==
    ASSUME StoreInv, [StoreNext]_storeVars, NEW t \in Trans, ~Decided(t), NEW k \in Key,
           entry'[k].cur_version # t
    PROVE  entry[k].cur_version # t
<1>1. SUFFICES ASSUME entry[k].cur_version = t PROVE FALSE
  OBVIOUS
<1>2. PICK w \in session : CanLock(k, w) /\ entry'[k].cur_version = w
  BY <1>1, LockAndEntryStep
<1>3. w \in Trans /\ w # t
  BY <1>2 DEF StoreInv, DatabaseTypeOK
<1> QED BY <1>1, <1>2, <1>3, LockedOut DEF StoreInv

\* What was read earlier is kept by every step.
LEMMA ReadStays ==
    ASSUME StoreInv, StoreTypeOK, [StoreNext]_storeVars, NEW t \in Trans, ReadKept(t),
           reply'[t] = reply[t]
    PROVE  ReadKept(t)'
<1>0. DatabaseTypeOK /\ TimesInv /\ WritersExclude
  BY DEF StoreInv
<1>1. reply'[t] # NoReply => rec'[t].state # "none"
  BY <1>0, RecStep DEF ReadKept
<1>2. ASSUME t \in session', reply[t].type = "get", NEW k, k = reply[t].key,
             entry'[k].cur_version # t, NEW ts, ts = begin_ts[t], NEW x, x = reply[t].version
      PROVE  /\ IsNewest(k, ts, x)' /\ begin_ts'[t] = ts
             /\ entry'[k].cur_version # Nil /\ rec'[entry'[k].cur_version].state = "Prepared"
                => ts <= rec'[entry'[k].cur_version].self_commit_ts
  <2>1. reply[t] \in Reply
    BY <1>2 DEF StoreTypeOK, NoReply
  <2>2. k \in Key /\ x \in Trans \cup {Nil}
    BY <1>2, <2>1 DEF Reply
  <2>3. rec[t].state # "none" /\ rec'[t].state = "Begin"
    <3>1. reply[t] # NoReply
      BY <1>2 DEF NoReply
    <3> QED BY <1>0, <1>2, <3>1, SessionsNext DEF ReadKept
  <2>4. rec[t].state = "Begin" /\ t \in session
    <3>1. Moves(t) /\ rec[t] \in TransRec
      BY <1>0, RecMoves DEF DatabaseTypeOK
    <3>2. rec[t].state = "Begin"
      BY <2>3, <3>1 DEF Moves, TransRec
    <3>3. t \in session
      <4>1. ASSUME NEW u \in Trans, Begin(u) PROVE u # t
        BY <3>2, <4>1 DEF Begin
      <4>2. session' \subseteq session \/ \E u \in Trans : Begin(u) /\ session' = session \cup {u}
        BY DEF StoreNext, Serve, Decide, ReqBegin, Begin, ReqCommit, SessionEnd, Get,
               GetForUpdate, Write, Prepare, Commit, Rollback, CrashInWrite, Restart,
               Receive, Crash, storeVars
      <4> QED BY <1>2, <4>1, <4>2
    <3> QED BY <3>2, <3>3
  <2>5. ~Decided(t) /\ begin_ts[t] # 0 /\ begin_ts[t] <= clock
    BY <1>0, <2>4 DEF Decided, TimesInv, Times
  <2>6. begin_ts'[t] = ts /\ ts \in Int
    BY <1>0, <1>2, <2>5, BeginTSStays DEF DatabaseTypeOK, TS
  <2>7. entry[k].cur_version # t
    BY <1>2, <2>2, <2>5, NotWrittenBefore
  <2>8. /\ IsNewest(k, ts, x)
        /\ entry[k].cur_version # Nil /\ rec[entry[k].cur_version].state = "Prepared"
           => ts <= rec[entry[k].cur_version].self_commit_ts
    BY <1>2, <2>4, <2>7 DEF ReadKept
  <2>9. IsNewest(k, ts, x)'
    BY <2>2, <2>6, <2>8, NewestStays
  <2>10. ASSUME entry'[k].cur_version # Nil, rec'[entry'[k].cur_version].state = "Prepared"
         PROVE  ts <= rec'[entry'[k].cur_version].self_commit_ts
    <3> DEFINE u == entry'[k].cur_version
    <3>1. entry'[k] = entry[k]
      <4>1. ASSUME NEW w \in session, entry'[k].cur_version = w, rec' = rec PROVE FALSE
        <5>1. rec[w].state = "Begin"
          BY <1>0 DEF TimesInv, Times, DatabaseTypeOK
        <5> QED BY <2>10, <4>1, <5>1
      <4> QED BY <2>2, <4>1, LockAndEntryStep
    <3>2. u \in Trans /\ u = entry[k].cur_version
      BY <1>0, <2>2, <2>10, <3>1, EntryType
    <3>3. rec'[u].state = "Prepared" /\ u # Nil
      BY <2>10
    <3> HIDE DEF u
    <3>4. \/ /\ rec[u].state \in {"Prepared", "Commited"}
             /\ rec'[u].self_commit_ts = rec[u].self_commit_ts
          \/ rec'[u].self_commit_ts = clock'
      BY <1>0, <3>2, <3>3, RecStep
    <3>5. CASE rec'[u].self_commit_ts = clock'
      <4>1. clock <= clock' /\ clock \in Int /\ clock' \in Int
        BY <1>0, ClockForward, DatabaseTypeNext DEF DatabaseTypeOK
      <4> QED BY <1>2, <2>5, <2>6, <3>5, <4>1 DEF u
    <3>6. CASE /\ rec[u].state \in {"Prepared", "Commited"}
               /\ rec'[u].self_commit_ts = rec[u].self_commit_ts
      <4>1. rec[u].state = "Prepared"
        <5>1. rec[u].state = "Commited" => rec'[u] = rec[u]
          BY <1>0, <3>2, RecStep DEF Decided
        <5> QED BY <3>3, <3>6, <5>1
      <4> QED BY <2>8, <3>2, <3>3, <3>6, <4>1 DEF u
    <3> QED BY <3>4, <3>5, <3>6
  <2> QED BY <2>6, <2>9, <2>10
<1>3. ASSUME t \in session', reply'[t].type = "get", entry'[reply'[t].key].cur_version # t
      PROVE  /\ IsNewest(reply[t].key, begin_ts[t], reply[t].version)'
             /\ /\ entry'[reply'[t].key].cur_version # Nil
                /\ rec'[entry'[reply'[t].key].cur_version].state = "Prepared"
                => begin_ts'[t] <= rec'[entry'[reply'[t].key].cur_version].self_commit_ts
  <2>1. PICK k, ts, x : k = reply[t].key /\ ts = begin_ts[t] /\ x = reply[t].version
    OBVIOUS
  <2>2. /\ IsNewest(k, ts, x)' /\ begin_ts'[t] = ts
        /\ entry'[k].cur_version # Nil /\ rec'[entry'[k].cur_version].state = "Prepared"
           => ts <= rec'[entry'[k].cur_version].self_commit_ts
    BY <1>2, <1>3, <2>1
  <2>3. k = reply'[t].key /\ x = reply'[t].version
    BY <2>1
  <2>4. IsNewest(reply[t].key, begin_ts[t], reply[t].version)'
    BY <2>2, <2>3 DEF IsNewest, CommittedBefore
  <2> QED BY <2>2, <2>3, <2>4
<1> QED BY <1>1, <1>3 DEF ReadKept

\* What a read of t returns is kept from the start.
LEMMA ReadStarts ==
    ASSUME StoreInv, StoreTypeOK, NEW t \in Trans, Get(t), ReadAnswered(t, begin_ts[t])
    PROVE  ReadKept(t)'
<1>0. DatabaseTypeOK /\ TimesInv /\ WritersExclude
  BY DEF StoreInv
<1>1. /\ req[t].key \in Key /\ req[t] # NoRequest
      /\ UNCHANGED <<begin_ts, rec, session, entry, data>>
  BY DEF Get, NoRequest, ReadAnswered, Request
<1>2. t \in session /\ rec[t].state = "Begin"
  BY <1>0, <1>1 DEF TimesInv, Times
<1>3. PICK k, ts, r : k = req[t].key /\ ts = begin_ts[t] /\ r = ReadData(k, ts)
  OBVIOUS
<1>4. k \in Key /\ r.ret # 66 /\ ts \in Int
  BY <1>0, <1>1, <1>3 DEF ReadAnswered, DatabaseTypeOK, TS
<1>5. reply'[t].key = k /\ reply'[t].version = r.version
  BY <1>3 DEF ReadAnswered, Answer, StoreTypeOK
<1>6. ASSUME entry[k].cur_version # t
      PROVE  /\ IsNewest(k, ts, r.version)
             /\ entry[k].cur_version # Nil /\ rec[entry[k].cur_version].state = "Prepared"
                => ts <= rec[entry[k].cur_version].self_commit_ts
  <2>1. PICK c : c = Chain(k)
    OBVIOUS
  <2>2. \A i \in 1 .. Len(c) : begin_ts[c[i].cur_version] # ts
    BY <1>2, <1>3, <1>4, <1>6, <2>1, OthersOnChain
  <2>3. IsNewest(k, ts, r.version)
    BY <1>3, <1>4, <2>1, <2>2, ReadIsNewest
  <2>4. ASSUME entry[k].cur_version # Nil, rec[entry[k].cur_version].state = "Prepared"
        PROVE  ts <= rec[entry[k].cur_version].self_commit_ts
    <3> DEFINE u == entry[k].cur_version
    <3>1. Linked(entry[k], data[k], c) /\ Len(c) \in Nat
      BY <1>4, <2>1, ReadDataStops
    <3>2. 1 \in 1 .. Len(c) /\ c[1].cur_version = u /\ u \in Trans
      BY <1>0, <1>4, <2>4, <3>1, EntryOfChain
    <3>3. begin_ts[c[1].cur_version] # ts
      BY <2>2, <3>2
    <3>4. Passed(c[1], ts)
      <4>1. ASSUME ~Passed(c[1], ts) PROVE FALSE
        <5>1. ASSUME NEW m \in 1 .. Len(c), \A i \in 1 .. Len(c) : i < m => Passed(c[i], ts)
              PROVE  m = 1
          BY <3>1, <3>2, <4>1, <5>1
        <5>2. r = Found(c[1], ts)
          BY <1>3, <1>4, <2>1, <3>2, <4>1, <5>1, ReadDataStops
        <5>3. r.ret = 66
          BY <2>4, <3>2, <3>3, <5>2 DEF Found
        <5> QED BY <1>4, <5>3
      <4> QED BY <4>1
    <3>5. ts <= rec[u].start_trans
      BY <2>4, <3>2, <3>4 DEF Passed
    <3>6. rec[u].start_trans <= rec[u].self_commit_ts
      BY <1>0, <2>4, <3>2 DEF TimesInv, Times
    <3>7. rec[u].start_trans \in Int /\ rec[u].self_commit_ts \in Int
      BY <1>0, <3>2 DEF DatabaseTypeOK, TransRec, TS
    <3> QED BY <1>4, <3>5, <3>6, <3>7
  <2> QED BY <2>3, <2>4
<1>7. begin_ts'[t] = ts /\ rec'[t].state # "none"
  BY <1>1, <1>2, <1>3
<1>8. ASSUME entry'[k].cur_version # t
      PROVE  IsNewest(reply[t].key, begin_ts[t], reply[t].version)'
  <2>1. IsNewest(k, ts, r.version)
    BY <1>1, <1>6, <1>8
  <2> QED BY <1>1, <1>5, <1>7, <2>1 DEF IsNewest, CommittedBefore
<1> QED BY <1>1, <1>5, <1>6, <1>7, <1>8 DEF ReadKept

LEMMA ReadInvNext ==
    StoreInv /\ StoreTypeOK /\ ReadInv /\ [StoreNext]_storeVars => ReadInv'
<1> SUFFICES ASSUME StoreInv, StoreTypeOK, ReadInv, [StoreNext]_storeVars, NEW t \in Trans
             PROVE  ReadKept(t)'
  BY DEF ReadInv
<1>0. ReadKept(t) /\ DatabaseTypeOK /\ TimesInv /\ reply \in [Trans -> Reply \cup {NoReply}]
  BY DEF ReadInv, StoreInv, StoreTypeOK
<1>1. CASE reply'[t] = reply[t]
  BY <1>0, <1>1, ReadStays
<1>2. CASE reply'[t] = NoReply
  BY <1>2 DEF ReadKept, NoReply
<1>3. ASSUME reply'[t].type # "get", req[t] # NoRequest, rec' = rec PROVE ReadKept(t)'
  <2>1. rec'[t].state # "none"
    BY <1>0, <1>3 DEF TimesInv, Times
  <2> QED BY <1>3, <2>1 DEF ReadKept
<1>4. ASSUME NEW u \in Trans, Get(u), ReadAnswered(u, begin_ts[u]) PROVE ReadKept(t)'
  <2>1. CASE u = t
    BY <1>4, <2>1, ReadStarts
  <2>2. CASE u # t
    BY <1>0, <1>1, <1>4, <2>2 DEF ReadAnswered
  <2> QED BY <2>1, <2>2
<1>5. ASSUME NEW u \in Trans, NEW r,
             \/ GetForUpdate(u)
             \/ Write(u) /\ req[u] \in Request,
             reply' = [reply EXCEPT ![u] = Answer(u, r)]
      PROVE  ReadKept(t)'
  <2>1. CASE u = t
    <3>1. reply'[t].type = req[t].type
      BY <1>0, <1>5, <2>1 DEF Answer
    <3>2. req[t].type # "get" /\ req[t] # NoRequest /\ rec' = rec
      BY <1>5, <2>1 DEF GetForUpdate, Write, NoRequest
    <3> QED BY <1>3, <3>1, <3>2
  <2>2. CASE u # t
    BY <1>0, <1>1, <1>5, <2>2
  <2> QED BY <2>1, <2>2
<1>6. ASSUME NEW u \in Trans, NEW ts, GetForUpdate(u), ReadAnswered(u, ts)
      PROVE  ReadKept(t)'
  BY <1>5, <1>6 DEF ReadAnswered
<1>7. ASSUME NEW u \in Trans, reply' = [reply EXCEPT ![u] = NoReply]
      PROVE  ReadKept(t)'
  BY <1>0, <1>1, <1>2, <1>7
<1> QED BY <1>1, <1>4, <1>5, <1>6, <1>7, ReplyStep

THEOREM ReadsKept == StoreSpec => []ReadInv
<1>1. StoreInit => ReadInv
  <2> SUFFICES ASSUME StoreInit, NEW t \in Trans PROVE ReadKept(t)
    BY DEF ReadInv
  <2>1. reply[t] = NoReply
    BY DEF StoreInit
  <2> QED BY <2>1 DEF ReadKept, NoReply
<1> QED BY <1>1, StoreCorrect, StoreTypeCorrect, ReadInvNext, PTL DEF StoreSpec

\* What an open transaction has read it would read again at any later time,
\* whatever commits in between, until it writes the key itself.
THEOREM ReadsRepeat == StoreSpec => []RepeatableRead
<1>1. StoreTypeOK /\ ReadInv => RepeatableRead
  BY DEF StoreTypeOK, DatabaseTypeOK, ReadInv, ReadKept, RepeatableRead
<1> QED BY <1>1, StoreTypeCorrect, ReadsKept, PTL

-----------------------------------------------------------------------------
(***************************************************************************)
(* get_for_update.                                                         *)
(***************************************************************************)

\* What t got with the lock of the key is the newest of what is committed, and
\* the lock is still its own.
LockKept(t) ==
    ~Decided(t) /\ reply[t].type = "get_for_update" =>
        /\ lock[reply[t].key] = t
        /\ entry[reply[t].key].cur_version # t =>
             /\ IsNewest(reply[t].key, MaxTS + 1, reply[t].version)
             /\ entry[reply[t].key].cur_version # Nil => Decided(entry[reply[t].key].cur_version)

LockInv == \A t \in Trans : LockKept(t)

LEMMA LockStays ==
    ASSUME StoreInv, StoreTypeOK, [StoreNext]_storeVars, NEW t \in Trans, LockKept(t),
           reply'[t] = reply[t]
    PROVE  LockKept(t)'
<1>0. DatabaseTypeOK /\ TimesInv /\ WritersExclude
  BY DEF StoreInv
<1>1. ASSUME ~Decided(t)', reply[t].type = "get_for_update", NEW k, k = reply[t].key,
             NEW x, x = reply[t].version
      PROVE  /\ lock'[k] = t
             /\ entry'[k].cur_version # t =>
                  /\ IsNewest(k, MaxTS + 1, x)'
                  /\ entry'[k].cur_version # Nil =>
                       rec'[entry'[k].cur_version].state \in {"Commited", "Rollback"}
  <2>1. reply[t] \in Reply
    BY <1>1 DEF StoreTypeOK, NoReply
  <2>2. k \in Key /\ x \in Trans \cup {Nil} /\ t # Nil /\ MaxTS + 1 \in Int
    BY <1>1, <2>1, NilAssumption, TickAssumption DEF Reply
  <2>3. ~Decided(t)
    BY <1>0, <1>1, DecidedStays
  <2>4. lock[k] = t
    BY <1>1, <2>3 DEF LockKept
  <2>5. \A w \in Trans : CanLock(k, w) => w = t
    BY <2>2, <2>3, <2>4 DEF CanLock
  <2>6. lock'[k] = t
    BY <2>2, <2>4, <2>5, LockAndEntryStep
  <2>7. ASSUME entry'[k].cur_version # t
        PROVE  /\ IsNewest(k, MaxTS + 1, x)'
               /\ entry'[k].cur_version # Nil =>
                       rec'[entry'[k].cur_version].state \in {"Commited", "Rollback"}
    <3>1. entry[k].cur_version # t
      BY <2>2, <2>3, <2>7, NotWrittenBefore
    <3>2. /\ IsNewest(k, MaxTS + 1, x)
          /\ entry[k].cur_version # Nil => Decided(entry[k].cur_version)
      BY <1>1, <2>3, <3>1 DEF LockKept
    <3>3. IsNewest(k, MaxTS + 1, x)'
      BY <2>2, <3>2, NewestStays DEF Decided
    <3>4. entry'[k] = entry[k]
      BY <1>0, <2>2, <2>5, <2>7, LockAndEntryStep DEF DatabaseTypeOK
    <3>5. ASSUME NEW u, u = entry[k].cur_version, u # Nil
          PROVE  rec'[u].state \in {"Commited", "Rollback"}
      <4>1. u \in Trans /\ Decided(u)
        BY <1>0, <2>2, <3>2, <3>5, EntryType
      <4>2. rec'[u] = rec[u]
        BY <1>0, <4>1, RecStep
      <4> QED BY <4>1, <4>2 DEF Decided
    <3> QED BY <3>3, <3>4, <3>5 DEF Decided
  <2> QED BY <2>6, <2>7
<1>2. ASSUME ~Decided(t)', reply'[t].type = "get_for_update"
      PROVE  /\ lock'[reply'[t].key] = t
             /\ entry'[reply'[t].key].cur_version # t =>
                  /\ IsNewest(reply[t].key, MaxTS + 1, reply[t].version)'
                  /\ entry'[reply'[t].key].cur_version # Nil =>
                       rec'[entry'[reply'[t].key].cur_version].state \in {"Commited", "Rollback"}
  <2>1. PICK k, x : k = reply[t].key /\ x = reply[t].version
    OBVIOUS
  <2>2. /\ lock'[k] = t
        /\ entry'[k].cur_version # t =>
             /\ IsNewest(k, MaxTS + 1, x)'
             /\ entry'[k].cur_version # Nil =>
                       rec'[entry'[k].cur_version].state \in {"Commited", "Rollback"}
    BY <1>1, <1>2, <2>1
  <2>3. k = reply'[t].key /\ x = reply'[t].version
    BY <2>1
  <2>4. IsNewest(k, MaxTS + 1, x)' => IsNewest(reply[t].key, MaxTS + 1, reply[t].version)'
    BY <2>3 DEF IsNewest, CommittedBefore
  <2> QED BY <2>2, <2>3, <2>4
<1> QED BY <1>2 DEF LockKept, Decided

\* With a clock that has moved on, get_for_update finds all that is committed.
LEMMA LockStarts ==
    ASSUME SameTick = FALSE, StoreInv, StoreTypeOK, NEW t \in Trans, NEW now \in GetTS,
           GetForUpdate(t), ReadAnswered(t, now)
    PROVE  LockKept(t)'
<1>0. DatabaseTypeOK /\ TimesInv /\ WritersExclude
  BY DEF StoreInv
<1>1. /\ req[t].key \in Key /\ req[t] # NoRequest /\ CanLock(req[t].key, t)
      /\ lock' = [lock EXCEPT ![req[t].key] = t]
      /\ UNCHANGED <<begin_ts, rec, session, entry, data>>
  BY DEF GetForUpdate, NoRequest, ReadAnswered, Request
<1>2. PICK k, ts, r : k = req[t].key /\ ts = now /\ r = ReadData(k, ts)
  OBVIOUS
<1>3. k \in Key /\ r.ret # 66
  BY <1>1, <1>2 DEF ReadAnswered
<1>4. /\ reply'[t].key = k /\ reply'[t].version = r.version /\ lock'[k] = t
  BY <1>0, <1>1, <1>2 DEF ReadAnswered, Answer, StoreTypeOK, DatabaseTypeOK
<1>5. ts \in Int /\ clock \in Int /\ clock < ts /\ MaxTS \in Int /\ clock <= MaxTS
  BY <1>0, <1>2, TickAssumption DEF GetTS, DatabaseTypeOK
<1>6. ASSUME entry[k].cur_version # t
      PROVE  /\ IsNewest(k, MaxTS + 1, r.version)
             /\ entry[k].cur_version # Nil => Decided(entry[k].cur_version)
  <2>1. entry[k].cur_version # Nil => Decided(entry[k].cur_version)
    BY <1>0, <1>1, <1>2, <1>3, <1>6, EntryType, LockedOut
  <2>2. PICK c : c = Chain(k)
    OBVIOUS
  <2>3. Linked(entry[k], data[k], c)
    BY <1>3, <2>2, ReadDataStops
  <2>4. ASSUME NEW i \in 1 .. Len(c), NEW u, u = c[i].cur_version
        PROVE  /\ begin_ts[u] # ts
               /\ rec[u].state = "Commited" =>
                    (rec[u].commit_trans < MaxTS + 1 <=> rec[u].commit_trans < ts)
    <3>1. u \in Trans
      BY <2>3, <2>4, LinkedFacts
    <3>2. begin_ts[u] \in Int /\ begin_ts[u] <= clock
      BY <1>0, <3>1 DEF DatabaseTypeOK, TS, TimesInv, Times
    <3>3. rec[u].commit_trans \in Int
      BY <1>0, <3>1 DEF DatabaseTypeOK, TransRec, TS
    <3>4. rec[u].state = "Commited" => rec[u].commit_trans <= clock
      BY <1>0, <3>1 DEF TimesInv, Times
    <3> QED BY <1>5, <3>2, <3>3, <3>4
  <2>5. IsNewest(k, MaxTS + 1, r.version)
    <3>1. MaxTS + 1 \in Int
      BY <1>5
    <3> QED BY <1>2, <1>3, <1>5, <2>2, <2>4, <3>1, ReadIsNewest
  <2> QED BY <2>1, <2>5
<1>7. ASSUME entry'[k].cur_version # t
      PROVE  /\ IsNewest(reply[t].key, MaxTS + 1, reply[t].version)'
             /\ entry'[k].cur_version # Nil =>
                  rec'[entry'[k].cur_version].state \in {"Commited", "Rollback"}
  <2>1. /\ IsNewest(k, MaxTS + 1, r.version)
        /\ entry[k].cur_version # Nil => Decided(entry[k].cur_version)
    BY <1>1, <1>6, <1>7
  <2>2. IsNewest(reply[t].key, MaxTS + 1, reply[t].version)'
    BY <1>1, <1>4, <2>1 DEF IsNewest, CommittedBefore
  <2> QED BY <1>1, <2>1, <2>2 DEF Decided
<1> QED BY <1>4, <1>7 DEF LockKept, Decided

LEMMA LockInvNext ==
    ASSUME SameTick = FALSE
    PROVE  StoreInv /\ StoreTypeOK /\ LockInv /\ [StoreNext]_storeVars => LockInv'
<1> SUFFICES ASSUME StoreInv, StoreTypeOK, LockInv, [StoreNext]_storeVars, NEW t \in Trans
             PROVE  LockKept(t)'
  BY DEF LockInv
<1>0. LockKept(t) /\ reply \in [Trans -> Reply \cup {NoReply}]
  BY DEF LockInv, StoreTypeOK
<1>1. CASE reply'[t] = reply[t]
  BY <1>0, <1>1, LockStays
<1>2. CASE reply'[t].type # "get_for_update"
  BY <1>2 DEF LockKept
<1>3. ASSUME NEW u \in Trans, NEW ts \in GetTS, GetForUpdate(u), ReadAnswered(u, ts)
      PROVE  LockKept(t)'
  <2>1. CASE u = t
    BY <1>3, <2>1, LockStarts
  <2>2. CASE u # t
    BY <1>0, <1>1, <1>3, <2>2 DEF ReadAnswered
  <2> QED BY <2>1, <2>2
<1>4. ASSUME NEW u \in Trans, NEW r, Get(u) \/ Write(u),
             reply' = [reply EXCEPT ![u] = Answer(u, r)]
      PROVE  LockKept(t)'
  <2>1. CASE u = t
    <3>1. reply'[t].type = req[t].type
      BY <1>0, <1>4, <2>1 DEF Answer
    <3>2. req[t].type # "get_for_update"
      BY <1>4, <2>1 DEF Get, Write
    <3> QED BY <1>2, <3>1, <3>2
  <2>2. CASE u # t
    BY <1>0, <1>1, <1>4, <2>2
  <2> QED BY <2>1, <2>2
<1>5. ASSUME NEW u \in Trans, NEW ts, Get(u), ReadAnswered(u, ts)
      PROVE  LockKept(t)'
  BY <1>4, <1>5 DEF ReadAnswered
<1>6. ASSUME NEW u \in Trans, reply' = [reply EXCEPT ![u] = NoReply]
      PROVE  LockKept(t)'
  BY <1>0, <1>1, <1>2, <1>6 DEF NoReply
<1> QED BY <1>1, <1>3, <1>4, <1>5, <1>6, ReplyStep

\* What get_for_update returned stays the newest committed version of the key
\* until the reader is decided, if no two calls of GetTS fall into the same
\* microsecond: nobody else can lock the key (addLock), the chain stays.
THEOREM LockedReadsLast ==
    ASSUME SameTick = FALSE
    PROVE  StoreSpec => []LockedReadIsNewest
<1>1. StoreInit => LockInv
  <2> SUFFICES ASSUME StoreInit, NEW t \in Trans PROVE LockKept(t)
    BY DEF LockInv
  <2>1. reply[t] = NoReply
    BY DEF StoreInit
  <2> QED BY <2>1 DEF LockKept, NoReply
<1>2. StoreInv /\ StoreTypeOK /\ LockInv /\ [StoreNext]_storeVars => LockInv'
  BY LockInvNext
<1>3. LockInv => LockedReadIsNewest
  BY DEF LockInv, LockKept, LockedReadIsNewest
<1> QED BY <1>1, <1>2, <1>3, StoreCorrect, StoreTypeCorrect, PTL DEF StoreSpec

=============================================================================
