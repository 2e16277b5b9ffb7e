# Specifications of 2pc

TLA+ specifications of the distributed transactions of this repository, with
TLC configurations and TLAPS proofs. Everything is read from the code
(`src/*.cpp`, `src/Core`); `README1.md`, the design note the code follows, is
used only to know what the code is meant to do.

## The system

A client talks to one `logicServ`; keys are distributed over the `storageServ`
processes of the configuration by a hash; every storage keeps a RocksDB.
Transactions are optimistic in their reads (snapshot at `begin_ts`) and locked
in their writes. They commit with a prepare phase only: there is no commit
message. A storage that prepared a transaction asks the other participants for
their state until it knows the outcome.

| component | state it keeps | operations | interacts with |
|---|---|---|---|
| logicServ session (`readwrite_routine`, `StorageCl`) | `begin_ts`, `start_ts`, a connection and `stat` per storage | Begin, Commit, Rollback, Get/Update/Insert/Delete | the client's connection; one connection per storage, opened at the first key of that storage |
| storageServ session (`readwrite_routine`) | `begin_ts` of the transaction open on the connection | Begin, Prepare, Get, Delete/Update/Insert, TransState; at its end `startCleanTrans` | `Storage`, PrepareTasks |
| PrepareTask (`prepare_routine`), 100 coroutines | the record read at its start, counters of the pass, `max_commit_ts` | ask each participant, count or adopt, commit, start over | TransState requests to the other storages |
| `Storage` | RocksDB: `trans_<begin_ts>`, `lock_<key>`, `data_<key>_entry`, `data_<key>_<begin_ts>` | `addTrans`, `updateTransPrepared`, `updateTransSelfCommitTs`, `addLock`, `addData`, `ReadData`, `startCleanTrans`, `startUpClean` | called by the sessions and at startup; hands prepared transactions to PrepareTasks |
| `Utils` | none | `GetTS` (wall clock, microseconds), `GetHash`, JSON | everybody |
| `Msg`, `Network` | none | `ReadOneMsg`, `SendMsg`; `Connect`, `ReadBuff`, `SendBuff` | everybody |
| `client` | its connection, whether it waits for a response | send one request at a time, reconnect | one logicServ session |
| `accept_routine`, `main` | the stacks of idle session coroutines and PrepareTasks | take a coroutine for a connection; at the start, make the tasks and call `startUpClean` | sessions, PrepareTasks |
| `Config`, `Log` | none | | |

Each process is single threaded: coroutines (libco) run until they wait for a
socket or a timer. A handler without such a wait is one step; what is read
before a wait may be old after it. Two `Put`s of one handler are one step for
the other coroutines, but not for a crash of the process.

What is hard:

* a PrepareTask decides from answers read at different times, while the peers
  prepare, decide, crash, restart or lose their sessions;
* the coordinator may disappear, or report an error, at any point of the
  prepare phase, and nobody replaces it;
* timestamps are taken by every process for itself, may coincide, and decide
  what a reader sees before the writer's commit timestamp exists;
* locks and versions are never removed: their meaning follows from the state
  of the transaction that wrote them;
* a crash between two `Put`s of a prepare or of a write;
* sessions and connections outlive a transaction: `begin_ts`, `fd` and `stat`
  at the one end and `begin_ts` at the other are set and reset in many places,
  by responses, errors and events in any order;
* the stack of idle PrepareTasks is shared by sessions, tasks and the restart,
  and has a fixed size;
* a message of which only a part has arrived is taken for a whole one.

What makes the parts correct: storages decide alike (`Atomicity`) and with the
largest timestamp (`CommitTsIsMax`); success told to the client is final
(`OkNeverRolledBack`, `OkIsStamped`, `OkIsCommited`, `OkMeansPrepared`);
everything prepared or abandoned is decided (`PreparedIsDecided`,
`NothingLeftOpen`, `AbandonedEnds`); the ends of a connection agree on the
transaction (`EndsAgree`, `AnswersAreDone`, `NoForeignRollback`); no task is
lost and none is missing (`PoolIsWhole`, `PreparedHasTask`, `PreparedEnds`);
locks protect the version chains (`WritersExclude`, `ChainOrder`,
`VersionsKept`); reads see one snapshot (`ReadsSnapshot`, `RepeatableRead`);
waits end (`CommitEnds`, `RequestAnswered`, `RequestEnds`). `PROJECT.json` lists under `hazards` the lines where each of
these could go wrong.

## Modules

| module | what it is |
|---|---|
| `CommitProtocol` | sessions of logicServ and storageServ, transaction records, PrepareTasks, crashes, restarts, broken connections: how a transaction begins, prepares and is decided |
| `AtomicCommit` | the abstract specification: what the storages promise together about one transaction |
| `Sessions` | a client, its logicServ session, kept connections and the storageServ sessions at their ends, with one transaction after another; connections that break, messages cut, processes that die |
| `TaskPool` | the stack of idle PrepareTasks of one storageServ, with sessions, decisions, crashes and `startUpClean` |
| `KeyStore` | locks, version chains, reads and writes of one storageServ |
| `MCCommit`, `MCSessions`, `MCKeyStore` | the detailed modules for TLC, and the claims of comments and documents they violate |
| `CommitProofs` | type correctness of `CommitProtocol` |
| `AtomicityProofs` | the part of its inductive invariant about lists, votes, decisions and timestamps (`VotingInv`), and atomicity |
| `ProtocolProofs` | the rest of it: the ends of the connections, the answers to Prepare, the PrepareTasks (`ProtocolInv`); and what follows: timestamps, what a client was told, and that `CommitProtocol` implements `AtomicCommit` |
| `AgreementProofs` | invariant and agreement of `AtomicCommit` |
| `TaskPoolProofs` | all safety properties of `TaskPool` |
| `KeyStoreProofs` | all safety properties of `KeyStore`: types, exclusion of writers, the version chains and what reads return |
| `SessionTypeProofs` | type correctness of `Sessions` |
| `SessionsProofs` | its inductive invariant (`SessionsInv`), all its safety properties and the refinement of `AtomicCommit` |

`CommitProtocol` and `KeyStore` meet at the transaction record. `KeyStore` lets
a prepared transaction commit at any time, with any timestamp between its own
`self_commit_ts` and now, or roll back: `CommitProtocol` shows that commit
timestamps are in this range (`CommitTsIsMax`, without the crash inside a
prepare; with it only `CommitAfterStart` is left). `AtomicCommit` is instantiated by
`CommitProtocol` and by `Sessions` (`Promise`), once for each transaction;
a vote without a timestamp (0) stands for a crash between the Puts of a prepare,
and for all votes in `Sessions`, where no timestamps of votes exist.

`CommitProtocol` gives each transaction a session and connections of its own.
That this is enough is what `Sessions` is for: there transactions follow each
other on one session and its kept connections, and `ImplementsAtomicCommit`
says of each of them that the list sent with Prepare names exactly the
storages that joined. In `Sessions` a prepared record stays prepared: how it is
decided is `CommitProtocol`'s. Both take a PrepareTask to be there
when one is needed: when that is so is `TaskPool`'s subject.
`RequestEnds` of `KeyStore` justifies that `Sessions` takes a data request to
be answered in the end.

### CommitProtocol and the code

A transaction `t` is a `begin_ts` and the logicServ session that runs it.

| variable | code |
|---|---|
| `trans[n][t]` | the record `trans_<t>` at storage `n`; state `none` if there is none |
| `sess[n]` | transactions that a session of `n` holds in its local `begin_ts` |
| `task[n][t]` | the locals of the PrepareTask of `n` that works on `t`: hosts still to ask (`todo`), hosts counted in `nHasTransStatePrepared` (`prepared`), `max_commit_ts`, the answer received and not yet used |
| `logic[t]` | the locals of the logicServ session; `stat` is the set of storages with `stat == 1`; `result` what the client was told |
| `link[t][n]`, `wire[t][n]` | the connection of `StorageCl` `n` and the message in flight on it |
| `up`, `clock`, `budget` | running processes, the wall clock, the faults left |

* `ReqBegin`, `getFd`, `ConnectFails`, `BeginDone`, `ReqCommit`, `SendPrepare`,
  `PrepareDone`, `StorageError`, `ReqRollback`, `SessionLost` are the branches
  of logicServ's `readwrite_routine`. `getFd` waits for the response to Begin,
  so the session does nothing else meanwhile (`InGetFd`).
* `Begin`, `Prepare`, `SessionEnd` are storageServ's. `Prepare` includes
  `updateTransPrepared`, `updateTransSelfCommitTs` and `startCleanTrans`, which
  resumes the PrepareTask at once: a sole participant commits inside `Prepare`.
* `AskTransState` is the peer serving a TransState request, `GetTransState` the
  PrepareTask reading the answer later, `AskFails` every path that skips a peer
  for this pass. `Continue` is what the loop does up to its next wait.
* `Crash`, `CrashInPrepare` (between the two Puts) and `startUpClean`; a broken
  connection is noticed by each side in an action of its own.
* The result code of a response to Prepare is not modelled because the code
  only logs it; `NothingRefused` shows that it would always be 0.
* An unset timestamp is 0, below every other, as the empty string is.

### Sessions and the code

| variable | code |
|---|---|
| `client[c]` | `client.cpp`: is it connected, `waitRecvFlg`, the request in flight |
| `logic[c]` | the locals of the logicServ session: where it waits (`pc`), `begin_ts`, `fd` and `stat` of each `StorageCl`, the storage a data request is for |
| `conn[i]` | socket `i` to a storage: its state, the request and the response on it, and the session at its other end with its `begin_ts` |
| `rec[n][ts]` | the state of the record `trans_<ts>` at storage `n` |
| `done`, `list`, `told` | what was done by a storage, sent with Prepare, and told to the client: history for the properties |

* `Poll` is the `co_poll` of the main loop with all that follows it: the event
  on a connection in use ends the session, the one on a kept connection closes
  it, and then the session reads from the client, also if it was the storage
  that woke it up (`"reading"`, which `ReadFails` leaves after three minutes).
* `Refuse`, `ReqBegin`, `ReqData` (with `getFd`), `ReqCommit`, `ReqRollback` are
  the branches for the requests; `BeginRes`, `DataRes`, `PrepareRes`,
  `PrepareClean` what the session does at its other waits. `DataRes` answers 0
  without a response when the client's connection has an event first.
* `ReqRollback`: the new array of `StorageCl` is a local of the branch
  (`logicServ.cpp:302`), so that the session goes on with the deleted one.
  With the usual allocator the new array is the block just freed, which is the
  first disjunct; otherwise the process may die.
* `ServeBegin`, `ServeData`, `ServePrepare`, `SessionEnd` are storageServ's.
  `ServeData` works for the transaction of the session, not for the `begin_ts`
  of the request, as the code does.
* `CutMessage` cuts a message; whoever reads it dies (`ServeCut`, `ReadCut`),
  because `Json::parse` throws and nothing catches. That half of a message is
  no JSON holds for every proper prefix of a JSON object.

### TaskPool and the code

`stack` is `g_prepareTask`, `begin_ts[k]` what task `k` works on (the field of
the task is cleared as soon as it runs, the local is meant), `state` the
records, `session` the sessions that hold a `begin_ts`, `cursor` the iterator
of `startUpClean`. `startCleanTrans` takes the top of the stack; with an empty
stack that is undefined, and the model lets the process die, as it does on an
empty `std::deque`. A task without another participant (`Solo`) decides before
it waits and is on the stack again when `startCleanTrans` returns. `Twin`
transactions have a second session with the same `begin_ts`, whose end starts a
second task. `storageServ` listens before `startUpClean` runs, but no session
is resumed before the event loop starts, so serving begins after it.

### KeyStore and the code

`rec`, `lock`, `entry` and `data` are the four kinds of records; `session`,
`req` and `reply` the sessions, the request each is serving and its last
response. `CanLock` is the condition under which `addLock` succeeds, `NewEntry`
and `Copied` what `addData` writes, `Chain`, `Passed`, `Found` and `ReadData`
the loop of `ReadData`. A wait of a session is a request that stays in `req`
until its action is enabled; the action reads the database again, as the loops
do after each poll. `Respond` keeps the result 66 that a waiting pass has set.
`Writes` are the kinds of writes that are sent; an insert is handled as an
update, since the code does not look whether the key is there.

## Runs

All runs together take a few minutes. Bounds: `MaxTS` bounds the clock,
`MaxCrash`, `MaxTorn`, `MaxFault` the faults; actions that would pass a bound
are disabled, so behaviours stop there and `CHECK_DEADLOCK FALSE` is set (the
system itself may also stop: clients need not do anything).

| run | instance | checks |
|---|---|---|
| `TwoHosts` | 2 storages, 1 transaction, one fault of each kind (crash, crash between the Puts of a prepare, broken connection), fairness | `TypeOK`, `ProtocolInv`, `AdoptedIsLargest`, `CommitAfterStart`, `OkIsStamped`, `OkNeverRolledBack`, `NothingRefused`, `EveryPreparedHasTask`, `CommitTsIsMax`, `VotesAndDecisionsKept`, `ImplementsAtomicCommit`, `PreparedIsDecided`, `CommitEnds`, `OkIsCommited`, `NothingLeftOpen` |
| `ThreeHosts` | 3 storages, 1 crash | `Atomicity` |
| `Sessions` | 1 client, 2 storages, 2 transactions, one fault of any kind, fairness | `TypeOK`, `OkMeansPrepared`, `AnswersAreDone`, `EndsAgree`, `NoForeignRollback`, `ImplementsAtomicCommit`, `RequestAnswered`, `AbandonedEnds` |
| `TaskPool` | 2 tasks, 5 transactions of which one has no other participant and one a twin, 1 crash, fairness | `TypeOK`, `PoolInv`, `PoolIsWhole`, `PreparedHasTask`, `OneTaskEach`, `OverloadIsForever`, `ServesAgain`, `PreparedEnds` |
| `StoreThree` | 3 transactions, 1 key, coinciding timestamps | `WritersExclude`, `ChainOrder`, `ReadsSnapshot`, `RepeatableRead` |
| `StoreCrash` | 2 transactions, 2 values, a crash at any point | `StoreTypeOK`, `LockedReadIsNewest`, `VersionsKept` |
| `StoreLiveness` | 2 transactions, 2 keys, fairness | `RequestEnds` |
| `SameCommitTs`, `SharedBeginTs`, `CutMessage`, `OwnWrite`, `CommitWait` | smallest instance each | one violated claim each, see below |

Why these bounds: transactions of different `begin_ts` share no state in
`CommitProtocol` but the clock and the processes, so one transaction shows the
protocol. Two storages have every pairwise interaction, three are needed for a
PrepareTask that sees one peer before and another after a change. The faults of `TwoHosts` may hit the same
storage or different ones. A transaction takes `begin_ts`, `start_ts` and one
timestamp per participant, four at two storages and five at three, and a
restart takes one: the clock of `ThreeHosts` lets them all differ. In
`TwoHosts` it may also stand still (`SameTick`), so that the bound of 4 stops
nothing.

In `Sessions` two transactions are what it takes for one to meet the
connections, `fd` and `stat` of another one: both storages, one or none of them
may have been used before. A client has at most one session, and sessions of
different clients share only the processes and the records, which are kept
apart by `begin_ts`; `SharedBeginTs` has the second client for the case that
they are not. `MaxConn = 2` is a connection to each storage, or an old one, whose
storage session has not ended yet, and a new one to the same storage; a session
that would need a third one waits until an old one is gone, which the fairness
of `SessionEnd` ends.

In `TaskPool` two tasks are exhausted by three transactions at once, two more
can be begun, decided or a solo one in the same behaviour, and one crash lets a
restart find any mixture of them.

In `KeyStore` keys are independent but for the transactions' states, so one key
with three transactions gives every chain of a reader and two writers; a
deadlock takes two keys. Symmetry is used where no liveness is checked.

## Violated claims

* `SameCommitTs`: a crash between the two Puts of a prepare makes storages
  commit one transaction with different timestamps (`storageServ.cpp:64`,
  against the comment at `storageServ.cpp:246`).
* `SuccessIsPrepared` (run `SharedBeginTs`): two clients get the same `begin_ts`
  in one microsecond. The storage refuses the second Begin but the session
  keeps the `begin_ts` (`storageServ.cpp:224`), logicServ closes the
  connection, and its end rolls back the transaction of the other client. The
  Prepare of that one is refused, which `logicServ.cpp:276` only logs, and the
  client is told success, against the comment at `logicServ.cpp:192`.
* `CutMessageIsError` (run `CutMessage`): a message of which only a part is
  there when it is read ends the process, instead of being reported as a
  negative value (`Msg.cpp:29`, against the comment at `Msg.cpp:15`).
* `OwnWriteIsRead`: `get_for_update` passes the transaction's own version over
  (`storageServ.cpp:320`, against `README1.md:49`).
* `CommitIsAwaited`: a read that waited answers with the value and the stale
  result 66 (`storageServ.cpp:331`, against `README1.md:50`).

Four observations that contradict no text of the repository:
`LockedReadIsNewest` needs `SameTick = FALSE`, as a commit in the same
microsecond as the read of `get_for_update` is missed. An error told to a
client while the responses to Prepare are awaited (`logicServ.cpp:264`) means
that the outcome is unknown: the storages may all be prepared and commit.
`OkIsStamped` gives a transaction begun after a success a `begin_ts` at or after
the commit timestamp, but `ReadData` wants it strictly later
(`Storage.cpp:325`): begun in the same microsecond, it misses the commit. And
`OverloadIsForever`: a storage with more prepared transactions than PrepareTasks
(100) never serves again, because every restart finds them too.

## Fairness

`FairSpec` of `CommitProtocol`: the handlers of logicServ and storageServ and the
PrepareTasks are weakly fair, because the event loop of each process resumes every coroutine
whose socket or timer has an event. `startUpClean` is weakly fair: that a
crashed storage is started again is an assumption about operation, not about
the code. Nothing else is fair: the client need not send anything, nothing
need fail. `Sessions` assumes the same of its sessions; a data request that waits
for a lock is answered in the end, which is `RequestEnds` where clients do not
deadlock. `TaskPool`: the process, once down, is started again and runs
`startUpClean`; a task ends, as `PreparedIsDecided` shows; sessions need not
end. `FairStoreSpec`: sessions are fair as above; a prepared transaction
is decided, which `PreparedIsDecided` shows; and a client ends its transaction,
with a commit or by closing the connection, after finitely many requests
(strong fairness of `EndIdle`). This is an assumption about clients, since
nothing in the code ends an idle transaction; a client that waits for a
response is not assumed to give up. So `RequestEnds` excepts deadlocks, and nothing
but deadlocks.

## Proofs

TLAPS proves, for all values of the constants:

* `TypeCorrect` (`CommitProofs`): `Spec => []TypeOK`, one lemma per helper and
  one step per action. `TypeOK` also says that no commit, pass or answer carries
  an unset timestamp (`Dated`), which a torn record makes a question at all.
* `VotingCorrect`, `AtomicCommitment` (`AtomicityProofs`): `Atomicity` is not
  inductive. `VotingInv` adds what the code relies on without saying so. A
  record with a `trans_list` is a vote. `ListInv`: the list is fixed before any
  Prepare is sent, when no Begin is on its way any more. `VoteInv`: every vote
  carries that list and every storage that joined is on it. `DecisionInv`: a
  commit has the votes of the whole list, a rollback after a vote follows one
  without a vote. `TaskInv`: what a PrepareTask counted is still a vote and what
  it read as decided is still so. Votes and decisions are never taken back, so an old answer is as
  good as a new one: this is why the code may decide from answers read at
  different times. The steps of the storages are reduced to moves of one record
  (`RecMove`), so that most of the proof is about records and not about actions.
* `ProtocolCorrect`, `EveryRequestServed`, `EveryPreparedPursued`
  (`ProtocolProofs`): three more parts make up `ProtocolInv`. `SessionInv`: the
  `begin_ts` of a storage session, the `stat` of its `StorageCl` and the message
  between them agree. `AnswerInv`: a storage whose `stat` was reset after
  Prepare has voted. `PursuitInv`: the tasks of a running storage are those of
  its prepared records. A request is refused only in states that the first of
  them excludes.
* Also in `ProtocolProofs`: `LargestTimestamp`, `CommitsAfterStart`, `AdoptsLargest`,
  `SuccessIsKept` and `SuccessIsStamped` follow from the invariant. `AdoptsLargest`:
  an adopted commit timestamp is not below any that the counted storages took, and
  not below `max_commit_ts` if the storage has its own. So the `assert` of
  `storageServ.cpp:127` is unreachable. The "bug!!!" of line 124 is not: a storage
  that died between the two Puts of its prepare counts with a fresh timestamp,
  which may be above that of the commit it then reads, logs it and adopts the
  commit. For the same reason `LargestTimestamp` gives, if a participant has no
  timestamp, only a commit timestamp that is not below any of the others.
  `NothingTakenBack` is the action property. `PromiseKept` is the refinement: a
  step of a storage is `Join`, `Vote`, `Abort`, `Commit`, `FollowAbort` or a
  stutter of `AtomicCommit`, the step in which logicServ fixes the list is
  `FixMembers`, and every other step is a stutter.
* `AbstractTypeCorrect`, `AbstractInvCorrect`, `StoragesAgree`
  (`AgreementProofs`): agreement on the decision, and on its timestamp if all
  votes carry one, in `AtomicCommit`.
* `TaskPoolProofs`: `PoolInv` is inductive. It counts the idle tasks: the stack
  lists each of them once, the others are at work on a prepared transaction,
  and all that `startUpClean` and the sessions have dealt with is either decided
  or has a task. `NoTaskLost`, `NoneWithoutTask`, `NoneWithTwoTasks` follow.
  `NoWayOut` proves `OverloadIsForever` for any size of the pool: once more
  transactions are prepared than there are tasks they stay so, because tasks go
  on only while the storage serves, and a `startUpClean` that had passed them all
  would have mapped them one-to-one into the tasks.
* `DatabaseTypeCorrect`, `WritersAreExclusive` (`KeyStoreProofs`):
  `WritersExclude` is inductive together with the type of the database.
* Also in `KeyStoreProofs`, on the version chains: `Chain` is a recursive function, and
  what it gives is proved by induction on the naturals in the form of sets
  (`NaturalsFrom0`). `Linked(e, d, c)` says that the sequence `c` lists the versions
  from the entry `e` along `next` through the records `d`, each writer once and
  without leaving a record out; `ChainLinked` shows that `Chain` is such a `c`. A
  write pushes onto `c` or replaces its head, and the copy of the entry changes
  nothing, which is why a crash after it is harmless (`ChainStep`). `Ordered`
  is the invariant behind `ChainOrder`: a version below was
  committed before the one above took its own timestamp, which bounds its
  commit timestamp from below. `StoreCorrect` puts these together with
  `TimesInv` (a `begin_ts` is unique, timestamps are ordered and not after the clock).
  `ChainsAreOrdered`, `NoVersionLost` and `ReadsAreOfTheSnapshot` follow. `RepeatableRead` is not inductive: `ReadInv` adds that
  the head, if it is prepared, will not commit before the `begin_ts` of
  the reader (`ReadsRepeat`). `LockInv` does the same for `get_for_update`:
  while the reader is undecided the lock is its own and the head is decided
  (`LockedReadsLast`, under `SameTick = FALSE`, without which it is false).
* `SessionsTypeCorrect` (`SessionTypeProofs`): `TypeOK` of `Sessions`, with the
  fact that a session in the middle of a request has a `begin_ts`.
* `SessionsCorrect` (`SessionsProofs`), under `SharedTick = FALSE`. `EndsAgree`
  speaks of open connections and is not inductive: a link may break with a
  request on it that is served afterwards, or with an answer that is read
  afterwards. `Sides` describes every connection. `Joined` and `Apart` say what
  is at the two ends of one that a session holds, with `stat` set and not:
  which `begin_ts`, which record, and which messages can be under way in the
  state the session is in. `Wired` and `Marked` are about all connections: an
  open one is held by a session, one that nobody holds is gone or left to its
  storage session, and what works for the transaction of a session is held by
  that session, so that no one else can roll it back. `Facts` is what answers
  rest on: `Told` keeps that the storages a client heard from are participants
  until Prepare, and those dropped from `stat` after it are prepared; `Past`
  keeps that a new `begin_ts` finds no trace of an earlier use. From it follow
  `SidesAgree`, `OkIsPrepared`, `DoneIsDone`, the action property
  `OnlyOwnRollback`, and `EachIsAtomic`: the list a Commit fixes names exactly
  the storages with a record (`ListsJoined`), so that it is `FixMembers`, and
  the other steps are `Join`, `Vote`, `Abort` or a stutter of `AtomicCommit`.
  The steps are grouped by what they do to connections: a storage session
  serves (`Serving`), is lost (`Loss`), a link or message is damaged (`Damage`),
  sessions close theirs (`Closing`), one session asks (`Asks`, `CommitSends`)
  or reads an answer (`Taken`).

They rest on the `ASSUME`s of the modules only: at least one host, clock and
fault bounds that are naturals, `Nil` not a transaction, at least one value,
writes that are updates or deletes, and for `TaskPool` sizes that are naturals.
`LockedReadsLast` and the theorems of `SessionsProofs` state their hypotheses
themselves. `SharedTick = FALSE` says that no two sessions are given the same
microsecond as `begin_ts`. The code does not see to that; without it a client can
be told success of a transaction that is not prepared, as `SharedBeginTs` shows.

Only model-checked: all liveness (`PreparedIsDecided`, `CommitEnds`,
`OkIsCommited`, `NothingLeftOpen`, `RequestAnswered`, `AbandonedEnds`, and those of
`TaskPool` and `KeyStore`), which is out of reach of the prover, and the violated
claims.

## Not modelled

* Loss of power: a `Put` is durable and does not fail. What is lost when it is
  not is up to RocksDB and the file system.
* Clocks that differ between machines: `GetTS` is one clock.
* The text of messages (JSON, length prefix), hashing, configuration, logging,
  socket options, usage messages. A key is the storage it hashes to.
* `SendMsg` of a request that fails at once is taken for a failure of the read
  that follows, which ends the session in the same way; only the fan-out of
  Prepare, where it makes a difference, has both.
* The answer storageServ sends when an event interrupts the wait for a lock:
  logicServ has closed the connection then.
* The Commit request of storageServ: logicServ never sends it, and the branch
  does nothing.
* The branches of `prepare_routine` for a record that is missing or not
  prepared: nothing runs between the look of `startCleanTrans` and that of the
  task, so that they are never taken.
* The pool of session coroutines: it grows on demand.
* SIGPIPE: nothing in `src` ignores it, so that a write to a connection its peer
  has reset ends the writing process (`Network.cpp:90`). In the models the write
  fails or its bytes are lost. Storages die at any point, and sessions of
  logicServ do in `CommitProtocol`, but not because of a lost connection.
* What a session may do with the deleted array after a rollback
  (`logicServ.cpp:302`), other than to work with the new array in its place or
  to kill the process.
* Two PrepareTasks for one transaction that decide differently: `CommitProtocol`
  has one task each, and `Decide` of `TaskPool` assumes that a second task, which
  a shared `begin_ts` can start, agrees with the first. For a record without
  `self_commit_ts` the two could commit with different fresh timestamps.

## Plan

1. Done: `CommitProtocol`, `AtomicCommit`, `KeyStore`, `Sessions`, `TaskPool`,
   their runs, and the proofs of all safety properties the runs check.
2. Next: the joint behaviour of `KeyStore` and `CommitProtocol` as a refinement:
   what `KeyStore` lets a prepared transaction do, from `CommitTsIsMax` and
   `CommitAfterStart`, as a theorem instead of the argument above.
