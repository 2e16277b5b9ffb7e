------------------------------ MODULE TaskPool ------------------------------
(***************************************************************************)
(* The PrepareTask coroutines of one storageServ.                          *)
(*                                                                         *)
(* main makes a fixed number of them and each puts itself on a stack of    *)
(* idle tasks (prepare_routine).  startCleanTrans gives a prepared         *)
(* transaction to the task on top of the stack, without looking whether    *)
(* there is one; the task works on it until the transaction is decided.    *)
(* A Prepare, the end of a session, and a restart for every record it      *)
(* finds call startCleanTrans.                                             *)
(*                                                                         *)
(* How a task decides is the subject of CommitProtocol.  Nothing yields    *)
(* between startCleanTrans and the task's look at the record, so that the  *)
(* task always finds it, and finds it prepared.                            *)
(***************************************************************************)
EXTENDS Naturals, Sequences, FiniteSets

CONSTANTS
    PoolSize,  \* the number of tasks, 100 in the code
    NumTrans,  \* begin_ts are 1 .. NumTrans
    Solo,      \* transactions without a participant but this storage
    Twin,      \* transactions whose begin_ts a second session got from GetTS
    MaxCrash   \* bound on the number of crashes

ASSUME PoolAssumption == PoolSize \in Nat /\ NumTrans \in Nat /\ MaxCrash \in Nat

Task == 1 .. PoolSize

Trans == 1 .. NumTrans

ASSUME TransAssumption == Solo \subseteq Trans /\ Twin \subseteq Trans

VARIABLES
    pc,        \* "down", "cleaning" (startUpClean) or "serving"
    cursor,    \* the record the iterator of startUpClean is at
    state,     \* state[t]: the state in the record trans_<t>
    session,   \* the begin_ts of sessions: "first" has made the record
    late,      \* Begins of second sessions that have not come yet
    stack,     \* g_prepareTask, its top is the last element
    begin_ts,  \* begin_ts[k]: what task k works on, 0 for the empty string
    budget     \* how many crashes may still happen

vars == <<pc, cursor, state, session, late, stack, begin_ts, budget>>

Decided == {"Commited", "Rollback"}

\* Type correctness.
TypeOK ==
    /\ pc \in {"down", "cleaning", "serving"}
    /\ cursor \in 1 .. (NumTrans + 1)
    /\ state \in [Trans -> {"none", "Begin", "Prepared"} \cup Decided]
    /\ session \in [{"first", "second"} -> SUBSET Trans]
    /\ late \subseteq Twin
    /\ stack \in Seq(Task) /\ Len(stack) <= PoolSize
    /\ begin_ts \in [Task -> Trans \cup {0}]
    /\ budget \in 0 .. MaxCrash

\* main makes the tasks, and each pushes itself.
AllIdle == [k \in Task |-> k]

NoSession == [which \in {"first", "second"} |-> {}]

Init ==
    /\ pc = "serving" /\ cursor = 1
    /\ state = [t \in Trans |-> "none"]
    /\ session = NoSession
    /\ late = Twin
    /\ stack = AllIdle /\ begin_ts = [k \in Task |-> 0]
    /\ budget = MaxCrash

-----------------------------------------------------------------------------
(***************************************************************************)
(* startCleanTrans.                                                        *)
(***************************************************************************)

\* The process ends and leaves the records r.
Die(r) ==
    /\ pc' = "down" /\ cursor' = 1
    /\ state' = r
    /\ session' = NoSession
    /\ stack' = AllIdle /\ begin_ts' = [k \in Task |-> 0]

\* Faulty: the task stays on the stack.
TopOnly(t) ==
    LET k == stack[Len(stack)]
    IN  /\ begin_ts' = [begin_ts EXCEPT ![k] = t]
        /\ UNCHANGED stack

\* top, pop and co_resume: the task works on t until it waits for the network.
TakeTask(t) ==
    LET k == stack[Len(stack)]
    IN  /\ begin_ts' = [begin_ts EXCEPT ![k] = t]
        /\ stack' = SubSeq(stack, 1, Len(stack) - 1)

\* Faulty: without an idle task nothing is done.
startCleanIfIdle(r, t, P) ==
    \/ /\ r[t] = "Prepared" /\ stack # <<>> /\ t \notin Solo
       /\ state' = r
       /\ P /\ TakeTask(t)
    \/ /\ r[t] # "Prepared" \/ stack = <<>> \/ t \in Solo
       /\ state' = [r EXCEPT ![t] = IF @ = "Begin" THEN "Rollback"
                                    ELSE IF @ = "Prepared" /\ stack # <<>> THEN "Commited"
                                    ELSE @]
       /\ P /\ UNCHANGED <<stack, begin_ts>>

\* What startCleanTrans does for t with the records r, and P after it.  A task
\* that has nobody to ask commits and is on the stack again before it returns.
\* The top of an empty stack is undefined: the process dies.
startCleanTrans(r, t, P) ==
    \/ /\ r[t] = "Begin"
       /\ state' = [r EXCEPT ![t] = "Rollback"]
       /\ P /\ UNCHANGED <<stack, begin_ts>>
    \/ /\ r[t] = "Prepared" /\ stack # <<>> /\ t \in Solo
       /\ state' = [r EXCEPT ![t] = "Commited"]
       /\ P /\ UNCHANGED <<stack, begin_ts>>
    \/ /\ r[t] = "Prepared" /\ stack # <<>> /\ t \notin Solo
       /\ state' = r
       /\ P /\ TakeTask(t)
    \/ /\ r[t] = "Prepared" /\ stack = <<>>
       /\ Die(r)
    \/ /\ r[t] \notin {"Begin", "Prepared"}
       /\ state' = r
       /\ P /\ UNCHANGED <<stack, begin_ts>>

-----------------------------------------------------------------------------
(***************************************************************************)
(* Sessions.                                                               *)
(***************************************************************************)

\* addTrans makes the record.
Begin(t) ==
    /\ pc = "serving" /\ state[t] = "none"
    /\ state' = [state EXCEPT ![t] = "Begin"]
    /\ session' = [session EXCEPT !["first"] = @ \cup {t}]
    /\ UNCHANGED <<pc, cursor, late, stack, begin_ts, budget>>

\* addTrans finds the record of another session; this one keeps the begin_ts.
BeginAgain(t) ==
    /\ pc = "serving" /\ t \in late /\ state[t] # "none"
    /\ late' = late \ {t}
    /\ session' = [session EXCEPT !["second"] = @ \cup {t}]
    /\ UNCHANGED <<pc, cursor, state, stack, begin_ts, budget>>

End(which, t) == session' = [session EXCEPT ![which] = @ \ {t}] /\ UNCHANGED <<pc, cursor>>

\* Faulty: the session keeps its begin_ts.
PrepareAndKeep(t) ==
    /\ pc = "serving" /\ t \in session["first"] /\ state[t] = "Begin"
    /\ startCleanTrans([state EXCEPT ![t] = "Prepared"], t, UNCHANGED <<session, pc, cursor>>)
    /\ UNCHANGED <<late, budget>>

\* The record is saved, then the task is started and the session is through.
Prepare(t) ==
    /\ pc = "serving" /\ t \in session["first"] /\ state[t] = "Begin"
    /\ startCleanTrans([state EXCEPT ![t] = "Prepared"], t, End("first", t))
    /\ UNCHANGED <<late, budget>>

\* The connection of a session with a transaction ends.
SessionEnd(which, t) ==
    /\ pc = "serving" /\ t \in session[which]
    /\ startCleanTrans(state, t, End(which, t))
    /\ UNCHANGED <<late, budget>>

-----------------------------------------------------------------------------
(***************************************************************************)
(* Tasks, crash and restart.                                               *)
(***************************************************************************)

\* Faulty: the task does not push itself again.
DecideAndGo(k) ==
    /\ pc = "serving" /\ begin_ts[k] # 0
    /\ \E d \in Decided :
         /\ state[begin_ts[k]] \in Decided => state[begin_ts[k]] = d
         /\ state' = [state EXCEPT ![begin_ts[k]] = d]
    /\ begin_ts' = [begin_ts EXCEPT ![k] = 0]
    /\ UNCHANGED <<pc, cursor, session, late, stack, budget>>

\* Task k saves a decision and pushes itself.  If another task has decided the
\* transaction already, both have asked the same participants and agree.
Decide(k) ==
    /\ pc = "serving" /\ begin_ts[k] # 0
    /\ \E d \in Decided :
         /\ state[begin_ts[k]] \in Decided => state[begin_ts[k]] = d
         /\ state' = [state EXCEPT ![begin_ts[k]] = d]
    /\ begin_ts' = [begin_ts EXCEPT ![k] = 0]
    /\ stack' = Append(stack, k)
    /\ UNCHANGED <<pc, cursor, session, late, budget>>

Crash ==
    /\ pc # "down" /\ budget > 0
    /\ budget' = budget - 1
    /\ Die(state)
    /\ UNCHANGED late

Restart ==
    /\ pc = "down"
    /\ pc' = "cleaning"
    /\ UNCHANGED <<cursor, state, session, late, stack, begin_ts, budget>>

\* Faulty: what is prepared is left as it is.
CleanBegunOnly ==
    /\ pc = "cleaning" /\ cursor <= NumTrans
    /\ state' = [state EXCEPT ![cursor] = IF @ = "Begin" THEN "Rollback" ELSE @]
    /\ cursor' = cursor + 1
    /\ UNCHANGED <<pc, session, late, stack, begin_ts, budget>>

\* Faulty: a record that is decided is skipped without going to the next one.
CleanNoNext ==
    /\ pc = "cleaning" /\ cursor <= NumTrans
    /\ state[cursor] \notin Decided
    /\ startCleanTrans(state, cursor, cursor' = cursor + 1 /\ UNCHANGED <<pc, session>>)
    /\ UNCHANGED <<late, budget>>

\* startUpClean treats one record after the other; the event loop starts, and
\* with it tasks and sessions go on, when it is through.
startUpClean ==
    /\ pc = "cleaning" /\ cursor <= NumTrans
    /\ startCleanTrans(state, cursor, cursor' = cursor + 1 /\ UNCHANGED <<pc, session>>)
    /\ UNCHANGED <<late, budget>>

\* Faulty: sessions are served while startUpClean is at work.
ServeAtOnce ==
    /\ pc = "cleaning"
    /\ pc' = "serving" /\ cursor' = 1
    /\ UNCHANGED <<state, session, late, stack, begin_ts, budget>>

StartServing ==
    /\ pc = "cleaning" /\ cursor = NumTrans + 1
    /\ pc' = "serving" /\ cursor' = 1
    /\ UNCHANGED <<state, session, late, stack, begin_ts, budget>>

Next ==
    \/ \E t \in Trans : Begin(t) \/ BeginAgain(t) \/ Prepare(t)
    \/ \E t \in Trans, which \in {"first", "second"} : SessionEnd(which, t)
    \/ \E k \in Task : Decide(k)
    \/ Crash \/ Restart \/ startUpClean \/ StartServing

Spec == Init /\ [][Next]_vars

\* A process that is down is started again and runs; a task decides in the end
\* (PreparedIsDecided in CommitProtocol).  Sessions need not end.
FairSpec ==
    /\ Spec
    /\ WF_vars(Restart \/ startUpClean \/ StartServing)
    /\ \A k \in Task : WF_vars(Decide(k))

-----------------------------------------------------------------------------
(***************************************************************************)
(* Properties.                                                             *)
(***************************************************************************)

Idle == {stack[i] : i \in DOMAIN stack}

Busy == {k \in Task : begin_ts[k] # 0}

\* A task is on the stack exactly once if it is idle, and not at all if it
\* works: none gets a second transaction, and none is lost to the pool.
PoolIsWhole ==
    /\ Idle \cap Busy = {} /\ Idle \cup Busy = Task
    /\ \A i, j \in DOMAIN stack : stack[i] = stack[j] => i = j

\* While the storage serves, a task works on whatever is prepared: after a
\* Prepare, after a restart, and when another task ends.
PreparedHasTask ==
    pc = "serving" =>
        \A t \in Trans : state[t] = "Prepared" => \E k \in Task : begin_ts[k] = t

\* Only one task works on a transaction and only while it is prepared, unless
\* two sessions share its begin_ts: then the end of the second one starts
\* another task.
OneTaskEach ==
    \A k \in Task : begin_ts[k] \notin Twin \cup {0} =>
        /\ state[begin_ts[k]] = "Prepared"
        /\ \A l \in Task : begin_ts[l] = begin_ts[k] => l = k

\* The transactions that have had what they need since the process started:
\* those that startUpClean has been at, and all of them once it serves.
Handled == IF pc = "serving" THEN Trans ELSE 1 .. (cursor - 1)

\* Why they hold: tasks work on what has been handled, and miss nothing of it.
\* A session whose begin_ts is its own holds it open, and no session outlives
\* the process.
PoolInv ==
    /\ PoolIsWhole /\ OneTaskEach
    /\ \A t \in Handled : state[t] = "Prepared" => \E k \in Task : begin_ts[k] = t
    /\ \A k \in Task : begin_ts[k] # 0 => begin_ts[k] \in Handled
    /\ pc # "cleaning" => cursor = 1
    /\ pc # "serving" => session = NoSession
    /\ \A t \in session["first"] \ Twin : state[t] = "Begin"
    /\ session["second"] \subseteq Twin

\* There is a prepared transaction for which a restart has no task left, as the
\* prepared ones it finds before need them all.
Overload ==
    \E t \in Trans : state[t] = "Prepared" /\
        Cardinality({u \in 1 .. (t - 1) : u \notin Solo /\ state[u] = "Prepared"}) >= PoolSize

\* The storage never comes back from that: Prepare saves the record before it
\* takes a task, so that every restart finds too many, and dies like the
\* process that saved it.
OverloadIsForever == [](Overload => [](Overload /\ pc # "serving"))

\* Everything else it gets over: it serves again after every crash, ...
ServesAgain == pc # "serving" ~> pc = "serving" \/ Overload

\* ... and all that is prepared is decided.
PreparedEnds ==
    \A t \in Trans : state[t] = "Prepared" ~> state[t] \in Decided \/ Overload
=============================================================================
