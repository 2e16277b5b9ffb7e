--------------------------- MODULE TaskPoolProofs ---------------------------
(***************************************************************************)
(* The stack of idle PrepareTasks is never out of step with the tasks, and *)
(* every prepared transaction has one, for any number of tasks and         *)
(* transactions; but a storage with too many of them never serves again.   *)
(***************************************************************************)
EXTENDS TaskPool, FiniteSetTheorems, SequenceTheorems, TLAPS

USE PoolAssumption, TransAssumption

-----------------------------------------------------------------------------
(***************************************************************************)
(* The stack.                                                              *)
(***************************************************************************)

\* PoolIsWhole of the stack s and the begin_ts b, element by element.
Whole(s, b) ==
    /\ s \in Seq(Task) /\ b \in [Task -> Trans \cup {0}]
    /\ \A i \in 1 .. Len(s) : b[s[i]] = 0
    /\ \A k \in Task : b[k] = 0 => \E i \in 1 .. Len(s) : s[i] = k
    /\ \A i, j \in 1 .. Len(s) : s[i] = s[j] => i = j

LEMMA WholePool ==
    ASSUME stack \in Seq(Task), begin_ts \in [Task -> Trans \cup {0}]
    PROVE  PoolIsWhole <=> Whole(stack, begin_ts)
<1>1. DOMAIN stack = 1 .. Len(stack) /\ \A i \in DOMAIN stack : stack[i] \in Task
  OBVIOUS
<1>2. ASSUME PoolIsWhole PROVE Whole(stack, begin_ts)
  BY <1>1, <1>2 DEF PoolIsWhole, Whole, Idle, Busy
<1>3. ASSUME Whole(stack, begin_ts) PROVE PoolIsWhole
  <2>1. Idle \cap Busy = {}
    BY <1>1, <1>3 DEF Whole, Idle, Busy
  <2>2. Idle \cup Busy = Task
    BY <1>1, <1>3 DEF Whole, Idle, Busy
  <2> QED BY <1>1, <1>3, <2>1, <2>2 DEF PoolIsWhole, Whole
<1> QED BY <1>2, <1>3

LEMMA WholePoolNext ==
    ASSUME Whole(stack', begin_ts')
    PROVE  PoolIsWhole'
<1>1. stack' \in Seq(Task) /\ DOMAIN stack' = 1 .. Len(stack')
      /\ \A i \in DOMAIN stack' : stack'[i] \in Task
  BY DEF Whole
<1>2. Idle' \cap Busy' = {}
  BY <1>1 DEF Whole, Idle, Busy
<1>3. Idle' \cup Busy' = Task
  BY <1>1 DEF Whole, Idle, Busy
<1> QED BY <1>1, <1>2, <1>3 DEF PoolIsWhole, Whole

\* There are not more idle tasks than tasks.
LEMMA StackFits ==
    ASSUME NEW s, NEW b, Whole(s, b)
    PROVE  Len(s) <= PoolSize
<1>1. s \in Seq(Task) /\ Len(s) \in Nat /\ s \in [1 .. Len(s) -> Task]
  BY DEF Whole
<1>2. s \in Injection(1 .. Len(s), Task)
  BY <1>1 DEF Whole, Injection, IsInjective
<1>3. IsFiniteSet(Task) /\ Cardinality(Task) = PoolSize
  BY FS_Interval DEF Task
<1>4. Cardinality(1 .. Len(s)) = Len(s)
  BY <1>1, FS_Interval
<1>5. Cardinality(1 .. Len(s)) <= Cardinality(Task)
  BY <1>2, <1>3, FS_Injection
<1> QED BY <1>3, <1>4, <1>5

LEMMA AllIdleWhole == Whole(AllIdle, [k \in Task |-> 0])
<1> DEFINE s == AllIdle
           b == [k \in Task |-> 0]
<1>1. s \in Seq(Task) /\ Len(s) = PoolSize /\ \A i \in 1 .. PoolSize : s[i] = i
  BY DEF AllIdle, Task
<1>2. b \in [Task -> Trans \cup {0}] /\ \A k \in Task : b[k] = 0
  OBVIOUS
<1>3. Task = 1 .. Len(s)
  BY <1>1 DEF Task
<1> HIDE DEF s, b
<1>4. Whole(s, b)
  BY <1>1, <1>2, <1>3 DEF Whole
<1> QED BY <1>4 DEF s, b

\* The task on top is idle; without it the rest of the stack is still right.
LEMMA WholeTake ==
    ASSUME NEW s, NEW b, Whole(s, b), s # <<>>, NEW t \in Trans,
           NEW k, k = s[Len(s)]
    PROVE  /\ k \in Task /\ b[k] = 0
           /\ Whole(SubSeq(s, 1, Len(s) - 1), [b EXCEPT ![k] = t])
<1>1. s \in Seq(Task) /\ Len(s) \in Nat \ {0} /\ \A i \in 1 .. Len(s) : s[i] \in Task
  BY DEF Whole
<1> DEFINE rest == SubSeq(s, 1, Len(s) - 1)
           new == [b EXCEPT ![k] = t]
<1>2. /\ rest \in Seq(Task) /\ Len(rest) = Len(s) - 1
      /\ \A i \in 1 .. Len(s) - 1 : rest[i] = s[i]
  <2> DEFINE n == Len(s) - 1
  <2>1. n \in Nat /\ \A i \in 1 .. n : s[i] \in Task
    BY <1>1
  <2> HIDE DEF n
  <2>2. /\ SubSeq(s, 1, n) \in Seq(Task)
        /\ Len(SubSeq(s, 1, n)) = IF 1 <= n THEN n - 1 + 1 ELSE 0
        /\ \A i \in 1 .. n - 1 + 1 : SubSeq(s, 1, n)[i] = s[1 + i - 1]
    <3>1. n \in Int /\ 1 \in Int
      BY <2>1
    <3> QED BY <2>1, <3>1, SubSeqProperties
  <2>3. Len(SubSeq(s, 1, n)) = n /\ \A i \in 1 .. n : SubSeq(s, 1, n)[i] = s[i]
    BY <2>1, <2>2
  <2> QED BY <2>2, <2>3 DEF n
<1>3. k \in Task /\ b[k] = 0 /\ 0 \notin Trans /\ b \in [Task -> Trans \cup {0}]
  BY <1>1 DEF Whole, Trans
<1>4. new \in [Task -> Trans \cup {0}] /\ new[k] = t
      /\ \A l \in Task \ {k} : new[l] = b[l]
  BY <1>3
<1> HIDE DEF rest, new
<1>5. ASSUME NEW i \in 1 .. Len(rest) PROVE rest[i] # k /\ new[rest[i]] = 0
  BY <1>1, <1>2, <1>4 DEF Whole
<1>6. ASSUME NEW l \in Task, new[l] = 0 PROVE \E i \in 1 .. Len(rest) : rest[i] = l
  <2>1. l # k
    BY <1>3, <1>4, <1>6
  <2>2. PICK i \in 1 .. Len(s) : s[i] = l
    BY <1>4, <1>6, <2>1 DEF Whole
  <2>3. i \in 1 .. Len(rest)
    BY <1>1, <1>2, <2>1, <2>2
  <2> QED BY <1>2, <2>2, <2>3
<1>7. \A i, j \in 1 .. Len(rest) : rest[i] = rest[j] => i = j
  BY <1>1, <1>2 DEF Whole
<1>8. Whole(rest, new)
  BY <1>2, <1>4, <1>5, <1>6, <1>7 DEF Whole
<1> QED BY <1>3, <1>8 DEF rest, new

\* A task that is through pushes itself.
LEMMA WholeGive ==
    ASSUME NEW s, NEW b, Whole(s, b), NEW k \in Task, b[k] # 0
    PROVE  Whole(Append(s, k), [b EXCEPT ![k] = 0])
<1>1. s \in Seq(Task) /\ Len(s) \in Nat /\ \A i \in 1 .. Len(s) : s[i] \in Task /\ s[i] # k
  BY DEF Whole
<1> DEFINE more == Append(s, k)
           new == [b EXCEPT ![k] = 0]
<1>2. /\ more \in Seq(Task) /\ Len(more) = Len(s) + 1 /\ more[Len(s) + 1] = k
      /\ \A i \in 1 .. Len(s) : more[i] = s[i]
  BY <1>1
<1>3. /\ new \in [Task -> Trans \cup {0}] /\ new[k] = 0
      /\ \A l \in Task \ {k} : new[l] = b[l]
  BY DEF Whole
<1> HIDE DEF more, new
<1>4. \A i \in 1 .. Len(more) : i \in 1 .. Len(s) \/ i = Len(s) + 1
  BY <1>1, <1>2
<1>5. \A i \in 1 .. Len(more) : new[more[i]] = 0
  BY <1>1, <1>2, <1>3, <1>4 DEF Whole
<1>6. ASSUME NEW l \in Task, new[l] = 0 PROVE \E i \in 1 .. Len(more) : more[i] = l
  <2>1. CASE l = k
    BY <1>1, <1>2, <2>1
  <2>2. CASE l # k
    <3>1. PICK i \in 1 .. Len(s) : s[i] = l
      BY <1>3, <1>6, <2>2 DEF Whole
    <3>2. i \in 1 .. Len(more)
      BY <1>1, <1>2
    <3> QED BY <1>2, <3>1, <3>2
  <2> QED BY <2>1, <2>2
<1>7. \A i, j \in 1 .. Len(more) : more[i] = more[j] => i = j
  BY <1>1, <1>2, <1>4 DEF Whole
<1>8. Whole(more, new)
  BY <1>2, <1>3, <1>5, <1>6, <1>7 DEF Whole
<1> QED BY <1>8 DEF more, new

-----------------------------------------------------------------------------
(***************************************************************************)
(* The invariant.                                                          *)
(***************************************************************************)

RecordState == {"none", "Begin", "Prepared"} \cup Decided

\* The process ends: all tasks are idle, nothing is handled and no session open.
LEMMA DieKeeps ==
    ASSUME NEW r \in [Trans -> RecordState], Die(r),
           late' \subseteq Twin, budget' \in 0 .. MaxCrash
    PROVE  TypeOK' /\ PoolInv'
<1>1. Whole(stack', begin_ts')
  BY AllIdleWhole DEF Die
<1>2. PoolIsWhole' /\ Len(stack') <= PoolSize /\ stack' \in Seq(Task)
      /\ begin_ts' \in [Task -> Trans \cup {0}]
  BY <1>1, WholePoolNext, StackFits DEF Whole
<1>3. /\ pc' = "down" /\ cursor' = 1 /\ state' = r /\ session' = NoSession
      /\ \A k \in Task : begin_ts'[k] = 0
  BY DEF Die
<1>4. cursor' \in 1 .. (NumTrans + 1)
  BY <1>3
<1>5. session' \in [{"first", "second"} -> SUBSET Trans]
      /\ session'["first"] = {} /\ session'["second"] = {}
  BY <1>3 DEF NoSession
<1>6. TypeOK'
  BY <1>2, <1>3, <1>4, <1>5 DEF TypeOK, RecordState
<1>7. Handled' = {}
  BY <1>3 DEF Handled
<1>8. OneTaskEach'
  BY <1>3 DEF OneTaskEach
<1> QED BY <1>2, <1>3, <1>5, <1>6, <1>7, <1>8 DEF PoolInv

\* What startCleanTrans does with the records r where the process survives: it
\* leaves t not prepared, or gives it to a task.
Cleaned(r, t) ==
    \/ /\ state' \in {r, [r EXCEPT ![t] = "Rollback"], [r EXCEPT ![t] = "Commited"]}
       /\ state'[t] # "Prepared"
       /\ UNCHANGED <<stack, begin_ts>>
    \/ /\ state' = r /\ r[t] = "Prepared" /\ stack # <<>>
       /\ TakeTask(t)

\* One record t has been treated; what is prepared has a task.
Worked(t) ==
    /\ state' \in [Trans -> RecordState]
    /\ \A u \in Trans \ {t} : state'[u] = state[u]
    /\ Whole(stack', begin_ts')
    /\ \/ begin_ts' = begin_ts /\ state'[t] # "Prepared"
       \/ \E k \in Task : /\ begin_ts[k] = 0 /\ begin_ts' = [begin_ts EXCEPT ![k] = t]
                          /\ state'[t] = "Prepared"

LEMMA CleanedWorks ==
    ASSUME TypeOK, PoolInv, NEW t \in Trans, NEW r \in [Trans -> RecordState],
           \A u \in Trans \ {t} : r[u] = state[u],
           Cleaned(r, t)
    PROVE  Worked(t)
<1>1. Whole(stack, begin_ts)
  BY WholePool DEF TypeOK, PoolInv
<1>2. CASE /\ state' \in {r, [r EXCEPT ![t] = "Rollback"], [r EXCEPT ![t] = "Commited"]}
           /\ state'[t] # "Prepared"
           /\ UNCHANGED <<stack, begin_ts>>
  <2>1. /\ state' \in [Trans -> RecordState]
        /\ \A u \in Trans \ {t} : state'[u] = r[u]
    BY <1>2 DEF RecordState, Decided
  <2> QED BY <1>1, <1>2, <2>1 DEF Worked
<1>3. CASE /\ state' = r /\ r[t] = "Prepared" /\ stack # <<>>
           /\ TakeTask(t)
  <2> DEFINE k == stack[Len(stack)]
  <2>1. k \in Task /\ begin_ts[k] = 0
        /\ Whole(SubSeq(stack, 1, Len(stack) - 1), [begin_ts EXCEPT ![k] = t])
    BY <1>1, <1>3, WholeTake
  <2>2. begin_ts' = [begin_ts EXCEPT ![k] = t]
        /\ stack' = SubSeq(stack, 1, Len(stack) - 1)
    BY <1>3 DEF TakeTask
  <2> HIDE DEF k
  <2> QED BY <1>3, <2>1, <2>2 DEF Worked
<1> QED BY <1>2, <1>3 DEF Cleaned

\* Nothing is wrong with the tasks then, unless one had t already.
LEMMA WorkedTasks ==
    ASSUME TypeOK, PoolInv, NEW t \in Trans, Worked(t),
           t \notin Twin => \A k \in Task : begin_ts[k] # t
    PROVE  /\ stack' \in Seq(Task) /\ Len(stack') <= PoolSize
           /\ begin_ts' \in [Task -> Trans \cup {0}]
           /\ PoolIsWhole' /\ OneTaskEach'
           /\ \A u \in Handled \cup {t} :
                state'[u] = "Prepared" => \E k \in Task : begin_ts'[k] = u
           /\ \A k \in Task : begin_ts'[k] # 0 => begin_ts'[k] \in Handled \cup {t}
<1>1. /\ stack' \in Seq(Task) /\ Len(stack') <= PoolSize
      /\ begin_ts' \in [Task -> Trans \cup {0}] /\ PoolIsWhole'
  BY WholePoolNext, StackFits DEF Worked, Whole
<1>2. /\ begin_ts \in [Task -> Trans \cup {0}] /\ 0 \notin Trans /\ Handled \subseteq Trans
      /\ \A u \in Trans \ {t} : state'[u] = state[u]
  BY DEF TypeOK, Handled, Trans, Worked
<1>3. CASE begin_ts' = begin_ts /\ state'[t] # "Prepared"
  <2>1. OneTaskEach'
    BY <1>2, <1>3 DEF OneTaskEach, PoolInv
  <2> QED BY <1>1, <1>2, <1>3, <2>1 DEF PoolInv
<1>4. ASSUME NEW k \in Task, begin_ts[k] = 0, begin_ts' = [begin_ts EXCEPT ![k] = t],
             state'[t] = "Prepared"
      PROVE  /\ OneTaskEach'
             /\ \A u \in Handled \cup {t} :
                  state'[u] = "Prepared" => \E l \in Task : begin_ts'[l] = u
             /\ \A l \in Task : begin_ts'[l] # 0 => begin_ts'[l] \in Handled \cup {t}
  <2>1. begin_ts'[k] = t /\ \A l \in Task \ {k} : begin_ts'[l] = begin_ts[l]
    BY <1>2, <1>4
  <2>2. OneTaskEach'
    BY <1>2, <1>4, <2>1 DEF OneTaskEach, PoolInv
  <2>3. ASSUME NEW u \in Handled \cup {t}, state'[u] = "Prepared"
        PROVE  \E l \in Task : begin_ts'[l] = u
    <3>1. CASE u = t
      BY <2>1, <3>1
    <3>2. CASE u # t
      <4>1. PICK l \in Task : begin_ts[l] = u
        BY <1>2, <2>3, <3>2 DEF PoolInv
      <4> QED BY <1>2, <1>4, <2>1, <2>3, <4>1
    <3> QED BY <3>1, <3>2
  <2> QED BY <2>1, <2>2, <2>3 DEF PoolInv
<1> QED BY <1>1, <1>3, <1>4 DEF Worked

LEMMA PoolInit == Init => TypeOK /\ PoolInv
<1> SUFFICES ASSUME Init PROVE TypeOK /\ PoolInv
  OBVIOUS
<1>1. /\ pc = "serving" /\ cursor = 1 /\ state = [t \in Trans |-> "none"]
      /\ session = NoSession /\ late = Twin /\ budget = MaxCrash
      /\ stack = AllIdle /\ begin_ts = [k \in Task |-> 0]
  BY DEF Init
<1>2. Whole(stack, begin_ts)
  BY <1>1, AllIdleWhole
<1>3. Len(stack) <= PoolSize /\ stack \in Seq(Task) /\ begin_ts \in [Task -> Trans \cup {0}]
  BY <1>2, StackFits DEF Whole
<1>4. PoolIsWhole
  BY <1>2, <1>3, WholePool
<1>5. session \in [{"first", "second"} -> SUBSET Trans]
      /\ session["first"] = {} /\ session["second"] = {}
  BY <1>1 DEF NoSession
<1>6. TypeOK
  BY <1>1, <1>3, <1>5 DEF TypeOK
<1>7. \A k \in Task : begin_ts[k] = 0
  BY <1>1
<1>8. \A t \in Trans : state[t] = "none"
  BY <1>1
<1>9. OneTaskEach
  BY <1>7 DEF OneTaskEach
<1>10. Handled = Trans
  BY <1>1 DEF Handled
<1> QED BY <1>1, <1>4, <1>5, <1>6, <1>7, <1>8, <1>9, <1>10 DEF PoolInv

\* A step in which tasks do not change and no record that matters to one does.
LEMMA QuietKeeps ==
    ASSUME TypeOK, PoolInv, UNCHANGED <<stack, begin_ts>>,
           \A u \in Trans : \/ state'[u] = state[u]
                            \/ state[u] = "none" /\ state'[u] = "Begin",
           Handled' = Handled
    PROVE  /\ stack' \in Seq(Task) /\ Len(stack') <= PoolSize
           /\ begin_ts' \in [Task -> Trans \cup {0}]
           /\ PoolIsWhole' /\ OneTaskEach'
           /\ \A u \in Handled' :
                state'[u] = "Prepared" => \E k \in Task : begin_ts'[k] = u
           /\ \A k \in Task : begin_ts'[k] # 0 => begin_ts'[k] \in Handled'
<1>1. Handled \subseteq Trans /\ 0 \notin Trans /\ begin_ts \in [Task -> Trans \cup {0}]
  BY DEF TypeOK, Handled, Trans
<1>2. PoolIsWhole' /\ OneTaskEach'
  BY <1>1 DEF PoolInv, PoolIsWhole, Idle, Busy, OneTaskEach
<1> QED BY <1>1, <1>2 DEF TypeOK, PoolInv

LEMMA PrepareKeeps ==
    ASSUME TypeOK, PoolInv, NEW t \in Trans, Prepare(t)
    PROVE  TypeOK' /\ PoolInv'
<1> DEFINE r == [state EXCEPT ![t] = "Prepared"]
<1>1. r \in [Trans -> RecordState] /\ \A u \in Trans \ {t} : r[u] = state[u]
  BY DEF TypeOK, RecordState
<1>2. r[t] = "Prepared"
  BY DEF TypeOK
<1>3. /\ pc = "serving" /\ t \in session["first"] /\ state[t] = "Begin"
      /\ late' = late /\ budget' = budget
      /\ startCleanTrans(r, t, End("first", t))
  BY DEF Prepare
<1> HIDE DEF r
<1>4. Die(r) \/ (End("first", t) /\ Cleaned(r, t))
  BY <1>1, <1>2, <1>3 DEF startCleanTrans, Cleaned
<1>5. CASE Die(r)
  BY <1>1, <1>3, <1>5, DieKeeps DEF TypeOK
<1>6. CASE End("first", t) /\ Cleaned(r, t)
  <2>1. Worked(t)
    BY <1>1, <1>6, CleanedWorks
  <2>2. \A k \in Task : t \notin Twin => begin_ts[k] # t
    BY <1>3 DEF PoolInv, OneTaskEach, Trans
  <2>3. /\ pc' = pc /\ cursor' = cursor
        /\ session' = [session EXCEPT !["first"] = @ \ {t}]
    BY <1>6 DEF End
  <2>4. Handled' = Trans /\ Handled = Trans
    BY <1>3, <2>3 DEF Handled
  <2>5. /\ state' \in [Trans -> RecordState]
        /\ \A u \in Trans \ {t} : state'[u] = state[u]
    BY <2>1 DEF Worked
  <2>6. TypeOK'
    BY <1>3, <2>1, <2>2, <2>3, <2>5, WorkedTasks DEF TypeOK, RecordState
  <2>7. /\ PoolIsWhole' /\ OneTaskEach'
        /\ \A u \in Handled' :
             state'[u] = "Prepared" => \E k \in Task : begin_ts'[k] = u
        /\ \A k \in Task : begin_ts'[k] # 0 => begin_ts'[k] \in Handled'
    BY <2>1, <2>2, <2>4, WorkedTasks
  <2>8. \A u \in session'["first"] \ Twin : state'[u] = "Begin"
    BY <2>3, <2>5 DEF TypeOK, PoolInv
  <2>9. session'["second"] \subseteq Twin
    BY <2>3 DEF TypeOK, PoolInv
  <2> QED BY <1>3, <2>3, <2>6, <2>7, <2>8, <2>9 DEF PoolInv
<1> QED BY <1>4, <1>5, <1>6

LEMMA SessionEndKeeps ==
    ASSUME TypeOK, PoolInv, NEW t \in Trans, NEW which \in {"first", "second"},
           SessionEnd(which, t)
    PROVE  TypeOK' /\ PoolInv'
<1>1. state \in [Trans -> RecordState]
  BY DEF TypeOK, RecordState
<1>2. /\ pc = "serving" /\ t \in session[which]
      /\ late' = late /\ budget' = budget
      /\ startCleanTrans(state, t, End(which, t))
  BY DEF SessionEnd
<1>3. Die(state) \/ (End(which, t) /\ Cleaned(state, t))
  BY <1>1, <1>2 DEF startCleanTrans, Cleaned, RecordState, Decided
<1>4. CASE Die(state)
  BY <1>1, <1>2, <1>4, DieKeeps DEF TypeOK
<1>5. CASE End(which, t) /\ Cleaned(state, t)
  <2>1. Worked(t)
    BY <1>1, <1>5, CleanedWorks
  <2>2. t \notin Twin => which = "first" /\ state[t] = "Begin"
    BY <1>2 DEF PoolInv
  <2>3. \A k \in Task : t \notin Twin => begin_ts[k] # t
    BY <2>2 DEF PoolInv, OneTaskEach, Trans
  <2>4. /\ pc' = pc /\ cursor' = cursor
        /\ session' = [session EXCEPT ![which] = @ \ {t}]
    BY <1>5 DEF End
  <2>5. Handled' = Trans /\ Handled = Trans
    BY <1>2, <2>4 DEF Handled
  <2>6. /\ state' \in [Trans -> RecordState]
        /\ \A u \in Trans \ {t} : state'[u] = state[u]
    BY <2>1 DEF Worked
  <2>7. TypeOK'
    BY <1>2, <2>1, <2>3, <2>4, <2>6, WorkedTasks DEF TypeOK, RecordState
  <2>8. /\ PoolIsWhole' /\ OneTaskEach'
        /\ \A u \in Handled' :
             state'[u] = "Prepared" => \E k \in Task : begin_ts'[k] = u
        /\ \A k \in Task : begin_ts'[k] # 0 => begin_ts'[k] \in Handled'
    BY <2>1, <2>3, <2>5, WorkedTasks
  <2>9. /\ \A u \in session'["first"] : u \in session["first"] /\ (which = "first" => u # t)
        /\ session'["second"] \subseteq session["second"]
    BY <2>4 DEF TypeOK
  <2>10. \A u \in session'["first"] \ Twin : u # t
    BY <2>2, <2>9
  <2>11. \A u \in session'["first"] \ Twin : state'[u] = "Begin"
    BY <2>6, <2>9, <2>10 DEF TypeOK, PoolInv
  <2>12. session'["second"] \subseteq Twin
    BY <2>9 DEF PoolInv
  <2> QED BY <1>2, <2>4, <2>7, <2>8, <2>11, <2>12 DEF PoolInv
<1> QED BY <1>3, <1>4, <1>5

LEMMA StartUpCleanKeeps ==
    ASSUME TypeOK, PoolInv, startUpClean
    PROVE  TypeOK' /\ PoolInv'
<1> DEFINE through == cursor' = cursor + 1 /\ UNCHANGED <<pc, session>>
<1>1. state \in [Trans -> RecordState]
  BY DEF TypeOK, RecordState
<1>2. /\ pc = "cleaning" /\ cursor <= NumTrans
      /\ late' = late /\ budget' = budget
      /\ startCleanTrans(state, cursor, through)
  BY DEF startUpClean
<1>3. cursor \in Trans /\ cursor + 1 \in 1 .. (NumTrans + 1)
  BY <1>2 DEF TypeOK, Trans
<1>4. Die(state) \/ (through /\ Cleaned(state, cursor))
  BY <1>1, <1>2, <1>3 DEF startCleanTrans, Cleaned, RecordState, Decided
<1>5. CASE Die(state)
  BY <1>1, <1>2, <1>5, DieKeeps DEF TypeOK
<1>6. CASE through /\ Cleaned(state, cursor)
  <2>1. Worked(cursor)
    BY <1>1, <1>3, <1>6, CleanedWorks
  <2>2. /\ pc' = "cleaning" /\ cursor' = cursor + 1 /\ session' = session
        /\ session = NoSession
    BY <1>2, <1>6 DEF PoolInv
  <2>3. Handled = 1 .. (cursor - 1) /\ Handled' = 1 .. cursor
    BY <1>2, <1>3, <2>2 DEF Handled, Trans
  <2>4. Handled' = Handled \cup {cursor} /\ cursor \notin Handled
    BY <1>3, <2>3 DEF Trans
  <2>5. \A k \in Task : begin_ts[k] # cursor
    BY <1>3, <2>4 DEF PoolInv, Trans
  <2>6. TypeOK'
    BY <1>2, <1>3, <2>1, <2>2, <2>5, WorkedTasks DEF TypeOK, RecordState, Worked
  <2>7. /\ PoolIsWhole' /\ OneTaskEach'
        /\ \A u \in Handled' :
             state'[u] = "Prepared" => \E k \in Task : begin_ts'[k] = u
        /\ \A k \in Task : begin_ts'[k] # 0 => begin_ts'[k] \in Handled'
    BY <1>3, <2>1, <2>4, <2>5, WorkedTasks
  <2>8. session'["first"] = {} /\ session'["second"] = {}
    BY <2>2 DEF NoSession
  <2> QED BY <2>2, <2>6, <2>7, <2>8 DEF PoolInv
<1> QED BY <1>4, <1>5, <1>6

LEMMA DecideKeeps ==
    ASSUME TypeOK, PoolInv, NEW k \in Task, Decide(k)
    PROVE  TypeOK' /\ PoolInv'
<1> DEFINE t == begin_ts[k]
<1>1. /\ pc = "serving" /\ t # 0
      /\ begin_ts' = [begin_ts EXCEPT ![k] = 0] /\ stack' = Append(stack, k)
      /\ UNCHANGED <<pc, cursor, session, late, budget>>
  BY DEF Decide
<1>2. t \in Trans /\ 0 \notin Trans
  BY <1>1 DEF TypeOK, Trans
<1>3. PICK d \in Decided : state' = [state EXCEPT ![t] = d]
  BY DEF Decide
<1> HIDE DEF t
<1>4. /\ state' \in [Trans -> RecordState] /\ state'[t] \in Decided
      /\ \A u \in Trans \ {t} : state'[u] = state[u]
  BY <1>2, <1>3 DEF TypeOK, RecordState
<1>5. Whole(stack, begin_ts)
  BY WholePool DEF TypeOK, PoolInv
<1>6. Whole(stack', begin_ts')
  BY <1>1, <1>5, WholeGive DEF t
<1>7. /\ PoolIsWhole' /\ Len(stack') <= PoolSize /\ stack' \in Seq(Task)
      /\ begin_ts' \in [Task -> Trans \cup {0}]
  BY <1>6, WholePoolNext, StackFits DEF Whole
<1>8. begin_ts'[k] = 0 /\ \A l \in Task \ {k} : begin_ts'[l] = begin_ts[l]
  BY <1>1 DEF TypeOK
<1>9. Handled' = Trans /\ Handled = Trans
  BY <1>1 DEF Handled
<1>10. TypeOK'
  BY <1>1, <1>4, <1>7 DEF TypeOK, RecordState
<1>11. OneTaskEach'
  <2> SUFFICES ASSUME NEW l \in Task, begin_ts'[l] \notin Twin \cup {0}
               PROVE  /\ state'[begin_ts'[l]] = "Prepared"
                      /\ \A m \in Task : begin_ts'[m] = begin_ts'[l] => m = l
    BY DEF OneTaskEach
  <2>1. l # k /\ begin_ts'[l] = begin_ts[l]
    BY <1>8
  <2>2. begin_ts[l] # t /\ begin_ts[l] \in Trans
    BY <2>1 DEF PoolInv, OneTaskEach, TypeOK, t
  <2>3. state'[begin_ts[l]] = "Prepared"
    BY <1>4, <2>1, <2>2 DEF PoolInv, OneTaskEach
  <2>4. \A m \in Task : begin_ts[m] = begin_ts[l] => m = l
    BY <2>1 DEF PoolInv, OneTaskEach
  <2> QED BY <1>8, <2>1, <2>3, <2>4
<1>12. ASSUME NEW u \in Handled', state'[u] = "Prepared"
       PROVE  \E l \in Task : begin_ts'[l] = u
  <2>1. u \in Trans /\ u # t /\ state[u] = "Prepared"
    BY <1>4, <1>9, <1>12 DEF Decided
  <2>2. PICK l \in Task : begin_ts[l] = u
    BY <1>9, <2>1 DEF PoolInv
  <2> QED BY <1>8, <2>1, <2>2 DEF t
<1>13. \A l \in Task : begin_ts'[l] # 0 => begin_ts'[l] \in Handled'
  BY <1>7, <1>9
<1>14. ASSUME NEW u \in session'["first"] \ Twin PROVE state'[u] = "Begin"
  <2>1. u \in Trans /\ state[u] = "Begin"
    BY <1>1, <1>14 DEF TypeOK, PoolInv
  <2>2. u # t
    BY <1>1, <1>2, <1>14, <2>1 DEF PoolInv, OneTaskEach, t
  <2> QED BY <1>4, <2>1, <2>2
<1>15. session'["second"] \subseteq Twin
  BY <1>1 DEF PoolInv
<1> QED BY <1>1, <1>7, <1>10, <1>11, <1>12, <1>13, <1>14, <1>15 DEF PoolInv

LEMMA PoolNext == TypeOK /\ PoolInv /\ [Next]_vars => TypeOK' /\ PoolInv'
<1> SUFFICES ASSUME TypeOK, PoolInv, [Next]_vars PROVE TypeOK' /\ PoolInv'
  OBVIOUS
<1>1. state \in [Trans -> RecordState]
  BY DEF TypeOK, RecordState
<1>2. ASSUME NEW t \in Trans, Begin(t) PROVE TypeOK' /\ PoolInv'
  <2>1. /\ state' = [state EXCEPT ![t] = "Begin"] /\ state[t] = "none"
        /\ session' = [session EXCEPT !["first"] = @ \cup {t}]
        /\ UNCHANGED <<pc, cursor, late, stack, begin_ts, budget>> /\ pc = "serving"
    BY <1>2 DEF Begin
  <2>2. state' \in [Trans -> RecordState] /\ state'[t] = "Begin"
        /\ \A u \in Trans \ {t} : state'[u] = state[u]
    BY <1>1, <2>1 DEF RecordState
  <2>3. Handled' = Handled
    BY <2>1 DEF Handled
  <2>4. /\ stack' \in Seq(Task) /\ Len(stack') <= PoolSize
        /\ begin_ts' \in [Task -> Trans \cup {0}]
        /\ PoolIsWhole' /\ OneTaskEach'
        /\ \A u \in Handled' :
             state'[u] = "Prepared" => \E k \in Task : begin_ts'[k] = u
        /\ \A k \in Task : begin_ts'[k] # 0 => begin_ts'[k] \in Handled'
    BY <2>1, <2>2, <2>3, QuietKeeps
  <2>5. TypeOK'
    BY <2>1, <2>2, <2>4 DEF TypeOK, RecordState
  <2>6. \A u \in session'["first"] \ Twin : state'[u] = "Begin"
    BY <2>1, <2>2 DEF TypeOK, PoolInv
  <2>7. session'["second"] \subseteq Twin
    BY <2>1 DEF TypeOK, PoolInv
  <2> QED BY <2>1, <2>4, <2>5, <2>6, <2>7 DEF PoolInv
<1>3. ASSUME NEW t \in Trans, BeginAgain(t) PROVE TypeOK' /\ PoolInv'
  <2>1. /\ late' = late \ {t} /\ t \in late
        /\ session' = [session EXCEPT !["second"] = @ \cup {t}]
        /\ UNCHANGED <<pc, cursor, state, stack, begin_ts, budget>> /\ pc = "serving"
    BY <1>3 DEF BeginAgain
  <2>2. Handled' = Handled
    BY <2>1 DEF Handled
  <2>3. /\ PoolIsWhole' /\ OneTaskEach'
        /\ \A u \in Handled' :
             state'[u] = "Prepared" => \E k \in Task : begin_ts'[k] = u
        /\ \A k \in Task : begin_ts'[k] # 0 => begin_ts'[k] \in Handled'
    BY <2>1, <2>2, QuietKeeps
  <2>4. TypeOK'
    BY <2>1 DEF TypeOK
  <2>5. session'["first"] = session["first"] /\ session'["second"] \subseteq Twin
    BY <2>1 DEF TypeOK, PoolInv
  <2> QED BY <2>1, <2>3, <2>4, <2>5 DEF PoolInv
<1>4. ASSUME Crash PROVE TypeOK' /\ PoolInv'
  <2>1. Die(state) /\ late' = late /\ budget' = budget - 1 /\ budget > 0
    BY <1>4 DEF Crash
  <2>2. budget' \in 0 .. MaxCrash /\ late' \subseteq Twin
    BY <2>1 DEF TypeOK
  <2> QED BY <1>1, <2>1, <2>2, DieKeeps
<1>5. ASSUME Restart PROVE TypeOK' /\ PoolInv'
  <2>1. /\ pc = "down" /\ pc' = "cleaning" /\ cursor = 1
        /\ UNCHANGED <<cursor, state, session, late, stack, begin_ts, budget>>
    BY <1>5 DEF Restart, PoolInv
  <2>2. Handled' = Handled
    BY <2>1 DEF Handled
  <2>3. /\ PoolIsWhole' /\ OneTaskEach'
        /\ \A u \in Handled' :
             state'[u] = "Prepared" => \E k \in Task : begin_ts'[k] = u
        /\ \A k \in Task : begin_ts'[k] # 0 => begin_ts'[k] \in Handled'
    BY <2>1, <2>2, QuietKeeps
  <2>4. TypeOK'
    BY <2>1 DEF TypeOK
  <2> QED BY <2>1, <2>3, <2>4 DEF PoolInv
<1>6. ASSUME StartServing PROVE TypeOK' /\ PoolInv'
  <2>1. /\ pc = "cleaning" /\ cursor = NumTrans + 1 /\ pc' = "serving" /\ cursor' = 1
        /\ UNCHANGED <<state, session, late, stack, begin_ts, budget>>
    BY <1>6 DEF StartServing
  <2>2. Handled' = Handled
    BY <2>1 DEF Handled, Trans
  <2>3. /\ PoolIsWhole' /\ OneTaskEach'
        /\ \A u \in Handled' :
             state'[u] = "Prepared" => \E k \in Task : begin_ts'[k] = u
        /\ \A k \in Task : begin_ts'[k] # 0 => begin_ts'[k] \in Handled'
    BY <2>1, <2>2, QuietKeeps
  <2>4. TypeOK'
    BY <2>1 DEF TypeOK
  <2> QED BY <2>1, <2>3, <2>4 DEF PoolInv
<1>7. CASE UNCHANGED vars
  <2>1. UNCHANGED <<pc, cursor, state, session, late, stack, begin_ts, budget>>
    BY <1>7 DEF vars
  <2>2. Handled' = Handled
    BY <2>1 DEF Handled
  <2>3. /\ PoolIsWhole' /\ OneTaskEach'
        /\ \A u \in Handled' :
             state'[u] = "Prepared" => \E k \in Task : begin_ts'[k] = u
        /\ \A k \in Task : begin_ts'[k] # 0 => begin_ts'[k] \in Handled'
    BY <2>1, <2>2, QuietKeeps
  <2>4. TypeOK'
    BY <2>1 DEF TypeOK
  <2> QED BY <2>1, <2>3, <2>4 DEF PoolInv
<1> QED
  BY <1>2, <1>3, <1>4, <1>5, <1>6, <1>7, PrepareKeeps, SessionEndKeeps,
     StartUpCleanKeeps, DecideKeeps DEF Next

LEMMA TypeAndPool == Spec => [](TypeOK /\ PoolInv)
<1>1. Init => TypeOK /\ PoolInv
  BY PoolInit
<1>2. TypeOK /\ PoolInv /\ [Next]_vars => (TypeOK /\ PoolInv)'
  BY PoolNext
<1> QED BY <1>1, <1>2, PTL DEF Spec

\* Every reachable state is well typed: the stack never has more tasks than
\* main has made.
THEOREM PoolTypeCorrect == Spec => []TypeOK
BY TypeAndPool, PTL

\* The stack and the tasks are never out of step, and what startUpClean and
\* the sessions have handled is cared for: what prepare_routine and
\* startCleanTrans rely on.
THEOREM PoolCorrect == Spec => []PoolInv
BY TypeAndPool, PTL

\* No task of g_prepareTask is lost to the pool and none is taken twice.
THEOREM NoTaskLost == Spec => []PoolIsWhole
<1>1. PoolInv => PoolIsWhole
  BY DEF PoolInv
<1> QED BY <1>1, PoolCorrect, PTL

\* While the storage serves, whatever is prepared has a task at work.
THEOREM NoneWithoutTask == Spec => []PreparedHasTask
<1>1. PoolInv => PreparedHasTask
  BY DEF PoolInv, PreparedHasTask, Handled
<1> QED BY <1>1, PoolCorrect, PTL

\* No transaction has two tasks unless two sessions share its begin_ts, and a
\* task works on nothing but a prepared transaction.
THEOREM NoneWithTwoTasks == Spec => []OneTaskEach
<1>1. PoolInv => OneTaskEach
  BY DEF PoolInv
<1> QED BY <1>1, PoolCorrect, PTL

-----------------------------------------------------------------------------
(***************************************************************************)
(* Overload.                                                               *)
(***************************************************************************)

\* The prepared transactions that a restart finds before t and that need a task.
Prior(t) == {u \in 1 .. (t - 1) : u \notin Solo /\ state[u] = "Prepared"}

\* If PoolSize transactions have tasks, all tasks work on them.
LEMMA AllTaken ==
    ASSUME NEW S, Cardinality(S) >= PoolSize,
           \A u \in S : \E k \in Task : begin_ts[k] = u
    PROVE  \A k \in Task : begin_ts[k] \in S
<1>1. IsFiniteSet(Task) /\ Cardinality(Task) = PoolSize
  BY FS_Interval DEF Task
<1> DEFINE f == [u \in S |-> CHOOSE k \in Task : begin_ts[k] = u]
<1>2. f \in [S -> Task] /\ \A u \in S : begin_ts[f[u]] = u
  OBVIOUS
<1> HIDE DEF f
<1>3. f \in Injection(S, Task)
  BY <1>2 DEF Injection, IsInjective
<1>4. /\ IsFiniteSet(S) /\ Cardinality(S) <= Cardinality(Task)
      /\ Cardinality(S) = Cardinality(Task) <=> f \in Surjection(S, Task)
  BY <1>1, <1>3, FS_Injection
<1>5. Cardinality(S) \in Nat
  BY <1>4, FS_CardinalityType
<1>6. f \in Surjection(S, Task)
  BY <1>1, <1>4, <1>5
<1>7. \A k \in Task : \E u \in S : f[u] = k
  BY <1>6 DEF Surjection
<1> QED BY <1>2, <1>7

\* A prepared transaction with that many before it has not been handled, and
\* nothing is left for it when they have.
LEMMA NothingLeft ==
    ASSUME TypeOK, PoolInv, NEW t \in Trans, state[t] = "Prepared",
           Cardinality(Prior(t)) >= PoolSize, Prior(t) \subseteq Handled
    PROVE  t \notin Handled /\ stack = <<>>
<1>1. \A u \in Prior(t) : \E k \in Task : begin_ts[k] = u
  BY DEF Prior, PoolInv
<1>2. \A k \in Task : begin_ts[k] \in Prior(t)
  BY <1>1, AllTaken
<1>3. t \notin Prior(t) /\ 0 \notin Prior(t)
  BY DEF Prior, Trans
<1>4. t \notin Handled
  BY <1>2, <1>3 DEF PoolInv
<1>5. Whole(stack, begin_ts)
  BY WholePool DEF TypeOK, PoolInv
<1>6. \A i \in 1 .. Len(stack) : stack[i] \in Task /\ begin_ts[stack[i]] = 0
  BY <1>5 DEF Whole
<1>7. Len(stack) \in Nat /\ stack \in Seq(Task)
  BY DEF TypeOK
<1>8. Len(stack) = 0
  BY <1>2, <1>3, <1>6, <1>7
<1> QED BY <1>4, <1>7, <1>8

\* There is such a t; startUpClean has not come past it.
LEMMA OverloadAhead ==
    ASSUME TypeOK, PoolInv, NEW t \in Trans, state[t] = "Prepared",
           Cardinality(Prior(t)) >= PoolSize
    PROVE  pc # "serving" /\ cursor <= t
<1>1. Prior(t) \subseteq 1 .. (t - 1) /\ Prior(t) \subseteq Trans
  BY DEF Prior, Trans
<1>2. CASE pc = "serving"
  BY <1>1, <1>2, NothingLeft DEF Handled
<1>3. CASE pc # "serving" /\ t < cursor
  <2>1. cursor \in Nat /\ t \in Nat
    BY DEF TypeOK, Trans
  <2>2. t \in Handled /\ Prior(t) \subseteq Handled
    BY <1>1, <1>3, <2>1 DEF Handled, Trans
  <2> QED BY <2>2, NothingLeft
<1> QED BY <1>2, <1>3 DEF TypeOK, Trans

LEMMA OverloadStays ==
    TypeOK /\ PoolInv /\ Overload /\ [Next]_vars => Overload'
<1> SUFFICES ASSUME TypeOK, PoolInv, Overload, [Next]_vars PROVE Overload'
  OBVIOUS
<1>1. PICK t \in Trans : state[t] = "Prepared" /\ Cardinality(Prior(t)) >= PoolSize
  BY DEF Overload, Prior
<1>2. pc # "serving" /\ cursor <= t
  BY <1>1, OverloadAhead
<1> DEFINE Kept ==
             /\ state'[t] = "Prepared"
             /\ \A u \in Prior(t) : state'[u] = "Prepared"
             /\ \A u \in 1 .. (t - 1) :
                  state'[u] = "Prepared" /\ u \notin Solo => u \in Prior(t)
<1>3. SUFFICES Kept
  <2>1. ASSUME Kept PROVE Overload'
    <3>1. {u \in 1 .. (t - 1) : u \notin Solo /\ state'[u] = "Prepared"} = Prior(t)
      BY <2>1 DEF Prior
    <3> QED BY <1>1, <2>1, <3>1 DEF Overload
  <2> QED BY <2>1
<1>4. CASE state' = state
  BY <1>1, <1>4 DEF Prior
<1>5. CASE startUpClean
  <2> DEFINE through == cursor' = cursor + 1 /\ UNCHANGED <<pc, session>>
  <2>1. cursor \in Trans /\ cursor <= t /\ t \in Trans
        /\ startCleanTrans(state, cursor, through)
    BY <1>2, <1>5 DEF startUpClean, TypeOK, Trans
  <2>2. CASE state[cursor] \notin {"Begin", "Prepared"} \/ Die(state)
             \/ (state[cursor] = "Prepared" /\ cursor \notin Solo)
    <3>1. state' = state
      BY <2>1, <2>2 DEF startCleanTrans, Die
    <3> QED BY <1>4, <3>1
  <2>3. CASE state[cursor] = "Prepared" /\ cursor = t
    <3>1. Handled = 1 .. (t - 1)
      BY <1>2, <2>3 DEF Handled
    <3>2. Prior(t) \subseteq Handled
      BY <3>1 DEF Prior
    <3>3. stack = <<>>
      BY <1>1, <3>2, NothingLeft
    <3>4. state' = state
      BY <2>1, <2>3, <3>3 DEF startCleanTrans, Die
    <3> QED BY <1>4, <3>4
  <2>4. CASE \/ state[cursor] = "Begin"
             \/ state[cursor] = "Prepared" /\ cursor \in Solo /\ cursor # t
    <3>1. cursor # t /\ cursor \notin Prior(t)
      BY <1>1, <2>4 DEF Prior
    <3>2. \/ state' = [state EXCEPT ![cursor] = "Rollback"]
          \/ state' = [state EXCEPT ![cursor] = "Commited"]
          \/ state' = state
      BY <2>1, <2>4 DEF startCleanTrans, Die
    <3>3. CASE state' = state
      BY <1>4, <3>3
    <3>4. CASE state' # state
      <4>1. \A u \in Trans \ {cursor} : state'[u] = state[u]
        BY <3>2 DEF TypeOK
      <4>2. state'[cursor] # "Prepared"
        BY <2>1, <3>2, <3>4 DEF TypeOK
      <4>3. 1 .. (t - 1) \subseteq Trans
        BY <2>1 DEF Trans
      <4>4. state'[t] = "Prepared"
        BY <1>1, <3>1, <4>1
      <4>5. ASSUME NEW u \in Prior(t) PROVE state'[u] = "Prepared"
        <5>1. u \in 1 .. (t - 1) /\ state[u] = "Prepared" /\ u # cursor
          BY <3>1 DEF Prior
        <5> QED BY <4>1, <4>3, <5>1
      <4>6. ASSUME NEW u \in 1 .. (t - 1), state'[u] = "Prepared", u \notin Solo
            PROVE  u \in Prior(t)
        <5>1. u # cursor /\ u \in Trans
          BY <4>2, <4>3, <4>6
        <5> QED BY <4>1, <4>6, <5>1 DEF Prior
      <4> QED BY <4>4, <4>5, <4>6
    <3> QED BY <3>3, <3>4
  <2> QED BY <2>1, <2>2, <2>3, <2>4
<1>6. Crash \/ Restart \/ StartServing \/ UNCHANGED vars => state' = state
  BY DEF Crash, Die, Restart, StartServing, vars
<1>7. \A u \in Trans : ~Begin(u) /\ ~BeginAgain(u) /\ ~Prepare(u)
      /\ \A which \in {"first", "second"} : ~SessionEnd(which, u)
  BY <1>2 DEF Begin, BeginAgain, Prepare, SessionEnd
<1>8. \A k \in Task : ~Decide(k)
  BY <1>2 DEF Decide
<1> QED BY <1>4, <1>5, <1>6, <1>7, <1>8 DEF Next

\* A storage with more prepared transactions than PrepareTasks never serves
\* again: every restart finds them too, and dies in startUpClean.
THEOREM NoWayOut == Spec => OverloadIsForever
<1>1. TypeOK /\ PoolInv /\ Overload => pc # "serving"
  BY OverloadAhead DEF Overload, Prior
<1>2. [][Next]_vars /\ [](TypeOK /\ PoolInv) => [](Overload => [](Overload /\ pc # "serving"))
  BY <1>1, OverloadStays, PTL
<1> QED BY <1>2, TypeAndPool, PTL DEF Spec, OverloadIsForever

=============================================================================
