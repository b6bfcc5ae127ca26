---------------------------- MODULE Runtime_proofs ----------------------------
(***************************************************************************)
(* Proofs about the two libraries that start and run what a node consists  *)
(* of: the resource manager, for every table that follows the rules of     *)
(* sysmgr.h, and the scheduler, for any number of tasks and priorities.    *)
(***************************************************************************)
EXTENDS SysMgr, Scheduler, FiniteSetTheorems, WellFoundedInduction, TLAPS

\* A resource that is due for an attempt has one left.
DueHasBudget ==
    \A i \in Resources :
        /\ Policy[i] # "retry_inplace"
        /\ state[i] = "uninit" \/ (state[i] = "initializing" /\ ~polling[i])
        => attempts[i] <= Retries[i]

MgrIInv == MgrTypeOK /\ StartedHasReadyDeps /\ InTurn /\ BudgetHeld /\ DueHasBudget

\* What a move leaves of the budget of one resource.
Within(i, s, m, p) ==
    Policy[i] # "retry_inplace" =>
        /\ m <= Retries[i] + 1
        /\ s = "failed" => m = Retries[i] + 1
        /\ s = "initializing" /\ ~p => m <= Retries[i]
        /\ s # "uninit"

\* What a step may do to one resource: everything else keeps its state.
Moved(i, s) ==
    /\ Current(i)
    /\ state' = [state EXCEPT ![i] = s]
    /\ s \in States
    /\ s \in {"initializing", "ready", "failed"} => state[i] = "initializing" \/ DepsReady(i)

LEMMA MgrInitIInv == TableOK /\ MgrInit => MgrIInv
  BY DEF TableOK, MgrInit, MgrIInv, MgrTypeOK, StartedHasReadyDeps, InTurn, BudgetHeld, DueHasBudget, Resources, States, Terminal

\* A failure leaves one of four states, and counts within the budget.
LEMMA FailureMoves ==
    ASSUME TableOK, MgrTypeOK, NEW i \in Resources, NEW n \in 0 .. AttemptMod - 1, Failure(i, n)
    PROVE  \E s \in {"initializing", "failed", "degraded"}, m \in 0 .. AttemptMod - 1, p \in BOOLEAN :
              /\ Set(i, s, m, p)
              /\ s = "failed" => n >= Retries[i] + 1
              /\ Policy[i] # "retry_inplace" => m = n
              /\ Policy[i] # "retry_inplace" /\ s = "initializing" => n <= Retries[i]
              /\ m <= n
              /\ resets' \in Nat
  <1> DEFINE Fits(s, m, p) ==
              /\ Set(i, s, m, p)
              /\ s = "failed" => n >= Retries[i] + 1
              /\ Policy[i] # "retry_inplace" => m = n
              /\ Policy[i] # "retry_inplace" /\ s = "initializing" => n <= Retries[i]
              /\ m <= n
              /\ resets' \in Nat
  <1>1. AttemptMod \in Nat /\ Retries[i] \in 0 .. AttemptMod - 2 /\ resets \in Nat
    BY DEF TableOK, MgrTypeOK
  <1>2. n \in Nat /\ 0 \in 0 .. AttemptMod - 1 /\ polling[i] \in BOOLEAN
    BY <1>1 DEF MgrTypeOK
  <1>3. CASE n < Retries[i] + 1 /\ Set(i, "initializing", n, FALSE) /\ UNCHANGED resets
    <2>1. Fits("initializing", n, FALSE)
      BY <1>1, <1>2, <1>3 DEF Set
    <2> QED
      BY <2>1
  <1>4. CASE Policy[i] = "retry_inplace" /\ Set(i, "initializing", 0, FALSE) /\ UNCHANGED resets
    <2>1. Fits("initializing", 0, FALSE)
      BY <1>1, <1>2, <1>4 DEF Set
    <2> QED
      BY <1>2, <2>1
  <1>5. CASE n >= Retries[i] + 1 /\ Set(i, "failed", n, polling[i]) /\ resets' = resets + 1
    <2>1. Fits("failed", n, polling[i])
      BY <1>1, <1>2, <1>5 DEF Set
    <2> QED
      BY <1>2, <2>1
  <1>6. CASE Set(i, "degraded", n, polling[i]) /\ UNCHANGED resets
    <2>1. Fits("degraded", n, polling[i])
      BY <1>1, <1>2, <1>6 DEF Set
    <2> QED
      BY <1>2, <2>1
  <1> QED
    BY <1>3, <1>4, <1>5, <1>6 DEF Failure

\* Every tick moves the current resource to some state s with m attempts.
LEMMA TickMoves ==
    ASSUME TableOK, MgrIInv, MgrTick
    PROVE  \E i \in Resources, s \in States, m \in 0 .. AttemptMod - 1, p \in BOOLEAN :
              /\ Moved(i, s)
              /\ attempts' = [attempts EXCEPT ![i] = m]
              /\ polling' = [polling EXCEPT ![i] = p]
              /\ Within(i, s, m, p)
              /\ started' \in [Resources -> Nat]
              /\ now' \in Nat /\ resets' \in Nat
  <1> USE DEF MgrIInv
  <1>1. PICK i \in Resources : Current(i) /\ (Cascade(i) \/ Attempt(i) \/ Polled(i) \/ TimedOut(i))
    BY DEF MgrTick
  <1>2. /\ attempts[i] \in 0 .. AttemptMod - 1 /\ polling[i] \in BOOLEAN
        /\ attempts = [attempts EXCEPT ![i] = attempts[i]]
        /\ polling = [polling EXCEPT ![i] = polling[i]]
        /\ started \in [Resources -> Nat] /\ now \in Nat /\ resets \in Nat
        /\ Retries[i] \in 0 .. AttemptMod - 2 /\ AttemptMod \in Nat
    BY DEF MgrTypeOK, TableOK
  <1>3. Policy[i] # "retry_inplace" => attempts[i] <= Retries[i] + 1
    BY DEF BudgetHeld
  <1>4. state[i] \in {"uninit", "initializing"}
    BY <1>1 DEF Current, Terminal, MgrTypeOK, States
  <1>5. CASE Cascade(i)
    <2>1. Moved(i, "degraded")
      BY <1>1, <1>5 DEF Moved, Cascade, States
    <2>2. Within(i, "degraded", attempts[i], polling[i])
      BY <1>3 DEF Within
    <2> QED
      BY <1>2, <1>5, <2>1, <2>2 DEF Cascade, States
  <1>6. CASE Polled(i)
    <2>1. Moved(i, "ready")
      BY <1>1, <1>6 DEF Moved, Polled, States
    <2>2. Within(i, "ready", attempts[i], polling[i])
      BY <1>3 DEF Within
    <2> QED
      BY <1>2, <1>6, <2>1, <2>2 DEF Polled, States
  <1>7. CASE Attempt(i)
    <2> DEFINE n == (attempts[i] + 1) % AttemptMod
    <2>1. n \in 0 .. AttemptMod - 1
      BY <1>2
    <2>2. Policy[i] # "retry_inplace" => n <= Retries[i] + 1
      <3>1. Policy[i] # "retry_inplace" => attempts[i] <= Retries[i]
        BY <1>7 DEF Attempt, DueHasBudget
      <3>2. attempts[i] + 1 < AttemptMod => n = attempts[i] + 1
        BY <1>2
      <3>3. attempts[i] \in Int /\ Retries[i] \in Int /\ AttemptMod \in Int /\ Retries[i] <= AttemptMod - 2
        BY <1>2
      <3> HIDE DEF n
      <3> QED
        BY <3>1, <3>2, <3>3
    <2>3. started' \in [Resources -> Nat] /\ now' \in Nat
      BY <1>2, <1>7 DEF Attempt
    <2>4. state[i] = "initializing" \/ DepsReady(i)
      BY <1>7 DEF Attempt
    <2>5. CASE i \in Synchronous /\ Set(i, "ready", n, polling[i]) /\ UNCHANGED resets
      <3>1. Moved(i, "ready")
        BY <1>1, <2>4, <2>5 DEF Moved, Set, States
      <3>2. Within(i, "ready", n, polling[i])
        BY <2>2, <1>2, <2>1 DEF Within
      <3> QED
        <4>1. /\ attempts' = [attempts EXCEPT ![i] = n]
              /\ polling' = [polling EXCEPT ![i] = polling[i]]
              /\ resets' \in Nat
          BY <1>2, <2>5 DEF Set
        <4>2. "ready" \in States /\ polling[i] \in BOOLEAN
          BY <1>2 DEF States
        <4> HIDE DEF n
        <4> QED
          BY <2>1, <2>3, <3>1, <3>2, <4>1, <4>2
    <2>6. CASE i \notin Synchronous /\ Set(i, "initializing", n, TRUE) /\ UNCHANGED resets
      <3>1. Moved(i, "initializing")
        BY <1>1, <2>4, <2>6 DEF Moved, Set, States
      <3>2. Within(i, "initializing", n, TRUE)
        BY <2>2, <1>2, <2>1 DEF Within
      <3> QED
        BY <1>2, <2>1, <2>3, <2>6, <3>1, <3>2 DEF Set, States
    <2>7. CASE Failure(i, n)
      <3>1. PICK s \in {"initializing", "failed", "degraded"}, m \in 0 .. AttemptMod - 1, p \in BOOLEAN :
              /\ Set(i, s, m, p)
              /\ s = "failed" => n >= Retries[i] + 1
              /\ Policy[i] # "retry_inplace" => m = n
              /\ Policy[i] # "retry_inplace" /\ s = "initializing" => n <= Retries[i]
              /\ m <= n
              /\ resets' \in Nat
        BY <2>1, <2>7, FailureMoves
      <3>2. Moved(i, s)
        BY <1>1, <2>4, <3>1 DEF Moved, Set, States
      <3>3. Within(i, s, m, p)
        BY <1>2, <2>1, <2>2, <3>1 DEF Within
      <3>4. s \in States
        BY DEF States
      <3> QED
        BY <2>3, <3>1, <3>2, <3>3, <3>4 DEF Set
    <2> QED
      BY <1>7, <2>5, <2>6, <2>7 DEF Attempt
  <1>8. CASE TimedOut(i)
    <2>1. PICK s \in {"initializing", "failed", "degraded"}, m \in 0 .. AttemptMod - 1, p \in BOOLEAN :
              /\ Set(i, s, m, p)
              /\ s = "failed" => attempts[i] >= Retries[i] + 1
              /\ Policy[i] # "retry_inplace" => m = attempts[i]
              /\ Policy[i] # "retry_inplace" /\ s = "initializing" => attempts[i] <= Retries[i]
              /\ m <= attempts[i]
              /\ resets' \in Nat
      BY <1>2, <1>8, FailureMoves DEF TimedOut
    <2>2. Moved(i, s)
      BY <1>1, <1>8, <2>1 DEF Moved, Set, States, TimedOut
    <2>3. Within(i, s, m, p)
      BY <1>2, <1>3, <2>1 DEF Within
    <2>4. started' \in [Resources -> Nat] /\ now' \in Nat
      BY <1>2, <1>8 DEF TimedOut
    <2>5. s \in States
      BY DEF States
    <2> QED
      BY <2>1, <2>2, <2>3, <2>4, <2>5 DEF Set
  <1> QED
    BY <1>1, <1>5, <1>6, <1>7, <1>8

\* A move keeps the invariant: dependencies come earlier, and what comes
\* earlier is terminal and stays as it is.
LEMMA MoveIInv ==
    ASSUME TableOK, MgrIInv, NEW i \in Resources, NEW s \in States,
           NEW m \in 0 .. AttemptMod - 1, NEW p \in BOOLEAN,
           Moved(i, s),
           attempts' = [attempts EXCEPT ![i] = m],
           polling' = [polling EXCEPT ![i] = p],
           Within(i, s, m, p),
           started' \in [Resources -> Nat], now' \in Nat, resets' \in Nat
    PROVE  MgrIInv'
  <1>1. MgrTypeOK'
    BY DEF MgrIInv, MgrTypeOK, Moved, States
  <1>2. \A j \in Resources : state'[j] = IF j = i THEN s ELSE state[j]
    BY DEF Moved, MgrIInv, MgrTypeOK
  <1>3. i \in Int /\ \A j \in Resources : j \in Int
    BY DEF Resources, TableOK
  <1>4. ~Terminal(state[i]) /\ \A j \in Resources : j < i => Terminal(state[j])
    BY <1>3 DEF Moved, Current, Resources, TableOK
  <1>5. StartedHasReadyDeps'
    <2> SUFFICES ASSUME NEW j \in Resources, state'[j] \in {"initializing", "ready", "failed"},
                        NEW d \in Deps[j]
                 PROVE  state'[d] = "ready"
      BY DEF StartedHasReadyDeps, DepsReady
    <2>1. d \in Resources /\ d < j
      BY DEF TableOK
    <2>2. state[d] = "ready"
      BY <1>2 DEF MgrIInv, StartedHasReadyDeps, DepsReady, Moved
    <2>3. d # i
      BY <1>4, <2>2 DEF Terminal
    <2> QED
      BY <1>2, <2>1, <2>2, <2>3
  <1>6. InTurn'
    <2> SUFFICES ASSUME NEW j \in Resources, NEW k \in Resources, k < j, state'[j] # "uninit"
                 PROVE  Terminal(state'[k])
      BY DEF InTurn
    <2>1. CASE j = i
      BY <1>2, <1>3, <1>4, <2>1
    <2>2. CASE j # i
      <3>1. Terminal(state[k])
        BY <1>2, <2>2 DEF MgrIInv, InTurn
      <3>2. k # i
        BY <1>4, <3>1
      <3> QED
        BY <1>2, <3>1, <3>2
    <2> QED
      BY <2>1, <2>2
  <1>7. BudgetHeld'
    <2>1. \A j \in Resources : attempts'[j] = IF j = i THEN m ELSE attempts[j]
      BY DEF MgrIInv, MgrTypeOK
    <2> QED
      BY <1>2, <2>1 DEF MgrIInv, BudgetHeld, Within
  <1>8. DueHasBudget'
    <2>1. \A j \in Resources : /\ attempts'[j] = IF j = i THEN m ELSE attempts[j]
                               /\ polling'[j] = IF j = i THEN p ELSE polling[j]
      BY DEF MgrIInv, MgrTypeOK
    <2> QED
      BY <1>2, <2>1 DEF MgrIInv, DueHasBudget, Within
  <1> QED
    BY <1>1, <1>5, <1>6, <1>7, <1>8 DEF MgrIInv

LEMMA StepIInv == TableOK /\ MgrIInv /\ [MgrNext]_mgrVars => MgrIInv'
  <1>1. ASSUME TableOK, MgrIInv, MgrTick PROVE MgrIInv'
    BY <1>1, TickMoves, MoveIInv
  <1>2. ASSUME TableOK, MgrIInv, Pass PROVE MgrIInv'
    <2>1. now' \in Nat
      BY <1>2 DEF Pass, MgrIInv, MgrTypeOK, TableOK
    <2> QED
      BY <1>2, <2>1 DEF Pass, MgrIInv, MgrTypeOK, StartedHasReadyDeps, DepsReady, InTurn, BudgetHeld, DueHasBudget
  <1>3. ASSUME MgrIInv, UNCHANGED mgrVars PROVE MgrIInv'
    BY <1>3 DEF mgrVars, MgrIInv, MgrTypeOK, StartedHasReadyDeps, DepsReady, InTurn, BudgetHeld, DueHasBudget
  <1> QED
    BY <1>1, <1>2, <1>3 DEF MgrNext

\* No resource is started before its dependencies are ready, nor out of turn,
\* nor more often than its retries allow (sysmgr_tick, handle_failure).
THEOREM BringUpInOrder ==
    ASSUME TableOK
    PROVE  MgrSpec => [](MgrTypeOK /\ StartedHasReadyDeps /\ InTurn /\ BudgetHeld)
  <1>1. MgrInit => MgrIInv
    BY MgrInitIInv
  <1>2. MgrIInv /\ [MgrNext]_mgrVars => MgrIInv'
    BY StepIInv
  <1> QED
    BY <1>1, <1>2, PTL DEF MgrSpec, MgrIInv

\* A terminal state is final (the while loop at the head of sysmgr_tick).
THEOREM SettledIsFinal ==
    ASSUME TableOK
    PROVE  MgrSpec => SettledStays
  <1>1. MgrInit => MgrIInv
    BY MgrInitIInv
  <1>2. MgrIInv /\ [MgrNext]_mgrVars => MgrIInv'
    BY StepIInv
  <1>3. MgrIInv /\ [MgrNext]_mgrVars =>
          [\A i \in Resources : Terminal(state[i]) => state'[i] = state[i]]_mgrVars
    <2>1. ASSUME MgrIInv, MgrTick PROVE \A i \in Resources : Terminal(state[i]) => state'[i] = state[i]
      <3>1. PICK i \in Resources, s \in States : Moved(i, s)
        BY <2>1, TickMoves
      <3> QED
        BY <2>1, <3>1 DEF Moved, Current, MgrIInv, MgrTypeOK
    <2>2. ASSUME Pass PROVE \A i \in Resources : Terminal(state[i]) => state'[i] = state[i]
      BY <2>2 DEF Pass
    <2> QED
      BY <2>1, <2>2 DEF MgrNext
  <1> QED
    BY <1>1, <1>2, <1>3, PTL DEF MgrSpec, SettledStays

-----------------------------------------------------------------------------
(***************************************************************************)
(* The scheduler.  That the highest ready task runs rests on the bitmap,   *)
(* which says where ready tasks are, and on a request to switch whenever   *)
(* the tick has made a higher task ready.                                  *)
(***************************************************************************)
Ids(n) == 0 .. n - 1

\* Ids are given in order, and before the start nothing is running or pended.
Table ==
    /\ \E n \in 0 .. MaxTasks : DOMAIN task = Ids(n) \cup {Idle}
    /\ \A t \in User : task[t].prio \in Priorities
    /\ current = NoTask => cpu = NoTask /\ ~pend /\ owes = {}

Higher(t) == t \in User /\ task[t].state = "ready" /\ task[t].prio < task[current].prio

\* A task above the current one is a pended switch; and the CPU is with the
\* current task unless a switch is pended or still to be requested.
SwitchIsDue ==
    current # NoTask /\ ~pend =>
        /\ \A t \in User : ~Higher(t)
        /\ cpu \notin owes => cpu = current

SchedInv == Consistent /\ Table /\ SwitchIsDue

\* A task table as the decisions read it.
TaskTable(tasks) ==
    /\ \E n \in 0 .. MaxTasks : DOMAIN tasks = Ids(n) \cup {Idle}
    /\ \A t \in DOMAIN tasks : tasks[t] \in TaskRecord
    /\ \A t \in DOMAIN tasks \ {Idle} : tasks[t].prio \in Priorities

Indexes == [0 .. MaxPriorities - 1 -> 0 .. MaxTasks - 1]

Exact(bits, tasks) == bits = {p \in Priorities : ReadyAt(tasks, p) # {}}
CanRun(tasks, t) == tasks[t].state \in {"ready", "running"}

\* The chosen task can run, unless it is the idle task, and no task that can
\* run is above it.
IsHighest(tasks, next) ==
    /\ next \in DOMAIN tasks
    /\ next # Idle => CanRun(tasks, next)
    /\ \A t \in DOMAIN tasks \ {Idle} : CanRun(tasks, t) => tasks[next].prio <= tasks[t].prio

\* A set of naturals that is not empty has a least element.
LEMMA LeastElement ==
    ASSUME NEW S \in SUBSET Nat, S # {}
    PROVE  \E m \in S : \A n \in S : m <= n
  <1> DEFINE R == {ss \in Nat \X Nat : ss[1] < ss[2]}
  <1>1. IsWellFoundedOn(R, Nat)
    BY NatLessThanWellFounded DEF OpToRel
  <1>2. PICK m \in S : \A n \in S : ~(<<n, m>> \in R)
    BY <1>1, WFMin
  <1>3. ASSUME NEW n \in S PROVE m <= n
    <2>1. m \in Nat /\ n \in Nat
      OBVIOUS
    <2>2. ~(n < m)
      BY <1>2, <2>1
    <2> QED
      BY <2>1, <2>2
  <1> QED
    BY <1>3

\* Exactly one element of a finite set of ids has k elements below it.
LEMMA NthExists ==
    ASSUME NEW n \in Nat, NEW S \in SUBSET (0 .. n - 1), NEW k \in Nat, k < Cardinality(S)
    PROVE  \E t \in S : Cardinality({u \in S : u < t}) = k
  <1> DEFINE Below(m) == {u \in S : u < m}
             Reached == {m \in Nat : Cardinality(Below(m)) > k}
  <1>a. \A u \in S : u \in Nat /\ u < n
    <2> TAKE u \in S
    <2>1. u \in 0 .. n - 1
      OBVIOUS
    <2> QED
      BY <2>1
  <1>1. IsFiniteSet(S)
    <2>1. IsFiniteSet(0 .. n - 1)
      BY FS_Interval
    <2> QED
      BY <2>1, FS_Subset
  <1>2. ASSUME NEW m \in Nat PROVE IsFiniteSet(Below(m)) /\ Cardinality(Below(m)) \in Nat
    <2>1. Below(m) \in SUBSET S
      OBVIOUS
    <2> QED
      BY <1>1, <2>1, FS_Subset, FS_CardinalityType
  <1>3. n \in Reached
    <2>1. Below(n) = S
      BY <1>a
    <2>2. Cardinality(S) > k
      BY <1>1, FS_CardinalityType
    <2> QED
      BY <2>1, <2>2
  <1>4. PICK m \in Reached : \A j \in Reached : m <= j
    <2>1. Reached \in SUBSET Nat /\ Reached # {}
      BY <1>3
    <2> HIDE DEF Reached
    <2> QED
      BY <2>1, LeastElement
  <1>5. m \in Nat /\ Cardinality(Below(m)) > k
    OBVIOUS
  <1>6. m > 0
    <2>1. ASSUME m = 0 PROVE FALSE
      <3>a. \A u \in S : ~(u < m)
        BY <1>a, <2>1
      <3>1. Below(m) = {}
        BY <3>a
      <3>2. Cardinality(Below(m)) = 0
        BY <3>1, FS_EmptySet
      <3> QED
        BY <1>5, <3>2
    <2> QED
      BY <1>5, <2>1
  <1>7. m - 1 \in Nat
    BY <1>5, <1>6
  <1>8. Cardinality(Below(m - 1)) <= k
    <2>1. m - 1 \notin Reached
      BY <1>4, <1>5, <1>7
    <2>2. Cardinality(Below(m - 1)) \in Nat
      BY <1>2, <1>7
    <2> QED
      BY <1>7, <2>1, <2>2
  <1>9. m - 1 \in S
    <2>1. ASSUME m - 1 \notin S PROVE FALSE
      <3>1. \A u \in S : u < m <=> u < m - 1
        BY <1>a, <1>5, <2>1
      <3>2. Below(m) = Below(m - 1)
        BY <3>1
      <3> HIDE DEF Below
      <3>3. Cardinality(Below(m)) <= k
        BY <1>8, <3>2
      <3> QED
        BY <1>2, <1>5, <3>3
    <2> QED
      BY <2>1
  <1>10. Cardinality(Below(m)) = Cardinality(Below(m - 1)) + 1
    <2>a. \A u \in S : u < m <=> u < m - 1 \/ u = m - 1
      BY <1>a, <1>5
    <2>1. Below(m) = Below(m - 1) \cup {m - 1}
      BY <1>9, <2>a
    <2>2. m - 1 \notin Below(m - 1)
      BY <1>7
    <2>3. IsFiniteSet(Below(m - 1))
      BY <1>2, <1>7
    <2> HIDE DEF Below
    <2> QED
      BY <2>1, <2>2, <2>3, FS_AddElement
  <1>11. Cardinality(Below(m - 1)) = k
    <2> HIDE DEF Below, Reached
    <2> QED
      BY <1>2, <1>5, <1>7, <1>8, <1>10
  <1> QED
    BY <1>9, <1>11

\* The ids of the user tasks are the first n naturals.
FirstIds(tasks, n) ==
    /\ DOMAIN tasks \ {Idle} = Ids(n)
    /\ DOMAIN tasks = Ids(n) \cup {Idle}
    /\ \A t \in Ids(n) : t \in Nat /\ t < n
    /\ Idle \notin Ids(n)

LEMMA IdsAreNaturals ==
    ASSUME SchedulerAssumption, NEW tasks, TaskTable(tasks)
    PROVE  \E n \in 0 .. MaxTasks : FirstIds(tasks, n)
  <1>1. PICK n \in 0 .. MaxTasks : DOMAIN tasks = Ids(n) \cup {Idle}
    BY DEF TaskTable
  <1>2. n \in Nat /\ n <= MaxTasks
    BY <1>1 DEF SchedulerAssumption
  <1>3. \A t \in Ids(n) : t \in Nat /\ t < n
    BY <1>2 DEF Ids
  <1>4. Idle \notin Ids(n)
    BY <1>2, <1>3 DEF Idle, SchedulerAssumption
  <1> QED
    BY <1>1, <1>3, <1>4 DEF FirstIds

LEMMA NextIsHighest ==
    ASSUME SchedulerAssumption, NEW tasks, NEW bits, NEW index \in Indexes,
           TaskTable(tasks), Exact(bits, tasks)
    PROVE  IsHighest(tasks, ChooseNext(tasks, bits, index))
  <1>1. PICK n \in 0 .. MaxTasks :
            /\ DOMAIN tasks \ {Idle} = Ids(n)
            /\ DOMAIN tasks = Ids(n) \cup {Idle}
            /\ \A t \in Ids(n) : t \in Nat /\ t < n
            /\ Idle \notin Ids(n)
    BY IdsAreNaturals DEF FirstIds
  <1>2. \A t \in DOMAIN tasks \ {Idle} :
            CanRun(tasks, t) => tasks[t].prio \in bits /\ t \in ReadyAt(tasks, tasks[t].prio)
    BY DEF CanRun, Exact, ReadyAt, TaskTable
  <1>3. bits \in SUBSET (0 .. MaxPriorities - 1) /\ bits \in SUBSET Nat
    <2>1. bits \in SUBSET (0 .. MaxPriorities - 1)
      BY DEF Exact, SchedulerAssumption
    <2> QED
      BY <2>1
  <1>4. CASE bits = {}
    <2>1. ChooseNext(tasks, bits, index) = Idle
      BY <1>4 DEF ChooseNext
    <2> QED
      BY <1>1, <1>2, <1>4, <2>1 DEF IsHighest
  <1>5. CASE bits # {}
    <2> DEFINE p == CHOOSE q \in bits : \A r \in bits : q <= r
               candidates == ReadyAt(tasks, p)
               k == index[p] % Cardinality(candidates)
               next == CHOOSE t \in candidates : Cardinality({u \in candidates : u < t}) = k
    <2>1. p \in bits /\ \A r \in bits : p <= r
      BY <1>3, <1>5, LeastElement
    <2>2. candidates # {}
      BY <2>1 DEF Exact
    <2>3. candidates \in SUBSET (0 .. n - 1)
      BY <1>1 DEF ReadyAt, Ids
    <2>4. n \in Nat
      BY <1>1 DEF SchedulerAssumption
    <2>5. Cardinality(candidates) \in Nat \ {0}
      <3> HIDE DEF candidates
      <3>1. IsFiniteSet(0 .. n - 1)
        BY <2>4, FS_Interval
      <3>2. IsFiniteSet(candidates)
        BY <2>3, <3>1, FS_Subset
      <3> QED
        BY <2>2, <3>2, FS_CardinalityType, FS_EmptySet
    <2>6. k \in Nat /\ k < Cardinality(candidates)
      <3>1. index[p] \in 0 .. MaxTasks - 1
        <4> HIDE DEF p
        <4> QED
          BY <1>3, <2>1 DEF Indexes
      <3> HIDE DEF p, candidates
      <3>2. index[p] \in Nat
        BY <3>1
      <3> QED
        BY <2>5, <3>2
    <2>7. \E t \in candidates : Cardinality({u \in candidates : u < t}) = k
      <3> HIDE DEF candidates, k
      <3> QED
        BY <2>3, <2>4, <2>6, NthExists
    <2>8. next \in candidates
      BY <2>7
    <2>9. ChooseNext(tasks, bits, index) = next
      BY <1>5, <2>2 DEF ChooseNext
    <2>10. next \in DOMAIN tasks /\ CanRun(tasks, next) /\ tasks[next].prio = p
      <3> HIDE DEF p, next
      <3> QED
        BY <2>8 DEF ReadyAt, CanRun
    <2> HIDE DEF p, candidates, k, next
    <2>11. \A t \in DOMAIN tasks \ {Idle} : CanRun(tasks, t) => tasks[next].prio <= tasks[t].prio
      BY <1>2, <2>1, <2>10
    <2> QED
      BY <2>9, <2>10, <2>11 DEF IsHighest
  <1> QED
    BY <1>4, <1>5

\* sched_set_running changes marks only: who can run stays the same.
LEMMA RunningMarks ==
    ASSUME NEW tasks, TaskTable(tasks), NEW next, IsHighest(tasks, next),
           \A t \in DOMAIN tasks : tasks[t].state = "running" => t = current
    PROVE  /\ TaskTable(Running(tasks, next))
           /\ DOMAIN Running(tasks, next) = DOMAIN tasks
           /\ \A t \in DOMAIN tasks :
                 /\ Running(tasks, next)[t].prio = tasks[t].prio
                 /\ Running(tasks, next)[t].state = "running" <=> t = next
                 /\ t # Idle => (CanRun(Running(tasks, next), t) <=> CanRun(tasks, t))
           /\ \A p : ReadyAt(Running(tasks, next), p) = ReadyAt(tasks, p)
  <1> DEFINE r == Running(tasks, next)
  <1>1. DOMAIN r = DOMAIN tasks
    BY DEF Running
  <1>2. ASSUME NEW t \in DOMAIN tasks
        PROVE  /\ r[t] \in TaskRecord
               /\ r[t].prio = tasks[t].prio
               /\ r[t].state = "running" <=> t = next
               /\ t # Idle => (CanRun(r, t) <=> CanRun(tasks, t))
    <2>1. tasks[t] \in TaskRecord
      BY DEF TaskTable
    <2>2. CASE t = next
      <3>1. r[t] = [tasks[t] EXCEPT !.state = "running"]
        BY <2>2 DEF Running
      <3>2. t # Idle => CanRun(tasks, t)
        BY <2>2 DEF IsHighest
      <3> HIDE DEF r
      <3> QED
        BY <2>1, <2>2, <3>1, <3>2 DEF CanRun, TaskRecord
    <2>3. CASE t # next /\ t = current /\ tasks[t].state = "running"
      <3>1. r[t] = [tasks[t] EXCEPT !.state = "ready"]
        BY <2>3 DEF Running
      <3> HIDE DEF r
      <3> QED
        BY <2>1, <2>3, <3>1 DEF CanRun, TaskRecord
    <2>4. CASE t # next /\ ~(t = current /\ tasks[t].state = "running")
      <3>1. r[t] = tasks[t]
        BY <2>4 DEF Running
      <3>2. tasks[t].state # "running"
        BY <2>4
      <3> HIDE DEF r
      <3> QED
        BY <2>1, <2>4, <3>1, <3>2 DEF CanRun
    <2> QED
      BY <2>2, <2>3, <2>4
  <1>3. TaskTable(r)
    <2> HIDE DEF r
    <2> QED
      BY <1>1, <1>2 DEF TaskTable
  <1>4. ASSUME NEW p PROVE ReadyAt(r, p) = ReadyAt(tasks, p)
    <2> HIDE DEF r
    <2> QED
      BY <1>1, <1>2 DEF ReadyAt, CanRun
  <1> QED
    BY <1>1, <1>2, <1>3, <1>4

LEMMA SchedInitInv == SchedulerAssumption /\ Init => SchedInv
  <1> SUFFICES ASSUME SchedulerAssumption, Init PROVE SchedInv
    OBVIOUS
  <1> USE DEF Init, IdleTask, Idle, NoTask, User
  <1>1. DOMAIN task = {Idle} /\ task[Idle] = IdleTask
    OBVIOUS
  <1>2. TypeOK
    <2>1. 0 \in 0 .. MaxTasks - 1 /\ 0 \in 0 .. MaxDelay /\ MaxPriorities - 1 \in 0 .. MaxPriorities - 1
          /\ MaxTasks \in 0 .. MaxTasks
      BY DEF SchedulerAssumption
    <2>2. rr \in [0 .. MaxPriorities - 1 -> 0 .. MaxTasks - 1]
      BY <2>1
    <2>3. task[Idle] \in TaskRecord
      BY <1>1, <2>1 DEF TaskRecord
    <2> QED
      BY <1>1, <2>1, <2>2, <2>3 DEF TypeOK
  <1>3. BitmapIsExact
    BY <1>1 DEF BitmapIsExact, ReadyAt
  <1>4. OneRuns
    BY <1>1 DEF OneRuns
  <1>5. Table
    <2>1. 0 \in 0 .. MaxTasks
      BY DEF SchedulerAssumption
    <2>2. DOMAIN task = Ids(0) \cup {Idle}
      BY <1>1 DEF Ids
    <2> QED
      BY <1>1, <2>1, <2>2 DEF Table
  <1>6. SwitchIsDue
    BY DEF SwitchIsDue
  <1> QED
    BY <1>2, <1>3, <1>4, <1>5, <1>6 DEF SchedInv, Consistent

\* The facts that the steps take from the invariant.
LEMMA SchedFacts ==
    ASSUME SchedulerAssumption, SchedInv
    PROVE  /\ TaskTable(task)
           /\ Exact(bitmap, task)
           /\ rr \in Indexes
           /\ \A t \in DOMAIN task : task[t].state = "running" <=> t = current
           /\ User = DOMAIN task \ {Idle}
           /\ NoTask \notin DOMAIN task
           /\ current # NoTask => current \in DOMAIN task
           /\ current = NoTask => cpu = NoTask /\ ~pend /\ owes = {}
  <1>1. TaskTable(task)
    BY DEF SchedInv, Consistent, TypeOK, Table, TaskTable, User
  <1>2. NoTask \notin DOMAIN task
    BY DEF SchedInv, Consistent, TypeOK, NoTask, SchedulerAssumption
  <1> QED
    BY <1>1, <1>2 DEF SchedInv, Consistent, TypeOK, Table, BitmapIsExact, OneRuns, Exact, Indexes, User

\* Every decision leaves the invariant, provided that the context which
\* executes is the decided one or a switch to it is on its way.
LEMMA DecisionKeeps ==
    ASSUME SchedulerAssumption, NEW tasks, NEW bits, NEW index \in Indexes,
           TaskTable(tasks), Exact(bits, tasks), NoTask \notin DOMAIN tasks,
           \A t \in DOMAIN tasks : tasks[t].state = "running" => t = current,
           Select(tasks, bits, index),
           bitmap' = bits, rr' \in Indexes, pend' \in BOOLEAN,
           cpu' \in DOMAIN tasks, owes' \subseteq DOMAIN tasks \ {Idle},
           pend' \/ cpu' \in owes' \/ cpu' = current'
    PROVE  SchedInv'
  <1> DEFINE next == ChooseNext(tasks, bits, index)
  <1>1. IsHighest(tasks, next)
    BY NextIsHighest
  <1>2. task' = Running(tasks, next) /\ current' = next
    BY DEF Select
  <1> HIDE DEF next
  <1>3. /\ TaskTable(task')
        /\ DOMAIN task' = DOMAIN tasks
        /\ \A t \in DOMAIN tasks :
              /\ task'[t].prio = tasks[t].prio
              /\ task'[t].state = "running" <=> t = next
              /\ t # Idle => (CanRun(task', t) <=> CanRun(tasks, t))
        /\ \A p : ReadyAt(task', p) = ReadyAt(tasks, p)
    <2>1. /\ TaskTable(Running(tasks, next))
          /\ DOMAIN Running(tasks, next) = DOMAIN tasks
          /\ \A t \in DOMAIN tasks :
                /\ Running(tasks, next)[t].prio = tasks[t].prio
                /\ Running(tasks, next)[t].state = "running" <=> t = next
                /\ t # Idle => (CanRun(Running(tasks, next), t) <=> CanRun(tasks, t))
          /\ \A p : ReadyAt(Running(tasks, next), p) = ReadyAt(tasks, p)
      BY <1>1, RunningMarks
    <2> QED
      BY <1>2, <2>1
  <1>4. next \in DOMAIN tasks
    BY <1>1 DEF IsHighest
  <1>5. PICK n \in 0 .. MaxTasks : DOMAIN task' = Ids(n) \cup {Idle}
    BY <1>3 DEF TaskTable
  <1>6. TypeOK'
    <2>1. Ids(n) \cup {Idle} \subseteq 0 .. MaxTasks
      BY <1>5 DEF Ids, Idle, SchedulerAssumption
    <2>2. bitmap' \subseteq Priorities
      BY DEF Exact
    <2> QED
      BY <1>2, <1>3, <1>4, <1>5, <2>1, <2>2 DEF TypeOK, TaskTable, User, Indexes
  <1>7. BitmapIsExact'
    BY <1>3 DEF BitmapIsExact, Exact
  <1>8. OneRuns'
    <2>1. \A t \in DOMAIN task' : task'[t].state = "running" <=> t = next
      BY <1>3
    <2>2. next # NoTask /\ next \in DOMAIN task'
      BY <1>3, <1>4
    <2>3. {t \in DOMAIN task' : task'[t].state = "running"} = {next}
      BY <2>1, <2>2
    <2> QED
      BY <1>2, <2>2, <2>3 DEF OneRuns
  <1>9. Table'
    BY <1>2, <1>3, <1>4 DEF Table, TaskTable, User
  <1>10. SwitchIsDue'
    <2>1. ASSUME NEW t \in User' PROVE ~Higher(t)'
      <3>1. t \in DOMAIN tasks \ {Idle}
        BY <1>3 DEF User
      <3>a. CanRun(task', t) <=> CanRun(tasks, t)
        BY <1>3, <3>1
      <3>2. task'[t].state = "ready" => CanRun(tasks, t)
        BY <3>a DEF CanRun
      <3>3. CanRun(tasks, t) => tasks[next].prio <= tasks[t].prio
        BY <1>1, <3>1 DEF IsHighest
      <3>4. tasks[next].prio \in Nat /\ tasks[t].prio \in Nat
        <4>1. tasks[next].prio \in 0 .. MaxPriorities - 1 /\ tasks[t].prio \in 0 .. MaxPriorities - 1
          BY <1>4, <3>1 DEF TaskTable, TaskRecord
        <4> QED
          BY <4>1
      <3>b. \A u \in DOMAIN tasks : task'[u].prio = tasks[u].prio
        BY <1>3
      <3>5. task'[next].prio = tasks[next].prio /\ task'[t].prio = tasks[t].prio
        BY <1>4, <3>1, <3>b
      <3> QED
        BY <1>2, <3>2, <3>3, <3>4, <3>5 DEF Higher
    <2> QED
      BY <2>1 DEF SwitchIsDue
  <1> QED
    BY <1>6, <1>7, <1>8, <1>9, <1>10 DEF SchedInv, Consistent

LEMMA RotatedIsIndex ==
    ASSUME SchedulerAssumption, NEW index \in Indexes, NEW p \in 0 .. MaxPriorities - 1
    PROVE  Rotated(index, p) \in Indexes
  <1>1. index[p] \in Nat
    BY DEF Indexes
  <1>2. (index[p] + 1) % MaxTasks \in 0 .. MaxTasks - 1
    BY <1>1 DEF SchedulerAssumption
  <1> QED
    BY <1>2 DEF Rotated, Indexes

LEMMA CreateKeeps == ASSUME SchedulerAssumption, SchedInv, Create PROVE SchedInv'
  <1>1. PICK n \in 0 .. MaxTasks :
            /\ User = Ids(n)
            /\ DOMAIN task = Ids(n) \cup {Idle}
            /\ \A t \in Ids(n) : t \in Nat /\ t < n
            /\ Idle \notin Ids(n)
    BY SchedFacts, IdsAreNaturals DEF FirstIds
  <1>2. n \in Nat /\ Cardinality(User) = n
    <2>1. n \in Nat
      BY <1>1 DEF SchedulerAssumption
    <2>2. Cardinality(0 .. n - 1) = n
      BY <2>1, FS_Interval
    <2> QED
      BY <1>1, <2>1, <2>2 DEF Ids
  <1>3. n < MaxTasks /\ n # Idle /\ n \notin DOMAIN task
    <2>1. n < MaxTasks
      BY <1>2 DEF Create
    <2> QED
      BY <1>1, <1>2, <2>1 DEF Idle, SchedulerAssumption
  <1>4. PICK p \in Priorities :
            /\ task' = [t \in DOMAIN task \cup {n} |->
                          IF t = n THEN [prio |-> p, state |-> "ready", delay |-> 0] ELSE task[t]]
            /\ bitmap' = bitmap \cup {p}
    BY <1>2 DEF Create
  <1>5. /\ current = NoTask /\ current' = NoTask /\ cpu' = NoTask /\ ~pend' /\ owes' = {}
        /\ rr' = rr
    BY SchedFacts DEF Create
  <1>6. /\ DOMAIN task' = Ids(n + 1) \cup {Idle}
        /\ n + 1 \in 0 .. MaxTasks
        /\ Ids(n + 1) \cup {Idle} \subseteq 0 .. MaxTasks
    <2>1. Ids(n) \cup {n} = Ids(n + 1)
      BY <1>2 DEF Ids
    <2>2. n + 1 \in 0 .. MaxTasks
      BY <1>2, <1>3 DEF SchedulerAssumption
    <2>3. DOMAIN task' = DOMAIN task \cup {n}
      BY <1>4
    <2>4. Ids(n + 1) \cup {Idle} \subseteq 0 .. MaxTasks
      BY <2>2 DEF Ids, Idle, SchedulerAssumption
    <2> QED
      BY <1>1, <2>1, <2>2, <2>3, <2>4
  <1>7. /\ task'[n] = [prio |-> p, state |-> "ready", delay |-> 0]
        /\ \A t \in DOMAIN task : task'[t] = task[t]
        /\ DOMAIN task' = DOMAIN task \cup {n}
    BY <1>3, <1>4
  <1>8. TypeOK'
    <2>1. p \in 0 .. MaxPriorities - 1 /\ 0 \in 0 .. MaxDelay
      BY DEF SchedulerAssumption
    <2>2. \A t \in DOMAIN task' : task'[t] \in TaskRecord
      BY <1>7, <2>1, SchedFacts DEF TaskTable, TaskRecord
    <2>3. bitmap' \subseteq Priorities
      BY <1>4, SchedFacts DEF Exact
    <2>4. rr' \in [0 .. MaxPriorities - 1 -> 0 .. MaxTasks - 1]
      BY <1>5 DEF SchedInv, Consistent, TypeOK
    <2>5. pend' \in BOOLEAN
      BY DEF Create, SchedInv, Consistent, TypeOK
    <2> QED
      BY <1>5, <1>6, <2>2, <2>3, <2>4, <2>5 DEF TypeOK
  <1>9. BitmapIsExact'
    <2>1. ReadyAt(task', p) # {}
      BY <1>3, <1>7 DEF ReadyAt
    <2>2. ASSUME NEW q, q # p PROVE ReadyAt(task', q) = ReadyAt(task, q)
      BY <1>3, <1>7, <2>2 DEF ReadyAt
    <2>3. bitmap = {q \in Priorities : ReadyAt(task, q) # {}}
      BY SchedFacts DEF Exact
    <2>4. bitmap' = {q \in Priorities : ReadyAt(task', q) # {}}
      BY <1>4, <2>1, <2>2, <2>3
    <2> QED
      BY <2>4 DEF BitmapIsExact
  <1>10. OneRuns'
    <2>1. ASSUME NEW t \in DOMAIN task' PROVE task'[t].state # "running"
      BY <1>5, <1>7, SchedFacts
    <2> QED
      BY <1>5, <2>1 DEF OneRuns
  <1>11. Table'
    <2>1. User' = DOMAIN task' \ {Idle}
      BY DEF User
    <2>2. \A t \in User' : task'[t].prio \in Priorities
      BY <1>7, <2>1, SchedFacts DEF TaskTable
    <2> QED
      BY <1>5, <1>6, <2>2 DEF Table
  <1>12. SwitchIsDue'
    BY <1>5 DEF SwitchIsDue
  <1> QED
    BY <1>8, <1>9, <1>10, <1>11, <1>12 DEF SchedInv, Consistent

LEMMA StartKeeps == ASSUME SchedulerAssumption, SchedInv, Start PROVE SchedInv'
  <1>1. /\ TaskTable(task) /\ Exact(bitmap, task) /\ rr \in Indexes /\ NoTask \notin DOMAIN task
        /\ \A t \in DOMAIN task : task[t].state = "running" => t = current
        /\ owes = {}
    BY SchedFacts DEF Start
  <1>2. Select(task, bitmap, rr) /\ bitmap' = bitmap /\ rr' = rr /\ pend' = pend /\ owes' = owes /\ cpu' = current'
    BY DEF Start
  <1>3. cpu' \in DOMAIN task
    BY <1>1, <1>2, NextIsHighest DEF Select, IsHighest
  <1>4. pend \in BOOLEAN
    BY DEF SchedInv, Consistent, TypeOK
  <1>5. owes' \subseteq DOMAIN task \ {Idle}
    BY <1>1, <1>2
  <1> QED
    BY <1>1, <1>2, <1>3, <1>4, <1>5, DecisionKeeps

LEMMA YieldKeeps == ASSUME SchedulerAssumption, SchedInv, Yield PROVE SchedInv'
  <1>1. /\ TaskTable(task) /\ Exact(bitmap, task) /\ rr \in Indexes /\ NoTask \notin DOMAIN task
        /\ \A t \in DOMAIN task : task[t].state = "running" => t = current
        /\ User = DOMAIN task \ {Idle}
    BY SchedFacts
  <1>2. cpu \in User /\ current \in DOMAIN task
    BY SchedFacts, <1>1 DEF Yield, Calls
  <1>3. rr' \in Indexes
    <2>1. task[current].prio \in 0 .. MaxPriorities - 1
      BY <1>1, <1>2 DEF TaskTable, TaskRecord
    <2> QED
      BY <1>1, <2>1, RotatedIsIndex DEF Yield
  <1>4. Select(task, bitmap, rr') /\ bitmap' = bitmap /\ pend' = pend /\ cpu' = cpu /\ owes' = owes \cup {cpu}
    BY DEF Yield
  <1>5. pend \in BOOLEAN /\ owes \subseteq User
    BY DEF SchedInv, Consistent, TypeOK
  <1>6. cpu' \in DOMAIN task /\ cpu' \in owes' /\ owes' \subseteq DOMAIN task \ {Idle}
    BY <1>1, <1>2, <1>4, <1>5
  <1> QED
    BY <1>1, <1>3, <1>4, <1>5, <1>6, DecisionKeeps

\* What a task that delays leaves to the decision.
LEMMA BlockedTable ==
    ASSUME SchedulerAssumption, SchedInv, current \in User, NEW ticks \in 1 .. MaxDelay, NEW tasks,
           tasks = [task EXCEPT ![current].state = "blocked", ![current].delay = ticks]
    PROVE  /\ TaskTable(tasks)
           /\ DOMAIN tasks = DOMAIN task
           /\ \A t \in DOMAIN tasks : tasks[t].state # "running"
           /\ Exact(Updated(bitmap, tasks, task[current].prio), tasks)
  <1>1. /\ TaskTable(task) /\ Exact(bitmap, task) /\ NoTask \notin DOMAIN task
        /\ \A t \in DOMAIN task : task[t].state = "running" <=> t = current
        /\ User = DOMAIN task \ {Idle}
    BY SchedFacts
  <1>2. DOMAIN tasks = DOMAIN task /\ current \in DOMAIN task
    BY <1>1
  <1>3. ASSUME NEW t \in DOMAIN task, t # current PROVE tasks[t] = task[t]
    BY <1>3
  <1>4. tasks[current] = [task[current] EXCEPT !.state = "blocked", !.delay = ticks]
    BY <1>2
  <1>5. /\ tasks[current].prio = task[current].prio /\ tasks[current].state = "blocked"
        /\ tasks[current] \in TaskRecord
    <2>1. task[current] \in TaskRecord
      BY <1>1, <1>2 DEF TaskTable
    <2>2. ticks \in 0 .. MaxDelay
      BY DEF SchedulerAssumption
    <2> QED
      BY ONLY <1>4, <2>1, <2>2 DEF TaskRecord
  <1>6. TaskTable(tasks)
    BY <1>1, <1>2, <1>3, <1>5 DEF TaskTable
  <1>7. \A t \in DOMAIN tasks : tasks[t].state # "running"
    BY <1>1, <1>2, <1>3, <1>5
  <1>8. Exact(Updated(bitmap, tasks, task[current].prio), tasks)
    <2> DEFINE p == task[current].prio
    <2>1. p \in Priorities
      BY <1>1 DEF TaskTable
    <2>2. ASSUME NEW q, q # p PROVE ReadyAt(tasks, q) = ReadyAt(task, q)
      BY <1>2, <1>3, <1>5, <2>2 DEF ReadyAt
    <2> HIDE DEF p
    <2> QED
      BY <1>1, <2>1, <2>2 DEF Exact, Updated, p
  <1> QED
    BY <1>2, <1>6, <1>7, <1>8

LEMMA DelayKeeps == ASSUME SchedulerAssumption, SchedInv, Delay PROVE SchedInv'
  <1>1. /\ rr \in Indexes /\ NoTask \notin DOMAIN task
        /\ User = DOMAIN task \ {Idle} /\ cpu \in User /\ current \in DOMAIN task
    BY SchedFacts DEF Delay, Calls
  <1>2. rr' = rr /\ pend' = pend /\ cpu' = cpu /\ owes' = owes \cup {cpu}
    BY DEF Delay
  <1>3. pend \in BOOLEAN /\ owes \subseteq User
    BY DEF SchedInv, Consistent, TypeOK
  <1>4. cpu' \in DOMAIN task /\ cpu' \in owes' /\ owes' \subseteq DOMAIN task \ {Idle}
    BY <1>1, <1>2, <1>3
  <1>5. CASE current = Idle
    <2>1. task' = task /\ bitmap' = bitmap /\ current' = current
      BY <1>5 DEF Delay
    <2>2. TypeOK'
      BY <1>1, <1>2, <1>4, <2>1 DEF SchedInv, Consistent, TypeOK, User
    <2>3. BitmapIsExact' /\ OneRuns'
      BY <2>1 DEF SchedInv, Consistent, BitmapIsExact, OneRuns
    <2>4. Table'
      BY <1>1, <2>1 DEF SchedInv, Table, User
    <2>5. SwitchIsDue'
      BY <1>2, <1>4, <2>1 DEF SchedInv, SwitchIsDue, Higher, User
    <2> QED
      BY <2>2, <2>3, <2>4, <2>5 DEF SchedInv, Consistent
  <1>6. CASE current # Idle
    <2>1. PICK ticks \in 1 .. MaxDelay :
             LET tasks == [task EXCEPT ![current].state = "blocked", ![current].delay = ticks]
             IN  /\ bitmap' = Updated(bitmap, tasks, task[current].prio)
                 /\ Select(tasks, bitmap', rr)
      BY <1>6 DEF Delay
    <2>2. PICK tasks : tasks = [task EXCEPT ![current].state = "blocked", ![current].delay = ticks]
      OBVIOUS
    <2>3. bitmap' = Updated(bitmap, tasks, task[current].prio) /\ Select(tasks, bitmap', rr)
      BY <2>1, <2>2
    <2>4. current \in User
      BY <1>1, <1>6
    <2>5. /\ TaskTable(tasks)
          /\ DOMAIN tasks = DOMAIN task
          /\ \A t \in DOMAIN tasks : tasks[t].state # "running"
          /\ Exact(bitmap', tasks)
      BY <2>2, <2>3, <2>4, BlockedTable
    <2> QED
      BY <1>1, <1>2, <1>3, <1>4, <2>3, <2>5, DecisionKeeps
  <1> QED
    BY <1>5, <1>6

LEMMA TriggerKeeps == ASSUME SchedulerAssumption, SchedInv, Trigger PROVE SchedInv'
  <1>1. task' = task /\ bitmap' = bitmap /\ current' = current /\ rr' = rr /\ cpu' = cpu
        /\ pend' = TRUE /\ owes' \subseteq owes
    BY DEF Trigger
  <1>2. current # NoTask
    BY SchedFacts DEF Trigger
  <1>3. TypeOK'
    BY <1>1 DEF SchedInv, Consistent, TypeOK, User
  <1>4. BitmapIsExact' /\ OneRuns'
    BY <1>1 DEF SchedInv, Consistent, BitmapIsExact, OneRuns
  <1>5. Table'
    BY <1>1, <1>2 DEF SchedInv, Table, User
  <1>6. SwitchIsDue'
    BY <1>1 DEF SwitchIsDue
  <1> QED
    BY <1>3, <1>4, <1>5, <1>6 DEF SchedInv, Consistent

LEMMA PendSVKeeps == ASSUME SchedulerAssumption, SchedInv, PendSV PROVE SchedInv'
  <1>1. /\ TaskTable(task) /\ Exact(bitmap, task) /\ rr \in Indexes /\ NoTask \notin DOMAIN task
        /\ \A t \in DOMAIN task : task[t].state = "running" => t = current
        /\ User = DOMAIN task \ {Idle}
    BY SchedFacts
  <1>2. Select(task, bitmap, rr) /\ bitmap' = bitmap /\ rr' = rr /\ pend' = FALSE /\ owes' = owes /\ cpu' = current'
    BY DEF PendSV
  <1>3. cpu' \in DOMAIN task
    BY <1>1, <1>2, NextIsHighest DEF Select, IsHighest
  <1>4. owes' \subseteq DOMAIN task \ {Idle}
    BY <1>1, <1>2 DEF SchedInv, Consistent, TypeOK
  <1> QED
    BY <1>1, <1>2, <1>3, <1>4, DecisionKeeps

LEMMA TickKeeps == ASSUME SchedulerAssumption, SchedInv, Tick PROVE SchedInv'
  <1>1. /\ TaskTable(task) /\ Exact(bitmap, task) /\ rr \in Indexes /\ NoTask \notin DOMAIN task
        /\ \A t \in DOMAIN task : task[t].state = "running" <=> t = current
        /\ User = DOMAIN task \ {Idle} /\ current \in DOMAIN task /\ current # NoTask
    BY SchedFacts DEF Tick
  <1>2. /\ current' = current /\ cpu' = cpu /\ owes' = owes
        /\ bitmap' = bitmap \cup {task[t].prio : t \in {u \in User : Woken(u)}}
        /\ DOMAIN task' = DOMAIN task
    BY DEF Tick
  <1>3. ASSUME NEW t \in DOMAIN task
        PROVE  /\ task'[t] \in TaskRecord
               /\ task'[t].prio = task[t].prio
               /\ IF Woken(t) THEN task[t].state = "blocked" /\ task'[t].state = "ready"
                  ELSE task'[t].state = task[t].state
    <2>1. task[t] \in TaskRecord
      BY <1>1 DEF TaskTable
    <2>2. CASE Woken(t)
      <3>1. task'[t] = [task[t] EXCEPT !.delay = 0, !.state = "ready"]
        BY <2>2 DEF Tick
      <3>2. task[t].state = "blocked"
        BY <2>2 DEF Woken, Counted
      <3>3. 0 \in 0 .. MaxDelay
        BY DEF SchedulerAssumption
      <3> QED
        BY <2>1, <2>2, <3>1, <3>2, <3>3 DEF TaskRecord
    <2>3. CASE ~Woken(t) /\ Counted(t)
      <3>1. task'[t] = [task[t] EXCEPT !.delay = @ - 1]
        BY <2>3 DEF Tick
      <3>2. task[t].delay - 1 \in 0 .. MaxDelay
        BY <2>1, <2>3 DEF Counted, SchedulerAssumption, TaskRecord
      <3> QED
        BY <2>1, <2>3, <3>1, <3>2 DEF TaskRecord
    <2>4. CASE ~Woken(t) /\ ~Counted(t)
      <3>1. task'[t] = task[t]
        BY <2>4 DEF Tick
      <3> QED
        BY <2>1, <2>4, <3>1
    <2> QED
      BY <2>2, <2>3, <2>4
  <1>4. rr' \in Indexes /\ pend' \in BOOLEAN
    <2>1. task[current].prio \in 0 .. MaxPriorities - 1
      BY <1>1 DEF TaskTable, TaskRecord
    <2>2. rr' = rr \/ rr' = Rotated(rr, task[current].prio)
      BY DEF Tick
    <2>3. pend' \in BOOLEAN
      BY DEF Tick
    <2> QED
      BY <1>1, <2>1, <2>2, <2>3, RotatedIsIndex
  <1>5. ASSUME NEW p
        PROVE  ReadyAt(task', p) = ReadyAt(task, p) \cup {t \in User : Woken(t) /\ task[t].prio = p}
    <2>1. ASSUME NEW t \in DOMAIN task
          PROVE  /\ task'[t].prio = task[t].prio
                 /\ CanRun(task', t) <=> CanRun(task, t) \/ Woken(t)
      <3>1. CASE Woken(t)
        BY <1>3, <3>1 DEF CanRun
      <3>2. CASE ~Woken(t)
        BY <1>3, <3>2 DEF CanRun
      <3> QED
        BY <1>3, <3>1, <3>2
    <2>2. ReadyAt(task', p) = {t \in User : task'[t].prio = p /\ CanRun(task', t)}
      BY <1>1, <1>2 DEF ReadyAt, CanRun
    <2>3. ReadyAt(task, p) = {t \in User : task[t].prio = p /\ CanRun(task, t)}
      BY <1>1 DEF ReadyAt, CanRun
    <2>4. \A t \in User : t \in DOMAIN task
      BY <1>1
    <2> QED
      BY <2>1, <2>2, <2>3, <2>4
  <1>6. TypeOK'
    <2>1. User' = User
      BY <1>2 DEF User
    <2>2. bitmap' \subseteq Priorities
      BY <1>1, <1>2 DEF Exact, TaskTable
    <2>3. \A t \in DOMAIN task' : task'[t] \in TaskRecord
      BY <1>2, <1>3
    <2>4. rr' \in [0 .. MaxPriorities - 1 -> 0 .. MaxTasks - 1]
      BY <1>4 DEF Indexes
    <2> QED
      BY <1>2, <1>4, <2>1, <2>2, <2>3, <2>4 DEF SchedInv, Consistent, TypeOK
  <1>7. BitmapIsExact'
    <2>1. \A t \in User : task[t].prio \in Priorities
      BY <1>1 DEF TaskTable
    <2>2. bitmap' = {p \in Priorities : ReadyAt(task', p) # {}}
      BY <1>1, <1>2, <1>5, <2>1 DEF Exact
    <2> QED
      BY <2>2 DEF BitmapIsExact
  <1>8. OneRuns'
    <2>1. ASSUME NEW t \in DOMAIN task PROVE task'[t].state = "running" <=> t = current
      <3>1. CASE Woken(t)
        BY <1>1, <1>3, <3>1
      <3>2. CASE ~Woken(t)
        BY <1>1, <1>3, <3>2
      <3> QED
        BY <3>1, <3>2
    <2>2. {t \in DOMAIN task' : task'[t].state = "running"} = {current}
      BY <1>1, <1>2, <2>1
    <2> QED
      BY <1>1, <1>2, <2>2 DEF OneRuns
  <1>9. Table'
    <2>1. User' = User /\ \A t \in User : t \in DOMAIN task
      BY <1>1, <1>2 DEF User
    <2>2. \A t \in User' : task'[t].prio \in Priorities
      BY <1>1, <1>3, <2>1 DEF TaskTable
    <2> QED
      BY <1>1, <1>2, <2>2 DEF SchedInv, Table
  <1>10. SwitchIsDue'
    <2>1. User' = User /\ \A t \in User : t \in DOMAIN task
      BY <1>1, <1>2 DEF User
    <2>2. SUFFICES ASSUME ~pend' PROVE (\A t \in User : ~Higher(t)') /\ (cpu' \notin owes' => cpu' = current')
      BY <2>1 DEF SwitchIsDue
    <2>3. ~pend /\ ~\E t \in User : Woken(t) /\ task[t].prio < task[current].prio
      BY <2>2 DEF Tick
    <2>4. (\A t \in User : ~Higher(t)) /\ (cpu \notin owes => cpu = current)
      BY <1>1, <2>3 DEF SchedInv, SwitchIsDue
    <2>5. ASSUME NEW t \in User, Higher(t)' PROVE FALSE
      <3>1. task'[t].state = "ready" /\ task[t].prio < task[current].prio
        <4>1. task'[t].prio = task[t].prio /\ task'[current].prio = task[current].prio
          BY <1>1, <1>3, <2>1
        <4> QED
          BY <1>2, <2>5, <4>1 DEF Higher
      <3>2. ~Woken(t)
        BY <2>3, <3>1
      <3>3. task[t].state = "ready"
        BY <1>3, <2>1, <3>1, <3>2
      <3> QED
        BY <2>4, <3>1, <3>3 DEF Higher
    <2> QED
      BY <1>2, <2>4, <2>5
  <1> QED
    BY <1>6, <1>7, <1>8, <1>9, <1>10 DEF SchedInv, Consistent

LEMMA SchedStepInv == SchedulerAssumption /\ SchedInv /\ [Next]_vars => SchedInv'
  <1> SUFFICES ASSUME SchedulerAssumption, SchedInv, [Next]_vars PROVE SchedInv'
    OBVIOUS
  <1>1. CASE UNCHANGED vars
    BY <1>1 DEF vars, SchedInv, Consistent, TypeOK, BitmapIsExact, OneRuns, Table, SwitchIsDue, Higher, User
  <1> QED
    BY <1>1, CreateKeeps, StartKeeps, YieldKeeps, DelayKeeps, TriggerKeeps, TickKeeps, PendSVKeeps DEF Next

\* The table, the ready bitmap and the marks of the tasks agree whatever
\* comes between a decision and its switch (sched.c).
THEOREM SchedulerIsConsistent == Spec => []Consistent
  <1>1. Init => SchedInv
    BY SchedInitInv, SchedulerAssumption
  <1>2. SchedInv /\ [Next]_vars => SchedInv'
    BY SchedStepInv, SchedulerAssumption
  <1>3. SchedInv => Consistent
    BY DEF SchedInv
  <1> QED
    BY <1>1, <1>2, <1>3, PTL DEF Spec

\* Between switches the CPU runs the current task, and no ready task is above
\* it (sched_yield, sched_delay, sched_tick and the PendSV handler).
THEOREM SchedulerRunsTheHighest == Spec => []HighestRuns
  <1>1. Init => SchedInv
    BY SchedInitInv, SchedulerAssumption
  <1>2. SchedInv /\ [Next]_vars => SchedInv'
    BY SchedStepInv, SchedulerAssumption
  <1>3. SchedInv => HighestRuns
    <2> SUFFICES ASSUME SchedInv, Settled PROVE HighestRuns
      BY DEF HighestRuns
    <2>1. cpu = current /\ \A t \in User : ~Higher(t)
      BY DEF Settled, SchedInv, SwitchIsDue
    <2>2. ASSUME NEW t \in User, task[t].state = "ready" PROVE task[current].prio <= task[t].prio
      <3>1. task[current].prio \in 0 .. MaxPriorities - 1 /\ task[t].prio \in 0 .. MaxPriorities - 1
        BY SchedFacts, SchedulerAssumption DEF Settled, TaskTable, TaskRecord
      <3>2. task[current].prio \in Nat /\ task[t].prio \in Nat
        BY <3>1
      <3> QED
        BY <2>1, <2>2, <3>2 DEF Higher
    <2> QED
      BY <2>1, <2>2 DEF HighestRuns
  <1> QED
    BY <1>1, <1>2, <1>3, PTL DEF Spec
=============================================================================
