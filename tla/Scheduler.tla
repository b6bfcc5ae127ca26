------------------------------ MODULE Scheduler ------------------------------
(***************************************************************************)
(* The scheduler of scheduler/ (sched.c): task table, ready bitmap, round- *)
(* robin indexes, and the decide/perform split of ADR-0009: yield and      *)
(* delay choose the successor at once, the tick only requests a switch,    *)
(* and PendSV performs it. A critical section is one step; the tick may    *)
(* come between the critical section of a call and its request to switch,  *)
(* so the CPU may run the context of a task that is not the current one.   *)
(***************************************************************************)
EXTENDS Naturals, FiniteSets

CONSTANTS
    MaxTasks,       \* SCHED_MAX_TASKS
    MaxPriorities,  \* SCHED_MAX_PRIORITIES
    Priorities,     \* the ones that tasks are created with
    MaxDelay        \* bound on the ticks of a delay

ASSUME SchedulerAssumption ==
    /\ MaxTasks \in Nat \ {0} /\ MaxPriorities \in Nat \ {0}
    /\ Priorities \subseteq 0 .. MaxPriorities - 1
    /\ MaxDelay \in Nat \ {0}

VARIABLES
    task,           \* g_tasks: priority, state and delay of each task
    bitmap,         \* g_ready_bitmap, as the set of its bits
    current,        \* g_current_task
    rr,             \* g_rr_index
    pend,           \* a switch is pended
    cpu,            \* the task whose context executes
    owes            \* contexts that left a critical section and have still
                    \* to request their switch

vars == <<task, bitmap, current, rr, pend, cpu, owes>>

\* The task control block: a priority (0 is the highest), a state, and the ticks
\* that are left of a delay.  A task is ready from its creation on.
TaskRecord ==
    [prio : 0 .. MaxPriorities - 1, state : {"ready", "running", "blocked"}, delay : 0 .. MaxDelay]

Idle == MaxTasks
NoTask == MaxTasks + 1
User == {t \in DOMAIN task : t # Idle}
IdleTask == [prio |-> MaxPriorities - 1, state |-> "ready", delay |-> 0]

Init ==
    /\ task = [t \in {Idle} |-> IdleTask]
    /\ bitmap = {}
    /\ current = NoTask
    /\ rr = [p \in 0 .. MaxPriorities - 1 |-> 0]
    /\ pend = FALSE
    /\ cpu = NoTask
    /\ owes = {}

ReadyAt(tasks, p) ==
    {t \in DOMAIN tasks \ {Idle} : tasks[t].prio = p /\ tasks[t].state \in {"ready", "running"}}

\* The candidates are taken in the order of their ids, from the index on.
ChooseNext(tasks, bits, index) ==
    IF bits = {} THEN Idle
    ELSE LET p == CHOOSE q \in bits : \A r \in bits : q <= r
             candidates == ReadyAt(tasks, p)
         IN  IF candidates = {} THEN Idle
             ELSE CHOOSE t \in candidates :
                    Cardinality({u \in candidates : u < t}) = index[p] % Cardinality(candidates)

\* sched_set_running: a task that is blocked by now keeps that state.
Running(tasks, next) ==
    [t \in DOMAIN tasks |->
        IF t = next THEN [tasks[t] EXCEPT !.state = "running"]
        ELSE IF t = current /\ tasks[t].state = "running" THEN [tasks[t] EXCEPT !.state = "ready"]
        ELSE tasks[t]]

Updated_KeepsBit(bits, tasks, p) == bits

\* sched_update_bitmap_for.
Updated(bits, tasks, p) == IF ReadyAt(tasks, p) # {} THEN bits \cup {p} ELSE bits \ {p}

Select(tasks, bits, index) ==
    LET next == ChooseNext(tasks, bits, index)
    IN  /\ task' = Running(tasks, next)
        /\ current' = next

Rotated(index, p) == [index EXCEPT ![p] = (@ + 1) % MaxTasks]
-----------------------------------------------------------------------------
\* sched_task_create: before the start only.
Create ==
    /\ current = NoTask
    /\ Cardinality(User) < MaxTasks
    /\ \E p \in Priorities :
          /\ task' = [t \in DOMAIN task \cup {Cardinality(User)} |->
                        IF t = Cardinality(User) THEN [prio |-> p, state |-> "ready", delay |-> 0]
                        ELSE task[t]]
          /\ bitmap' = bitmap \cup {p}
    /\ UNCHANGED <<current, rr, pend, cpu, owes>>

Start ==
    /\ current = NoTask
    /\ Select(task, bitmap, rr)
    /\ cpu' = current'
    /\ UNCHANGED <<bitmap, rr, pend, owes>>

\* A call is made by the context that executes, but acts on the current task.
Calls == cpu \in User /\ cpu \notin owes /\ ~pend

Yield ==
    /\ Calls
    /\ rr' = Rotated(rr, task[current].prio)
    /\ Select(task, bitmap, rr')
    /\ owes' = owes \cup {cpu}
    /\ UNCHANGED <<bitmap, pend, cpu>>

Delay ==
    /\ Calls
    /\ IF current = Idle THEN UNCHANGED <<task, bitmap, current>>
       ELSE \E ticks \in 1 .. MaxDelay :
              LET tasks == [task EXCEPT ![current].state = "blocked", ![current].delay = ticks]
              IN  /\ bitmap' = Updated(bitmap, tasks, task[current].prio)
                  /\ Select(tasks, bitmap', rr)
    /\ owes' = owes \cup {cpu}
    /\ UNCHANGED <<rr, pend, cpu>>

\* sched_port_trigger_switch at the end of yield and delay.
Trigger ==
    /\ cpu \in owes
    /\ owes' = owes \ {cpu}
    /\ pend' = TRUE
    /\ UNCHANGED <<task, bitmap, current, rr, cpu>>

Counted_SkipsLast(t) == task[t].state = "blocked" /\ task[t].delay > 0 /\ t + 1 < Cardinality(User)

\* The delays that a tick counts down, and those that it ends.
Counted(t) == task[t].state = "blocked" /\ task[t].delay > 0
Woken(t) == Counted(t) /\ task[t].delay = 1

Tick_RotatesSilently ==
    /\ current # NoTask
    /\ task' = [t \in DOMAIN task |->
                  IF Woken(t) THEN [task[t] EXCEPT !.delay = 0, !.state = "ready"]
                  ELSE IF Counted(t) THEN [task[t] EXCEPT !.delay = @ - 1]
                  ELSE task[t]]
    /\ bitmap' = bitmap \cup {task[t].prio : t \in {u \in User : Woken(u)}}
    /\ LET p == task[current].prio
           rotates == Cardinality(ReadyAt(task', p)) > 1
       IN  /\ rr' = IF rotates THEN Rotated(rr, p) ELSE rr
           /\ pend' = (pend \/ rotates)
    /\ UNCHANGED <<current, cpu, owes>>

\* sched_tick. The tick does not wait for PendSV.
Tick ==
    /\ current # NoTask
    /\ task' = [t \in DOMAIN task |->
                  IF Woken(t) THEN [task[t] EXCEPT !.delay = 0, !.state = "ready"]
                  ELSE IF Counted(t) THEN [task[t] EXCEPT !.delay = @ - 1]
                  ELSE task[t]]
    /\ bitmap' = bitmap \cup {task[t].prio : t \in {u \in User : Woken(u)}}
    /\ LET p == task[current].prio
           rotates == Cardinality(ReadyAt(task', p)) > 1
       IN  /\ rr' = IF rotates THEN Rotated(rr, p) ELSE rr
           /\ pend' = (pend \/ rotates \/ \E t \in User : Woken(t) /\ task[t].prio < p)
    /\ UNCHANGED <<current, cpu, owes>>

\* The handler that sched_port_arm.c describes: the core picks the next task.
PendSV ==
    /\ pend
    /\ pend' = FALSE
    /\ Select(task, bitmap, rr)
    /\ cpu' = current'
    /\ UNCHANGED <<bitmap, rr, owes>>

Next == Create \/ Start \/ Yield \/ Delay \/ Trigger \/ Tick \/ PendSV

\* SysTick runs, PendSV is taken, and a task does not stop inside a call.
Spec ==
    /\ Init /\ [][Next]_vars
    /\ WF_vars(Tick) /\ WF_vars(PendSV) /\ WF_vars(Trigger)
-----------------------------------------------------------------------------
(* Properties. *)

TypeOK ==
    /\ DOMAIN task \subseteq 0 .. MaxTasks /\ Idle \in DOMAIN task
    /\ \A t \in DOMAIN task : task[t] \in TaskRecord
    /\ bitmap \subseteq Priorities
    /\ current \in DOMAIN task \cup {NoTask} /\ cpu \in DOMAIN task \cup {NoTask}
    /\ rr \in [0 .. MaxPriorities - 1 -> 0 .. MaxTasks - 1]
    /\ pend \in BOOLEAN /\ owes \subseteq User

\* The bitmap has the bit of a priority exactly if a task can run there
\* (sched_find_highest_ready_priority relies on it).
BitmapIsExact == bitmap = {p \in Priorities : ReadyAt(task, p) # {}}

\* The current task, and no other, is marked as running, whatever came
\* between a decision and its switch.
OneRuns == {t \in DOMAIN task : task[t].state = "running"} = {current} \ {NoTask}

Settled == current # NoTask /\ ~pend /\ cpu \notin owes

\* The table, the bitmap and the current task agree at every point.
Consistent == TypeOK /\ BitmapIsExact /\ OneRuns

\* Between two switches the CPU runs the current task, and no task that could
\* run has a higher priority.
HighestRuns ==
    Settled => /\ cpu = current
               /\ \A t \in User : task[t].state = "ready" => task[current].prio <= task[t].prio

\* A blocked task that is alone at the highest priority gets the CPU again
\* (the delays of tasks with lower priority do not hold it up).
HighestWakes ==
    \A t \in 0 .. MaxTasks - 1 :
        (t \in User /\ task[t].state = "blocked" /\ \A u \in User \ {t} : task[t].prio < task[u].prio)
            ~> (cpu = t)
=============================================================================
