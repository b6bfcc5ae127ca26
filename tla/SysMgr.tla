-------------------------------- MODULE SysMgr --------------------------------
(***************************************************************************)
(* The resource and lifecycle manager (sysmgr.c): a table of resources in  *)
(* the order of its author, brought up one at a time, with retries, a      *)
(* timeout and a policy for each. One call of sysmgr_tick is one step of   *)
(* the first resource that is not terminal, or nothing.                    *)
(***************************************************************************)
EXTENDS Integers

CONSTANTS
    Count,          \* entries of the table
    Deps,           \* deps of each entry
    Policy,         \* on_exhausted
    Retries,        \* max_retries
    Timeout,        \* init_timeout_ms, 0 for none
    Synchronous,    \* entries without poll_ready
    AttemptMod,     \* 256: attempts is a byte
    ClockMod        \* 2^32

Resources == 1 .. Count
Policies == {"retry_inplace", "system_reset", "degrade"}
States == {"uninit", "initializing", "ready", "degraded", "failed"}

\* D3 of ADR-0015: dependencies come earlier in the table. A retry budget of
\* 255 would never be exhausted: attempts wraps before it exceeds it.
TableOK ==
    /\ Count \in Nat
    /\ Deps \in [Resources -> SUBSET Resources]
    /\ \A i \in Resources : \A d \in Deps[i] : d < i
    /\ Policy \in [Resources -> Policies]
    /\ AttemptMod \in Nat /\ Retries \in [Resources -> 0 .. AttemptMod - 2]
    /\ Timeout \in [Resources -> Nat]
    /\ Synchronous \subseteq Resources
    /\ ClockMod \in Nat \ {0}

VARIABLES
    state, attempts, polling, started,  \* g_rt; polling is poll_started
    now,                                \* now_ms of the caller
    resets                              \* calls of the reset function

mgrVars == <<state, attempts, polling, started, now, resets>>

Terminal(s) == s \in {"ready", "degraded", "failed"}

MgrInit ==
    /\ state = [i \in Resources |-> "uninit"]
    /\ attempts = [i \in Resources |-> 0]
    /\ polling = [i \in Resources |-> FALSE]
    /\ started = [i \in Resources |-> 0]
    /\ now = 0
    /\ resets = 0

Current(i) == ~Terminal(state[i]) /\ \A j \in 1 .. i - 1 : Terminal(state[j])

DepsReady(i) == \A d \in Deps[i] : state[d] = "ready"

Set(i, s, n, p) ==
    /\ state' = [state EXCEPT ![i] = s]
    /\ attempts' = [attempts EXCEPT ![i] = n]
    /\ polling' = [polling EXCEPT ![i] = p]

\* handle_failure after n attempts. The reset function may return.
Failure(i, n) ==
    \/ /\ n < Retries[i] + 1
       /\ Set(i, "initializing", n, FALSE)
       /\ UNCHANGED resets
    \/ /\ n >= Retries[i] + 1 /\ Policy[i] = "retry_inplace"
       /\ Set(i, "initializing", 0, FALSE)
       /\ UNCHANGED resets
    \/ /\ n >= Retries[i] + 1 /\ Policy[i] = "system_reset"
       /\ Set(i, "failed", n, polling[i])
       /\ resets' = resets + 1
    \/ /\ n >= Retries[i] + 1 /\ Policy[i] = "degrade"
       /\ Set(i, "degraded", n, polling[i])
       /\ UNCHANGED resets

Cascade(i) ==
    /\ state[i] = "uninit"
    /\ \E d \in Deps[i] : Terminal(state[d]) /\ state[d] # "ready"
    /\ state' = [state EXCEPT ![i] = "degraded"]
    /\ UNCHANGED <<attempts, polling, started, now, resets>>

\* attempt_init: the init function fails, is done, or has begun.
Attempt(i) ==
    /\ \/ state[i] = "uninit" /\ DepsReady(i)
       \/ state[i] = "initializing" /\ ~polling[i]
    /\ started' = [started EXCEPT ![i] = now]
    /\ LET n == (attempts[i] + 1) % AttemptMod
       IN  \/ i \in Synchronous /\ Set(i, "ready", n, polling[i]) /\ UNCHANGED resets
           \/ i \notin Synchronous /\ Set(i, "initializing", n, TRUE) /\ UNCHANGED resets
           \/ Failure(i, n)
    /\ UNCHANGED now

Polled(i) ==
    /\ state[i] = "initializing" /\ polling[i]
    /\ state' = [state EXCEPT ![i] = "ready"]
    /\ UNCHANGED <<attempts, polling, started, now, resets>>

TimedOut(i) ==
    /\ state[i] = "initializing" /\ polling[i]
    /\ Timeout[i] # 0 /\ (now - started[i]) % ClockMod >= Timeout[i]
    /\ Failure(i, attempts[i])
    /\ UNCHANGED <<started, now>>

MgrTick == \E i \in Resources : Current(i) /\ (Cascade(i) \/ Attempt(i) \/ Polled(i) \/ TimedOut(i))

Pass ==
    /\ now' = (now + 1) % ClockMod
    /\ UNCHANGED <<state, attempts, polling, started, resets>>

MgrNext == MgrTick \/ Pass

MgrSpec == MgrInit /\ [][MgrNext]_mgrVars
-----------------------------------------------------------------------------
(* Properties. *)

MgrTypeOK ==
    /\ state \in [Resources -> States]
    /\ attempts \in [Resources -> 0 .. AttemptMod - 1]
    /\ polling \in [Resources -> BOOLEAN]
    /\ started \in [Resources -> Nat]
    /\ now \in Nat /\ resets \in Nat

\* A resource that was ever started has only ready dependencies, and they stay
\* ready (D5: consumers never poll the readiness of what they depend on).
StartedHasReadyDeps ==
    \A i \in Resources : state[i] \in {"initializing", "ready", "failed"} => DepsReady(i)

\* Nothing is started out of turn: what comes before is settled.
InTurn ==
    \A i, j \in Resources : j < i /\ state[i] # "uninit" => Terminal(state[j])

\* A resource with a terminal policy is never tried more often than its
\* retries allow (D6), and is given up only when they are used up.
BudgetHeld ==
    \A i \in Resources : Policy[i] # "retry_inplace" =>
        /\ attempts[i] <= Retries[i] + 1
        /\ state[i] = "failed" => attempts[i] = Retries[i] + 1

\* What is settled stays settled (sysmgr_settled).
SettledStays == [][\A i \in Resources : Terminal(state[i]) => state'[i] = state[i]]_mgrVars
=============================================================================
