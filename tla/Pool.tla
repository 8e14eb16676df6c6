-------------------------------- MODULE Pool --------------------------------
(***************************************************************************)
(* The adaptive worker pool of mda-core (worker/pool.rs): one call of      *)
(* Pool::run over the requests of a summarization round.                   *)
(*                                                                         *)
(* The run loop spawns jobs, drains the queue when it finds the token      *)
(* cancelled, and joins finished jobs; every job is a task of its own.     *)
(* They share the State behind a mutex, the cancellation token and the     *)
(* Notify `slots`.  A step is what a task does between two points where    *)
(* another thread can be seen: taking the lock, waiting, notifying.        *)
(*                                                                         *)
(* Requests are numbered in queue order, so the queue is head..Requests.   *)
(* An outcome is its kind; a Malformed one carries usage here, and one     *)
(* without is a Retryable to the pool.  The usage of a call is 1.  A       *)
(* stop reason is the job whose Fatal gave it.  Tasks do not panic: the    *)
(* release profile aborts (Cargo.toml), so the JoinError arm is left out.  *)
(***************************************************************************)
EXTENDS Integers, FiniteSets, Functions

CONSTANTS Requests,             \* how many requests the round has
          initial_concurrency,
          max_concurrency,
          max_retries,
          BackoffSteps,         \* length of the backoff schedule
          HasEscalation,        \* whether an escalation model is configured
          AIMD_SUCCESS_WINDOW,
          Kinds                 \* the answers the backend gives

Answers == {"ok", "malformed", "retryable", "rate_limited",
            "fatal", "fatal_pool", "error"}

\* pool_bounds clamps the configured concurrency.
ASSUME PoolAssumption ==
  /\ {Requests, max_retries, BackoffSteps} \subseteq Nat
  /\ {initial_concurrency, max_concurrency, AIMD_SUCCESS_WINDOW} \subseteq Nat \ {0}
  /\ initial_concurrency <= max_concurrency
  /\ HasEscalation \in BOOLEAN
  /\ Kinds \subseteq Answers

VARIABLES head,       \* the first request still queued
          loop,       \* where Pool::run stands
          job,        \* one record per request: the Job and where its task stands
          slots,      \* jobs registered with the Notify and not yet woken
          reports,    \* how often on_done was called for a request
          cancelled,  \* the cancellation token
          outside,    \* history: the caller cancelled it
          state       \* State: the counters, the AIMD streak, the stop reason

vars == <<head, loop, job, slots, reports, cancelled, outside, state>>

-----------------------------------------------------------------------------

Jobs == 1..Requests

\* Whose doing a stop was: a job's Fatal, or the caller's cancel.
Nobody == 0
Caller == Requests + 1

Phases == {"queued", "starting", "enabled", "parked", "calling", "released",
           "answered", "growing", "backoff", "cancelling", "finished", "reported"}

Job == [phase : Phases, attempts : Nat, retries_used : Nat,
        rate_limit_retries : Nat, escalated : BOOLEAN, usage : Nat,
        outcome : Answers \cup {"none", "stopped"},
        cause : {Nobody, Caller} \cup Jobs]

State == [concurrency : Nat, in_flight : Nat, completed : Nat, ok : Nat, failed : Nat,
          rate_limit_events : Nat, usage : Nat, consecutive_ok : Nat,
          stop_reason : {Nobody} \cup Jobs]

In(phases) == {j \in Jobs : job[j].phase \in phases}

\* set.len(): spawned and not yet joined.
Active == Jobs \ In({"queued", "reported"})

NewJob == [phase |-> "queued", attempts |-> 0, retries_used |-> 0,
           rate_limit_retries |-> 0, escalated |-> FALSE, usage |-> 0,
           outcome |-> "none", cause |-> Nobody]

\* What stopped jobs say stopped them.
Cause == IF state.stop_reason = Nobody THEN Caller ELSE state.stop_reason

\* finish: n jobs enter the counters, good of them with Ok.
Counted(st, n, good) ==
  [st EXCEPT !.completed = @ + n, !.ok = @ + good, !.failed = @ + (n - good)]

-----------------------------------------------------------------------------
(* The run loop *)

CanSpawn ==
  /\ ~cancelled
  /\ Cardinality(Active) < state.concurrency
  /\ head <= Requests

Spawn ==
  /\ loop = "fill"
  /\ CanSpawn
  /\ job' = [job EXCEPT ![head].phase = "starting"]
  /\ head' = head + 1
  /\ UNCHANGED <<loop, slots, reports, cancelled, outside, state>>

SpawnedEnough ==
  /\ loop = "fill"
  /\ ~CanSpawn
  /\ loop' = "drain"
  /\ UNCHANGED <<head, job, slots, reports, cancelled, outside, state>>

\* Mutant: the queue is walked, not emptied.
MutDrain ==
  /\ loop = "drain"
  /\ loop' = "join"
  /\ IF cancelled
     THEN /\ job' = [j \in Jobs |-> IF j < head THEN job[j]
                       ELSE [job[j] EXCEPT !.phase = "reported", !.outcome = "stopped",
                                           !.cause = Cause]]
          /\ reports' = [j \in Jobs |-> IF j < head THEN reports[j] ELSE reports[j] + 1]
          /\ state' = Counted(state, Requests + 1 - head, 0)
     ELSE UNCHANGED <<job, reports, state>>
  /\ UNCHANGED <<head, slots, cancelled, outside>>

\* A cancelled run reports every request it did not start.
Drain ==
  /\ loop = "drain"
  /\ loop' = "join"
  /\ IF cancelled
     THEN /\ job' = [j \in Jobs |-> IF j < head THEN job[j]
                       ELSE [job[j] EXCEPT !.phase = "reported", !.outcome = "stopped",
                                           !.cause = Cause]]
          /\ reports' = [j \in Jobs |-> IF j < head THEN reports[j] ELSE reports[j] + 1]
          /\ state' = Counted(state, Requests + 1 - head, 0)
          /\ head' = Requests + 1
     ELSE UNCHANGED <<head, job, reports, state>>
  /\ UNCHANGED <<slots, cancelled, outside>>

Join(j) ==
  /\ loop = "join"
  /\ job[j].phase = "finished"
  /\ job' = [job EXCEPT ![j].phase = "reported"]
  /\ reports' = [reports EXCEPT ![j] = @ + 1]
  /\ loop' = "fill"
  /\ UNCHANGED <<head, slots, cancelled, outside, state>>

JoinNone ==
  /\ loop = "join"
  /\ Active = {}
  /\ loop' = IF head > Requests THEN "returned" ELSE "fill"
  /\ UNCHANGED <<head, job, slots, reports, cancelled, outside, state>>

-----------------------------------------------------------------------------
(* One job *)

Stopped(j) ==
  [job EXCEPT ![j].phase = "finished", ![j].outcome = "stopped", ![j].cause = Cause]

\* The top of Job::run, and acquire_slot up to enable().
Begin(j) ==
  /\ job[j].phase = "starting"
  /\ IF cancelled
     THEN /\ job' = Stopped(j)
          /\ state' = Counted(state, 1, 0)
          /\ UNCHANGED slots
     ELSE /\ job' = [job EXCEPT ![j].phase = "enabled"]
          /\ slots' = slots \cup {j}
          /\ UNCHANGED state
  /\ UNCHANGED <<head, loop, reports, cancelled, outside>>

\* The check under the lock: a slot is free.  Possible after a cancel too:
\* select! takes either branch that is ready.
Admit(j) ==
  /\ job[j].phase = "enabled"
  /\ state.in_flight < state.concurrency
  /\ job' = [job EXCEPT ![j].phase = "calling", ![j].attempts = @ + 1]
  /\ state' = [state EXCEPT !.in_flight = @ + 1]
  /\ slots' = slots \ {j}
  /\ UNCHANGED <<head, loop, reports, cancelled, outside>>

Park(j) ==
  /\ job[j].phase = "enabled"
  /\ state.in_flight >= state.concurrency
  /\ job' = [job EXCEPT ![j].phase = "parked"]
  /\ UNCHANGED <<head, loop, slots, reports, cancelled, outside, state>>

\* Woken: notified.await returns and the loop of acquire_slot registers again.
Recheck(j) ==
  /\ job[j].phase = "parked"
  /\ j \notin slots
  /\ job' = [job EXCEPT ![j].phase = "enabled"]
  /\ slots' = slots \cup {j}
  /\ UNCHANGED <<head, loop, reports, cancelled, outside, state>>

\* The call ends and its Slot gives the place back.
Answer(j, a) ==
  /\ job[j].phase = "calling"
  /\ job' = [job EXCEPT ![j].phase = "released", ![j].outcome = a]
  /\ state' = [state EXCEPT !.in_flight = @ - 1]
  /\ UNCHANGED <<head, loop, slots, reports, cancelled, outside>>

\* Mutant: the in-flight place of a call cut off is not given back.
MutStopCall(j) ==
  /\ job[j].phase = "calling"
  /\ cancelled
  /\ job' = [Stopped(j) EXCEPT ![j].phase = "released"]
  /\ state' = Counted(state, 1, 0)
  /\ UNCHANGED <<head, loop, slots, reports, cancelled, outside>>

\* The token is cancelled while the call runs: the call is dropped, the job
\* counted and its Slot released.
StopCall(j) ==
  /\ job[j].phase = "calling"
  /\ cancelled
  /\ job' = [Stopped(j) EXCEPT ![j].phase = "released"]
  /\ state' = [Counted(state, 1, 0) EXCEPT !.in_flight = @ - 1]
  /\ UNCHANGED <<head, loop, slots, reports, cancelled, outside>>

\* Mutant: the place is given back and nobody is told.
MutWake(j) ==
  /\ job[j].phase = "released"
  /\ job' = [job EXCEPT ![j].phase =
               IF job[j].outcome = "stopped" THEN "finished" ELSE "answered"]
  /\ UNCHANGED <<head, loop, slots, reports, cancelled, outside, state>>

\* Slot::drop notifies every registered waiter.
Wake(j) ==
  /\ job[j].phase = "released"
  /\ slots' = {}
  /\ job' = [job EXCEPT ![j].phase =
               IF job[j].outcome = "stopped" THEN "finished" ELSE "answered"]
  /\ UNCHANGED <<head, loop, reports, cancelled, outside, state>>

\* Cancelled while waiting for a slot or sleeping in backoff.
StopWaiting(j) ==
  /\ job[j].phase \in {"enabled", "parked", "backoff"}
  /\ cancelled
  /\ job' = Stopped(j)
  /\ slots' = slots \ {j}
  /\ state' = Counted(state, 1, 0)
  /\ UNCHANGED <<head, loop, reports, cancelled, outside>>

SleepOver(j) ==
  /\ job[j].phase = "backoff"
  /\ job' = [job EXCEPT ![j].phase = "starting"]
  /\ UNCHANGED <<head, loop, slots, reports, cancelled, outside, state>>

-----------------------------------------------------------------------------
(* classify, by the outcome of the attempt *)

Answered(j, answers) ==
  /\ job[j].phase = "answered"
  /\ job[j].outcome \in answers
  /\ UNCHANGED <<head, loop, slots, reports, cancelled, outside>>

\* The streak grows; a full window widens the limit, and waiters are told
\* after the lock is released.
ClassifyOk(j) ==
  /\ Answered(j, {"ok"})
  /\ LET full == state.consecutive_ok + 1 >= AIMD_SUCCESS_WINDOW
         grew == full /\ state.concurrency < max_concurrency
         st   == [state EXCEPT !.usage = @ + 1,
                               !.consecutive_ok = IF full THEN 0 ELSE @ + 1,
                               !.concurrency = IF grew THEN @ + 1 ELSE @]
     IN  /\ job' = [job EXCEPT ![j].usage = @ + 1,
                               ![j].phase = IF grew THEN "growing" ELSE "finished"]
         /\ state' = IF grew THEN st ELSE Counted(st, 1, 1)

\* The widened limit wakes every waiter; then the job finishes.
WakeGrown(j) ==
  /\ job[j].phase = "growing"
  /\ slots' = {}
  /\ job' = [job EXCEPT ![j].phase = "finished"]
  /\ state' = Counted(state, 1, 1)
  /\ UNCHANGED <<head, loop, reports, cancelled, outside>>

\* Mutant: the usage of an answer that is retried is counted for the pool only.
MutCharged(j, jobs) == jobs

\* The usage of an unusable answer, added to its job.
Charged(j, jobs) ==
  IF job[j].outcome = "malformed" THEN [jobs EXCEPT ![j].usage = @ + 1] ELSE jobs

\* Mutant: one retry too many.
MutMayRetry(j) == job[j].retries_used <= max_retries

MayRetry(j) == job[j].retries_used < max_retries

\* Same-model retries first, then one attempt with the escalation model.
ClassifyUnusable(j) ==
  /\ Answered(j, {"malformed", "retryable"})
  /\ LET retry    == MayRetry(j)
         escalate == ~retry /\ HasEscalation /\ ~job[j].escalated
         st       == [state EXCEPT !.consecutive_ok = 0,
                        !.usage = IF job[j].outcome = "malformed" THEN @ + 1 ELSE @]
         again    == [job EXCEPT ![j].phase = "starting", ![j].outcome = "none",
                        ![j].retries_used = IF retry THEN @ + 1 ELSE @,
                        ![j].escalated = @ \/ escalate]
     IN  IF retry \/ escalate
         THEN job' = Charged(j, again) /\ state' = st
         ELSE /\ job' = Charged(j, [job EXCEPT ![j].phase = "finished"])
              /\ state' = Counted(st, 1, 0)

\* Mutant: the halved limit may reach zero.
MutHalved(c) == c \div 2

Halved(c) == IF c \div 2 >= 1 THEN c \div 2 ELSE 1

\* The limit is halved; the next backoff step is slept if there is one.
ClassifyRateLimited(j) ==
  /\ Answered(j, {"rate_limited"})
  /\ LET st == [state EXCEPT !.rate_limit_events = @ + 1, !.consecutive_ok = 0,
                             !.concurrency = Halved(@)]
     IN  IF job[j].rate_limit_retries < BackoffSteps
         THEN /\ job' = [job EXCEPT ![j].phase = "backoff", ![j].outcome = "none",
                                   ![j].rate_limit_retries = @ + 1]
              /\ state' = st
         ELSE /\ job' = [job EXCEPT ![j].phase = "finished"]
              /\ state' = Counted(st, 1, 0)

\* A fatal answer or an error of the backend fails this job only.
ClassifyFatal(j) ==
  /\ Answered(j, {"fatal", "error"})
  /\ job' = [job EXCEPT ![j].phase = "finished", ![j].outcome = "fatal"]
  /\ state' = Counted(state, 1, 0)

\* Mutant: the token is cancelled first, and the reason written too late.
MutClassifyFatalPool(j) ==
  /\ Answered(j, {"fatal_pool"})
  /\ job' = [job EXCEPT ![j].phase = "cancelling"]
  /\ UNCHANGED state

\* A pool-stopping answer: the first reason is kept, then the token cancelled.
ClassifyFatalPool(j) ==
  /\ Answered(j, {"fatal_pool"})
  /\ job' = [job EXCEPT ![j].phase = "cancelling"]
  /\ state' = [state EXCEPT !.stop_reason = IF @ = Nobody THEN j ELSE @]

CancelPool(j) ==
  /\ job[j].phase = "cancelling"
  /\ job' = [job EXCEPT ![j].phase = "finished"]
  /\ cancelled' = TRUE
  /\ state' = Counted(state, 1, 0)
  /\ UNCHANGED <<head, loop, slots, reports, outside>>

\* The caller cancels: a signal, or a stopping daemon.
Cancel ==
  /\ ~outside
  /\ loop # "returned"
  /\ cancelled' = TRUE
  /\ outside' = TRUE
  /\ UNCHANGED <<head, loop, job, slots, reports, state>>

-----------------------------------------------------------------------------

Init ==
  /\ head = 1
  /\ loop = "fill"
  /\ job = [j \in Jobs |-> NewJob]
  /\ slots = {}
  /\ reports = [j \in Jobs |-> 0]
  /\ cancelled = FALSE
  /\ outside = FALSE
  /\ state = [concurrency |-> initial_concurrency, in_flight |-> 0, completed |-> 0,
              ok |-> 0, failed |-> 0, rate_limit_events |-> 0, usage |-> 0,
              consecutive_ok |-> 0, stop_reason |-> Nobody]

Loop == Spawn \/ SpawnedEnough \/ Drain \/ (\E j \in Jobs : Join(j)) \/ JoinNone

Classify(j) ==
  \/ ClassifyOk(j)
  \/ ClassifyUnusable(j)
  \/ ClassifyRateLimited(j)
  \/ ClassifyFatal(j)
  \/ ClassifyFatalPool(j)

\* What the task of a job does by itself.
Task(j) ==
  \/ Begin(j) \/ Admit(j) \/ Park(j) \/ Recheck(j)
  \/ StopCall(j) \/ Wake(j) \/ StopWaiting(j) \/ SleepOver(j)
  \/ Classify(j) \/ WakeGrown(j) \/ CancelPool(j)
  \/ \E a \in Kinds : Answer(j, a)

Returned == loop = "returned" /\ UNCHANGED vars

Next ==
  \/ Loop
  \/ \E j \in Jobs : Task(j)
  \/ Cancel
  \/ Returned

Spec == Init /\ [][Next]_vars

\* The runtime polls every task that can go on, a backend call ends (every
\* backend has a timeout) and so does a sleep.  Nobody has to cancel.
Fairness == WF_vars(Loop) /\ \A j \in Jobs : WF_vars(Task(j))

FairSpec == Spec /\ Fairness

-----------------------------------------------------------------------------
(* Correctness *)

TypeOK ==
  /\ head \in 1..(Requests + 1)
  /\ loop \in {"fill", "drain", "join", "returned"}
  /\ job \in [Jobs -> Job]
  /\ slots \subseteq Jobs
  /\ reports \in [Jobs -> Nat]
  /\ cancelled \in BOOLEAN
  /\ outside \in BOOLEAN
  /\ state \in State

\* on_done hears of every request exactly once, however the run ends, and the
\* counters agree.
ReportedOnce ==
  /\ \A j \in Jobs : reports[j] <= 1
  /\ loop = "returned" =>
       /\ \A j \in Jobs : reports[j] = 1
       /\ state.completed = Requests
       /\ state.ok + state.failed = Requests

\* The in-flight counter is the number of calls running: a slot is given back
\* on every way out of a call, an answer or a cancellation.
InFlightExact == state.in_flight = Cardinality(In({"calling"}))

\* The limit stays between 1 and the ceiling, and there are never more tasks
\* than the ceiling allows.
WithinLimits ==
  /\ state.concurrency \in 1..max_concurrency
  /\ Cardinality(Active) <= max_concurrency

\* "a release between the check and the wait is never missed": a job that
\* sleeps on the Notify has no free slot, or somebody is about to wake it.
NoLostWakeup ==
  \A j \in In({"parked"}) \cap slots :
    state.in_flight >= state.concurrency \/ In({"released", "growing"}) # {}

\* Every call made is a first call, a same-model retry, a retry after a rate
\* limit or the one with the escalation model, each within its allowance; so a
\* request costs at most max_retries + BackoffSteps + 2 calls.
CallsAccounted ==
  \A j \in Jobs :
    /\ job[j].attempts <= 1 + job[j].retries_used + job[j].rate_limit_retries
                            + (IF job[j].escalated THEN 1 ELSE 0)
    /\ job[j].retries_used <= max_retries
    /\ job[j].rate_limit_retries <= BackoffSteps
    /\ job[j].escalated => HasEscalation /\ job[j].retries_used = max_retries

\* What the jobs report to have spent is what the pool counted.
UsageAddsUp ==
  state.usage = FoldFunction(+, 0, [j \in Jobs |-> job[j].usage])

\* A job cut off names what stopped the pool: the Fatal of one job, the same
\* for all who name one, or the caller's cancel if there was one.
StopNamesItsCause ==
  \A j \in Jobs : job[j].outcome = "stopped" =>
    \/ job[j].cause = Caller /\ outside
    \/ /\ job[j].cause = state.stop_reason
       /\ job[j].cause \in Jobs
       /\ job[job[j].cause].outcome = "fatal_pool"

\* The run returns: no job waits for ever, no request is retried for ever and
\* the loop does not spin on a queue it cannot start.
RunReturns == <>(loop = "returned")

\* "in-flight calls finish and are recorded" (ipc.rs, Request::Stop).
LetsCallsFinish == \A j \in Jobs : job[j].phase = "calling" => job'[j].outcome # "stopped"

InFlightCallsFinish == [][LetsCallsFinish]_vars

=============================================================================
