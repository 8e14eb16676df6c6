----------------------------- MODULE PoolProofs -----------------------------
(***************************************************************************)
(* The pool's safety for every number of requests, every configuration and *)
(* every answer of the backend.                                            *)
(***************************************************************************)
EXTENDS Pool, FiniteSetTheorems, WellFoundedInduction, TLAPS

\* A counter keeps its type when it grows by naturals.
LEMMA CountedType ==
  ASSUME NEW st \in State, NEW n \in Nat, NEW good \in Nat, good <= n
  PROVE  Counted(st, n, good) \in State
<1>1. n - good \in Nat
  OBVIOUS
<1>2. /\ st.completed + n \in Nat
      /\ st.ok + good \in Nat
      /\ st.failed + (n - good) \in Nat
  BY <1>1 DEF State
<1>3. QED
  BY <1>2 DEF Counted, State

\* Whoever is given as the cause is the caller or a job.
LEMMA CauseType ==
  ASSUME TypeOK
  PROVE  Cause \in {Nobody, Caller} \cup Jobs
  BY DEF TypeOK, State, Cause

\* A job keeps its type when its task moves on, and when it is stopped.
LEMMA PhaseType ==
  ASSUME NEW r \in Job, NEW p \in Phases
  PROVE  [r EXCEPT !.phase = p] \in Job
  BY DEF Job

LEMMA StoppedType ==
  ASSUME NEW r \in Job, NEW p \in Phases, NEW c \in {Nobody, Caller} \cup Jobs
  PROVE  [r EXCEPT !.phase = p, !.outcome = "stopped", !.cause = c] \in Job
  BY DEF Job

LEMMA InitTypeOK == Init => TypeOK
<1> SUFFICES ASSUME Init PROVE TypeOK
  OBVIOUS
<1>1. NewJob \in Job
  BY DEF NewJob, Job, Phases, Nobody
<1>2. state \in State
  BY PoolAssumption DEF Init, State, Nobody
<1>3. head \in 1..(Requests + 1)
  BY PoolAssumption DEF Init
<1>4. QED
  BY <1>1, <1>2, <1>3 DEF Init, TypeOK

LEMMA LoopTypeOK ==
  ASSUME TypeOK, Loop
  PROVE  TypeOK'
<1>0. Requests \in Nat
  BY PoolAssumption
<1>1. CASE Spawn
  <2>1. head \in Jobs /\ head + 1 \in 1..(Requests + 1)
    BY <1>0, <1>1 DEF Spawn, CanSpawn, TypeOK, Jobs
  <2>2. [job[head] EXCEPT !.phase = "starting"] \in Job
    BY <2>1, PhaseType DEF TypeOK, Phases
  <2>3. job' \in [Jobs -> Job]
    BY <1>1, <2>1, <2>2 DEF Spawn, TypeOK
  <2>4. QED
    BY <1>1, <2>1, <2>3 DEF Spawn, TypeOK
<1>2. CASE SpawnedEnough
  BY <1>2 DEF SpawnedEnough, TypeOK
<1>3. CASE Drain
  <2>1. state \in State /\ Requests + 1 - head \in Nat /\ 0 <= Requests + 1 - head
    BY <1>0 DEF TypeOK
  <2>2. Counted(state, Requests + 1 - head, 0) \in State
    BY <2>1, CountedType
  <2>3. Cause \in {Nobody, Caller} \cup Jobs
    BY CauseType
  <2>4. ASSUME NEW j \in Jobs
        PROVE  [job[j] EXCEPT !.phase = "reported", !.outcome = "stopped", !.cause = Cause] \in Job
    BY <2>3, StoppedType DEF TypeOK, Phases
  <2>5. CASE ~cancelled
    BY <1>3, <2>5 DEF Drain, TypeOK
  <2>6. CASE cancelled
    <3> DEFINE cut(j) == [job[j] EXCEPT !.phase = "reported", !.outcome = "stopped",
                                        !.cause = Cause]
    <3>1. job' \in [Jobs -> Job]
      <4>1. job' = [j \in Jobs |-> IF j < head THEN job[j] ELSE cut(j)]
        BY <1>3, <2>6 DEF Drain
      <4>2. \A j \in Jobs : job[j] \in Job /\ cut(j) \in Job
        BY <2>4 DEF TypeOK
      <4> HIDE DEF cut
      <4>3. QED
        BY <4>1, <4>2
    <3>2. reports' \in [Jobs -> Nat]
      <4>1. reports' = [j \in Jobs |-> IF j < head THEN reports[j] ELSE reports[j] + 1]
        BY <1>3, <2>6 DEF Drain
      <4>2. \A j \in Jobs : reports[j] \in Nat /\ reports[j] + 1 \in Nat
        BY DEF TypeOK
      <4>3. QED
        BY <4>1, <4>2
    <3>3. Requests + 1 \in 1..(Requests + 1)
      BY <1>0
    <3>4. QED
      BY <1>3, <2>2, <2>6, <3>1, <3>2, <3>3 DEF Drain, TypeOK
  <2>7. QED
    BY <2>5, <2>6
<1>4. ASSUME NEW j \in Jobs, Join(j)
      PROVE  TypeOK'
  <2>1. [job[j] EXCEPT !.phase = "reported"] \in Job
    BY PhaseType DEF TypeOK, Phases
  <2>2. QED
    BY <1>4, <2>1 DEF Join, TypeOK
<1>5. CASE JoinNone
  BY <1>5 DEF JoinNone, TypeOK
<1>6. QED
  BY <1>1, <1>2, <1>3, <1>4, <1>5 DEF Loop

\* A running call holds a place of the in-flight counter.
LEMMA CallHoldsPlace ==
  ASSUME TypeOK, InFlightExact, NEW j \in Jobs, job[j].phase = "calling"
  PROVE  state.in_flight \in Nat \ {0}
<1>1. IsFiniteSet(Jobs)
  BY PoolAssumption, FS_Interval DEF Jobs
<1>2. IsFiniteSet(In({"calling"}))
  BY <1>1, FS_Subset DEF In
<1>3. j \in In({"calling"})
  BY DEF In
<1>4. Cardinality(In({"calling"})) # 0
  BY <1>2, <1>3, FS_EmptySet
<1>5. QED
  BY <1>4 DEF InFlightExact, TypeOK, State

\* A change of one job and of the counters keeps the types.
LEMMA JobStepType ==
  ASSUME TypeOK, NEW j \in Jobs, NEW new \in Job,
         job' = [job EXCEPT ![j] = new],
         state' \in State, slots' \subseteq Jobs, cancelled' \in BOOLEAN,
         UNCHANGED <<head, loop, reports, outside>>
  PROVE  TypeOK'
  BY DEF TypeOK

LEMMA TaskTypeOK ==
  ASSUME TypeOK, InFlightExact, NEW j \in Jobs, Task(j)
  PROVE  TypeOK'
<1>a. /\ state \in State
      /\ job \in [Jobs -> Job]
      /\ job[j] \in Job
      /\ slots \subseteq Jobs
      /\ cancelled \in BOOLEAN
  BY DEF TypeOK
<1>b. Counted(state, 1, 0) \in State
  BY <1>a, CountedType
<1>c. Cause \in {Nobody, Caller} \cup Jobs
  BY CauseType
<1> DEFINE stopped == [job[j] EXCEPT !.phase = "finished", !.outcome = "stopped", !.cause = Cause]
<1>d. /\ stopped \in Job
      /\ Stopped(j) = [job EXCEPT ![j] = stopped]
  BY <1>a, <1>c, StoppedType DEF Stopped, Phases
<1>e. /\ state.in_flight + 1 \in Nat
      /\ state.usage + 1 \in Nat
      /\ state.consecutive_ok + 1 \in Nat
      /\ state.concurrency + 1 \in Nat
      /\ state.rate_limit_events + 1 \in Nat
  BY <1>a DEF State
<1>f. /\ job[j].attempts + 1 \in Nat
      /\ job[j].usage + 1 \in Nat
      /\ job[j].retries_used + 1 \in Nat
      /\ job[j].rate_limit_retries + 1 \in Nat
  BY <1>a DEF Job
<1>g. ASSUME NEW p \in Phases
      PROVE  [job[j] EXCEPT !.phase = p] \in Job
  BY <1>a, PhaseType
<1>1. CASE Begin(j)
  <2>1. CASE cancelled
    BY <1>1, <1>a, <1>b, <1>d, <2>1, JobStepType DEF Begin
  <2>2. CASE ~cancelled
    <3> DEFINE new == [job[j] EXCEPT !.phase = "enabled"]
    <3>1. new \in Job
      BY <1>g DEF Phases
    <3>2. job' = [job EXCEPT ![j] = new] /\ state' = state
      BY <1>1, <1>a, <2>2 DEF Begin
    <3>3. QED
      BY <1>1, <1>a, <2>2, <3>1, <3>2, JobStepType DEF Begin
  <2>3. QED
    BY <2>1, <2>2
<1>2. CASE Admit(j)
  <2> DEFINE new == [job[j] EXCEPT !.phase = "calling", !.attempts = @ + 1]
  <2>1. new \in Job
    BY <1>a, <1>f DEF Job, Phases
  <2>2. job' = [job EXCEPT ![j] = new]
    BY <1>2, <1>a DEF Admit
  <2>3. state' \in State
    BY <1>2, <1>a, <1>e DEF Admit, State
  <2>4. QED
    BY <1>2, <1>a, <2>1, <2>2, <2>3, JobStepType DEF Admit
<1>3. CASE Park(j)
  BY <1>3, <1>a, <1>g, JobStepType DEF Park, Phases
<1>4. CASE Recheck(j)
  BY <1>4, <1>a, <1>g, JobStepType DEF Recheck, Phases
<1>5. CASE StopCall(j)
  <2> DEFINE new == [stopped EXCEPT !.phase = "released"]
  <2>1. new \in Job
    BY <1>d DEF Job, Phases
  <2>2. job' = [job EXCEPT ![j] = new]
    BY <1>5, <1>a, <1>d DEF StopCall
  <2>3. state.in_flight - 1 \in Nat
    BY <1>5, CallHoldsPlace DEF StopCall
  <2>4. state' \in State
    BY <1>5, <1>a, <1>b, <2>3 DEF StopCall, State, Counted
  <2>5. QED
    BY <1>5, <1>a, <2>1, <2>2, <2>4, JobStepType DEF StopCall
<1>6. CASE Wake(j)
  BY <1>6, <1>a, <1>g, JobStepType DEF Wake, Phases
<1>7. CASE StopWaiting(j)
  BY <1>7, <1>a, <1>b, <1>d, JobStepType DEF StopWaiting
<1>8. CASE SleepOver(j)
  BY <1>8, <1>a, <1>g, JobStepType DEF SleepOver, Phases
<1>9. CASE ClassifyOk(j)
  <2> DEFINE full == state.consecutive_ok + 1 >= AIMD_SUCCESS_WINDOW
             grew == full /\ state.concurrency < max_concurrency
             st   == [state EXCEPT !.usage = @ + 1,
                                   !.consecutive_ok = IF full THEN 0 ELSE @ + 1,
                                   !.concurrency = IF grew THEN @ + 1 ELSE @]
             new  == [job[j] EXCEPT !.usage = @ + 1,
                                    !.phase = IF grew THEN "growing" ELSE "finished"]
  <2>1. st \in State
    BY <1>a, <1>e DEF State
  <2>2. Counted(st, 1, 1) \in State
    <3> HIDE DEF st
    <3>1. QED
      BY <2>1, CountedType
  <2>3. new \in Job
    BY <1>a, <1>f DEF Job, Phases
  <2>4. job' = [job EXCEPT ![j] = new]
    BY <1>9, <1>a DEF ClassifyOk
  <2>5. state' \in State
    <3>1. state' = IF grew THEN st ELSE Counted(st, 1, 1)
      BY <1>9 DEF ClassifyOk
    <3> HIDE DEF st, grew
    <3>2. QED
      BY <2>1, <2>2, <3>1
  <2>6. QED
    <3> HIDE DEF new
    <3>1. QED
      BY <1>9, <1>a, <2>3, <2>4, <2>5, JobStepType DEF ClassifyOk, Answered
<1>10. CASE ClassifyUnusable(j)
  <2> DEFINE retry    == MayRetry(j)
             escalate == ~retry /\ HasEscalation /\ ~job[j].escalated
             paid     == job[j].outcome = "malformed"
             st       == [state EXCEPT !.consecutive_ok = 0,
                            !.usage = IF job[j].outcome = "malformed" THEN @ + 1 ELSE @]
             again    == [job[j] EXCEPT !.phase = "starting", !.outcome = "none",
                            !.retries_used = IF retry THEN @ + 1 ELSE @,
                            !.escalated = @ \/ escalate]
             over     == [job[j] EXCEPT !.phase = "finished"]
             next     == IF retry \/ escalate THEN again ELSE over
             new      == IF paid THEN [next EXCEPT !.usage = @ + 1] ELSE next
  <2>1. st \in State
    BY <1>a, <1>e DEF State
  <2>2. Counted(st, 1, 0) \in State
    <3> HIDE DEF st
    <3>1. QED
      BY <2>1, CountedType
  <2>3. again \in Job
    <3>1. (IF retry THEN job[j].retries_used + 1 ELSE job[j].retries_used) \in Nat
      BY <1>a, <1>f DEF Job
    <3>2. (job[j].escalated \/ escalate) \in BOOLEAN
      OBVIOUS
    <3> HIDE DEF retry, escalate
    <3>3. QED
      BY <1>a, <3>1, <3>2 DEF Job, Phases
  <2>4. over \in Job
    BY <1>g DEF Phases
  <2>5. new \in Job
    <3> HIDE DEF again, over, retry, escalate, paid
    <3>1. next \in Job
      BY <2>3, <2>4
    <3> HIDE DEF next
    <3>2. QED
      BY <3>1 DEF Job
  <2>6. job' = [job EXCEPT ![j] = new]
    <3>1. job' = Charged(j, [job EXCEPT ![j] = next])
      BY <1>10, <1>a DEF ClassifyUnusable
    <3> HIDE DEF next
    <3>2. QED
      BY <3>1, <1>a DEF Charged
  <2>7. state' \in State
    <3>1. state' = IF retry \/ escalate THEN st ELSE Counted(st, 1, 0)
      BY <1>10 DEF ClassifyUnusable
    <3> HIDE DEF st, retry, escalate
    <3>2. QED
      BY <2>1, <2>2, <3>1
  <2>8. QED
    <3> HIDE DEF new
    <3>1. QED
      BY <1>10, <1>a, <2>5, <2>6, <2>7, JobStepType DEF ClassifyUnusable, Answered
<1>11. CASE ClassifyRateLimited(j)
  <2> DEFINE st   == [state EXCEPT !.rate_limit_events = @ + 1, !.consecutive_ok = 0,
                                   !.concurrency = Halved(@)]
             more == job[j].rate_limit_retries < BackoffSteps
             new  == IF more
                     THEN [job[j] EXCEPT !.phase = "backoff", !.outcome = "none",
                                         !.rate_limit_retries = @ + 1]
                     ELSE [job[j] EXCEPT !.phase = "finished"]
  <2>1. st \in State
    <3>1. Halved(state.concurrency) \in Nat
      BY <1>a DEF Halved, State
    <3>2. QED
      BY <1>a, <1>e, <3>1 DEF State
  <2>2. Counted(st, 1, 0) \in State
    <3> HIDE DEF st
    <3>1. QED
      BY <2>1, CountedType
  <2>3. new \in Job
    <3> HIDE DEF more
    <3>1. QED
      BY <1>a, <1>f DEF Job, Phases
  <2>4. job' = [job EXCEPT ![j] = new]
    BY <1>11, <1>a DEF ClassifyRateLimited
  <2>5. state' \in State
    <3>1. state' = IF more THEN st ELSE Counted(st, 1, 0)
      BY <1>11 DEF ClassifyRateLimited
    <3> HIDE DEF st, more
    <3>2. QED
      BY <2>1, <2>2, <3>1
  <2>6. QED
    <3> HIDE DEF new
    <3>1. QED
      BY <1>11, <1>a, <2>3, <2>4, <2>5, JobStepType DEF ClassifyRateLimited, Answered
<1>12. CASE ClassifyFatal(j)
  <2> DEFINE new == [job[j] EXCEPT !.phase = "finished", !.outcome = "fatal"]
  <2>1. new \in Job
    BY <1>a DEF Job, Phases, Answers
  <2>2. job' = [job EXCEPT ![j] = new] /\ state' \in State
    BY <1>12, <1>a, <1>b DEF ClassifyFatal
  <2>3. QED
    BY <1>12, <1>a, <2>1, <2>2, JobStepType DEF ClassifyFatal, Answered
<1>13. CASE ClassifyFatalPool(j)
  <2>1. [job[j] EXCEPT !.phase = "cancelling"] \in Job
    BY <1>g DEF Phases
  <2>2. job' = [job EXCEPT ![j] = [job[j] EXCEPT !.phase = "cancelling"]]
    BY <1>13, <1>a DEF ClassifyFatalPool
  <2>3. state' \in State
    BY <1>13, <1>a DEF ClassifyFatalPool, State
  <2>4. QED
    BY <1>13, <1>a, <2>1, <2>2, <2>3, JobStepType DEF ClassifyFatalPool, Answered
<1>14. CASE WakeGrown(j)
  <2>1. Counted(state, 1, 1) \in State
    BY <1>a, CountedType
  <2>2. QED
    BY <1>14, <1>a, <1>g, <2>1, JobStepType DEF WakeGrown, Phases
<1>15. CASE CancelPool(j)
  BY <1>15, <1>a, <1>b, <1>g, JobStepType DEF CancelPool, Phases
<1>16. ASSUME NEW a \in Kinds, Answer(j, a)
       PROVE  TypeOK'
  <2> DEFINE new == [job[j] EXCEPT !.phase = "released", !.outcome = a]
  <2>1. new \in Job
    BY <1>a, PoolAssumption DEF Job, Phases
  <2>2. job' = [job EXCEPT ![j] = new]
    BY <1>16, <1>a DEF Answer
  <2>3. state.in_flight - 1 \in Nat
    BY <1>16, CallHoldsPlace DEF Answer
  <2>4. state' \in State
    BY <1>16, <1>a, <2>3 DEF Answer, State
  <2>5. QED
    BY <1>16, <1>a, <2>1, <2>2, <2>4, JobStepType DEF Answer
<1>17. QED
  BY <1>1, <1>2, <1>3, <1>4, <1>5, <1>6, <1>7, <1>8, <1>9, <1>10, <1>11, <1>12,
     <1>13, <1>14, <1>15, <1>16 DEF Task, Classify

-----------------------------------------------------------------------------
(* What one task's step leaves alone *)

\* A task changes its own job only, which is neither queued nor reported.
LEMMA TaskFrame ==
  ASSUME TypeOK, NEW j \in Jobs, Task(j)
  PROVE  /\ \A i \in Jobs \ {j} : job'[i] = job[i]
         /\ job[j].phase \notin {"queued", "reported"}
         /\ job'[j].phase \notin {"queued", "reported"}
         /\ UNCHANGED <<head, loop, reports, outside>>
<1>a. job \in [Jobs -> Job]
  BY DEF TypeOK
<1>1. CASE Begin(j)
  BY <1>1, <1>a DEF Begin, Stopped, Job
<1>2. CASE Admit(j) \/ Park(j) \/ Recheck(j) \/ SleepOver(j)
  BY <1>2, <1>a DEF Admit, Park, Recheck, SleepOver, Job
<1>3. CASE StopCall(j) \/ StopWaiting(j)
  BY <1>3, <1>a DEF StopCall, StopWaiting, Stopped, Job
<1>4. CASE Wake(j)
  BY <1>4, <1>a DEF Wake, Job
<1>5. CASE ClassifyOk(j)
  BY <1>5, <1>a DEF ClassifyOk, Answered, Job
<1>6. CASE ClassifyUnusable(j)
  BY <1>6, <1>a DEF ClassifyUnusable, Answered, Charged, Job
<1>7. CASE ClassifyRateLimited(j)
  BY <1>7, <1>a DEF ClassifyRateLimited, Answered, Job
<1>8. CASE ClassifyFatal(j) \/ ClassifyFatalPool(j)
  BY <1>8, <1>a DEF ClassifyFatal, ClassifyFatalPool, Answered, Job
<1>9. CASE WakeGrown(j) \/ CancelPool(j)
  BY <1>9, <1>a DEF WakeGrown, CancelPool, Job
<1>10. ASSUME NEW a \in Kinds, Answer(j, a)
       PROVE  /\ \A i \in Jobs \ {j} : job'[i] = job[i]
              /\ job[j].phase \notin {"queued", "reported"}
              /\ job'[j].phase \notin {"queued", "reported"}
              /\ UNCHANGED <<head, loop, reports, outside>>
  BY <1>10, <1>a DEF Answer, Job
<1>11. QED
  BY <1>1, <1>2, <1>3, <1>4, <1>5, <1>6, <1>7, <1>8, <1>9, <1>10 DEF Task, Classify

\* What the counters are after n jobs are counted.
LEMMA CountedFields ==
  ASSUME NEW st \in State, NEW n \in Nat, NEW good \in Nat
  PROVE  LET new == Counted(st, n, good)
         IN  /\ new.completed = st.completed + n
             /\ new.ok + new.failed = st.ok + st.failed + n
             /\ new.in_flight = st.in_flight
             /\ new.concurrency = st.concurrency
             /\ new.stop_reason = st.stop_reason
  BY DEF Counted, State

\* Sets that differ in one element at most.
LEMMA Recount ==
  ASSUME NEW S, NEW T, NEW x, IsFiniteSet(S), S \ {x} = T \ {x}
  PROVE  /\ IsFiniteSet(T)
         /\ Cardinality(S) \in Nat
         /\ (x \in S <=> x \in T) => Cardinality(T) = Cardinality(S)
         /\ x \in S /\ x \notin T => Cardinality(T) = Cardinality(S) - 1
         /\ x \notin S /\ x \in T => Cardinality(T) = Cardinality(S) + 1
<1> DEFINE R == S \ {x}
<1>1. IsFiniteSet(R) /\ x \notin R
  BY FS_Subset
<1>2. Cardinality(R) \in Nat
  BY <1>1, FS_CardinalityType
<1>3. IsFiniteSet(R \cup {x}) /\ Cardinality(R \cup {x}) = Cardinality(R) + 1
  BY <1>1, FS_AddElement
<1>4. CASE x \in S /\ x \in T
  <2>1. S = R \cup {x} /\ T = R \cup {x}
    BY <1>4
  <2>2. S = T
    BY <2>1
  <2>3. Cardinality(S) = Cardinality(R) + 1
    BY <1>3, <2>1
  <2>4. QED
    BY <1>2, <1>4, <2>2, <2>3
<1>5. CASE x \in S /\ x \notin T
  <2>1. S = R \cup {x} /\ T = R
    BY <1>5
  <2>2. Cardinality(S) = Cardinality(R) + 1 /\ Cardinality(T) = Cardinality(R)
    BY <1>3, <2>1
  <2>3. QED
    BY <1>1, <1>2, <1>5, <2>1, <2>2
<1>6. CASE x \notin S /\ x \in T
  <2>1. S = R /\ T = R \cup {x}
    BY <1>6
  <2>2. QED
    BY <1>2, <1>3, <1>6, <2>1
<1>7. CASE x \notin S /\ x \notin T
  <2>1. S = R /\ T = R
    BY <1>7
  <2>2. QED
    BY <1>1, <1>2, <1>7, <2>1
<1>8. QED
  BY <1>4, <1>5, <1>6, <1>7

LEMMA JobsFinite ==
  /\ IsFiniteSet(Jobs)
  /\ Cardinality(Jobs) = Requests
  /\ \A phases : IsFiniteSet(In(phases)) /\ IsFiniteSet(Active)
<1>1. Requests \in Nat
  BY PoolAssumption
<1>2. IsFiniteSet(1..Requests) /\ Cardinality(1..Requests) = Requests
  BY <1>1, FS_Interval
<1>3. IsFiniteSet(Jobs) /\ Cardinality(Jobs) = Requests
  BY <1>2 DEF Jobs
<1>4. ASSUME NEW phases
      PROVE  In(phases) \subseteq Jobs /\ Active \subseteq Jobs
  BY DEF In, Active
<1>5. QED
  BY <1>3, <1>4, FS_Subset

-----------------------------------------------------------------------------
(* The types, the queue and the in-flight counter, which need each other *)

\* The jobs from head on are exactly the ones still queued.
Queue == \A j \in Jobs : job[j].phase = "queued" <=> j >= head

Base == TypeOK /\ Queue /\ InFlightExact

LEMMA InitBase == Init => Base
<1> SUFFICES ASSUME Init PROVE Base
  OBVIOUS
<1>1. TypeOK
  BY InitTypeOK
<1>2. \A j \in Jobs : job[j].phase = "queued"
  BY DEF Init, NewJob
<1>3. Queue
  BY <1>2 DEF Init, Jobs, Queue
<1>4. In({"calling"}) = {}
  BY <1>2 DEF In
<1>5. InFlightExact
  BY <1>4, FS_EmptySet DEF Init, InFlightExact
<1>6. QED
  BY <1>1, <1>3, <1>5 DEF Base

LEMMA LoopBase ==
  ASSUME Base, Loop
  PROVE  Base'
<1>a. TypeOK /\ Queue /\ InFlightExact
  BY DEF Base
<1>b. job \in [Jobs -> Job] /\ head \in 1..(Requests + 1) /\ Requests \in Nat
  BY <1>a, PoolAssumption DEF TypeOK
<1>1. TypeOK'
  BY <1>a, LoopTypeOK
<1>2. ASSUME In({"calling"})' = In({"calling"}), state'.in_flight = state.in_flight
      PROVE  InFlightExact'
  BY <1>2, <1>a DEF InFlightExact
<1>3. CASE Spawn
  <2>1. head \in Jobs /\ job[head].phase = "queued"
    BY <1>3, <1>a, <1>b DEF Spawn, CanSpawn, Queue, Jobs
  <2>2. job'[head].phase = "starting" /\ \A i \in Jobs \ {head} : job'[i] = job[i]
    BY <1>3, <1>b, <2>1 DEF Spawn, Job
  <2>3. Queue'
    BY <1>3, <1>a, <1>b, <2>1, <2>2 DEF Spawn, Queue, Jobs
  <2>4. In({"calling"})' = In({"calling"})
    BY <2>1, <2>2 DEF In
  <2>5. QED
    BY <1>1, <1>2, <1>3, <2>3, <2>4 DEF Spawn, Base
<1>4. CASE Drain
  <2>1. CASE ~cancelled
    BY <1>1, <1>a, <1>4, <2>1 DEF Drain, Base, Queue, InFlightExact, In
  <2>2. CASE cancelled
    <3>1. \A i \in Jobs : IF i < head THEN job'[i] = job[i]
                           ELSE job'[i].phase = "reported"
      <4> DEFINE cut(i) == [job[i] EXCEPT !.phase = "reported", !.outcome = "stopped",
                                          !.cause = Cause]
      <4>1. job' = [i \in Jobs |-> IF i < head THEN job[i] ELSE cut(i)]
        BY <1>4, <2>2 DEF Drain
      <4>2. \A i \in Jobs : cut(i).phase = "reported"
        BY <1>b DEF Job
      <4> HIDE DEF cut
      <4>3. QED
        BY <4>1, <4>2
    <3>2. head' = Requests + 1
      BY <1>4, <2>2 DEF Drain
    <3>3. Queue'
      BY <1>a, <1>b, <3>1, <3>2 DEF Queue, Jobs
    <3>4. In({"calling"})' = In({"calling"})
      BY <1>a, <1>b, <3>1 DEF In, Queue, Jobs
    <3>5. state'.in_flight = state.in_flight
      <4>1. state' = Counted(state, Requests + 1 - head, 0)
        BY <1>4, <2>2 DEF Drain
      <4>2. QED
        BY <1>a, <4>1 DEF Counted, TypeOK, State
    <3>6. QED
      BY <1>1, <1>2, <3>3, <3>4, <3>5 DEF Base
  <2>3. QED
    BY <2>1, <2>2
<1>5. ASSUME NEW j \in Jobs, Join(j)
      PROVE  Base'
  <2>1. job'[j].phase = "reported" /\ \A i \in Jobs \ {j} : job'[i] = job[i]
    BY <1>5, <1>b DEF Join, Job
  <2>2. job[j].phase = "finished" /\ UNCHANGED <<head, state>>
    BY <1>5 DEF Join
  <2>3. Queue' /\ In({"calling"})' = In({"calling"})
    BY <1>a, <2>1, <2>2 DEF Queue, In
  <2>4. QED
    BY <1>1, <1>2, <2>2, <2>3 DEF Base
<1>6. CASE SpawnedEnough \/ JoinNone
  BY <1>1, <1>a, <1>6 DEF SpawnedEnough, JoinNone, Base, Queue, InFlightExact, In
<1>7. QED
  BY <1>3, <1>4, <1>5, <1>6 DEF Loop

LEMMA TaskBase ==
  ASSUME Base, NEW j \in Jobs, Task(j)
  PROVE  Base'
<1>a. TypeOK /\ Queue /\ InFlightExact
  BY DEF Base
<1>b. job \in [Jobs -> Job] /\ state \in State /\ state.in_flight \in Nat
  BY <1>a DEF TypeOK, State
<1>c. /\ \A i \in Jobs \ {j} : job'[i] = job[i]
      /\ job[j].phase \notin {"queued", "reported"}
      /\ job'[j].phase \notin {"queued", "reported"}
      /\ UNCHANGED <<head, loop, reports, outside>>
  BY <1>a, TaskFrame
<1> DEFINE calls == In({"calling"})
           calls2 == In({"calling"})'
<1>d. /\ calls \ {j} = calls2 \ {j}
      /\ j \in calls <=> job[j].phase = "calling"
      /\ j \in calls2 <=> job'[j].phase = "calling"
  BY <1>c DEF In
<1>e. IsFiniteSet(calls) /\ state.in_flight = Cardinality(calls)
  BY <1>a, JobsFinite DEF InFlightExact
<1>f. /\ IsFiniteSet(calls2)
      /\ (j \in calls <=> j \in calls2) => Cardinality(calls2) = Cardinality(calls)
      /\ j \in calls /\ j \notin calls2 => Cardinality(calls2) = Cardinality(calls) - 1
      /\ j \notin calls /\ j \in calls2 => Cardinality(calls2) = Cardinality(calls) + 1
  <2> HIDE DEF calls, calls2
  <2>1. QED
    BY <1>d, <1>e, Recount
<1>1. TypeOK'
  BY <1>a, TaskTypeOK
<1>2. Queue'
  BY <1>a, <1>c DEF Queue
<1> HIDE DEF calls, calls2
<1>g. ASSUME state'.in_flight = Cardinality(calls2)
      PROVE  Base'
  BY <1>1, <1>2, <1>g DEF Base, InFlightExact, calls2
<1>3. CASE Admit(j)
  <2>1. job[j].phase # "calling" /\ job'[j].phase = "calling"
    BY <1>3, <1>b DEF Admit, Job
  <2>2. state'.in_flight = state.in_flight + 1
    BY <1>3, <1>b DEF Admit, State
  <2>3. QED
    BY <1>d, <1>e, <1>f, <1>g, <2>1, <2>2
<1>4. ASSUME job[j].phase = "calling", job'[j].phase # "calling",
             state'.in_flight = state.in_flight - 1
      PROVE  Base'
  BY <1>4, <1>d, <1>e, <1>f, <1>g
<1>5. ASSUME job[j].phase # "calling", job'[j].phase # "calling",
             state'.in_flight = state.in_flight
      PROVE  Base'
  BY <1>5, <1>d, <1>e, <1>f, <1>g
<1>6. CASE StopCall(j)
  BY <1>4, <1>6, <1>b DEF StopCall, Stopped, Counted, Job, State
<1>7. ASSUME NEW a \in Kinds, Answer(j, a)
      PROVE  Base'
  BY <1>4, <1>7, <1>b DEF Answer, Job, State
<1>8. CASE Begin(j)
  <2>1. job[j].phase # "calling" /\ job'[j].phase # "calling"
    BY <1>8, <1>b DEF Begin, Stopped, Job
  <2>2. state'.in_flight = state.in_flight
    BY <1>8, <1>b DEF Begin, Counted, State
  <2>3. QED
    BY <1>5, <2>1, <2>2
<1>9. CASE Park(j) \/ Recheck(j) \/ Wake(j) \/ SleepOver(j)
  BY <1>5, <1>9, <1>b DEF Park, Recheck, Wake, SleepOver, Job
<1>10. CASE StopWaiting(j)
  BY <1>5, <1>10, <1>b DEF StopWaiting, Stopped, Counted, Job, State
<1>11. CASE ClassifyOk(j)
  <2>1. job[j].phase # "calling" /\ job'[j].phase # "calling"
    BY <1>11, <1>b DEF ClassifyOk, Answered, Job
  <2>2. state'.in_flight = state.in_flight
    BY <1>11, <1>b DEF ClassifyOk, Counted, State
  <2>3. QED
    BY <1>5, <2>1, <2>2
<1>12. CASE ClassifyUnusable(j)
  <2>1. job[j].phase # "calling" /\ job'[j].phase # "calling"
    BY <1>12, <1>b DEF ClassifyUnusable, Answered, Charged, Job
  <2>2. state'.in_flight = state.in_flight
    BY <1>12, <1>b DEF ClassifyUnusable, Counted, State
  <2>3. QED
    BY <1>5, <2>1, <2>2
<1>13. CASE ClassifyRateLimited(j)
  <2>1. job[j].phase # "calling" /\ job'[j].phase # "calling"
    BY <1>13, <1>b DEF ClassifyRateLimited, Answered, Job
  <2>2. state'.in_flight = state.in_flight
    BY <1>13, <1>b DEF ClassifyRateLimited, Counted, State
  <2>3. QED
    BY <1>5, <2>1, <2>2
<1>14. CASE ClassifyFatal(j) \/ ClassifyFatalPool(j)
  <2>1. job[j].phase # "calling" /\ job'[j].phase # "calling"
    BY <1>14, <1>b DEF ClassifyFatal, ClassifyFatalPool, Answered, Job
  <2>2. state'.in_flight = state.in_flight
    BY <1>14, <1>b DEF ClassifyFatal, ClassifyFatalPool, Counted, State
  <2>3. QED
    BY <1>5, <2>1, <2>2
<1>15. CASE WakeGrown(j) \/ CancelPool(j)
  <2>1. job[j].phase # "calling" /\ job'[j].phase # "calling"
    BY <1>15, <1>b DEF WakeGrown, CancelPool, Job
  <2>2. state'.in_flight = state.in_flight
    BY <1>15, <1>b DEF WakeGrown, CancelPool, Counted, State
  <2>3. QED
    BY <1>5, <2>1, <2>2
<1>16. QED
  BY <1>3, <1>6, <1>7, <1>8, <1>9, <1>10, <1>11, <1>12, <1>13, <1>14, <1>15
     DEF Task, Classify

\* A cancel of the caller, the end and a stutter leave what Base speaks of alone.
LEMMA RestBase ==
  ASSUME Base, Cancel \/ Returned \/ UNCHANGED vars
  PROVE  Base'
<1>1. UNCHANGED <<head, loop, job, slots, reports, state>>
  BY DEF Cancel, Returned, vars
<1>2. cancelled' \in BOOLEAN /\ outside' \in BOOLEAN
  BY DEF Cancel, Returned, vars, Base, TypeOK
<1>3. QED
  BY <1>1, <1>2 DEF Base, TypeOK, Queue, InFlightExact, In

\* In every run the state has its type, the jobs from head on are the queued
\* ones, and the in-flight counter is the number of calls running.
THEOREM BaseHolds == Spec => []Base
<1>1. Base /\ [Next]_vars => Base'
  BY LoopBase, TaskBase, RestBase DEF Next
<1>2. QED
  BY <1>1, InitBase, PTL DEF Spec

\* The state of a run has its type.
THEOREM TypesHold == Spec => []TypeOK
<1>1. Base => TypeOK
  BY DEF Base
<1>2. QED
  BY <1>1, BaseHolds, PTL

\* Every way out of a call gives its place back: the counter never drifts from
\* the number of calls running.
THEOREM PlacesAreGivenBack == Spec => []InFlightExact
<1>1. Base => InFlightExact
  BY DEF Base
<1>2. QED
  BY <1>1, BaseHolds, PTL

-----------------------------------------------------------------------------
(* What the run loop's step does to one job *)

\* The loop leaves the limits, the token and the stop reason alone.
LEMMA LoopFrame ==
  ASSUME Base, Loop
  PROVE  /\ UNCHANGED <<slots, cancelled, outside>>
         /\ state'.in_flight = state.in_flight
         /\ state'.concurrency = state.concurrency
         /\ state'.stop_reason = state.stop_reason
<1>a. state \in State
  BY DEF Base, TypeOK
<1>1. UNCHANGED <<slots, cancelled, outside>>
  BY DEF Loop, Spawn, SpawnedEnough, Drain, Join, JoinNone
<1>2. state' = state \/ state' = Counted(state, Requests + 1 - head, 0)
  BY DEF Loop, Spawn, SpawnedEnough, Drain, Join, JoinNone
<1>3. QED
  BY <1>a, <1>1, <1>2 DEF Counted, State

\* It starts a queued job, reports a finished one, or cuts a queued one off.
LEMMA LoopMoves ==
  ASSUME Base, Loop, NEW i \in Jobs
  PROVE  \/ job'[i] = job[i]
         \/ /\ job[i].phase = "queued"
            /\ job'[i] = [job[i] EXCEPT !.phase = "starting"]
         \/ /\ job[i].phase = "finished"
            /\ job'[i] = [job[i] EXCEPT !.phase = "reported"]
         \/ /\ cancelled
            /\ job[i].phase = "queued"
            /\ job'[i] = [job[i] EXCEPT !.phase = "reported", !.outcome = "stopped",
                                        !.cause = Cause]
<1>a. TypeOK /\ Queue
  BY DEF Base
<1>b. job \in [Jobs -> Job] /\ head \in 1..(Requests + 1) /\ Requests \in Nat
  BY <1>a, PoolAssumption DEF TypeOK
<1> DEFINE Goal == \/ job'[i] = job[i]
                   \/ /\ job[i].phase = "queued"
                      /\ job'[i] = [job[i] EXCEPT !.phase = "starting"]
                   \/ /\ job[i].phase = "finished"
                      /\ job'[i] = [job[i] EXCEPT !.phase = "reported"]
                   \/ /\ cancelled
                      /\ job[i].phase = "queued"
                      /\ job'[i] = [job[i] EXCEPT !.phase = "reported",
                                                  !.outcome = "stopped", !.cause = Cause]
<1>1. CASE Spawn
  <2>1. head \in Jobs /\ job[head].phase = "queued"
    BY <1>1, <1>a, <1>b DEF Spawn, CanSpawn, Queue, Jobs
  <2>2. job' = [job EXCEPT ![head] = [job[head] EXCEPT !.phase = "starting"]]
    BY <1>1 DEF Spawn
  <2>3. job'[i] = job[i] \/ (i = head /\ job'[i] = [job[i] EXCEPT !.phase = "starting"])
    BY <1>b, <2>1, <2>2
  <2>4. QED
    BY <1>1, <2>1, <2>3 DEF Spawn
<1>2. CASE SpawnedEnough \/ JoinNone
  BY <1>2 DEF SpawnedEnough, JoinNone
<1>3. CASE Drain
  <2>1. CASE ~cancelled
    BY <1>3, <2>1 DEF Drain
  <2>2. CASE cancelled
    <3>1. job'[i] = IF i < head THEN job[i]
                    ELSE [job[i] EXCEPT !.phase = "reported", !.outcome = "stopped",
                                        !.cause = Cause]
      BY <1>3, <2>2 DEF Drain
    <3>2. i < head \/ job[i].phase = "queued"
      BY <1>a, <1>b DEF Queue, Jobs
    <3>3. QED
      BY <2>2, <3>1, <3>2
  <2>3. QED
    BY <2>1, <2>2
<1>4. ASSUME NEW j \in Jobs, Join(j)
      PROVE  Goal
  <2>1. /\ job[j].phase = "finished"
        /\ job' = [job EXCEPT ![j] = [job[j] EXCEPT !.phase = "reported"]]
    BY <1>4 DEF Join
  <2>2. job'[i] = job[i] \/ (i = j /\ job'[i] = [job[i] EXCEPT !.phase = "reported"])
    BY <1>b, <2>1
  <2>3. QED
    BY <1>4, <2>1, <2>2 DEF Join
<1>5. QED
  BY <1>1, <1>2, <1>3, <1>4 DEF Loop

-----------------------------------------------------------------------------
(* Calls *)

\* Phases in which the allowance so far is used up by calls already made.
Waiting == {"queued", "starting", "enabled", "parked", "backoff"}

\* A job is allowed one call more than its retries while none is running yet.
Allowed(r) ==
  /\ r.attempts <= r.retries_used + r.rate_limit_retries
                   + (IF r.escalated THEN 1 ELSE 0)
                   + (IF r.phase \in Waiting THEN 0 ELSE 1)
  /\ r.retries_used <= max_retries
  /\ r.rate_limit_retries <= BackoffSteps
  /\ r.escalated => HasEscalation /\ r.retries_used = max_retries

Allowance == \A j \in Jobs : Allowed(job[j])

\* A phase change that does not go back to waiting, and any change of outcome
\* or cause, keeps a job within its allowance.
LEMMA MoveAllowed ==
  ASSUME NEW r \in Job, NEW q \in Job, Allowed(r),
         q.attempts = r.attempts, q.retries_used = r.retries_used,
         q.rate_limit_retries = r.rate_limit_retries, q.escalated = r.escalated,
         q.phase \in Waiting => r.phase \in Waiting
  PROVE  Allowed(q)
  BY DEF Allowed, Job

LEMMA TaskAllowed ==
  ASSUME Base, Allowance, NEW j \in Jobs, Task(j)
  PROVE  Allowance'
<1>a. TypeOK /\ TypeOK'
  BY TaskBase DEF Base
<1>b. job \in [Jobs -> Job] /\ job[j] \in Job /\ job'[j] \in Job
  BY <1>a DEF TypeOK
<1>c. \A i \in Jobs \ {j} : job'[i] = job[i]
  BY <1>a, TaskFrame
<1>d. Allowed(job[j])
  BY DEF Allowance
<1>e. {max_retries, BackoffSteps} \subseteq Nat
  BY PoolAssumption
<1>g. ASSUME Allowed(job'[j])
      PROVE  Allowance'
  BY <1>c, <1>g DEF Allowance, Allowed
<1>m. ASSUME job'[j].attempts = job[j].attempts, job'[j].retries_used = job[j].retries_used,
             job'[j].rate_limit_retries = job[j].rate_limit_retries,
             job'[j].escalated = job[j].escalated,
             job'[j].phase \in Waiting => job[j].phase \in Waiting
      PROVE  Allowance'
  BY <1>b, <1>d, <1>g, <1>m, MoveAllowed
<1>1. CASE Begin(j)
  BY <1>1, <1>b, <1>m DEF Begin, Stopped, Job, Waiting
<1>2. CASE Admit(j)
  <2>1. /\ job[j].phase = "enabled" /\ job'[j].phase = "calling"
        /\ job'[j].attempts = job[j].attempts + 1
        /\ job'[j].retries_used = job[j].retries_used
        /\ job'[j].rate_limit_retries = job[j].rate_limit_retries
        /\ job'[j].escalated = job[j].escalated
    BY <1>2, <1>b DEF Admit, Job
  <2>2. QED
    BY <1>b, <1>d, <1>g, <2>1 DEF Allowed, Waiting, Job
<1>3. CASE Park(j) \/ Recheck(j) \/ SleepOver(j)
  BY <1>3, <1>b, <1>m DEF Park, Recheck, SleepOver, Job, Waiting
<1>4. CASE StopCall(j) \/ StopWaiting(j)
  BY <1>4, <1>b, <1>m DEF StopCall, StopWaiting, Stopped, Job, Waiting
<1>5. CASE Wake(j)
  BY <1>5, <1>b, <1>m DEF Wake, Job, Waiting
<1>6. CASE ClassifyOk(j)
  BY <1>6, <1>b, <1>m DEF ClassifyOk, Answered, Job, Waiting
<1>7. CASE ClassifyUnusable(j)
  <2> DEFINE retry    == job[j].retries_used < max_retries
             escalate == ~retry /\ HasEscalation /\ ~job[j].escalated
  <2>1. job[j].phase = "answered" /\ job'[j].attempts = job[j].attempts
        /\ job'[j].rate_limit_retries = job[j].rate_limit_retries
    BY <1>7, <1>b DEF ClassifyUnusable, Answered, Charged, Job
  <2>2. CASE retry
    <3>1. /\ job'[j].phase = "starting"
          /\ job'[j].retries_used = job[j].retries_used + 1
          /\ job'[j].escalated = job[j].escalated
      BY <1>7, <1>b, <2>2 DEF ClassifyUnusable, Charged, MayRetry, Job
    <3>2. QED
      BY <1>b, <1>d, <1>e, <1>g, <2>1, <2>2, <3>1 DEF Allowed, Waiting, Job
  <2>3. CASE escalate
    <3>1. /\ job'[j].phase = "starting"
          /\ job'[j].retries_used = job[j].retries_used
          /\ job'[j].escalated
      BY <1>7, <1>b, <2>3 DEF ClassifyUnusable, Charged, MayRetry, Job
    <3>2. QED
      BY <1>b, <1>d, <1>e, <1>g, <2>1, <2>3, <3>1 DEF Allowed, Waiting, Job
  <2>4. CASE ~retry /\ ~escalate
    <3>1. /\ job'[j].phase = "finished"
          /\ job'[j].retries_used = job[j].retries_used
          /\ job'[j].escalated = job[j].escalated
      BY <1>7, <1>b, <2>4 DEF ClassifyUnusable, Charged, MayRetry, Job
    <3>2. QED
      BY <1>m, <2>1, <3>1 DEF Waiting
  <2>5. QED
    BY <2>2, <2>3, <2>4
<1>8. CASE ClassifyRateLimited(j)
  <2>1. CASE job[j].rate_limit_retries < BackoffSteps
    <3>1. /\ job[j].phase = "answered" /\ job'[j].phase = "backoff"
          /\ job'[j].attempts = job[j].attempts
          /\ job'[j].retries_used = job[j].retries_used
          /\ job'[j].rate_limit_retries = job[j].rate_limit_retries + 1
          /\ job'[j].escalated = job[j].escalated
      BY <1>8, <1>b, <2>1 DEF ClassifyRateLimited, Answered, Job
    <3>2. QED
      BY <1>b, <1>d, <1>e, <1>g, <2>1, <3>1 DEF Allowed, Waiting, Job
  <2>2. CASE ~(job[j].rate_limit_retries < BackoffSteps)
    BY <1>8, <1>b, <1>m, <2>2 DEF ClassifyRateLimited, Answered, Job, Waiting
  <2>3. QED
    BY <2>1, <2>2
<1>9. CASE ClassifyFatal(j) \/ ClassifyFatalPool(j)
  BY <1>9, <1>b, <1>m DEF ClassifyFatal, ClassifyFatalPool, Answered, Job, Waiting
<1>10. CASE WakeGrown(j) \/ CancelPool(j)
  BY <1>10, <1>b, <1>m DEF WakeGrown, CancelPool, Job, Waiting
<1>11. ASSUME NEW a \in Kinds, Answer(j, a)
       PROVE  Allowance'
  BY <1>11, <1>b, <1>m DEF Answer, Job, Waiting
<1>12. QED
  BY <1>1, <1>2, <1>3, <1>4, <1>5, <1>6, <1>7, <1>8, <1>9, <1>10, <1>11 DEF Task, Classify

\* Whatever the backend answers and however the run is cut off, a request costs
\* a first call, max_retries same-model retries, one escalation and BackoffSteps
\* retries after a rate limit at most.
THEOREM CallsAreAccounted == Spec => []CallsAccounted
<1>1. Init => Allowance
  BY PoolAssumption DEF Init, NewJob, Allowance, Allowed, Waiting
<1>2. Base /\ Allowance /\ [Next]_vars => Allowance'
  <2> SUFFICES ASSUME Base, Allowance, [Next]_vars PROVE Allowance'
    OBVIOUS
  <2>1. CASE Loop
    <3>1. TypeOK /\ TypeOK'
      BY <2>1, LoopBase DEF Base
    <3>2. ASSUME NEW i \in Jobs
          PROVE  Allowed(job[i])'
      <4>1. job[i] \in Job /\ job'[i] \in Job /\ Allowed(job[i])
        BY <3>1 DEF TypeOK, Allowance
      <4>2. /\ job'[i].attempts = job[i].attempts
            /\ job'[i].retries_used = job[i].retries_used
            /\ job'[i].rate_limit_retries = job[i].rate_limit_retries
            /\ job'[i].escalated = job[i].escalated
            /\ job'[i].phase \in Waiting => job[i].phase \in Waiting
        <5>1. \/ job'[i] = job[i]
              \/ /\ job[i].phase = "queued"
                 /\ job'[i] = [job[i] EXCEPT !.phase = "starting"]
              \/ job'[i] = [job[i] EXCEPT !.phase = "reported"]
              \/ job'[i] = [job[i] EXCEPT !.phase = "reported", !.outcome = "stopped",
                                          !.cause = Cause]
          BY <2>1, LoopMoves
        <5>2. CASE job'[i] = job[i]
          BY <5>2
        <5>3. CASE /\ job[i].phase = "queued"
                   /\ job'[i] = [job[i] EXCEPT !.phase = "starting"]
          BY <4>1, <5>3 DEF Job, Waiting
        <5>4. CASE job'[i] = [job[i] EXCEPT !.phase = "reported"]
          BY <4>1, <5>4 DEF Job, Waiting
        <5>5. CASE job'[i] = [job[i] EXCEPT !.phase = "reported", !.outcome = "stopped",
                                            !.cause = Cause]
          BY <4>1, <5>5 DEF Job, Waiting
        <5>6. QED
          BY <5>1, <5>2, <5>3, <5>4, <5>5
      <4>3. Allowed(job'[i])
        BY <4>1, <4>2, MoveAllowed
      <4>4. QED
        BY <4>3 DEF Allowed
    <3>3. QED
      BY <3>2 DEF Allowance
  <2>2. CASE \E j \in Jobs : Task(j)
    BY <2>2, TaskAllowed
  <2>3. CASE UNCHANGED job
    BY <2>3 DEF Allowance, Allowed
  <2>4. QED
    BY <2>1, <2>2, <2>3 DEF Next, Cancel, Returned, vars
<1>3. Base /\ Allowance => CallsAccounted
  BY PoolAssumption DEF Base, TypeOK, Job, Allowance, Allowed, CallsAccounted
<1>4. QED
  BY <1>1, <1>2, <1>3, BaseHolds, PTL DEF Spec

-----------------------------------------------------------------------------
(* What stopped a job *)

\* A cancelled token has a culprit, and the job that gave the stop reason keeps
\* its answer to the end.
Causes ==
  /\ cancelled => outside \/ state.stop_reason \in Jobs
  /\ state.stop_reason \in Jobs =>
       /\ job[state.stop_reason].outcome = "fatal_pool"
       /\ job[state.stop_reason].phase \in {"cancelling", "finished", "reported"}
  /\ \A j \in Jobs : job[j].phase = "cancelling" => state.stop_reason \in Jobs
  /\ StopNamesItsCause

\* A cause that explains a stop in this state.
Explains(c) ==
  \/ c = Caller /\ outside
  \/ /\ c = state.stop_reason
     /\ c \in Jobs
     /\ job[c].outcome = "fatal_pool"

LEMMA CauseExplains ==
  ASSUME Base, Causes, cancelled
  PROVE  Explains(Cause)
<1>1. Requests \in Nat /\ state.stop_reason \in {Nobody} \cup Jobs
  BY PoolAssumption DEF Base, TypeOK, State
<1>2. QED
  BY <1>1 DEF Causes, Cause, Explains, Nobody, Jobs

\* The reason kept and the job that gave it are not touched, and every job
\* keeps its outcome and cause unless it is stopped now or was not stopped.
LEMMA CausesKept ==
  ASSUME Base, Causes,
         outside => outside',
         state'.stop_reason = state.stop_reason,
         cancelled' => cancelled \/ outside' \/ state.stop_reason \in Jobs,
         state.stop_reason \in Jobs =>
           /\ job'[state.stop_reason].outcome = "fatal_pool"
           /\ job'[state.stop_reason].phase \in {"cancelling", "finished", "reported"},
         \A i \in Jobs : job'[i].phase = "cancelling" => job[i].phase = "cancelling",
         \A i \in Jobs : job'[i].outcome = "stopped" =>
           \/ job[i].outcome = "stopped" /\ job'[i].cause = job[i].cause
           \/ cancelled /\ job'[i].cause = Cause
  PROVE  Causes'
<1>1. ASSUME NEW i \in Jobs, job'[i].outcome = "stopped"
      PROVE  \/ job'[i].cause = Caller /\ outside'
             \/ /\ job'[i].cause = state'.stop_reason
                /\ job'[i].cause \in Jobs
                /\ job'[job'[i].cause].outcome = "fatal_pool"
  <2>1. Explains(job'[i].cause)
    BY <1>1, CauseExplains DEF Causes, StopNamesItsCause, Explains
  <2>2. QED
    BY <2>1 DEF Explains
<1>2. StopNamesItsCause'
  BY <1>1 DEF StopNamesItsCause
<1>3. QED
  BY <1>2 DEF Causes

LEMMA TaskCauses ==
  ASSUME Base, Causes, NEW j \in Jobs, Task(j)
  PROVE  Causes'
<1>a. TypeOK
  BY DEF Base
<1>b. job \in [Jobs -> Job] /\ job[j] \in Job /\ state \in State
  BY <1>a DEF TypeOK
<1>c. /\ \A i \in Jobs \ {j} : job'[i] = job[i]
      /\ UNCHANGED outside
  BY <1>a, TaskFrame
<1>d. \/ state.stop_reason \notin Jobs
      \/ /\ job[state.stop_reason].outcome = "fatal_pool"
         /\ job[state.stop_reason].phase \in {"cancelling", "finished", "reported"}
  BY DEF Causes
<1>m. ASSUME state'.stop_reason = state.stop_reason,
             cancelled' => cancelled \/ state.stop_reason \in Jobs,
             job[j].phase \notin {"cancelling", "finished", "reported"}
               \/ (job'[j].phase = "finished" /\ job'[j].outcome = job[j].outcome),
             job'[j].phase # "cancelling",
             job'[j].outcome = "stopped" =>
               \/ job[j].outcome = "stopped" /\ job'[j].cause = job[j].cause
               \/ cancelled /\ job'[j].cause = Cause
      PROVE  Causes'
  <2>1. \/ state.stop_reason \notin Jobs
        \/ /\ job'[state.stop_reason].outcome = "fatal_pool"
           /\ job'[state.stop_reason].phase \in {"cancelling", "finished", "reported"}
    BY <1>c, <1>d, <1>m
  <2>2. \A i \in Jobs : job'[i].phase = "cancelling" => job[i].phase = "cancelling"
    BY <1>c, <1>m
  <2>3. \A i \in Jobs : job'[i].outcome = "stopped" =>
           \/ job[i].outcome = "stopped" /\ job'[i].cause = job[i].cause
           \/ cancelled /\ job'[i].cause = Cause
    BY <1>c, <1>m
  <2>4. QED
    BY <1>c, <1>m, <2>1, <2>2, <2>3, CausesKept
<1>1. CASE Begin(j)
  <2>1. CASE cancelled
    <3>1. /\ job[j].phase = "starting" /\ job'[j].phase = "finished"
          /\ job'[j].outcome = "stopped" /\ job'[j].cause = Cause
          /\ cancelled' = cancelled
      BY <1>1, <1>b, <2>1 DEF Begin, Stopped, Job
    <3>2. state'.stop_reason = state.stop_reason
      BY <1>1, <1>b, <2>1 DEF Begin, Counted, State
    <3>3. QED
      BY <1>m, <2>1, <3>1, <3>2
  <2>2. CASE ~cancelled
    BY <1>1, <1>b, <1>m, <2>2 DEF Begin, Job
  <2>3. QED
    BY <2>1, <2>2
<1>2. CASE Admit(j)
  BY <1>2, <1>b, <1>m DEF Admit, Job, State
<1>3. CASE Park(j) \/ Recheck(j) \/ SleepOver(j)
  BY <1>3, <1>b, <1>m DEF Park, Recheck, SleepOver, Job
<1>4. CASE StopCall(j) \/ StopWaiting(j)
  <2>1. /\ job[j].phase \notin {"cancelling", "finished", "reported"}
        /\ job'[j].phase # "cancelling" /\ job'[j].cause = Cause
        /\ cancelled /\ cancelled'
    BY <1>4, <1>b DEF StopCall, StopWaiting, Stopped, Job
  <2>2. state'.stop_reason = state.stop_reason
    BY <1>4, <1>b DEF StopCall, StopWaiting, Counted, State
  <2>3. QED
    BY <1>m, <2>1, <2>2
<1>5. CASE Wake(j)
  BY <1>5, <1>b, <1>m DEF Wake, Job
<1>6. CASE ClassifyOk(j)
  <2>1. /\ job[j].phase = "answered" /\ job'[j].phase # "cancelling"
        /\ job'[j].outcome = "ok" /\ UNCHANGED cancelled
    BY <1>6, <1>b DEF ClassifyOk, Answered, Job
  <2>2. state'.stop_reason = state.stop_reason
    BY <1>6, <1>b DEF ClassifyOk, Counted, State
  <2>3. QED
    BY <1>m, <2>1, <2>2
<1>7. CASE ClassifyUnusable(j)
  <2>1. /\ job[j].phase = "answered" /\ job'[j].phase # "cancelling"
        /\ job'[j].outcome # "stopped" /\ UNCHANGED cancelled
    BY <1>7, <1>b DEF ClassifyUnusable, Answered, Charged, Job
  <2>2. state'.stop_reason = state.stop_reason
    BY <1>7, <1>b DEF ClassifyUnusable, Counted, State
  <2>3. QED
    BY <1>m, <2>1, <2>2
<1>8. CASE ClassifyRateLimited(j)
  <2>1. /\ job[j].phase = "answered" /\ job'[j].phase # "cancelling"
        /\ job'[j].outcome # "stopped" /\ UNCHANGED cancelled
    BY <1>8, <1>b DEF ClassifyRateLimited, Answered, Job
  <2>2. state'.stop_reason = state.stop_reason
    BY <1>8, <1>b DEF ClassifyRateLimited, Counted, State
  <2>3. QED
    BY <1>m, <2>1, <2>2
<1>9. CASE ClassifyFatal(j)
  <2>1. /\ job[j].phase = "answered" /\ job'[j].phase # "cancelling"
        /\ job'[j].outcome # "stopped" /\ UNCHANGED cancelled
    BY <1>9, <1>b DEF ClassifyFatal, Answered, Job
  <2>2. state'.stop_reason = state.stop_reason
    BY <1>9, <1>b DEF ClassifyFatal, Counted, State
  <2>3. QED
    BY <1>m, <2>1, <2>2
<1>10. CASE ClassifyFatalPool(j)
  <2>1. /\ job[j].phase = "answered" /\ job[j].outcome = "fatal_pool"
        /\ job'[j] = [job[j] EXCEPT !.phase = "cancelling"] /\ UNCHANGED cancelled
    BY <1>10, <1>b DEF ClassifyFatalPool, Answered
  <2>2. job'[j].phase = "cancelling" /\ job'[j].outcome = "fatal_pool"
    BY <1>b, <2>1 DEF Job
  <2>3. state'.stop_reason = IF state.stop_reason = Nobody THEN j ELSE state.stop_reason
    BY <1>10, <1>b DEF ClassifyFatalPool, State
  <2>4. Nobody \notin Jobs /\ state.stop_reason \in {Nobody} \cup Jobs
    BY <1>b, PoolAssumption DEF Nobody, Jobs, State
  <2>5. state'.stop_reason \in Jobs
    BY <2>3, <2>4
  <2>6. /\ job'[state'.stop_reason].outcome = "fatal_pool"
        /\ job'[state'.stop_reason].phase \in {"cancelling", "finished", "reported"}
    BY <1>c, <1>d, <2>2, <2>3, <2>4
  <2>7. ASSUME NEW i \in Jobs, job'[i].outcome = "stopped"
        PROVE  \/ job'[i].cause = Caller /\ outside'
               \/ /\ job'[i].cause = state'.stop_reason
                  /\ job'[i].cause \in Jobs
                  /\ job'[job'[i].cause].outcome = "fatal_pool"
    <3>1. job'[i] = job[i]
      BY <1>c, <2>2, <2>7
    <3>2. Explains(job[i].cause)
      BY <2>7, <3>1 DEF Causes, StopNamesItsCause, Explains
    <3>3. QED
      BY <1>c, <2>3, <2>4, <2>6, <3>1, <3>2 DEF Explains
  <2>8. StopNamesItsCause'
    BY <2>7 DEF StopNamesItsCause
  <2>9. QED
    BY <2>5, <2>6, <2>8 DEF Causes
<1>11. CASE WakeGrown(j)
  <2>1. /\ job[j].phase = "growing" /\ job'[j].phase = "finished"
        /\ job'[j].outcome = job[j].outcome /\ job'[j].cause = job[j].cause
        /\ UNCHANGED cancelled
    BY <1>11, <1>b DEF WakeGrown, Job
  <2>2. state'.stop_reason = state.stop_reason
    BY <1>11, <1>b DEF WakeGrown, Counted, State
  <2>3. QED
    BY <1>m, <2>1, <2>2
<1>12. CASE CancelPool(j)
  <2>1. /\ job[j].phase = "cancelling" /\ job'[j].phase = "finished"
        /\ job'[j].outcome = job[j].outcome /\ job'[j].cause = job[j].cause
    BY <1>12, <1>b DEF CancelPool, Job
  <2>2. state'.stop_reason = state.stop_reason
    BY <1>12, <1>b DEF CancelPool, Counted, State
  <2>3. state.stop_reason \in Jobs
    BY <2>1 DEF Causes
  <2>4. QED
    BY <1>m, <2>1, <2>2, <2>3
<1>13. ASSUME NEW a \in Kinds, Answer(j, a)
       PROVE  Causes'
  <2>1. /\ job[j].phase = "calling" /\ job'[j].phase = "released"
        /\ job'[j].outcome = a /\ UNCHANGED cancelled
    BY <1>13, <1>b DEF Answer, Job
  <2>2. a # "stopped"
    BY <1>13, PoolAssumption DEF Answers
  <2>3. state'.stop_reason = state.stop_reason
    BY <1>13, <1>b DEF Answer, State
  <2>4. QED
    BY <1>m, <2>1, <2>2, <2>3
<1>14. QED
  BY <1>1, <1>2, <1>3, <1>4, <1>5, <1>6, <1>7, <1>8, <1>9, <1>10, <1>11, <1>12, <1>13
     DEF Task, Classify

LEMMA LoopCauses ==
  ASSUME Base, Causes, Loop
  PROVE  Causes'
<1>a. \A i \in Jobs : job[i] \in Job
  BY DEF Base, TypeOK
<1>1. ASSUME NEW i \in Jobs
      PROVE  /\ job'[i].phase = "cancelling" => job[i].phase = "cancelling"
             /\ job'[i].outcome = "stopped" =>
                  \/ job[i].outcome = "stopped" /\ job'[i].cause = job[i].cause
                  \/ cancelled /\ job'[i].cause = Cause
             /\ job[i].phase \in {"cancelling", "finished", "reported"} =>
                  /\ job'[i].phase \in {"cancelling", "finished", "reported"}
                  /\ job'[i].outcome = job[i].outcome
  <2>1. \/ job'[i] = job[i]
        \/ /\ job[i].phase = "queued"
           /\ job'[i] = [job[i] EXCEPT !.phase = "starting"]
        \/ /\ job[i].phase = "finished"
           /\ job'[i] = [job[i] EXCEPT !.phase = "reported"]
        \/ /\ cancelled
           /\ job[i].phase = "queued"
           /\ job'[i] = [job[i] EXCEPT !.phase = "reported", !.outcome = "stopped",
                                       !.cause = Cause]
    BY LoopMoves
  <2>2. job[i] \in Job
    BY <1>a
  <2>3. QED
    BY <2>1, <2>2 DEF Job
<1>2. state.stop_reason \in Jobs =>
        /\ job'[state.stop_reason].outcome = "fatal_pool"
        /\ job'[state.stop_reason].phase \in {"cancelling", "finished", "reported"}
  BY <1>1 DEF Causes
<1>3. QED
  BY <1>1, <1>2, LoopFrame, CausesKept

\* A job cut off names what stopped the pool: the caller, or the one job whose
\* fatal answer was kept as the reason; nobody is ever told of a reason that
\* was overwritten.
THEOREM StopsNameTheirCause == Spec => []StopNamesItsCause
<1>1. Init => Causes
  <2> SUFFICES ASSUME Init PROVE Causes
    OBVIOUS
  <2>1. ~cancelled /\ state.stop_reason = Nobody /\ Nobody \notin Jobs
    BY PoolAssumption DEF Init, Nobody, Jobs
  <2>2. \A j \in Jobs : job[j].outcome = "none" /\ job[j].phase = "queued"
    BY DEF Init, NewJob
  <2>3. QED
    BY <2>1, <2>2 DEF Causes, StopNamesItsCause
<1>2. Base /\ Causes /\ [Next]_vars => Causes'
  <2> SUFFICES ASSUME Base, Causes, [Next]_vars PROVE Causes'
    OBVIOUS
  <2>1. CASE Cancel
    BY <2>1 DEF Cancel, Causes, StopNamesItsCause
  <2>2. CASE UNCHANGED vars
    BY <2>2 DEF vars, Causes, StopNamesItsCause
  <2>3. QED
    BY <2>1, <2>2, LoopCauses, TaskCauses DEF Next, Returned
<1>3. Causes => StopNamesItsCause
  BY DEF Causes
<1>4. QED
  BY <1>1, <1>2, <1>3, BaseHolds, PTL DEF Spec

-----------------------------------------------------------------------------
(* The limit and the waiters *)

\* The limit lies between 1 and its ceiling.
Bounded == state.concurrency \in 1..max_concurrency

LEMMA HalvedBounded ==
  ASSUME NEW n \in Nat, NEW c \in 1..n
  PROVE  Halved(c) \in 1..n
  BY DEF Halved

LEMMA TaskBounded ==
  ASSUME Base, Bounded, NEW j \in Jobs, Task(j)
  PROVE  Bounded'
<1>a. state \in State /\ max_concurrency \in Nat /\ state.concurrency \in 1..max_concurrency
  BY PoolAssumption DEF Base, TypeOK, Bounded
<1>m. ASSUME state'.concurrency = state.concurrency
      PROVE  Bounded'
  BY <1>m DEF Bounded
<1>1. CASE \/ Begin(j) \/ StopCall(j) \/ StopWaiting(j) \/ WakeGrown(j) \/ CancelPool(j)
           \/ ClassifyFatal(j)
  BY <1>1, <1>a, <1>m
     DEF Begin, StopCall, StopWaiting, WakeGrown, CancelPool, ClassifyFatal, Counted, State
<1>2. CASE \/ Admit(j) \/ Park(j) \/ Recheck(j) \/ Wake(j) \/ SleepOver(j)
           \/ ClassifyFatalPool(j)
  BY <1>2, <1>a, <1>m
     DEF Admit, Park, Recheck, Wake, SleepOver, ClassifyFatalPool, State
<1>3. ASSUME NEW a \in Kinds, Answer(j, a)
      PROVE  Bounded'
  BY <1>3, <1>a, <1>m DEF Answer, State
<1>4. CASE ClassifyUnusable(j)
  BY <1>4, <1>a, <1>m DEF ClassifyUnusable, Counted, State
<1>5. CASE ClassifyOk(j)
  <2>1. \/ state'.concurrency = state.concurrency
        \/ state.concurrency < max_concurrency /\ state'.concurrency = state.concurrency + 1
    BY <1>5, <1>a DEF ClassifyOk, Counted, State
  <2>2. QED
    BY <1>a, <2>1 DEF Bounded
<1>6. CASE ClassifyRateLimited(j)
  <2>1. state'.concurrency = Halved(state.concurrency)
    BY <1>6, <1>a DEF ClassifyRateLimited, Counted, State
  <2>2. QED
    BY <1>a, <2>1, HalvedBounded DEF Bounded
<1>7. QED
  BY <1>1, <1>2, <1>3, <1>4, <1>5, <1>6 DEF Task, Classify

\* Only a spawn adds an active job, and a spawn sees room under the limit.
LEMMA ActiveBounded ==
  ASSUME Base, Bounded, Cardinality(Active) <= max_concurrency, [Next]_vars
  PROVE  Cardinality(Active') <= max_concurrency
<1>a. TypeOK /\ Queue /\ IsFiniteSet(Active) /\ Cardinality(Active) \in Nat
  BY JobsFinite, FS_CardinalityType DEF Base
<1>b. /\ job \in [Jobs -> Job]
      /\ {max_concurrency, Requests, state.concurrency} \subseteq Nat
      /\ head \in 1..(Requests + 1)
      /\ state.concurrency <= max_concurrency
  BY <1>a, PoolAssumption DEF TypeOK, State, Bounded
<1>1. CASE \E j \in Jobs : Task(j)
  <2>1. Active' = Active
    BY <1>1, <1>a, TaskFrame DEF Active, In
  <2>2. QED
    BY <2>1
<1>2. CASE UNCHANGED job
  <2>1. Active' = Active
    BY <1>2 DEF Active, In
  <2>2. QED
    BY <2>1
<1>3. CASE Spawn
  <2>1. head \in Jobs /\ Cardinality(Active) < state.concurrency
    BY <1>3, <1>b DEF Spawn, CanSpawn, Jobs
  <2>2. job' = [job EXCEPT ![head] = [job[head] EXCEPT !.phase = "starting"]]
    BY <1>3 DEF Spawn
  <2>3. \A i \in Jobs \ {head} : job'[i] = job[i]
    BY <1>b, <2>2
  <2>4. Active \ {head} = Active' \ {head}
    BY <2>3 DEF Active, In
  <2>5. Cardinality(Active') <= Cardinality(Active) + 1
    BY <1>a, <2>4, Recount
  <2>6. IsFiniteSet(Active') /\ Cardinality(Active') \in Nat
    BY <1>a, <2>4, Recount, FS_CardinalityType
  <2>7. QED
    BY <1>a, <1>b, <2>1, <2>5, <2>6
<1>4. ASSUME Active' \subseteq Active
      PROVE  Cardinality(Active') <= max_concurrency
  <2>1. IsFiniteSet(Active') /\ Cardinality(Active') <= Cardinality(Active)
    BY <1>4, <1>a, FS_Subset
  <2>2. Cardinality(Active') \in Nat
    BY <2>1, FS_CardinalityType
  <2>3. QED
    BY <1>a, <1>b, <2>1, <2>2
<1>5. CASE Drain \/ \E j \in Jobs : Join(j)
  <2>1. Loop
    BY <1>5 DEF Loop
  <2>2. ASSUME NEW i \in Jobs, i \notin Active
        PROVE  i \notin Active'
    <3>1. job[i].phase \in {"queued", "reported"}
      BY <2>2 DEF Active, In
    <3>2. job'[i].phase \in {"queued", "reported"}
      <4>1. CASE cancelled /\ Drain
        <5>1. job'[i] = job[i]
                \/ job'[i] = [job[i] EXCEPT !.phase = "reported", !.outcome = "stopped",
                                            !.cause = Cause]
          BY <1>b, <4>1 DEF Drain
        <5>2. QED
          BY <1>b, <3>1, <5>1 DEF Job
      <4>2. CASE ~cancelled /\ Drain
        BY <3>1, <4>2 DEF Drain
      <4>3. ASSUME NEW j \in Jobs, Join(j)
            PROVE  job'[i].phase \in {"queued", "reported"}
        BY <1>b, <3>1, <4>3 DEF Join, Job
      <4>4. QED
        BY <1>5, <4>1, <4>2, <4>3
    <3>3. QED
      BY <3>2 DEF Active, In
  <2>3. Active' \subseteq Active
    BY <2>2 DEF Active
  <2>4. QED
    BY <1>4, <2>3
<1>6. QED
  BY <1>1, <1>2, <1>3, <1>5
     DEF Next, Loop, SpawnedEnough, JoinNone, Cancel, Returned, vars

\* AIMD: whatever the answers, the limit stays between 1 and the ceiling, so
\* that a halved pool can go on, and no more tasks live than the ceiling.
THEOREM LimitsHold == Spec => []WithinLimits
<1>1. Init => WithinLimits
  <2> SUFFICES ASSUME Init PROVE WithinLimits
    OBVIOUS
  <2>1. Active = {}
    BY DEF Init, NewJob, Active, In
  <2>2. Cardinality(Active) = 0
    BY <2>1, FS_EmptySet
  <2>3. QED
    BY <2>2, PoolAssumption DEF Init, WithinLimits
<1>2. Base /\ WithinLimits /\ [Next]_vars => WithinLimits'
  <2> SUFFICES ASSUME Base, WithinLimits, [Next]_vars PROVE WithinLimits'
    OBVIOUS
  <2>1. Bounded /\ Cardinality(Active) <= max_concurrency
    BY DEF WithinLimits, Bounded
  <2>2. Bounded'
    <3>1. CASE Loop
      BY <2>1, <3>1, LoopFrame DEF Bounded
    <3>2. CASE \E j \in Jobs : Task(j)
      BY <2>1, <3>2, TaskBounded
    <3>3. CASE UNCHANGED state
      BY <2>1, <3>3 DEF Bounded
    <3>4. QED
      BY <3>1, <3>2, <3>3 DEF Next, Cancel, Returned, vars
  <2>3. QED
    BY <2>1, <2>2, ActiveBounded DEF WithinLimits, Bounded
<1>3. QED
  BY <1>1, <1>2, BaseHolds, PTL DEF Spec

-----------------------------------------------------------------------------
(* Wake-ups *)

Waking == {"released", "growing"}

\* A task's step that parks nobody and keeps a sleeper's reason to sleep, or
\* brings a new one, or leaves nobody asleep.
LEMMA WakeupKept ==
  ASSUME NoLostWakeup, NEW j \in Jobs,
         \A i \in Jobs \ {j} : job'[i] = job[i],
         slots' \subseteq slots \cup {j},
         \/ slots' = {}
         \/ job'[j].phase \in Waking
         \/ /\ job[j].phase \notin Waking
            /\ job'[j].phase # "parked"
            /\ state'.in_flight >= state'.concurrency
                 \/ ~(state.in_flight >= state.concurrency)
         \/ /\ job'[j].phase = "parked"
            /\ state'.in_flight >= state'.concurrency
  PROVE  NoLostWakeup'
<1>1. CASE slots' = {}
  BY <1>1 DEF NoLostWakeup, In
<1>2. CASE job'[j].phase \in Waking
  BY <1>2 DEF NoLostWakeup, In, Waking
<1>3. CASE /\ job[j].phase \notin Waking
           /\ job'[j].phase # "parked"
           /\ state'.in_flight >= state'.concurrency
                 \/ ~(state.in_flight >= state.concurrency)
  <2> SUFFICES ASSUME NEW i \in Jobs, job'[i].phase = "parked", i \in slots',
                      ~(state'.in_flight >= state'.concurrency)
               PROVE  \E k \in Jobs : job'[k].phase \in {"released", "growing"}
    BY DEF NoLostWakeup, In
  <2>1. i # j /\ i \in slots /\ job[i].phase = "parked"
    BY <1>3
  <2>2. ~(state.in_flight >= state.concurrency)
    BY <1>3
  <2>3. PICK k \in Jobs : job[k].phase \in {"released", "growing"}
    BY <2>1, <2>2 DEF NoLostWakeup, In
  <2>4. k # j
    BY <1>3, <2>3 DEF Waking
  <2>5. QED
    BY <2>3, <2>4
<1>4. CASE /\ job'[j].phase = "parked"
           /\ state'.in_flight >= state'.concurrency
  BY <1>4 DEF NoLostWakeup, In
<1>5. QED
  BY <1>1, <1>2, <1>3, <1>4

LEMMA TaskWakeup ==
  ASSUME Base, WithinLimits, NoLostWakeup, NEW j \in Jobs, Task(j)
  PROVE  NoLostWakeup'
<1>a. TypeOK
  BY DEF Base
<1>b. job \in [Jobs -> Job] /\ state \in State /\ slots \subseteq Jobs
  BY <1>a DEF TypeOK
<1>c. \A i \in Jobs \ {j} : job'[i] = job[i]
  BY <1>a, TaskFrame
<1>n. state.in_flight \in Nat /\ state.concurrency \in Nat \ {0}
  BY <1>b, PoolAssumption DEF State, WithinLimits
\* A step that leaves both sides of the comparison alone and wakes nobody.
<1>m. ASSUME slots' \subseteq slots \cup {j},
             job[j].phase \notin Waking, job'[j].phase # "parked",
             state'.in_flight = state.in_flight, state'.concurrency = state.concurrency
      PROVE  NoLostWakeup'
  BY <1>c, <1>m, WakeupKept
<1>w. ASSUME slots' \subseteq slots \cup {j}, job'[j].phase \in Waking
      PROVE  NoLostWakeup'
  BY <1>c, <1>w, WakeupKept
<1>1. CASE Begin(j)
  <2>1. /\ slots' \subseteq slots \cup {j} /\ job[j].phase \notin Waking
        /\ job'[j].phase # "parked"
    BY <1>1, <1>b DEF Begin, Stopped, Waking, Job
  <2>2. state'.in_flight = state.in_flight /\ state'.concurrency = state.concurrency
    BY <1>1, <1>b DEF Begin, Counted, State
  <2>3. QED
    BY <1>m, <2>1, <2>2
<1>2. CASE Admit(j)
  <2>1. /\ slots' \subseteq slots \cup {j} /\ job[j].phase \notin Waking
        /\ job'[j].phase # "parked" /\ ~(state.in_flight >= state.concurrency)
    BY <1>2, <1>b, <1>n DEF Admit, Waking, Job
  <2>2. QED
    BY <1>c, <2>1, WakeupKept
<1>3. CASE Park(j)
  <2>1. /\ slots' = slots /\ job'[j].phase = "parked"
        /\ state'.in_flight >= state'.concurrency
    BY <1>3, <1>b DEF Park, Job
  <2>2. QED
    BY <1>c, <2>1, WakeupKept
<1>4. CASE Recheck(j) \/ SleepOver(j)
  <2>1. /\ slots' \subseteq slots \cup {j} /\ job[j].phase \notin Waking
        /\ job'[j].phase # "parked" /\ state' = state
    BY <1>4, <1>b DEF Recheck, SleepOver, Waking, Job
  <2>2. QED
    BY <1>m, <2>1
<1>5. CASE StopCall(j)
  <2>1. slots' = slots /\ job'[j].phase \in Waking
    BY <1>5, <1>b DEF StopCall, Stopped, Waking, Job
  <2>2. QED
    BY <1>w, <2>1
<1>6. CASE StopWaiting(j)
  <2>1. /\ slots' \subseteq slots \cup {j} /\ job[j].phase \notin Waking
        /\ job'[j].phase # "parked"
    BY <1>6, <1>b DEF StopWaiting, Stopped, Waking, Job
  <2>2. state'.in_flight = state.in_flight /\ state'.concurrency = state.concurrency
    BY <1>6, <1>b DEF StopWaiting, Counted, State
  <2>3. QED
    BY <1>m, <2>1, <2>2
<1>7. CASE Wake(j) \/ WakeGrown(j)
  <2>1. slots' = {}
    BY <1>7 DEF Wake, WakeGrown
  <2>2. QED
    BY <1>c, <2>1, WakeupKept
<1>8. CASE ClassifyOk(j)
  <2> DEFINE full == state.consecutive_ok + 1 >= AIMD_SUCCESS_WINDOW
             grew == full /\ state.concurrency < max_concurrency
  <2>1. slots' = slots /\ job[j].phase = "answered"
    BY <1>8 DEF ClassifyOk, Answered
  <2>2. job'[j].phase = IF grew THEN "growing" ELSE "finished"
    BY <1>8, <1>b DEF ClassifyOk, Job
  <2>3. CASE grew
    BY <1>w, <2>1, <2>2, <2>3 DEF Waking
  <2>4. CASE ~grew
    <3>1. state'.in_flight = state.in_flight /\ state'.concurrency = state.concurrency
      BY <1>8, <1>b, <2>4 DEF ClassifyOk, Counted, State
    <3>2. QED
      BY <1>m, <2>1, <2>2, <2>4, <3>1 DEF Waking
  <2>5. QED
    BY <2>3, <2>4
<1>9. CASE ClassifyUnusable(j)
  <2>1. /\ slots' = slots /\ job[j].phase = "answered" /\ job'[j].phase # "parked"
    BY <1>9, <1>b DEF ClassifyUnusable, Answered, Charged, Job
  <2>2. state'.in_flight = state.in_flight /\ state'.concurrency = state.concurrency
    BY <1>9, <1>b DEF ClassifyUnusable, Counted, State
  <2>3. QED
    BY <1>m, <2>1, <2>2 DEF Waking
<1>10. CASE ClassifyRateLimited(j)
  <2>1. /\ slots' = slots /\ job[j].phase = "answered" /\ job'[j].phase # "parked"
    BY <1>10, <1>b DEF ClassifyRateLimited, Answered, Job
  <2>2. state'.in_flight = state.in_flight /\ state'.concurrency = Halved(state.concurrency)
    BY <1>10, <1>b DEF ClassifyRateLimited, Counted, State
  <2>3. Halved(state.concurrency) \in Nat /\ Halved(state.concurrency) <= state.concurrency
    BY <1>n DEF Halved
  <2>4. state'.in_flight >= state'.concurrency \/ ~(state.in_flight >= state.concurrency)
    BY <1>n, <2>2, <2>3
  <2>5. QED
    BY <1>c, <2>1, <2>4, WakeupKept DEF Waking
<1>11. CASE ClassifyFatal(j) \/ ClassifyFatalPool(j) \/ CancelPool(j)
  <2>1. /\ slots' = slots /\ job[j].phase \notin Waking /\ job'[j].phase # "parked"
    BY <1>11, <1>b DEF ClassifyFatal, ClassifyFatalPool, CancelPool, Answered, Waking, Job
  <2>2. state'.in_flight = state.in_flight /\ state'.concurrency = state.concurrency
    BY <1>11, <1>b DEF ClassifyFatal, ClassifyFatalPool, CancelPool, Counted, State
  <2>3. QED
    BY <1>m, <2>1, <2>2
<1>12. ASSUME NEW a \in Kinds, Answer(j, a)
       PROVE  NoLostWakeup'
  <2>1. slots' = slots /\ job'[j].phase \in Waking
    BY <1>12, <1>b DEF Answer, Waking, Job
  <2>2. QED
    BY <1>w, <2>1
<1>13. QED
  BY <1>1, <1>2, <1>3, <1>4, <1>5, <1>6, <1>7, <1>8, <1>9, <1>10, <1>11, <1>12
     DEF Task, Classify

\* "a release between the check and the wait is never missed", for every number
\* of waiters and every interleaving of releases, growth and cancellation.
THEOREM NoWakeupIsLost == Spec => []NoLostWakeup
<1>1. Init => NoLostWakeup
  BY DEF Init, NoLostWakeup
<1>2. Base /\ NoLostWakeup /\ WithinLimits /\ [Next]_vars => NoLostWakeup'
  <2> SUFFICES ASSUME Base, NoLostWakeup, WithinLimits, [Next]_vars PROVE NoLostWakeup'
    OBVIOUS
  <2>1. CASE Loop
    <3>1. ASSUME NEW i \in Jobs
          PROVE  /\ job'[i].phase = "parked" => job[i].phase = "parked"
                 /\ job[i].phase \in Waking => job'[i].phase \in Waking
      <4>1. job[i] \in Job
        BY DEF Base, TypeOK
      <4>2. \/ job'[i] = job[i]
            \/ /\ job[i].phase \in {"queued", "finished"}
               /\ job'[i].phase \in {"starting", "reported"}
        BY <2>1, <4>1, LoopMoves DEF Job
      <4>3. QED
        BY <4>2 DEF Waking
    <3>2. /\ slots' = slots
          /\ state'.in_flight = state.in_flight
          /\ state'.concurrency = state.concurrency
      BY <2>1, LoopFrame
    <3>3. QED
      BY <3>1, <3>2 DEF NoLostWakeup, In, Waking
  <2>2. CASE \E j \in Jobs : Task(j)
    BY <2>2, TaskWakeup
  <2>3. CASE UNCHANGED <<job, slots, state>>
    BY <2>3 DEF NoLostWakeup, In
  <2>4. QED
    BY <2>1, <2>2, <2>3 DEF Next, Cancel, Returned, vars
<1>3. QED
  BY <1>1, <1>2, BaseHolds, LimitsHold, PTL DEF Spec

-----------------------------------------------------------------------------
(* The report and the counters *)

\* The jobs finish has counted.
IsSettled(r) ==
  \/ r.phase \in {"finished", "reported"}
  \/ r.phase = "released" /\ r.outcome = "stopped"

Settled == {j \in Jobs : IsSettled(job[j])}

Tallied ==
  /\ \A j \in Jobs : reports[j] = IF job[j].phase = "reported" THEN 1 ELSE 0
  /\ state.completed = Cardinality(Settled)
  /\ state.ok + state.failed = state.completed
  /\ loop = "returned" => head > Requests /\ Active = {}

\* A task counts its job when it settles it, once.
LEMMA TaskSettles ==
  ASSUME Base, NEW j \in Jobs, Task(j)
  PROVE  \/ /\ IsSettled(job'[j]) <=> IsSettled(job[j])
            /\ state'.completed = state.completed
            /\ state'.ok + state'.failed = state.ok + state.failed
         \/ /\ IsSettled(job'[j]) /\ ~IsSettled(job[j])
            /\ state'.completed = state.completed + 1
            /\ state'.ok + state'.failed = state.ok + state.failed + 1
<1>a. TypeOK
  BY DEF Base
<1>b. job \in [Jobs -> Job] /\ state \in State
  BY <1>a DEF TypeOK
<1> DEFINE same == /\ IsSettled(job'[j]) <=> IsSettled(job[j])
                   /\ state'.completed = state.completed
                   /\ state'.ok + state'.failed = state.ok + state.failed
           more == /\ IsSettled(job'[j]) /\ ~IsSettled(job[j])
                   /\ state'.completed = state.completed + 1
                   /\ state'.ok + state'.failed = state.ok + state.failed + 1
<1>1. CASE Begin(j)
  <2>1. CASE cancelled
    <3>1. IsSettled(job'[j]) /\ ~IsSettled(job[j])
      BY <1>1, <1>b, <2>1 DEF Begin, Stopped, IsSettled, Job
    <3>2. state' = Counted(state, 1, 0)
      BY <1>1, <2>1 DEF Begin
    <3>3. more
      BY <1>b, <3>1, <3>2, CountedFields
    <3>4. QED
      BY <3>3
  <2>2. CASE ~cancelled
    BY <1>1, <1>b, <2>2 DEF Begin, IsSettled, Job
  <2>3. QED
    BY <2>1, <2>2
<1>2. CASE Admit(j)
  BY <1>2, <1>b DEF Admit, IsSettled, Job, State
<1>3. CASE Park(j) \/ Recheck(j) \/ SleepOver(j)
  BY <1>3, <1>b DEF Park, Recheck, SleepOver, IsSettled, Job
<1>4. CASE StopCall(j)
  <2>1. IsSettled(job'[j]) /\ ~IsSettled(job[j])
    BY <1>4, <1>b DEF StopCall, Stopped, IsSettled, Job
  <2> DEFINE st == Counted(state, 1, 0)
  <2>2. st \in State
    BY <1>b, CountedType
  <2>3. /\ st.completed = state.completed + 1
        /\ st.ok + st.failed = state.ok + state.failed + 1
    BY <1>b, CountedFields
  <2>4. state' = [st EXCEPT !.in_flight = @ - 1]
    BY <1>4 DEF StopCall
  <2> HIDE DEF st
  <2>5. more
    BY <2>1, <2>2, <2>3, <2>4 DEF State
  <2>6. QED
    BY <2>5
<1>5. CASE Wake(j)
  BY <1>5, <1>b DEF Wake, IsSettled, Job
<1>6. CASE StopWaiting(j)
  <2>1. IsSettled(job'[j]) /\ ~IsSettled(job[j])
    BY <1>6, <1>b DEF StopWaiting, Stopped, IsSettled, Job
  <2>2. state' = Counted(state, 1, 0)
    BY <1>6 DEF StopWaiting
  <2>3. more
    BY <1>b, <2>1, <2>2, CountedFields
  <2>4. QED
    BY <2>3
\* A classification that first updates other counters.
<1>k. ASSUME NEW st \in State, NEW good \in {0, 1},
             st.completed = state.completed, st.ok = state.ok, st.failed = state.failed,
             state' = Counted(st, 1, good),
             IsSettled(job'[j]), ~IsSettled(job[j])
      PROVE  more
  BY <1>k, CountedFields
<1>7. CASE ClassifyOk(j)
  <2> DEFINE full == state.consecutive_ok + 1 >= AIMD_SUCCESS_WINDOW
             grew == full /\ state.concurrency < max_concurrency
             st   == [state EXCEPT !.usage = @ + 1,
                                   !.consecutive_ok = IF full THEN 0 ELSE @ + 1,
                                   !.concurrency = IF grew THEN @ + 1 ELSE @]
  <2>1. /\ job[j].phase = "answered"
        /\ job'[j].phase = IF grew THEN "growing" ELSE "finished"
    BY <1>7, <1>b DEF ClassifyOk, Answered, Job
  <2>2. state' = IF grew THEN st ELSE Counted(st, 1, 1)
    BY <1>7 DEF ClassifyOk
  <2>3. /\ st \in State /\ st.completed = state.completed
        /\ st.ok = state.ok /\ st.failed = state.failed
    <3>1. state.usage + 1 \in Nat /\ state.consecutive_ok + 1 \in Nat
            /\ state.concurrency + 1 \in Nat
      BY <1>b DEF State
    <3>2. QED
      BY <1>b, <3>1 DEF State
  <2> HIDE DEF st
  <2>4. CASE grew
    BY <2>1, <2>2, <2>3, <2>4 DEF IsSettled
  <2>5. CASE ~grew
    <3>1. more
      BY <1>k, <2>1, <2>2, <2>3, <2>5 DEF IsSettled
    <3>2. QED
      BY <3>1
  <2>6. QED
    BY <2>4, <2>5
<1>8. CASE ClassifyUnusable(j)
  <2> DEFINE again == MayRetry(j) \/ (HasEscalation /\ ~job[j].escalated)
             st    == [state EXCEPT !.consecutive_ok = 0,
                        !.usage = IF job[j].outcome = "malformed" THEN @ + 1 ELSE @]
  <2>1. /\ job[j].phase = "answered"
        /\ job'[j].phase = IF again THEN "starting" ELSE "finished"
    BY <1>8, <1>b DEF ClassifyUnusable, Answered, Charged, Job
  <2>2. state' = IF again THEN st ELSE Counted(st, 1, 0)
    BY <1>8 DEF ClassifyUnusable
  <2>3. /\ st \in State /\ st.completed = state.completed
        /\ st.ok = state.ok /\ st.failed = state.failed
    <3>1. state.usage + 1 \in Nat
      BY <1>b DEF State
    <3>2. QED
      BY <1>b, <3>1 DEF State
  <2> HIDE DEF st, again
  <2>4. CASE again
    BY <2>1, <2>2, <2>3, <2>4 DEF IsSettled
  <2>5. CASE ~again
    <3>1. more
      BY <1>k, <2>1, <2>2, <2>3, <2>5 DEF IsSettled
    <3>2. QED
      BY <3>1
  <2>6. QED
    BY <2>4, <2>5
<1>9. CASE ClassifyRateLimited(j)
  <2> DEFINE again == job[j].rate_limit_retries < BackoffSteps
             st    == [state EXCEPT !.rate_limit_events = @ + 1, !.consecutive_ok = 0,
                                    !.concurrency = Halved(@)]
  <2>1. /\ job[j].phase = "answered"
        /\ job'[j].phase = IF again THEN "backoff" ELSE "finished"
    BY <1>9, <1>b DEF ClassifyRateLimited, Answered, Job
  <2>2. state' = IF again THEN st ELSE Counted(st, 1, 0)
    BY <1>9 DEF ClassifyRateLimited
  <2>3. /\ st \in State /\ st.completed = state.completed
        /\ st.ok = state.ok /\ st.failed = state.failed
    <3>1. state.rate_limit_events + 1 \in Nat /\ Halved(state.concurrency) \in Nat
      BY <1>b DEF State, Halved
    <3>2. QED
      BY <1>b, <3>1 DEF State
  <2> HIDE DEF st, again
  <2>4. CASE again
    BY <2>1, <2>2, <2>3, <2>4 DEF IsSettled
  <2>5. CASE ~again
    <3>1. more
      BY <1>k, <2>1, <2>2, <2>3, <2>5 DEF IsSettled
    <3>2. QED
      BY <3>1
  <2>6. QED
    BY <2>4, <2>5
<1>10. CASE ClassifyFatal(j) \/ CancelPool(j)
  <2>1. IsSettled(job'[j]) /\ ~IsSettled(job[j])
    BY <1>10, <1>b DEF ClassifyFatal, CancelPool, Answered, IsSettled, Job
  <2>2. state' = Counted(state, 1, 0)
    BY <1>10 DEF ClassifyFatal, CancelPool
  <2>3. more
    BY <1>b, <1>k, <2>1, <2>2
  <2>4. QED
    BY <2>3
<1>11. CASE ClassifyFatalPool(j)
  <2>1. ~IsSettled(job'[j]) /\ ~IsSettled(job[j])
    BY <1>11, <1>b DEF ClassifyFatalPool, Answered, IsSettled, Job
  <2>2. same
    BY <1>11, <1>b, <2>1 DEF ClassifyFatalPool, State
  <2>3. QED
    BY <2>2
<1>12. CASE WakeGrown(j)
  <2>1. IsSettled(job'[j]) /\ ~IsSettled(job[j])
    BY <1>12, <1>b DEF WakeGrown, IsSettled, Job
  <2>2. state' = Counted(state, 1, 1)
    BY <1>12 DEF WakeGrown
  <2>3. more
    BY <1>b, <1>k, <2>1, <2>2
  <2>4. QED
    BY <2>3
<1>13. ASSUME NEW a \in Kinds, Answer(j, a)
       PROVE  same
  <2>1. a # "stopped"
    BY PoolAssumption DEF Answers
  <2>2. ~IsSettled(job'[j]) /\ ~IsSettled(job[j])
    BY <1>13, <1>b, <2>1 DEF Answer, IsSettled, Job
  <2>3. QED
    BY <1>13, <1>b, <2>2 DEF Answer, State
<1>14. QED
  BY <1>1, <1>2, <1>3, <1>4, <1>5, <1>6, <1>7, <1>8, <1>9, <1>10, <1>11, <1>12, <1>13
     DEF Task, Classify

LEMMA TaskTallied ==
  ASSUME Base, Tallied, NEW j \in Jobs, Task(j)
  PROVE  Tallied'
<1>a. TypeOK /\ state \in State /\ state' \in State
  BY TaskBase DEF Base, TypeOK
<1>c. /\ \A i \in Jobs \ {j} : job'[i] = job[i]
      /\ job[j].phase \notin {"queued", "reported"}
      /\ job'[j].phase \notin {"queued", "reported"}
      /\ UNCHANGED <<head, loop, reports, outside>>
  BY <1>a, TaskFrame
<1>1. \A i \in Jobs : reports'[i] = IF job'[i].phase = "reported" THEN 1 ELSE 0
  BY <1>c DEF Tallied
<1>2. loop' # "returned"
  BY <1>c DEF Tallied, Active, In
<1> DEFINE Settled2 == {i \in Jobs : IsSettled(job'[i])}
<1>3. /\ Settled \ {j} = Settled2 \ {j}
      /\ j \in Settled <=> IsSettled(job[j])
      /\ j \in Settled2 <=> IsSettled(job'[j])
  BY <1>c DEF Settled
<1>4. IsFiniteSet(Settled)
  BY JobsFinite, FS_Subset DEF Settled
<1>5. state.completed = Cardinality(Settled) /\ state.ok + state.failed = state.completed
  BY DEF Tallied
<1> HIDE DEF Settled2
<1>6. /\ (j \in Settled <=> j \in Settled2) => Cardinality(Settled2) = Cardinality(Settled)
      /\ j \notin Settled /\ j \in Settled2 =>
           Cardinality(Settled2) = Cardinality(Settled) + 1
  BY <1>3, <1>4, Recount
<1>7. state'.completed = Cardinality(Settled2) /\ state'.ok + state'.failed = state'.completed
  BY <1>3, <1>5, <1>6, TaskSettles
<1>8. QED
  BY <1>1, <1>2, <1>7 DEF Tallied, Settled, Settled2, IsSettled

LEMMA LoopTallied ==
  ASSUME Base, Tallied, Loop
  PROVE  Tallied'
<1>a. TypeOK /\ Queue /\ state \in State
  BY DEF Base, TypeOK
<1>b. /\ job \in [Jobs -> Job] /\ reports \in [Jobs -> Nat]
      /\ head \in 1..(Requests + 1) /\ Requests \in Nat
  BY <1>a, PoolAssumption DEF TypeOK
<1>c. /\ \A i \in Jobs : reports[i] = IF job[i].phase = "reported" THEN 1 ELSE 0
      /\ state.completed = Cardinality(Settled)
      /\ state.ok + state.failed = state.completed
  BY DEF Tallied
<1> DEFINE Settled2 == {i \in Jobs : IsSettled(job'[i])}
<1>g. ASSUME \A i \in Jobs : reports'[i] = IF job'[i].phase = "reported" THEN 1 ELSE 0,
             state'.completed = Cardinality(Settled2),
             state'.ok + state'.failed = state'.completed,
             loop' # "returned"
      PROVE  Tallied'
  BY <1>g DEF Tallied, Settled, IsSettled
<1>1. CASE Spawn
  <2>1. head \in Jobs /\ job[head].phase = "queued"
    BY <1>1, <1>a, <1>b DEF Spawn, CanSpawn, Queue, Jobs
  <2>2. job'[head].phase = "starting" /\ \A i \in Jobs \ {head} : job'[i] = job[i]
    BY <1>1, <1>b, <2>1 DEF Spawn, Job
  <2>3. Settled2 = Settled
    BY <2>1, <2>2 DEF Settled, IsSettled
  <2>4. UNCHANGED <<reports, state, loop>> /\ loop = "fill"
    BY <1>1 DEF Spawn
  <2>5. \A i \in Jobs : reports'[i] = IF job'[i].phase = "reported" THEN 1 ELSE 0
    BY <1>c, <2>1, <2>2, <2>4
  <2> HIDE DEF Settled2
  <2>6. QED
    BY <1>c, <1>g, <2>3, <2>4, <2>5
<1>2. CASE SpawnedEnough
  BY <1>2, <1>c DEF SpawnedEnough, Tallied, Settled
<1>3. CASE JoinNone
  BY <1>3, <1>c DEF JoinNone, Tallied, Settled, Active, In
<1>4. CASE Drain
  <2>1. CASE ~cancelled
    BY <1>4, <1>c, <2>1 DEF Drain, Tallied, Settled
  <2>2. CASE cancelled
    <3> DEFINE cut(i) == [job[i] EXCEPT !.phase = "reported", !.outcome = "stopped",
                                        !.cause = Cause]
               rest   == head..Requests
    <3>1. job' = [i \in Jobs |-> IF i < head THEN job[i] ELSE cut(i)]
      BY <1>4, <2>2 DEF Drain
    <3>2. \A i \in Jobs : cut(i).phase = "reported"
      BY <1>b DEF Job
    <3>3. reports' = [i \in Jobs |-> IF i < head THEN reports[i] ELSE reports[i] + 1]
      BY <1>4, <2>2 DEF Drain
    <3>4. state' = Counted(state, Requests + 1 - head, 0) /\ loop' = "join"
      BY <1>4, <2>2 DEF Drain
    <3> HIDE DEF cut
    <3>5. \A i \in Jobs : i >= head => job[i].phase = "queued"
      BY <1>a DEF Queue
    <3>6. \A i \in Jobs : ~(i < head) => i >= head
      BY <1>b DEF Jobs
    <3>7. \A i \in Jobs : reports'[i] = IF job'[i].phase = "reported" THEN 1 ELSE 0
      BY <1>b, <1>c, <3>1, <3>2, <3>3, <3>5, <3>6
    <3>8. Settled2 = Settled \cup rest
      <4>1. \A i \in Jobs : i \in rest <=> i >= head
        BY <1>b DEF Jobs
      <4>2. rest \subseteq Jobs
        BY <1>b DEF Jobs
      <4>3. ASSUME NEW i \in Jobs
            PROVE  IsSettled(job'[i]) <=> IsSettled(job[i]) \/ i \in rest
        <5>1. CASE i < head
          <6>1. job'[i] = job[i]
            BY <3>1, <5>1
          <6>2. i \notin rest
            BY <1>b, <4>1, <5>1 DEF Jobs
          <6>3. QED
            BY <6>1, <6>2 DEF IsSettled
        <5>2. CASE ~(i < head)
          <6>1. job'[i].phase = "reported"
            BY <3>1, <3>2, <5>2
          <6>2. i \in rest
            BY <3>6, <4>1, <5>2
          <6>3. QED
            BY <6>1, <6>2 DEF IsSettled
        <5>3. QED
          BY <5>1, <5>2
      <4> HIDE DEF rest
      <4>4. QED
        BY <4>2, <4>3 DEF Settled
    <3>9. Settled \cap rest = {}
      BY <3>5 DEF Settled, IsSettled
    <3>10. IsFiniteSet(rest) /\ Cardinality(rest) = Requests + 1 - head
      <4>1. IsFiniteSet(rest)
              /\ Cardinality(rest) = IF head > Requests THEN 0 ELSE Requests - head + 1
        BY <1>b, FS_Interval
      <4>2. QED
        BY <1>b, <4>1
    <3>11. IsFiniteSet(Settled)
      BY JobsFinite, FS_Subset DEF Settled
    <3> HIDE DEF rest
    <3>12. Cardinality(Settled2) = Cardinality(Settled) + Cardinality(rest)
      <4>1. Cardinality(Settled \cup rest) =
              Cardinality(Settled) + Cardinality(rest) - Cardinality(Settled \cap rest)
        BY <3>10, <3>11, FS_Union
      <4>2. Cardinality(Settled \cap rest) = 0
        BY <3>9, FS_EmptySet
      <4>3. Cardinality(Settled) \in Nat /\ Cardinality(rest) \in Nat
        BY <3>10, <3>11, FS_CardinalityType
      <4> HIDE DEF Settled2
      <4>4. QED
        BY <3>8, <4>1, <4>2, <4>3
    <3>13. Requests + 1 - head \in Nat
      BY <1>b
    <3>14. /\ state'.completed = state.completed + (Requests + 1 - head)
           /\ state'.ok + state'.failed = state.ok + state.failed + (Requests + 1 - head)
      BY <1>a, <3>4, <3>13, CountedFields
    <3> HIDE DEF Settled2
    <3>15. state'.completed = Cardinality(Settled2) /\ state'.ok + state'.failed = state'.completed
      BY <1>c, <3>10, <3>12, <3>14
    <3>16. QED
      BY <1>g, <3>4, <3>7, <3>15
  <2>3. QED
    BY <2>1, <2>2
<1>5. ASSUME NEW j \in Jobs, Join(j)
      PROVE  Tallied'
  <2>1. job'[j].phase = "reported" /\ \A i \in Jobs \ {j} : job'[i] = job[i]
    BY <1>5, <1>b DEF Join, Job
  <2>2. /\ job[j].phase = "finished" /\ state' = state /\ loop' = "fill"
        /\ reports' = [reports EXCEPT ![j] = @ + 1]
    BY <1>5 DEF Join
  <2>3. Settled2 = Settled
    BY <2>1, <2>2 DEF Settled, IsSettled
  <2>4. \A i \in Jobs : reports'[i] = IF job'[i].phase = "reported" THEN 1 ELSE 0
    BY <1>b, <1>c, <2>1, <2>2
  <2> HIDE DEF Settled2
  <2>5. QED
    BY <1>c, <1>g, <2>2, <2>3, <2>4
<1>6. QED
  BY <1>1, <1>2, <1>3, <1>4, <1>5 DEF Loop

\* on_done hears of every request exactly once by the time the run returns,
\* whether it finished, was cut off or was never started, and the counters say
\* the same.
THEOREM EveryRequestReported == Spec => []ReportedOnce
<1>1. Init => Tallied
  <2> SUFFICES ASSUME Init PROVE Tallied
    OBVIOUS
  <2>1. Settled = {}
    BY DEF Init, NewJob, Settled, IsSettled
  <2>2. Cardinality(Settled) = 0
    BY <2>1, FS_EmptySet
  <2>3. QED
    BY <2>2 DEF Init, NewJob, Tallied
<1>2. Base /\ Tallied /\ [Next]_vars => Tallied'
  <2> SUFFICES ASSUME Base, Tallied, [Next]_vars PROVE Tallied'
    OBVIOUS
  <2>1. CASE UNCHANGED <<head, loop, job, reports, state>>
    BY <2>1 DEF Tallied, Settled, IsSettled, Active, In
  <2>2. QED
    BY <2>1, LoopTallied, TaskTallied DEF Next, Cancel, Returned, vars
<1>3. Base /\ Tallied => ReportedOnce
  <2> SUFFICES ASSUME Base, Tallied PROVE ReportedOnce
    OBVIOUS
  <2>1. \A j \in Jobs : reports[j] <= 1
    BY DEF Tallied
  <2>2. ASSUME loop = "returned"
        PROVE  /\ \A j \in Jobs : reports[j] = 1
               /\ state.completed = Requests
               /\ state.ok + state.failed = Requests
    <3>1. Requests \in Nat /\ head > Requests /\ Active = {} /\ head \in 1..(Requests + 1)
      BY <2>2, PoolAssumption DEF Tallied, Base, TypeOK
    <3>2. \A j \in Jobs : job[j].phase # "queued"
      BY <3>1 DEF Base, Queue, Jobs
    <3>3. \A j \in Jobs : job[j].phase = "reported"
      BY <3>1, <3>2 DEF Active, In
    <3>4. Settled = Jobs
      BY <3>3 DEF Settled, IsSettled
    <3>5. QED
      BY <3>3, <3>4, JobsFinite DEF Tallied
  <2>3. QED
    BY <2>1, <2>2 DEF ReportedOnce
<1>4. QED
  BY <1>1, <1>2, <1>3, BaseHolds, PTL DEF Spec

-----------------------------------------------------------------------------
(* Sums over finite sets: the library's induction, in the form of sets *)

\* A set of naturals has a least one.
LEMMA LeastNatural ==
  ASSUME NEW T, T \subseteq Nat, T # {}
  PROVE  \E n \in T : \A m \in T : n <= m
<1> DEFINE R == OpToRel(<, Nat)
<1>1. IsWellFoundedOn(R, Nat)
  BY NatLessThanWellFounded
<1>2. \A x, y \in Nat : <<y, x>> \in R <=> y < x
  BY DEF OpToRel
<1> HIDE DEF R
<1>3. PICK x \in T : \A y \in T : ~(<<y, x>> \in R)
  BY <1>1, WFMin
<1>4. \A y \in T : ~(y < x)
  BY <1>2, <1>3
<1>5. \A y \in T : x <= y
  BY <1>4
<1> QED
  BY <1>5

\* A family of sets holds a set when it holds it short of any element.
Hereditary(S, C) == \A T \in SUBSET S : (\A x \in T : T \ {x} \in C) => T \in C

\* Such a family holds every subset of a finite set: one of the smallest sets
\* left out would lack none of its parts.
LEMMA SetInduction ==
  ASSUME NEW S, IsFiniteSet(S), NEW C, Hereditary(S, C)
  PROVE  SUBSET S \subseteq C
<1> SUFFICES ASSUME NEW T0 \in SUBSET S, T0 \notin C
             PROVE  FALSE
  OBVIOUS
<1> DEFINE Sizes == {Cardinality(T) : T \in {U \in SUBSET S : U \notin C}}
<1>1. \A T \in SUBSET S : IsFiniteSet(T) /\ Cardinality(T) \in Nat
  BY FS_Subset, FS_CardinalityType
<1>2. Sizes \subseteq Nat /\ Sizes # {}
  BY <1>1
<1>3. PICK n \in Sizes : \A m \in Sizes : n <= m
  BY <1>2, LeastNatural
<1>4. PICK T \in SUBSET S : T \notin C /\ Cardinality(T) = n
  BY <1>3
<1>5. ASSUME NEW x \in T
      PROVE  T \ {x} \in C
  <2>1. Cardinality(T \ {x}) = n - 1
    BY <1>1, <1>4, FS_RemoveElement
  <2>2. n \in Nat
    BY <1>2, <1>3
  <2>3. Cardinality(T \ {x}) \notin Sizes
    BY <1>3, <2>1, <2>2
  <2> QED
    BY <2>3
<1> QED
  BY <1>4, <1>5 DEF Hereditary

\* g is the table of partial sums a fold over f goes through.
Summed(f, S, g) ==
  g = [s \in SUBSET S |-> IF s = {} THEN 0
                          ELSE LET x == CHOOSE x \in s : TRUE IN f[x] + g[s \ {x}]]

\* If there is such a table, the fold of the community modules reads it.
LEMMA FoldIsSum ==
  ASSUME NEW S, NEW f, DOMAIN f = S, \E g : Summed(f, S, g)
  PROVE  \E g : Summed(f, S, g) /\ FoldFunction(+, 0, f) = g[S]
<1> DEFINE g == CHOOSE h : Summed(f, S, h)
<1>1. Summed(f, S, g)
  OBVIOUS
<1>2. FoldFunction(+, 0, f) = g[S]
  BY DEF FoldFunction, FoldFunctionOnSet, MapThenFoldSet, Summed
<1> QED
  BY <1>1, <1>2

\* Sets of naturals closed under successor hold them all.
LEMMA NatInduct ==
  ASSUME NEW S, 0 \in S, \A n \in Nat : n \in S => n + 1 \in S
  PROVE  Nat \subseteq S
<1> SUFFICES ASSUME Nat \ S # {} PROVE FALSE
  OBVIOUS
<1>1. PICK n \in Nat \ S : \A m \in Nat \ S : n <= m
  BY LeastNatural
<1>2. n # 0 /\ n - 1 \in Nat /\ n - 1 \in S
  BY <1>1
<1>3. (n - 1) + 1 = n
  BY <1>1
<1>4. QED
  BY <1>1, <1>2, <1>3

\* There is such a table: it is built for larger and larger sets.
LEMMA SumExists ==
  ASSUME NEW S, IsFiniteSet(S), NEW f \in [S -> Nat]
  PROVE  \E g \in [SUBSET S -> Nat] : Summed(f, S, g)
<1> DEFINE Right(g, n) == \A s \in SUBSET S : Cardinality(s) <= n =>
                            g[s] = IF s = {} THEN 0
                                   ELSE LET x == CHOOSE x \in s : TRUE IN f[x] + g[s \ {x}]
           C == {n \in Nat : \E g \in [SUBSET S -> Nat] : Right(g, n)}
<1>1. \A s \in SUBSET S : IsFiniteSet(s) /\ Cardinality(s) \in Nat
  BY FS_Subset, FS_CardinalityType
<1>1b. \A s \in SUBSET S : Cardinality(s) = 0 => s = {}
  BY <1>1, FS_EmptySet
<1>2. 0 \in C
  <2>1. [s \in SUBSET S |-> 0] \in [SUBSET S -> Nat]
    OBVIOUS
  <2>2. Right([s \in SUBSET S |-> 0], 0)
    BY <1>1, <1>1b
  <2>3. QED
    BY <2>1, <2>2
<1>3. ASSUME NEW n \in Nat, n \in C
      PROVE  n + 1 \in C
  <2>1. PICK g \in [SUBSET S -> Nat] : Right(g, n)
    BY <1>3
  <2> DEFINE first(s) == CHOOSE x \in s : TRUE
             h == [s \in SUBSET S |-> IF Cardinality(s) <= n THEN g[s]
                     ELSE IF s = {} THEN 0 ELSE f[first(s)] + g[s \ {first(s)}]]
  <2>2. \A s \in SUBSET S : s # {} => /\ first(s) \in s /\ first(s) \in S
                                      /\ s \ {first(s)} \in SUBSET S
                                      /\ f[first(s)] \in Nat
                                      /\ Cardinality(s \ {first(s)}) = Cardinality(s) - 1
    BY <1>1, FS_RemoveElement
  <2>3. h \in [SUBSET S -> Nat]
    <3>1. \A s \in SUBSET S : g[s] \in Nat
      OBVIOUS
    <3>2. \A s \in SUBSET S : s # {} => f[first(s)] + g[s \ {first(s)}] \in Nat
      BY <2>2, <3>1
    <3> HIDE DEF first
    <3>3. QED
      BY <3>1, <3>2
  <2>4. ASSUME NEW s \in SUBSET S, Cardinality(s) <= n + 1
        PROVE  h[s] = IF s = {} THEN 0 ELSE f[first(s)] + h[s \ {first(s)}]
    <3>1. CASE s = {}
      <4>1. Cardinality(s) <= n
        BY <3>1, FS_EmptySet
      <4>2. h[s] = g[s] /\ g[s] = 0
        BY <2>1, <3>1, <4>1
      <4>3. QED
        BY <3>1, <4>2
    <3>2. CASE s # {}
      <4> DEFINE r == s \ {first(s)}
      <4>1. r \in SUBSET S /\ Cardinality(r) <= n
        BY <1>1, <2>2, <2>4, <3>2
      <4>2. h[r] = g[r]
        BY <4>1
      <4>3. h[s] = f[first(s)] + g[r]
        <5>1. CASE Cardinality(s) <= n
          BY <2>1, <3>2, <5>1
        <5>2. CASE ~(Cardinality(s) <= n)
          BY <3>2, <5>2
        <5>3. QED
          BY <5>1, <5>2
      <4>4. QED
        BY <3>2, <4>2, <4>3
    <3>3. QED
      BY <3>1, <3>2
  <2>5. Right(h, n + 1)
    BY <2>4
  <2> HIDE DEF h, Right
  <2>6. \E e \in [SUBSET S -> Nat] : Right(e, n + 1)
    BY <2>3, <2>5
  <2>7. n + 1 \in Nat
    OBVIOUS
  <2>8. QED
    BY <2>6, <2>7
<1> HIDE DEF C
<1>4. Nat \subseteq C
  BY <1>2, <1>3, NatInduct
<1>5. Cardinality(S) \in C
  BY <1>4, FS_CardinalityType
<1>6. PICK g \in [SUBSET S -> Nat] : Right(g, Cardinality(S))
  BY <1>5 DEF C
<1>7. \A s \in SUBSET S : Cardinality(s) <= Cardinality(S)
  BY FS_Subset
<1>8. Summed(f, S, g)
  BY <1>6, <1>7 DEF Summed
<1>9. QED
  BY <1>8

\* The tables of sums out of which any element may be taken first.
Totals(f, S) ==
  {g \in [SUBSET S -> Nat] :
     /\ g[{}] = 0
     /\ \A s \in SUBSET S : \A x \in s : g[s] = f[x] + g[s \ {x}]}

\* A fold's table is one of them: the order of the elements does not matter.
LEMMA SummedTotals ==
  ASSUME NEW S, IsFiniteSet(S), NEW f \in [S -> Nat],
         NEW g \in [SUBSET S -> Nat], Summed(f, S, g)
  PROVE  g \in Totals(f, S)
<1> DEFINE C == {s \in SUBSET S : \A x \in s : g[s] = f[x] + g[s \ {x}]}
<1>1. ASSUME NEW s \in SUBSET S, \A x \in s : s \ {x} \in C
      PROVE  s \in C
  <2> SUFFICES ASSUME NEW y \in s PROVE g[s] = f[y] + g[s \ {y}]
    OBVIOUS
  <2>1. PICK x \in s : g[s] = f[x] + g[s \ {x}]
    BY DEF Summed
  <2>2. CASE x = y
    BY <2>1, <2>2
  <2>3. CASE x # y
    <3> DEFINE r == (s \ {x}) \ {y}
    <3>1. g[s \ {x}] = f[y] + g[r]
      BY <1>1, <2>3
    <3>2. g[s \ {y}] = f[x] + g[(s \ {y}) \ {x}]
      BY <1>1, <2>3
    <3>3. (s \ {y}) \ {x} = r
      OBVIOUS
    <3>4. f[x] \in Nat /\ f[y] \in Nat /\ g[r] \in Nat
      OBVIOUS
    <3>5. g[s] = f[x] + (f[y] + g[r])
      BY <2>1, <3>1
    <3>6. g[s \ {y}] = f[x] + g[r]
      BY <3>2, <3>3
    <3>7. f[x] + (f[y] + g[r]) = f[y] + (f[x] + g[r])
      BY <3>4
    <3>8. QED
      BY <3>5, <3>6, <3>7
  <2>4. QED
    BY <2>2, <2>3
<1> HIDE DEF C
<1>2. SUBSET S \subseteq C
  <2>1. Hereditary(S, C)
    BY <1>1 DEF Hereditary
  <2>2. QED
    BY <2>1, SetInduction
<1>3. g[{}] = 0
  BY DEF Summed
<1>4. QED
  BY <1>2, <1>3 DEF C, Totals

\* The sum a fold computes is the last entry of such a table.
LEMMA FoldTotal ==
  ASSUME NEW S, IsFiniteSet(S), NEW f \in [S -> Nat]
  PROVE  \E g \in Totals(f, S) : FoldFunction(+, 0, f) = g[S]
<1>1. PICK h \in [SUBSET S -> Nat] : Summed(f, S, h)
  BY SumExists
<1>2. PICK g : Summed(f, S, g) /\ FoldFunction(+, 0, f) = g[S]
  BY <1>1, FoldIsSum
<1> DEFINE C == {s \in SUBSET S : g[s] = h[s]}
<1>3. ASSUME NEW s \in SUBSET S, \A x \in s : s \ {x} \in C
      PROVE  s \in C
  <2>1. CASE s = {}
    BY <1>1, <1>2, <2>1 DEF Summed
  <2>2. CASE s # {}
    <3> DEFINE x == CHOOSE y \in s : TRUE
    <3>1. x \in s /\ s \ {x} \in SUBSET S
      BY <2>2
    <3>2. g[s \ {x}] = h[s \ {x}]
      BY <1>3, <3>1
    <3>3. g[s] = f[x] + g[s \ {x}] /\ h[s] = f[x] + h[s \ {x}]
      BY <1>1, <1>2, <2>2 DEF Summed
    <3>4. QED
      BY <3>2, <3>3
  <2>3. QED
    BY <2>1, <2>2
<1> HIDE DEF C
<1>4. SUBSET S \subseteq C
  <2>1. Hereditary(S, C)
    BY <1>3 DEF Hereditary
  <2>2. QED
    BY <2>1, SetInduction
<1>5. g[S] = h[S]
  BY <1>4 DEF C
<1>6. QED
  BY <1>1, <1>2, <1>5, SummedTotals

\* Sums over a set depend on the values there alone.
LEMMA TotalsAgree ==
  ASSUME NEW S, IsFiniteSet(S), NEW f, NEW e, NEW R \in SUBSET S,
         NEW g \in Totals(f, S), NEW h \in Totals(e, S),
         \A x \in R : e[x] = f[x]
  PROVE  g[R] = h[R]
<1> DEFINE C == {s \in SUBSET S : s \subseteq R => g[s] = h[s]}
<1>1. ASSUME NEW s \in SUBSET S, \A x \in s : s \ {x} \in C
      PROVE  s \in C
  <2> SUFFICES ASSUME s \subseteq R PROVE g[s] = h[s]
    OBVIOUS
  <2>1. CASE s = {}
    BY <2>1 DEF Totals
  <2>2. ASSUME NEW x \in s
        PROVE  g[s] = h[s]
    <3>1. g[s \ {x}] = h[s \ {x}]
      BY <1>1
    <3>2. g[s] = f[x] + g[s \ {x}] /\ h[s] = e[x] + h[s \ {x}]
      BY DEF Totals
    <3>3. QED
      BY <3>1, <3>2
  <2>3. QED
    BY <2>1, <2>2
<1> HIDE DEF C
<1>2. SUBSET S \subseteq C
  <2>1. Hereditary(S, C)
    BY <1>1 DEF Hereditary
  <2>2. QED
    BY <2>1, SetInduction
<1>3. QED
  BY <1>2 DEF C

\* The sum of a function's values, and what changes it.
SumOf(f) == FoldFunction(+, 0, f)

\* The sum grows by what one entry grew by.
LEMMA SumGrows ==
  ASSUME NEW S, IsFiniteSet(S), NEW f \in [S -> Nat], NEW e \in [S -> Nat],
         NEW j \in S, NEW k \in Nat, e[j] = f[j] + k,
         \A x \in S \ {j} : e[x] = f[x]
  PROVE  SumOf(e) = SumOf(f) + k
<1>1. PICK g \in Totals(f, S) : SumOf(f) = g[S]
  BY FoldTotal DEF SumOf
<1>2. PICK h \in Totals(e, S) : SumOf(e) = h[S]
  BY FoldTotal DEF SumOf
<1>3. g[S \ {j}] = h[S \ {j}]
  <2> DEFINE R == S \ {j}
  <2>1. R \in SUBSET S /\ \A x \in R : e[x] = f[x]
    OBVIOUS
  <2> HIDE DEF R
  <2>2. g[R] = h[R]
    BY <2>1, TotalsAgree
  <2>3. QED
    BY <2>2 DEF R
<1>4. g[S] = f[j] + g[S \ {j}] /\ h[S] = e[j] + h[S \ {j}]
  BY DEF Totals
<1>5. f[j] \in Nat /\ g[S \ {j}] \in Nat
  BY DEF Totals
<1>6. h[S] = g[S] + k
  BY <1>3, <1>4, <1>5
<1>7. QED
  BY <1>1, <1>2, <1>6, Zenon

LEMMA SumOfZeros ==
  ASSUME NEW S, IsFiniteSet(S), NEW f \in [S -> Nat], \A x \in S : f[x] = 0
  PROVE  SumOf(f) = 0
<1>1. PICK g \in Totals(f, S) : SumOf(f) = g[S]
  BY FoldTotal DEF SumOf
<1>2. [s \in SUBSET S |-> 0] \in Totals(f, S)
  BY DEF Totals
<1>3. g[S] = [s \in SUBSET S |-> 0][S]
  <2> DEFINE h == [s \in SUBSET S |-> 0]
  <2> HIDE DEF h
  <2>1. h \in Totals(f, S)
    BY <1>2 DEF h
  <2>2. g[S] = h[S]
    BY <2>1, TotalsAgree
  <2>3. QED
    BY <2>2 DEF h
<1>4. QED
  BY <1>1, <1>3

-----------------------------------------------------------------------------
(* What the pool and its jobs say was spent *)

Spent == [j \in Jobs |-> job[j].usage]

SpentAddsUp == state.usage = SumOf(Spent)

\* A task's step adds the same to its job and to the pool.
LEMMA TaskCharges ==
  ASSUME TypeOK, NEW j \in Jobs, Task(j)
  PROVE  \E k \in Nat : /\ job'[j].usage = job[j].usage + k
                        /\ state'.usage = state.usage + k
<1>a. job \in [Jobs -> Job] /\ job[j] \in Job /\ state \in State
  BY DEF TypeOK
<1>b. /\ job[j].usage \in Nat /\ state.usage \in Nat
      /\ job[j].usage + 0 = job[j].usage /\ state.usage + 0 = state.usage
  BY <1>a DEF Job, State
<1>c. \A st \in State : \A n, good : Counted(st, n, good).usage = st.usage
  BY DEF Counted, State
<1> DEFINE Free == job'[j].usage = job[j].usage /\ state'.usage = state.usage
<1>d. ASSUME Free
      PROVE  \E k \in Nat : /\ job'[j].usage = job[j].usage + k
                            /\ state'.usage = state.usage + k
  BY <1>b, <1>d
<1>1. CASE Begin(j)
  BY <1>1, <1>a, <1>c, <1>d DEF Begin, Stopped, Job
<1>2. CASE Admit(j)
  BY <1>2, <1>a, <1>d DEF Admit, Job, State
<1>3. CASE Park(j) \/ Recheck(j) \/ SleepOver(j)
  BY <1>3, <1>a, <1>d DEF Park, Recheck, SleepOver, Job
<1>4. CASE StopCall(j)
  BY <1>4, <1>a, <1>d DEF StopCall, Stopped, Counted, Job, State
<1>5. CASE StopWaiting(j)
  BY <1>5, <1>a, <1>c, <1>d DEF StopWaiting, Stopped, Job
<1>6. CASE Wake(j)
  BY <1>6, <1>a, <1>d DEF Wake, Job
<1>7. CASE ClassifyOk(j)
  <2>1. job'[j].usage = job[j].usage + 1
    BY <1>7, <1>a DEF ClassifyOk, Job
  <2>2. state'.usage = state.usage + 1
    BY <1>7, <1>a DEF ClassifyOk, Counted, State
  <2>3. QED
    BY <2>1, <2>2
<1>8. CASE ClassifyUnusable(j)
  <2>1. CASE job[j].outcome = "malformed"
    <3>1. job'[j].usage = job[j].usage + 1
      BY <1>8, <1>a, <2>1 DEF ClassifyUnusable, Charged, Job
    <3>2. state'.usage = state.usage + 1
      BY <1>8, <1>a, <2>1 DEF ClassifyUnusable, Counted, State
    <3>3. QED
      BY <3>1, <3>2
  <2>2. CASE job[j].outcome # "malformed"
    <3>1. job'[j].usage = job[j].usage
      BY <1>8, <1>a, <2>2 DEF ClassifyUnusable, Charged, Job
    <3>2. state'.usage = state.usage
      BY <1>8, <1>a, <2>2 DEF ClassifyUnusable, Counted, State
    <3>3. QED
      BY <1>d, <3>1, <3>2
  <2>3. QED
    BY <2>1, <2>2
<1>9. CASE ClassifyRateLimited(j)
  <2>1. job'[j].usage = job[j].usage
    BY <1>9, <1>a DEF ClassifyRateLimited, Job
  <2>2. state'.usage = state.usage
    BY <1>9, <1>a DEF ClassifyRateLimited, Counted, State
  <2>3. QED
    BY <1>d, <2>1, <2>2
<1>10. CASE ClassifyFatal(j) \/ WakeGrown(j) \/ CancelPool(j)
  BY <1>10, <1>a, <1>c, <1>d DEF ClassifyFatal, WakeGrown, CancelPool, Job
<1>11. CASE ClassifyFatalPool(j)
  BY <1>11, <1>a, <1>d DEF ClassifyFatalPool, Job, State
<1>12. ASSUME NEW a \in Kinds, Answer(j, a)
       PROVE  Free
  BY <1>12, <1>a DEF Answer, Job, State
<1>13. QED
  BY <1>1, <1>2, <1>3, <1>4, <1>5, <1>6, <1>7, <1>8, <1>9, <1>10, <1>11, <1>12, <1>d
  DEF Task, Classify

\* The loop charges nobody: the requests it drains were never sent.
LEMMA LoopCharges ==
  ASSUME Base, Loop
  PROVE  Spent' = Spent /\ state'.usage = state.usage
<1>a. TypeOK
  BY DEF Base
<1>1. ASSUME NEW i \in Jobs
      PROVE  job'[i].usage = job[i].usage
  <2>1. job[i] \in Job
    BY <1>a DEF TypeOK
  <2>2. \/ job'[i] = job[i]
        \/ job'[i] = [job[i] EXCEPT !.phase = "starting"]
        \/ job'[i] = [job[i] EXCEPT !.phase = "reported"]
        \/ job'[i] = [job[i] EXCEPT !.phase = "reported", !.outcome = "stopped",
                                    !.cause = Cause]
    BY LoopMoves
  <2>3. QED
    BY <2>1, <2>2 DEF Job
<1>2. state'.usage = state.usage
  <2>1. state \in State
    BY <1>a DEF TypeOK
  <2>2. CASE Drain
    BY <2>1, <2>2 DEF Drain, Counted, State
  <2>3. CASE Spawn \/ SpawnedEnough \/ JoinNone \/ \E i \in Jobs : Join(i)
    BY <2>3 DEF Spawn, SpawnedEnough, JoinNone, Join
  <2>4. QED
    BY <2>2, <2>3 DEF Loop
<1>3. QED
  BY <1>1, <1>2 DEF Spent

\* No token a backend reports is lost or counted twice: what the jobs of a run
\* say they spent, over any number of them, is what the pool's counter says.
THEOREM UsageIsConserved == Spec => []UsageAddsUp
<1>a. IsFiniteSet(Jobs)
  BY JobsFinite
<1>1. Init => SpentAddsUp
  <2> SUFFICES ASSUME Init PROVE SpentAddsUp
    OBVIOUS
  <2>1. Spent \in [Jobs -> Nat] /\ \A j \in Jobs : Spent[j] = 0
    BY DEF Init, NewJob, Spent
  <2>2. SumOf(Spent) = 0
    BY <1>a, <2>1, SumOfZeros
  <2>3. QED
    BY <2>2 DEF Init, SpentAddsUp
<1>2. Base /\ Base' /\ SpentAddsUp /\ [Next]_vars => SpentAddsUp'
  <2> SUFFICES ASSUME Base, Base', SpentAddsUp, [Next]_vars PROVE SpentAddsUp'
    OBVIOUS
  <2>1. TypeOK /\ TypeOK'
    BY DEF Base
  <2>2. Spent \in [Jobs -> Nat] /\ Spent' \in [Jobs -> Nat]
    BY <2>1 DEF TypeOK, Job, Spent
  <2>3. CASE Spent' = Spent /\ state'.usage = state.usage
    BY <2>3 DEF SpentAddsUp
  <2>4. CASE Loop
    BY <2>3, <2>4, LoopCharges
  <2>5. ASSUME NEW j \in Jobs, Task(j)
        PROVE  SpentAddsUp'
    <3>1. PICK k \in Nat : /\ job'[j].usage = job[j].usage + k
                           /\ state'.usage = state.usage + k
      BY <2>1, <2>5, TaskCharges
    <3>2. \A i \in Jobs \ {j} : job'[i] = job[i]
      BY <2>1, <2>5, TaskFrame
    <3>3. Spent'[j] = Spent[j] + k /\ \A i \in Jobs \ {j} : Spent'[i] = Spent[i]
      BY <3>1, <3>2 DEF Spent
    <3>4. SumOf(Spent') = SumOf(Spent) + k
      BY <1>a, <2>2, <3>3, SumGrows
    <3>5. QED
      BY <3>1, <3>4 DEF SpentAddsUp
  <2>6. CASE UNCHANGED <<job, state>>
    BY <2>3, <2>6 DEF Spent
  <2>7. QED
    BY <2>4, <2>5, <2>6 DEF Next, Cancel, Returned, vars
<1>3. SpentAddsUp => UsageAddsUp
  BY DEF SpentAddsUp, UsageAddsUp, SumOf, Spent
<1>4. QED
  BY <1>1, <1>2, <1>3, BaseHolds, PTL DEF Spec

=============================================================================
