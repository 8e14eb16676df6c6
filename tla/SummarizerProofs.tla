-------------------------- MODULE SummarizerProofs --------------------------
(***************************************************************************)
(* The summarizer asks for nothing settled, keeps the day's budget, does   *)
(* not spin and misses no wake-up: for any number of sections, rounds,     *)
(* results, crashes and writers of the store, beside an `mda index`.       *)
(***************************************************************************)
EXTENDS Summarizer, FiniteSetTheorems, TLAPS

\* Why the next round waits: a debt comes with an owed sleep of some length, and only at
\* the top of the loop does anything follow it.
DebtSlept ==
  debt => sleep_owed /\ backoff > 0 /\ loop \in {"top", "quiet", "waiting", "sleeping", "stopped"}

-----------------------------------------------------------------------------
(* Types *)

LEMMA NoRoundTyped == NoRound \in Round
  BY DEF NoRound, Round

LEMMA InitTyped == Init => TypeOK
  <1> SUFFICES ASSUME Init PROVE TypeOK
    OBVIOUS
  <1>1. summaries \in [Hashes -> {"none", "pending", "summarized", "failed"}]
    BY DEF Init
  <1>2. round \in Round
    BY NoRoundTyped DEF Init
  <1>3. backoff \in 0..(BackoffLevels + 1) /\ changes \in 0..MaxChanges /\ stops \in 0..MaxStops
    BY SummarizerAssumption DEF Init
  <1> QED BY <1>1, <1>2, <1>3 DEF Init, TypeOK

LEMMA LoopTyped ==
  ASSUME TypeOK, Top \/ Wait \/ Woken \/ SleepOver \/ Count \/ CountFails
  PROVE  TypeOK'
  <1> USE SummarizerAssumption
      DEF TypeOK, store, control, beside, hearing, mda_index, overlap, bounds, NextBackoff
  <1>1. CASE Top BY <1>1 DEF Top
  <1>2. CASE Wait BY <1>2 DEF Wait
  <1>3. CASE Woken
    <2>1. wake' \in BOOLEAN
      BY <1>3 DEF Woken
    <2> QED BY <1>3, <2>1 DEF Woken
  <1>4. CASE SleepOver BY <1>4 DEF SleepOver
  <1>5. CASE Count BY <1>5 DEF Count
  <1>6. CASE CountFails BY <1>6 DEF CountFails
  <1> QED BY <1>1, <1>2, <1>3, <1>4, <1>5, <1>6

LEMMA OutstandingHashes == TypeOK => Outstanding \in SUBSET Hashes
  BY DEF TypeOK, Round, Result, Outstanding

\* A part of the sections has a cardinality, and it is a number.
LEMMA SomeHashes ==
  ASSUME NEW S \in SUBSET Hashes
  PROVE  IsFiniteSet(S) /\ Cardinality(S) \in Nat
  BY SummarizerAssumption, FS_Subset, FS_CardinalityType

LEMMA CardTyped ==
  ASSUME TypeOK, CardHeadingOnly
  PROVE  summaries' \in [Hashes -> {"none", "pending", "summarized", "failed"}]
  BY DEF TypeOK, CardHeadingOnly

LEMMA SelectTyped ==
  ASSUME TypeOK, NEW taken \in SUBSET Hashes, Select(taken)
  PROVE  TypeOK'
  <1>1. round' \in Round
    <2>1. Cardinality(taken) \in Nat
      BY SomeHashes
    <2>2. round' = [NoRound EXCEPT
                      !.queued = taken, !.submitted = Cardinality(taken),
                      !.exhausted = Affordable < Least(round_size, Cardinality(Pending \ HeadingOnly))]
      BY DEF Select
    <2>3. (Affordable < Least(round_size, Cardinality(Pending \ HeadingOnly))) \in BOOLEAN
      OBVIOUS
    <2> QED BY <2>1, <2>2, <2>3, NoRoundTyped DEF Round
  <1>2. summaries' \in [Hashes -> {"none", "pending", "summarized", "failed"}]
    BY CardTyped DEF Select
  <1>3. shared' \subseteq Hashes /\ together' \in BOOLEAN
    BY DEF Select, TypeOK
  <1> QED BY <1>1, <1>2, <1>3 DEF Select, TypeOK, control, hearing, mda_index, bounds

LEMMA AskTyped ==
  ASSUME TypeOK, NEW h \in Hashes, Ask(h)
  PROVE  TypeOK'
  <1>1. \A cost \in 0..MaxCost : /\ <<h, "pool_stop", cost>> \in Result
                                 /\ \A kind \in Kinds : <<h, kind, cost>> \in Result
    BY SummarizerAssumption DEF Result, AllKinds
  <1>2. round \in Round
    BY DEF TypeOK
  <1>3. round' \in Round
    <2>1. CASE Call(h) BY <1>2, <2>1 DEF Call, Round
    <2>2. ASSUME NEW cost \in 0..MaxCost, Cut(h, cost) PROVE round' \in Round
      BY <1>1, <1>2, <2>2 DEF Cut, Round
    <2>3. ASSUME NEW cost \in 0..MaxCost, NEW kind \in Kinds, Report(h, kind, cost)
          PROVE  round' \in Round
      BY <1>1, <1>2, <2>3 DEF Report, Round
    <2> QED BY <2>1, <2>2, <2>3 DEF Ask
  <1>4. UNCHANGED <<store, control, loop, backoff, sleep_owed, debt, beside, bounds>>
    BY DEF Ask, Call, Cut, Report
  <1> QED BY <1>3, <1>4
        DEF TypeOK, store, control, beside, hearing, mda_index, overlap, bounds

LEMMA SettledTyped ==
  ASSUME TypeOK, NEW h \in Hashes, NEW kind \in AllKinds
  PROVE  Settled(h, kind) \in {"none", "pending", "summarized", "failed"}
  BY DEF TypeOK, Settled, AllKinds

LEMMA ApplyTyped ==
  ASSUME TypeOK, NEW r \in round.results, Apply(r)
  PROVE  TypeOK'
  <1>1. r \in Result
    BY DEF TypeOK, Round
  <1>2. r[1] \in Hashes /\ r[2] \in AllKinds /\ r[3] \in 0..MaxCost
    BY <1>1 DEF Result
  <1>3. spent' \in Nat
    BY <1>2, SummarizerAssumption DEF TypeOK, Apply
  <1>4. summaries' \in [Hashes -> {"none", "pending", "summarized", "failed"}]
    BY <1>2, SettledTyped DEF TypeOK, Apply
  <1>5. round' \in Round
    <2>1. round \in Round /\ round.results \ {r} \in SUBSET Result /\ round.ok + 1 \in Nat
      BY DEF TypeOK, Round
    <2>2. CASE r[2] = "card"
      <3>1. round' = [round EXCEPT !.results = round.results \ {r}, !.ok = round.ok + 1]
        BY <2>2 DEF Apply
      <3> QED BY <2>1, <3>1 DEF Round
    <2>3. CASE r[2] # "card"
      <3>1. round' = [round EXCEPT !.results = round.results \ {r}]
        BY <2>1, <2>3 DEF Apply, Round
      <3> QED BY <2>1, <3>1 DEF Round
    <2> QED BY <2>2, <2>3
  <1> QED BY <1>3, <1>4, <1>5
        DEF TypeOK, Apply, control, beside, hearing, mda_index, overlap, bounds

\* Whatever of a result was booked when its application stopped.
LEMMA HalfTyped ==
  ASSUME TypeOK, NEW s \in HalfApplied
  PROVE  s \in Nat
  <1>1. ASSUME NEW r \in round.results PROVE r[3] \in Nat
    BY <1>1, SummarizerAssumption DEF TypeOK, Round, Result
  <1> QED BY <1>1 DEF TypeOK, HalfApplied

LEMMA GoneTyped ==
  ASSUME TypeOK, Gone
  PROVE  /\ loop' = "stopped" /\ backoff' \in 0..(BackoffLevels + 1) /\ round' \in Round
         /\ paused' \in BOOLEAN /\ wake' \in BOOLEAN /\ cancelled' \in BOOLEAN
         /\ sleep_owed' \in BOOLEAN /\ debt' \in BOOLEAN
         /\ news' \subseteq Hashes /\ announced' \subseteq Hashes
  <1>1. 0 \in 0..(BackoffLevels + 1)
    BY SummarizerAssumption
  <1> QED BY <1>1, NoRoundTyped DEF Gone

LEMMA EndTyped ==
  ASSUME TypeOK, RoundDone \/ RoundFails \/ Finish \/ Crash
  PROVE  TypeOK'
  <1> USE SummarizerAssumption, NoRoundTyped
      DEF store, control, beside, hearing, mda_index, overlap, bounds, NextBackoff
  <1>1. CASE RoundDone
    <2>1. round.exhausted \in BOOLEAN
      BY DEF TypeOK, Round
    <2> QED BY <1>1, <2>1 DEF RoundDone, TypeOK
  <1>2. CASE RoundFails
    <2>1. spent' \in Nat
      BY <1>2, HalfTyped DEF RoundFails, TypeOK
    <2>2. summaries' \in [Hashes -> {"none", "pending", "summarized", "failed"}]
      BY <1>2 DEF RoundFails, TypeOK
    <2> QED BY <1>2, <2>1, <2>2 DEF RoundFails, TypeOK
  <1>3. CASE Finish
    BY <1>3, GoneTyped DEF Finish, TypeOK
  <1>4. CASE Crash
    <2>1. spent' \in Nat
      BY <1>4, HalfTyped DEF Crash
    <2>2. changes' \in 0..MaxChanges /\ stops' \in 0..MaxStops
      BY <1>4 DEF Crash, TypeOK
    <2>3. UNCHANGED <<summaries, carried, index_due, index_todo, shared, together>>
      BY <1>4 DEF Crash
    <2> QED BY <1>4, <2>1, <2>2, <2>3, GoneTyped DEF Crash, TypeOK
  <1> QED BY <1>1, <1>2, <1>3, <1>4

LEMMA IndexTyped ==
  ASSUME TypeOK, Index
  PROVE  TypeOK'
  <1> USE SummarizerAssumption DEF store, control, hearing, overlap, bounds
  <1>1. CASE IndexStarts
    BY <1>1 DEF IndexStarts, TypeOK, Change
  <1>2. CASE IndexEnds
    BY <1>2 DEF IndexEnds, TypeOK
  <1>3. ASSUME NEW taken \in SUBSET Hashes, IndexSelects(taken) PROVE TypeOK'
    <2>1. summaries' \in [Hashes -> {"none", "pending", "summarized", "failed"}]
      BY <1>3, CardTyped DEF IndexSelects
    <2>2. shared' \subseteq Hashes /\ together' \in BOOLEAN
      BY <1>3, OutstandingHashes DEF IndexSelects, TypeOK
    <2> QED BY <1>3, <2>1, <2>2 DEF IndexSelects, TypeOK
  <1>4. ASSUME NEW h \in Hashes, NEW kind \in Kinds \cup {"pool_stop"}, NEW cost \in 0..MaxCost,
               IndexSettles(h, kind, cost)
        PROVE  TypeOK'
    <2>1. kind \in AllKinds
      BY DEF AllKinds
    <2>2. summaries' \in [Hashes -> {"none", "pending", "summarized", "failed"}]
      BY <1>4, <2>1, SettledTyped DEF IndexSettles, TypeOK
    <2>3. spent' \in Nat /\ index_todo' \subseteq Hashes
      BY <1>4 DEF IndexSettles, TypeOK
    <2> QED BY <1>4, <2>2, <2>3 DEF IndexSettles, TypeOK
  <1> QED BY <1>1, <1>2, <1>3, <1>4 DEF Index

LEMMA OthersTyped ==
  ASSUME TypeOK, Others, ~Crash
  PROVE  TypeOK'
  <1> USE SummarizerAssumption
      DEF TypeOK, store, control, beside, hearing, mda_index, overlap, bounds, Change
  <1>1. ASSUME NEW h \in Hashes, NEW own \in BOOLEAN, Appear(h, own) PROVE TypeOK'
    <2>1. carried' \subseteq Hashes /\ news' \subseteq Hashes
      BY <1>1 DEF Appear
    <2>2. summaries' \in [Hashes -> {"none", "pending", "summarized", "failed"}]
      BY <1>1 DEF Appear
    <2>3. changes' \in 0..MaxChanges /\ stops' \in 0..MaxStops
      BY <1>1 DEF Appear
    <2>4. UNCHANGED <<spent, paused, wake, cancelled, loop, backoff, sleep_owed, round, debt,
                      announced, index_due, index_todo, shared, together>>
      BY <1>1 DEF Appear
    <2> QED BY <2>1, <2>2, <2>3, <2>4
  <1>2. ASSUME NEW h \in Hashes, Vanish(h) PROVE TypeOK'
    BY <1>2 DEF Vanish
  <1>3. CASE RetryFailed BY <1>3 DEF RetryFailed
  <1>4. CASE Announce \/ RescanFails BY <1>4 DEF Announce, RescanFails
  <1>5. CASE Midnight BY <1>5 DEF Midnight
  <1>6. CASE Pause \/ Resume BY <1>6 DEF Pause, Resume
  <1>7. CASE Stop BY <1>7 DEF Stop
  <1>8. CASE Restart BY <1>8 DEF Restart
  <1> QED BY <1>1, <1>2, <1>3, <1>4, <1>5, <1>6, <1>7, <1>8 DEF Others

LEMMA NextTyped == TypeOK /\ [Next]_vars => TypeOK'
  <1> SUFFICES ASSUME TypeOK, [Next]_vars PROVE TypeOK'
    OBVIOUS
  <1>1. CASE Work
    BY <1>1, LoopTyped, SelectTyped, AskTyped, ApplyTyped, EndTyped DEF Work
  <1>2. CASE Others
    BY <1>2, OthersTyped, EndTyped
  <1>3. CASE UNCHANGED vars
    BY <1>3 DEF vars, TypeOK
  <1> QED BY <1>1, <1>2, <1>3, IndexTyped DEF Next

\* Every variable stays in the type the code gives it, and a round's results are about
\* sections (pipeline.rs, summarize_pending).
THEOREM TypeCorrect == Spec => []TypeOK
  <1> QED BY InitTyped, NextTyped, PTL DEF Spec

-----------------------------------------------------------------------------
(* No spinning *)

\* Actions that leave the debt, and where the loop stands, alone.
LEMMA QuietKeepsDebt ==
  ASSUME DebtSlept, UNCHANGED <<loop, backoff, sleep_owed, debt>>
  PROVE  DebtSlept'
  BY DEF DebtSlept

LEMMA LoopSlept ==
  ASSUME TypeOK, DebtSlept, Top \/ Finish \/ Wait \/ Woken \/ SleepOver \/ Count \/ CountFails
  PROVE  DebtSlept'
  <1> USE SummarizerAssumption DEF DebtSlept, TypeOK, NextBackoff
  <1>1. CASE Top BY <1>1 DEF Top
  <1>2. CASE Finish BY <1>2 DEF Finish, Gone
  <1>3. CASE Wait \/ Woken BY <1>3 DEF Wait, Woken
  <1>4. CASE SleepOver BY <1>4 DEF SleepOver
  <1>5. CASE Count BY <1>5 DEF Count
  <1>6. CASE CountFails BY <1>6 DEF CountFails
  <1> QED BY <1>1, <1>2, <1>3, <1>4, <1>5, <1>6

LEMMA RoundSlept ==
  ASSUME TypeOK, DebtSlept, RoundDone \/ RoundFails \/ \E taken \in SUBSET Hashes : Select(taken)
  PROVE  DebtSlept'
  <1>1. NextBackoff > 0 /\ BackoffLevels + 1 > 0
    BY SummarizerAssumption DEF TypeOK, NextBackoff
  <1>2. CASE RoundDone
    <2>1. round.exhausted \in BOOLEAN /\ sleep_owed \in BOOLEAN
      BY DEF TypeOK, Round
    <2> QED BY <1>1, <1>2, <2>1 DEF RoundDone, DebtSlept
  <1>3. CASE RoundFails
    BY <1>1, <1>3 DEF RoundFails, DebtSlept
  <1>4. ASSUME NEW taken \in SUBSET Hashes, Select(taken) PROVE DebtSlept'
    BY <1>4 DEF Select, DebtSlept
  <1> QED BY <1>2, <1>3, <1>4

LEMMA OthersSlept ==
  ASSUME DebtSlept, Others
  PROVE  DebtSlept'
  <1>1. CASE Crash BY <1>1 DEF Crash, Gone, DebtSlept
  <1>2. CASE Restart BY <1>2 DEF Restart, DebtSlept
  <1>3. CASE Others /\ ~Crash /\ ~Restart
    BY <1>3, QuietKeepsDebt
      DEF Others, Appear, Vanish, Announce, RescanFails, RetryFailed, Midnight, Pause, Resume, Stop
  <1> QED BY <1>1, <1>2, <1>3

LEMMA NextSlept == TypeOK /\ DebtSlept /\ [Next]_vars => DebtSlept'
  <1> SUFFICES ASSUME TypeOK, DebtSlept, [Next]_vars PROVE DebtSlept'
    OBVIOUS
  <1>1. ASSUME NEW h \in Hashes, Ask(h) PROVE DebtSlept'
    BY <1>1, QuietKeepsDebt DEF Ask, Call, Cut, Report
  <1>2. ASSUME NEW r \in round.results, Apply(r) PROVE DebtSlept'
    BY <1>2, QuietKeepsDebt DEF Apply
  <1>3. CASE Work
    BY <1>1, <1>2, <1>3, LoopSlept, RoundSlept DEF Work
  <1>4. CASE UNCHANGED vars
    BY <1>4, QuietKeepsDebt DEF vars
  <1>5. CASE Index
    BY <1>5, QuietKeepsDebt DEF Index, IndexStarts, IndexEnds, IndexSelects, IndexSettles
  <1> QED BY <1>3, <1>4, <1>5, OthersSlept DEF Next

\* "Do not spin" (daemon/mod.rs, summarizer_loop): after a bad round the next one starts
\* only after a sleep, however many wake-ups, pauses, resumes and cancels come in between.
THEOREM NeverSpins == Spec => []NoSpin
  <1>1. Init => DebtSlept
    BY DEF Init, DebtSlept
  <1>2. DebtSlept => NoSpin
    BY DEF DebtSlept, NoSpin
  <1> QED BY <1>1, <1>2, NextSlept, TypeCorrect, PTL DEF Spec

-----------------------------------------------------------------------------
(* One result for each pending section *)

\* Each request of a round is queued, called or answered, and answered once.
OneResultEach ==
  /\ round.queued \cap round.calling = {}
  /\ \A r \in round.results :
       /\ r[1] \notin round.queued \cup round.calling
       /\ \A q \in round.results : q[1] = r[1] => q = r

\* What both summarizers have in hand is known to be shared.
BothShared == Outstanding \cap index_todo \subseteq shared

\* A card for a heading touches nobody's work.
BodiesOnly == (Outstanding \cup index_todo) \cap HeadingOnly = {}

Asked == AsksPendingOnly /\ OneResultEach /\ BothShared /\ BodiesOnly

\* Nothing new in hand, and what stays in hand stays pending.
LEMMA FewerAsked ==
  ASSUME Asked, OneResultEach',
         Outstanding' \subseteq Outstanding, index_todo' \subseteq index_todo, shared' = shared,
         \A h \in (Outstanding' \cup index_todo') \ shared :
           summaries[h] = "pending" => summaries'[h] = "pending"
  PROVE  Asked'
  <1>1. AsksPendingOnly'
    BY DEF Asked, AsksPendingOnly
  <1>2. BothShared' /\ BodiesOnly'
    BY DEF Asked, BothShared, BodiesOnly
  <1> QED BY <1>1, <1>2 DEF Asked

\* Actions that leave what is in hand, and every pending section, alone.
LEMMA QuietKeepsAsked ==
  ASSUME TypeOK, Asked, UNCHANGED <<round, index_todo, shared>>,
         \A h \in Hashes : summaries[h] = "pending" => summaries'[h] = "pending"
  PROVE  Asked'
  <1>1. Outstanding' = Outstanding /\ (Outstanding \cup index_todo) \subseteq Hashes
    BY OutstandingHashes DEF Outstanding, TypeOK
  <1>2. OneResultEach'
    BY DEF Asked, OneResultEach
  <1> QED BY <1>1, <1>2, FewerAsked

\* With no round the daemon has nothing in hand.
LEMMA NoRoundAsked ==
  ASSUME Asked, round' = NoRound, UNCHANGED <<index_todo, shared>>,
         \A h \in index_todo : summaries[h] = "pending" => summaries'[h] = "pending"
  PROVE  Asked'
  <1>1. Outstanding' = {} /\ OneResultEach'
    BY DEF Outstanding, NoRound, OneResultEach
  <1> QED BY <1>1, FewerAsked

LEMMA EndAsked ==
  ASSUME TypeOK, Asked, RoundDone \/ RoundFails \/ Finish \/ Crash
  PROVE  Asked'
  <1>1. round' = NoRound /\ UNCHANGED <<index_todo, shared>>
    BY DEF RoundDone, RoundFails, Finish, Crash, Gone, beside, mda_index, overlap
  <1>2. \A h \in index_todo : summaries[h] = "pending" => summaries'[h] = "pending"
    <2>1. index_todo \subseteq Hashes /\ index_todo \cap HeadingOnly = {}
      BY DEF Asked, BodiesOnly, TypeOK
    <2> QED BY <2>1 DEF RoundDone, RoundFails, Finish, Crash, store
  <1> QED BY <1>1, <1>2, NoRoundAsked

\* A card for each pending heading settles no body.
LEMMA CardsSpareBodies ==
  ASSUME CardHeadingOnly, NEW h \in Hashes \ HeadingOnly
  PROVE  summaries'[h] = summaries[h]
  BY DEF CardHeadingOnly

LEMMA SelectAsks ==
  ASSUME TypeOK, Asked, NEW taken \in SUBSET Hashes, Select(taken)
  PROVE  Asked'
  <1>1. taken \subseteq Pending \ HeadingOnly /\ CardHeadingOnly
    BY DEF Select
  <1>2. round'.queued = taken /\ round'.calling = {} /\ round'.results = {}
    BY DEF Select, NoRound
  <1>3. /\ Outstanding' = taken /\ index_todo' = index_todo
        /\ shared' = index_todo \cap (shared \cup taken)
    BY <1>2 DEF Outstanding, Select, mda_index
  <1>4. index_todo \subseteq Hashes \ HeadingOnly
    BY DEF Asked, BodiesOnly, TypeOK
  <1>5. ASSUME NEW h \in (Outstanding' \cup index_todo') \ shared' PROVE summaries'[h] = "pending"
    <2>1. h \in Hashes \ HeadingOnly
      BY <1>1, <1>3, <1>4
    <2>2. summaries[h] = "pending"
      BY <1>1, <1>3 DEF Asked, AsksPendingOnly, Pending
    <2> QED BY <1>1, <2>1, <2>2, CardsSpareBodies
  <1>6. AsksPendingOnly'
    BY <1>5 DEF AsksPendingOnly
  <1>7. OneResultEach'
    BY <1>2 DEF OneResultEach
  <1>8. BothShared' /\ BodiesOnly'
    BY <1>1, <1>3, <1>4 DEF BothShared, BodiesOnly
  <1> QED BY <1>6, <1>7, <1>8 DEF Asked

LEMMA IndexSelectAsks ==
  ASSUME TypeOK, Asked, NEW taken \in SUBSET Hashes, IndexSelects(taken)
  PROVE  Asked'
  <1>1. taken \subseteq Pending \ HeadingOnly /\ CardHeadingOnly /\ round' = round
    BY DEF IndexSelects
  <1>2. /\ Outstanding' = Outstanding /\ index_todo' = taken
        /\ shared' = Outstanding \cap (shared \cup taken)
    BY <1>1 DEF Outstanding, IndexSelects
  <1>3. Outstanding \subseteq Hashes \ HeadingOnly
    BY OutstandingHashes DEF Asked, BodiesOnly
  <1>4. ASSUME NEW h \in (Outstanding' \cup index_todo') \ shared' PROVE summaries'[h] = "pending"
    <2>1. h \in Hashes \ HeadingOnly
      BY <1>1, <1>2, <1>3
    <2>2. summaries[h] = "pending"
      BY <1>1, <1>2 DEF Asked, AsksPendingOnly, Pending
    <2> QED BY <1>1, <2>1, <2>2, CardsSpareBodies
  <1>5. AsksPendingOnly'
    BY <1>4 DEF AsksPendingOnly
  <1>6. OneResultEach'
    BY <1>1 DEF Asked, OneResultEach
  <1>7. BothShared' /\ BodiesOnly'
    BY <1>1, <1>2, <1>3 DEF BothShared, BodiesOnly
  <1> QED BY <1>5, <1>6, <1>7 DEF Asked

\* A call, a cut or a report moves one section on and touches no other.
LEMMA AskMoves ==
  ASSUME TypeOK, OneResultEach, NEW h \in Hashes, Ask(h)
  PROVE  OneResultEach' /\ Outstanding' = Outstanding
  <1>1. round \in Round
    BY DEF TypeOK
  <1>2. CASE Call(h)
    <2>1. /\ round'.queued = round.queued \ {h} /\ h \in round.queued
          /\ round'.calling = round.calling \cup {h}
          /\ round'.results = round.results
      BY <1>1, <1>2 DEF Call, Round
    <2> QED BY <2>1 DEF OneResultEach, Outstanding
  <1>3. ASSUME NEW cost \in 0..MaxCost, NEW kind,
               (Cut(h, cost) /\ kind = "pool_stop") \/ Report(h, kind, cost)
        PROVE  OneResultEach' /\ Outstanding' = Outstanding
    <2>1. /\ round'.queued = round.queued \ {h}
          /\ round'.calling = round.calling \ {h}
          /\ round'.results = round.results \cup {<<h, kind, cost>>}
          /\ h \in round.queued \cup round.calling
      <3>1. CASE Cut(h, cost) /\ kind = "pool_stop"
        BY <1>1, <3>1 DEF Cut, Round
      <3>2. CASE Report(h, kind, cost)
        BY <1>1, <3>2 DEF Report, Round, OneResultEach
      <3> QED BY <1>3, <3>1, <3>2
    <2>2. \A r \in round.results : r[1] # h
      BY <2>1 DEF OneResultEach
    <2>3. OneResultEach'
      BY <2>1, <2>2 DEF OneResultEach
    <2>4. {r[1] : r \in round'.results} = {r[1] : r \in round.results} \cup {h}
      <3>1. <<h, kind, cost>>[1] = h
        OBVIOUS
      <3> QED BY <2>1, <3>1
    <2> QED BY <2>1, <2>3, <2>4 DEF Outstanding
  <1> QED BY <1>2, <1>3 DEF Ask

LEMMA AskAsks ==
  ASSUME TypeOK, Asked, NEW h \in Hashes, Ask(h)
  PROVE  Asked'
  <1>1. OneResultEach' /\ Outstanding' = Outstanding
    BY AskMoves DEF Asked
  <1>2. UNCHANGED <<index_todo, shared, summaries>>
    BY DEF Ask, Call, Cut, Report, store, beside, mda_index, overlap
  <1> QED BY <1>1, <1>2, FewerAsked

\* Applying a result settles its section, which no other result is about.
LEMMA ApplyMoves ==
  ASSUME TypeOK, OneResultEach, NEW r \in round.results, Apply(r)
  PROVE  OneResultEach' /\ Outstanding' = Outstanding \ {r[1]}
  <1>1. /\ round'.queued = round.queued /\ round'.calling = round.calling
        /\ round'.results = round.results \ {r}
    BY DEF TypeOK, Round, Apply
  <1> QED BY <1>1 DEF OneResultEach, Outstanding

LEMMA ApplyAsks ==
  ASSUME TypeOK, Asked, NEW r \in round.results, Apply(r)
  PROVE  Asked'
  <1>1. OneResultEach' /\ Outstanding' = Outstanding \ {r[1]}
    BY ApplyMoves DEF Asked
  <1>2. UNCHANGED <<index_todo, shared>>
    BY DEF Apply, beside, mda_index, overlap
  <1>3. \A h \in Hashes : h # r[1] => summaries'[h] = summaries[h]
    BY DEF TypeOK, Apply
  <1>4. r[1] \in Outstanding
    BY DEF Outstanding
  <1>5. ASSUME NEW h \in (Outstanding' \cup index_todo') \ shared PROVE h \in Hashes /\ h # r[1]
    BY <1>1, <1>2, <1>4, OutstandingHashes DEF Asked, BothShared, TypeOK
  <1> QED BY <1>1, <1>2, <1>3, <1>5, FewerAsked

LEMMA IndexAsks ==
  ASSUME TypeOK, Asked, Index
  PROVE  Asked'
  <1>1. CASE IndexStarts
    BY <1>1, QuietKeepsAsked DEF IndexStarts, overlap, store
  <1>2. CASE IndexEnds
    <2>1. round' = round /\ index_todo' = {} /\ shared' = shared /\ summaries' = summaries
      BY <1>2 DEF IndexEnds, overlap, store
    <2>2. OneResultEach' /\ Outstanding' = Outstanding
      BY <2>1 DEF Asked, OneResultEach, Outstanding
    <2> QED BY <2>1, <2>2, FewerAsked
  <1>3. ASSUME NEW h \in Hashes, NEW kind, NEW cost, IndexSettles(h, kind, cost)
        PROVE  Asked'
    <2>1. /\ round' = round /\ index_todo' = index_todo \ {h} /\ shared' = shared
          /\ h \in index_todo
          /\ summaries' = [summaries EXCEPT ![h] = Settled(h, kind)]
      BY <1>3 DEF IndexSettles, overlap
    <2>2. OneResultEach' /\ Outstanding' = Outstanding
      BY <2>1 DEF Asked, OneResultEach, Outstanding
    <2>3. ASSUME NEW g \in (Outstanding' \cup index_todo') \ shared PROVE g \in Hashes /\ g # h
      BY <2>1, <2>2, OutstandingHashes DEF Asked, BothShared, TypeOK
    <2>4. \A g \in Hashes : g # h => summaries'[g] = summaries[g]
      BY <2>1 DEF TypeOK
    <2> QED BY <2>1, <2>2, <2>3, <2>4, FewerAsked
  <1> QED BY <1>1, <1>2, <1>3, IndexSelectAsks DEF Index

\* What the rest of the world does leaves pending sections pending.
LEMMA OthersAsk ==
  ASSUME TypeOK, Asked, Others
  PROVE  Asked'
  <1>1. ASSUME NEW h \in Hashes, NEW own \in BOOLEAN, Appear(h, own) PROVE Asked'
    <2>1. \A g \in Hashes : summaries[g] = "pending" => summaries'[g] = "pending"
      BY <1>1 DEF Appear, TypeOK
    <2> QED BY <1>1, <2>1, QuietKeepsAsked DEF Appear, mda_index, overlap
  <1>2. CASE RetryFailed
    <2>1. \A g \in Hashes : summaries[g] = "pending" => summaries'[g] = "pending"
      BY <1>2 DEF RetryFailed, TypeOK
    <2> QED BY <1>2, <2>1, QuietKeepsAsked DEF RetryFailed, beside, mda_index, overlap
  <1>3. CASE (\E h \in Hashes : Vanish(h)) \/ Midnight
    BY <1>3, QuietKeepsAsked DEF Vanish, Midnight, beside, mda_index, overlap
  <1>4. CASE Announce \/ RescanFails \/ Pause \/ Resume \/ Stop \/ Restart
    BY <1>4, QuietKeepsAsked
      DEF Announce, RescanFails, Pause, Resume, Stop, Restart, store, beside, mda_index, overlap
  <1> QED BY <1>1, <1>2, <1>3, <1>4, EndAsked DEF Others

LEMMA NextAsks == TypeOK /\ Asked /\ [Next]_vars => Asked'
  <1> SUFFICES ASSUME TypeOK, Asked, [Next]_vars PROVE Asked'
    OBVIOUS
  <1>1. CASE Top \/ Wait \/ Woken \/ SleepOver \/ Count \/ CountFails
    BY <1>1, QuietKeepsAsked
      DEF Top, Wait, Woken, SleepOver, Count, CountFails, store, beside, mda_index, overlap
  <1>2. CASE Work
    BY <1>1, <1>2, EndAsked, SelectAsks, AskAsks, ApplyAsks DEF Work
  <1>3. CASE UNCHANGED vars
    BY <1>3, QuietKeepsAsked DEF vars
  <1> QED BY <1>2, <1>3, IndexAsks, OthersAsk DEF Next

LEMMA InitAsked == Init => Asked
  <1>1. Init => Outstanding = {}
    BY DEF Init, NoRound, Outstanding
  <1>2. Init => OneResultEach
    BY DEF Init, NoRound, OneResultEach
  <1> QED BY <1>1, <1>2 DEF Init, Asked, AsksPendingOnly, BothShared, BodiesOnly

LEMMA AlwaysAsked == Spec => []Asked
  <1> QED BY InitAsked, NextAsks, TypeCorrect, PTL DEF Spec

\* Paying twice takes two summarizers (pipeline.rs, select_round and apply; commands/index.rs,
\* run): whatever the daemon's round or an `mda index` still has to ask, is asking or has to
\* apply is pending in the store, unless both of them had it in hand at the same time.
THEOREM PaidOnce == Spec => []AsksPendingOnly
  <1>1. Asked => AsksPendingOnly
    BY DEF Asked
  <1> QED BY <1>1, AlwaysAsked, PTL

-----------------------------------------------------------------------------
(* The budget *)

\* What n sections are estimated to cost.
Estimated(n) == Estimate * n

LEMMA EstimatedStep ==
  ASSUME NEW n \in Nat
  PROVE  /\ Estimated(n) \in Nat /\ Estimated(0) = 0
         /\ Estimated(n + 1) = Estimated(n) + Estimate
  BY SummarizerAssumption DEF Estimated

\* As many as a sum is estimated to pay for are estimated to cost no more than it.
LEMMA EstimateFits ==
  ASSUME NEW x \in Nat, NEW n \in Nat, n <= x \div Estimate
  PROVE  Estimated(n) <= x
  <1>1. Estimate * (x \div Estimate) <= x
    BY SummarizerAssumption
  <1>2. x \div Estimate \in Nat
    BY SummarizerAssumption
  <1>3. Estimate * n <= Estimate * (x \div Estimate)
    BY <1>2, SummarizerAssumption
  <1> QED BY <1>1, <1>2, <1>3, SummarizerAssumption DEF Estimated

\* What is in hand is estimated to cost.
Owed == Estimated(Cardinality(Outstanding))
IndexOwed == Estimated(Cardinality(index_todo))

\* Why the budget is kept: neither has more in hand than it pays for, and what is spent and
\* in hand together fits in it, or twice if both had something in hand today.
Kept ==
  /\ Owed <= daily_token_budget /\ IndexOwed <= daily_token_budget
  /\ spent + Owed + IndexOwed <= 2 * daily_token_budget
  /\ ~together => /\ Outstanding = {} \/ index_todo = {}
                  /\ spent + Owed + IndexOwed <= daily_token_budget

LEMMA OwedTyped ==
  ASSUME TypeOK
  PROVE  /\ Owed \in Nat /\ IndexOwed \in Nat /\ spent \in Nat /\ daily_token_budget \in Nat
         /\ Outstanding = {} => Owed = 0
         /\ index_todo = {} => IndexOwed = 0
  <1>1. Cardinality(Outstanding) \in Nat /\ Cardinality(index_todo) \in Nat
    BY OutstandingHashes, SomeHashes DEF TypeOK
  <1>2. Cardinality({}) = 0 /\ Estimated(0) = 0
    BY FS_EmptySet, EstimatedStep
  <1> QED BY <1>1, <1>2, EstimatedStep, SummarizerAssumption DEF Owed, IndexOwed, TypeOK

\* A section that is settled is no longer estimated.
LEMMA SettledOwesLess ==
  ASSUME NEW S \in SUBSET Hashes, NEW h \in S
  PROVE  Estimated(Cardinality(S)) = Estimated(Cardinality(S \ {h})) + Estimate
  <1> DEFINE n == Cardinality(S \ {h})
  <1>1. IsFiniteSet(S) /\ Cardinality(S) \in Nat
    BY SomeHashes
  <1>2. n \in Nat /\ n = Cardinality(S) - 1
    <2>1. IsFiniteSet(S \ {h}) /\ n = Cardinality(S) - 1
      BY <1>1, FS_RemoveElement
    <2> QED BY <2>1, FS_CardinalityType
  <1>3. Cardinality(S) = n + 1
    BY <1>1, <1>2
  <1> HIDE DEF n
  <1>4. Estimated(Cardinality(S)) = Estimated(n) + Estimate
    BY <1>2, <1>3, EstimatedStep
  <1> QED BY <1>4 DEF n

\* Nothing new in hand, and no more spent than is no longer owed.
LEMMA LessKeeps ==
  ASSUME TypeOK, TypeOK', Kept, together' = together,
         Outstanding' \subseteq Outstanding, index_todo' \subseteq index_todo,
         Owed' <= Owed, IndexOwed' <= IndexOwed,
         spent' + Owed' + IndexOwed' <= spent + Owed + IndexOwed
  PROVE  Kept'
  <1>1. /\ Owed \in Nat /\ IndexOwed \in Nat /\ spent \in Nat /\ daily_token_budget \in Nat
    BY OwedTyped
  <1>2. PICK s \in Nat, o \in Nat, i \in Nat : spent' = s /\ Owed' = o /\ IndexOwed' = i
    <2>1. Outstanding' \in SUBSET Hashes /\ index_todo' \in SUBSET Hashes
      BY OutstandingHashes DEF TypeOK
    <2>2. Cardinality(Outstanding') \in Nat /\ Cardinality(index_todo') \in Nat
      BY <2>1, SomeHashes
    <2> QED BY <2>2, EstimatedStep DEF Owed, IndexOwed, TypeOK
  <1>3. o <= Owed /\ i <= IndexOwed /\ s + o + i <= spent + Owed + IndexOwed
    BY <1>2
  <1>4. /\ Owed <= daily_token_budget /\ IndexOwed <= daily_token_budget
        /\ spent + Owed + IndexOwed <= 2 * daily_token_budget
        /\ ~together => spent + Owed + IndexOwed <= daily_token_budget
    BY DEF Kept
  <1>5. o <= daily_token_budget /\ i <= daily_token_budget
    BY ONLY <1>1, <1>3, <1>4, o \in Nat, i \in Nat
  <1>6. s + o + i <= 2 * daily_token_budget
    BY ONLY <1>1, <1>3, <1>4, s \in Nat, o \in Nat, i \in Nat
  <1>7. ~together => s + o + i <= daily_token_budget
    BY ONLY <1>1, <1>3, <1>4, s \in Nat, o \in Nat, i \in Nat
  <1>8. ~together => Outstanding' = {} \/ index_todo' = {}
    BY DEF Kept
  <1> QED BY <1>2, <1>5, <1>6, <1>7, <1>8 DEF Kept

\* Nothing in hand changes hands and nothing is booked.
LEMMA QuietKeeps ==
  ASSUME TypeOK, TypeOK', Kept, UNCHANGED <<spent, index_todo, together>>, Outstanding' = Outstanding
  PROVE  Kept'
  <1>1. Owed' = Owed /\ IndexOwed' = IndexOwed
    BY DEF Owed, IndexOwed
  <1> QED BY <1>1, OwedTyped, LessKeeps

\* A section of the round settles for at most its estimate; the rest stays in hand or goes.
LEMMA SettlingKeeps ==
  ASSUME TypeOK, TypeOK', Kept, MaxCost <= Estimate, NEW r \in round.results,
         spent' = spent + r[3], UNCHANGED <<index_todo, together>>,
         Outstanding' = Outstanding \ {r[1]} \/ Outstanding' = {}
  PROVE  Kept'
  <1>1. r[1] \in Outstanding /\ r[3] \in 0..MaxCost
    BY DEF TypeOK, Round, Result, Outstanding
  <1>2. Outstanding \in SUBSET Hashes
    BY OutstandingHashes
  <1> DEFINE rest == Estimated(Cardinality(Outstanding \ {r[1]}))
  <1>3. Owed = rest + Estimate
    BY <1>1, <1>2, SettledOwesLess DEF Owed
  <1>4. rest \in Nat
    BY <1>2, SomeHashes, EstimatedStep
  <1>5. Owed' = rest \/ Owed' = 0
    <2>1. CASE Outstanding' = {}
      <3>1. Cardinality(Outstanding') = 0
        BY <2>1, FS_EmptySet
      <3> QED BY <3>1, EstimatedStep DEF Owed
    <2> QED BY <2>1 DEF Owed
  <1>6. IndexOwed' = IndexOwed
    BY DEF IndexOwed
  <1> HIDE DEF rest
  <1>7. Owed' <= Owed /\ spent' + Owed' + IndexOwed' <= spent + Owed + IndexOwed
    BY <1>1, <1>3, <1>4, <1>5, <1>6, OwedTyped, SummarizerAssumption
  <1> QED BY <1>6, <1>7, OwedTyped, LessKeeps

\* As many sections as Affordable says fit in what the day has left.
LEMMA AffordableFits ==
  ASSUME TypeOK, NEW taken \in SUBSET Hashes, Cardinality(taken) <= Affordable
  PROVE  \/ /\ spent <= daily_token_budget
            /\ spent + Estimated(Cardinality(taken)) <= daily_token_budget
         \/ spent > daily_token_budget /\ taken = {}
  <1>1. spent \in Nat /\ daily_token_budget \in Nat /\ Estimate \in Nat \ {0}
    BY SummarizerAssumption DEF TypeOK
  <1>2. IsFiniteSet(taken) /\ Cardinality(taken) \in Nat
    BY SomeHashes
  <1>3. CASE spent <= daily_token_budget
    <2> DEFINE left == daily_token_budget - spent
    <2>1. left \in Nat /\ Affordable = left \div Estimate
      BY <1>1, <1>3 DEF Affordable
    <2>2. Estimated(Cardinality(taken)) <= left
      BY <1>2, <2>1, EstimateFits
    <2>3. Estimated(Cardinality(taken)) \in Nat
      BY <1>2, EstimatedStep
    <2> QED BY <1>1, <1>3, <2>2, <2>3
  <1>4. CASE spent > daily_token_budget
    <2>1. Cardinality(taken) = 0
      BY <1>1, <1>2, <1>4 DEF Affordable
    <2> QED BY <1>2, <1>4, <2>1, FS_EmptySet
  <1> QED BY <1>1, <1>3, <1>4

\* select_round takes no more than the rest of the budget is estimated to pay for.
LEMMA SelectKeeps ==
  ASSUME TypeOK, TypeOK', Kept, NEW taken \in SUBSET Hashes, Select(taken)
  PROVE  Kept'
  <1>1. /\ Outstanding' = taken /\ spent' = spent /\ index_todo' = index_todo
        /\ together' = (together \/ (taken # {} /\ index_todo # {}))
    BY DEF Select, NoRound, Outstanding, mda_index
  <1>2. Owed' = Estimated(Cardinality(taken)) /\ IndexOwed' = IndexOwed
    BY <1>1 DEF Owed, IndexOwed
  <1>3. Cardinality(taken) <= Affordable
    <2>1. Cardinality(taken) = Least(Cap, Cardinality(Pending \ HeadingOnly))
      BY DEF Select
    <2>2. Cardinality(taken) \in Nat /\ Cardinality(Pending \ HeadingOnly) \in Nat
      BY SomeHashes DEF Pending, TypeOK
    <2>3. Affordable \in Int /\ round_size \in Nat
      BY SummarizerAssumption DEF Affordable, TypeOK
    <2> QED BY <2>1, <2>2, <2>3 DEF Least, Cap
  <1>4. /\ Owed \in Nat /\ IndexOwed \in Nat /\ spent \in Nat /\ daily_token_budget \in Nat
        /\ index_todo = {} => IndexOwed = 0
    BY OwedTyped
  <1>5. Owed' \in Nat /\ (taken = {} => Owed' = 0)
    <2>1. Cardinality(taken) \in Nat /\ Cardinality({}) = 0
      BY SomeHashes, FS_EmptySet
    <2> QED BY <1>2, <2>1, EstimatedStep
  <1> DEFINE n == Estimated(Cardinality(taken))
  <1>6. n \in Nat /\ (taken = {} => n = 0)
    BY <1>2, <1>5
  <1>7. \/ spent <= daily_token_budget /\ spent + n <= daily_token_budget
        \/ spent > daily_token_budget /\ taken = {}
    BY <1>3, AffordableFits
  <1> HIDE DEF n
  <1>8. n <= daily_token_budget
    BY <1>4, <1>6, <1>7
  <1>9. spent + n + IndexOwed <= 2 * daily_token_budget
    BY <1>4, <1>6, <1>7 DEF Kept
  <1>10. ~together => spent + Owed + IndexOwed <= daily_token_budget
    BY DEF Kept
  <1>11. ~together' => /\ taken = {} \/ index_todo = {}
                       /\ spent + n + IndexOwed <= daily_token_budget
    <2> SUFFICES ASSUME ~together'
                 PROVE  /\ taken = {} \/ index_todo = {}
                        /\ spent + n + IndexOwed <= daily_token_budget
      OBVIOUS
    <2>1. ~together /\ (taken = {} \/ index_todo = {})
      BY <1>1
    <2>2. n = 0 \/ IndexOwed = 0
      BY <1>4, <1>6, <2>1
    <2>3. spent + Owed + IndexOwed <= daily_token_budget
      BY <1>10, <2>1
    <2>4. spent + n <= daily_token_budget \/ n = 0
      BY <1>6, <1>7
    <2>5. spent + n + IndexOwed <= daily_token_budget
      BY ONLY <1>4, <1>6, <2>2, <2>3, <2>4
    <2> QED BY <2>1, <2>5
  <1>12. Owed' = n /\ IndexOwed <= daily_token_budget
    BY <1>2 DEF n, Kept
  <1> QED BY <1>1, <1>2, <1>8, <1>9, <1>11, <1>12 DEF Kept

\* So does select_round of an `mda index`.
LEMMA IndexSelectKeeps ==
  ASSUME TypeOK, TypeOK', Kept, NEW taken \in SUBSET Hashes, IndexSelects(taken)
  PROVE  Kept'
  <1>1. /\ Outstanding' = Outstanding /\ spent' = spent /\ index_todo' = taken
        /\ together' = (together \/ (taken # {} /\ Outstanding # {}))
        /\ Cardinality(taken) <= Affordable
    BY DEF IndexSelects, Outstanding
  <1>2. IndexOwed' = Estimated(Cardinality(taken)) /\ Owed' = Owed
    BY <1>1 DEF Owed, IndexOwed
  <1>3. /\ Owed \in Nat /\ IndexOwed \in Nat /\ spent \in Nat /\ daily_token_budget \in Nat
        /\ Outstanding = {} => Owed = 0
    BY OwedTyped
  <1>4. IndexOwed' \in Nat /\ (taken = {} => IndexOwed' = 0)
    <2>1. Cardinality(taken) \in Nat /\ Cardinality({}) = 0
      BY SomeHashes, FS_EmptySet
    <2> QED BY <1>2, <2>1, EstimatedStep
  <1> DEFINE n == Estimated(Cardinality(taken))
  <1>5. n \in Nat /\ (taken = {} => n = 0)
    BY <1>2, <1>4
  <1>6. \/ spent <= daily_token_budget /\ spent + n <= daily_token_budget
        \/ spent > daily_token_budget /\ taken = {}
    BY <1>1, AffordableFits
  <1> HIDE DEF n
  <1>7. n <= daily_token_budget
    BY <1>3, <1>5, <1>6
  <1>8. spent + Owed + n <= 2 * daily_token_budget
    BY <1>3, <1>5, <1>6 DEF Kept
  <1>9. ~together => spent + Owed + IndexOwed <= daily_token_budget
    BY DEF Kept
  <1>10. ~together' => /\ taken = {} \/ Outstanding = {}
                      /\ spent + Owed + n <= daily_token_budget
    <2> SUFFICES ASSUME ~together'
                 PROVE  /\ taken = {} \/ Outstanding = {}
                        /\ spent + Owed + n <= daily_token_budget
      OBVIOUS
    <2>1. ~together /\ (taken = {} \/ Outstanding = {})
      BY <1>1
    <2>2. n = 0 \/ Owed = 0
      BY <1>3, <1>5, <2>1
    <2>3. spent + Owed + IndexOwed <= daily_token_budget
      BY <1>9, <2>1
    <2>4. spent + n <= daily_token_budget \/ n = 0
      BY <1>5, <1>6
    <2>5. spent + Owed + n <= daily_token_budget
      BY ONLY <1>3, <1>5, <2>2, <2>3, <2>4
    <2> QED BY <2>1, <2>5
  <1>11. IndexOwed' = n /\ Owed <= daily_token_budget
    BY <1>2 DEF n, Kept
  <1> QED BY <1>1, <1>2, <1>7, <1>8, <1>10, <1>11 DEF Kept

LEMMA IndexKeeps ==
  ASSUME TypeOK, TypeOK', Kept, MaxCost <= Estimate, Index
  PROVE  Kept'
  <1>1. CASE IndexStarts
    BY <1>1, QuietKeeps DEF IndexStarts, Outstanding, store, overlap
  <1>2. CASE IndexEnds
    <2>1. /\ Outstanding' = Outstanding /\ spent' = spent /\ index_todo' = {}
          /\ together' = together
      BY <1>2 DEF IndexEnds, Outstanding, store, overlap
    <2>2. Owed' = Owed /\ IndexOwed' = 0
      <3>1. Cardinality(index_todo') = 0
        BY <2>1, FS_EmptySet
      <3> QED BY <2>1, <3>1, EstimatedStep DEF Owed, IndexOwed
    <2> QED BY <2>1, <2>2, OwedTyped, LessKeeps
  <1>3. ASSUME NEW h \in Hashes, NEW kind, NEW cost \in 0..MaxCost, IndexSettles(h, kind, cost)
        PROVE  Kept'
    <2>1. /\ Outstanding' = Outstanding /\ spent' = spent + cost /\ h \in index_todo
          /\ index_todo' = index_todo \ {h} /\ together' = together
      BY <1>3 DEF IndexSettles, Outstanding, overlap
    <2>2. index_todo \in SUBSET Hashes /\ index_todo' \in SUBSET Hashes
      BY <2>1 DEF TypeOK
    <2>3. IndexOwed = IndexOwed' + Estimate
      BY <2>1, <2>2, SettledOwesLess DEF IndexOwed
    <2>4. IndexOwed' \in Nat
      BY <2>2, SomeHashes, EstimatedStep DEF IndexOwed
    <2>5. Owed' = Owed
      BY <2>1 DEF Owed
    <2>6. PICK n \in Nat : IndexOwed' = n
      BY <2>4
    <2>7. n <= IndexOwed /\ spent' + Owed + n <= spent + Owed + IndexOwed
      <3>1. IndexOwed = n + Estimate
        BY <2>3, <2>6
      <3> QED BY <2>1, <3>1, OwedTyped, SummarizerAssumption
    <2> QED BY <2>1, <2>5, <2>6, <2>7, OwedTyped, LessKeeps
  <1> QED BY <1>1, <1>2, <1>3, IndexSelectKeeps DEF Index

\* A round that ends half way may have booked one result more than it settled.
LEMMA EndKeeps ==
  ASSUME TypeOK, TypeOK', Kept, MaxCost <= Estimate, RoundDone \/ RoundFails \/ Finish \/ Crash
  PROVE  Kept'
  <1>1. round' = NoRound /\ UNCHANGED <<index_todo, together>> /\ spent' \in HalfApplied
    BY DEF RoundDone, RoundFails, Finish, Crash, Gone, HalfApplied, store, beside, mda_index, overlap
  <1>2. Outstanding' = {}
    BY <1>1 DEF NoRound, Outstanding
  <1>3. CASE spent' = spent
    <2>1. Owed' = 0 /\ IndexOwed' = IndexOwed
      <3>1. Cardinality(Outstanding') = 0
        BY <1>2, FS_EmptySet
      <3> QED BY <1>1, <3>1, EstimatedStep DEF Owed, IndexOwed
    <2> QED BY <1>1, <1>2, <1>3, <2>1, OwedTyped, LessKeeps
  <1>4. ASSUME NEW r \in round.results, spent' = spent + r[3] PROVE Kept'
    BY <1>1, <1>2, <1>4, SettlingKeeps
  <1> QED BY <1>1, <1>3, <1>4 DEF HalfApplied

\* A new day has the ledger empty and the sections in hand still to pay.
LEMMA MidnightKeeps ==
  ASSUME TypeOK, TypeOK', Kept, Midnight
  PROVE  Kept'
  <1>1. /\ Outstanding' = Outstanding /\ spent' = 0 /\ index_todo' = index_todo
        /\ together' = (Outstanding # {} /\ index_todo # {})
    BY DEF Midnight, Outstanding, mda_index
  <1>2. Owed' = Owed /\ IndexOwed' = IndexOwed
    BY <1>1 DEF Owed, IndexOwed
  <1>3. Owed <= daily_token_budget /\ IndexOwed <= daily_token_budget
    BY DEF Kept
  <1>4. 0 + Owed + IndexOwed <= 2 * daily_token_budget
    BY <1>3, OwedTyped
  <1>5. Outstanding = {} \/ index_todo = {} => 0 + Owed + IndexOwed <= daily_token_budget
    BY <1>3, OwedTyped
  <1> QED BY <1>1, <1>2, <1>3, <1>4, <1>5 DEF Kept

LEMMA NextKeeps ==
  TypeOK /\ TypeOK' /\ OneResultEach /\ Kept /\ MaxCost <= Estimate /\ [Next]_vars => Kept'
  <1> SUFFICES ASSUME TypeOK, TypeOK', OneResultEach, Kept, MaxCost <= Estimate, [Next]_vars
               PROVE  Kept'
    OBVIOUS
  <1>1. CASE UNCHANGED <<spent, round, index_todo, together>>
    BY <1>1, QuietKeeps DEF Outstanding
  <1>2. ASSUME NEW h \in Hashes, Ask(h) PROVE Kept'
    <2>1. Outstanding' = Outstanding
      BY <1>2, AskMoves
    <2>2. UNCHANGED <<spent, index_todo, together>>
      BY <1>2 DEF Ask, Call, Cut, Report, store, beside, mda_index, overlap
    <2> QED BY <2>1, <2>2, QuietKeeps
  <1>3. ASSUME NEW r \in round.results, Apply(r) PROVE Kept'
    <2>1. Outstanding' = Outstanding \ {r[1]}
      BY <1>3, ApplyMoves
    <2>2. spent' = spent + r[3] /\ UNCHANGED <<index_todo, together>>
      BY <1>3 DEF Apply, beside, mda_index, overlap
    <2> QED BY <2>1, <2>2, SettlingKeeps
  <1>4. CASE Work
    <2>1. CASE Top \/ Wait \/ Woken \/ SleepOver \/ Count \/ CountFails
      BY <1>1, <2>1
        DEF Top, Wait, Woken, SleepOver, Count, CountFails, store, beside, mda_index, overlap
    <2> QED BY <1>2, <1>3, <1>4, <2>1, SelectKeeps, EndKeeps DEF Work
  <1>5. CASE Others
    <2>1. CASE (\E h \in Hashes : Vanish(h) \/ \E own \in BOOLEAN : Appear(h, own)) \/ RetryFailed
      BY <1>1, <2>1 DEF Vanish, Appear, RetryFailed, beside, mda_index, overlap
    <2>2. CASE Announce \/ RescanFails \/ Pause \/ Resume \/ Stop \/ Restart
      BY <1>1, <2>2
        DEF Announce, RescanFails, Pause, Resume, Stop, Restart, store, beside, mda_index, overlap
    <2> QED BY <1>5, <2>1, <2>2, EndKeeps, MidnightKeeps DEF Others
  <1> QED BY <1>1, <1>4, <1>5, IndexKeeps DEF Next, vars

\* The day's budget (pipeline.rs, select_round): it holds through failed rounds and crashes
\* as long as no request costs more than TOKENS_PER_SECTION_ESTIMATE; on a day on which an
\* `mda index` and the daemon have sections in hand at once, twice the budget holds.
THEOREM BudgetHolds == Spec => []BudgetKept
  <1> DEFINE Inv == MaxCost <= Estimate => Kept
  <1>1. Init => Inv
    <2>1. Init => Outstanding = {} /\ spent = 0 /\ index_todo = {}
      BY DEF Init, NoRound, Outstanding
    <2>2. Init => Owed = 0 /\ IndexOwed = 0
      BY <2>1, FS_EmptySet, EstimatedStep DEF Owed, IndexOwed
    <2> QED BY <2>1, <2>2, SummarizerAssumption DEF Kept
  <1>2. TypeOK /\ TypeOK' /\ Asked /\ Inv /\ [Next]_vars => Inv'
    BY NextKeeps DEF Asked
  <1>3. TypeOK /\ Inv => BudgetKept
    <2> SUFFICES ASSUME TypeOK, Inv, MaxCost <= Estimate
                 PROVE  spent <= IF together THEN 2 * daily_token_budget ELSE daily_token_budget
      BY DEF BudgetKept
    <2> QED BY OwedTyped DEF Kept
  <1> HIDE DEF Inv
  <1> QED BY <1>1, <1>2, <1>3, TypeCorrect, AlwaysAsked, PTL DEF Spec

-----------------------------------------------------------------------------
(* Wake-ups *)

\* Why none is lost: the permit is stored from the announcement to the wait that takes it.
Heard == (loop \in {"quiet", "waiting"} /\ ~paused /\ announced # {}) => wake

LEMMA QuietHears ==
  ASSUME Heard, UNCHANGED <<paused, announced, wake>>,
         loop' = loop \/ loop' \notin {"quiet", "waiting"} \/ (loop = "quiet" /\ loop' = "waiting")
  PROVE  Heard'
  BY DEF Heard

LEMMA NextHears == TypeOK /\ Heard /\ [Next]_vars => Heard'
  <1> SUFFICES ASSUME TypeOK, Heard, [Next]_vars PROVE Heard'
    OBVIOUS
  <1> USE DEF control, beside, hearing, mda_index, overlap
  <1>1. CASE Work
    <2>1. CASE Top BY <2>1 DEF Top, Heard
    <2>2. CASE Wait \/ SleepOver \/ CountFails
      BY <2>2, QuietHears DEF Wait, SleepOver, CountFails
    <2>3. CASE Woken BY <2>3 DEF Woken, Heard
    <2>4. CASE Count BY <2>4 DEF Count, Heard
    <2>5. CASE Finish BY <2>5 DEF Finish, Gone, Heard
    <2>6. CASE RoundDone \/ RoundFails \/ \E taken \in SUBSET Hashes : Select(taken)
      BY <2>6, QuietHears DEF RoundDone, RoundFails, Select
    <2>7. ASSUME NEW h \in Hashes, Ask(h) PROVE Heard'
      BY <2>7, QuietHears DEF Ask, Call, Cut, Report
    <2>8. ASSUME NEW r \in round.results, Apply(r) PROVE Heard'
      BY <2>8, QuietHears DEF Apply
    <2> QED BY <1>1, <2>1, <2>2, <2>3, <2>4, <2>5, <2>6, <2>7, <2>8 DEF Work
  <1>2. CASE Index
    BY <1>2, QuietHears DEF Index, IndexStarts, IndexEnds, IndexSelects, IndexSettles
  <1>3. CASE Others
    <2>1. CASE Announce \/ Resume \/ Pause BY <2>1 DEF Announce, Resume, Pause, Heard
    <2>2. CASE Crash BY <2>2 DEF Crash, Gone, Heard
    <2>3. CASE Others /\ ~(Announce \/ Resume \/ Pause \/ Crash)
      BY <2>3, QuietHears
        DEF Others, Vanish, Appear, RescanFails, RetryFailed, Midnight, Stop, Restart
    <2> QED BY <1>3, <2>1, <2>2, <2>3
  <1>4. CASE UNCHANGED vars
    BY <1>4, QuietHears DEF vars
  <1> QED BY <1>1, <1>2, <1>3, <1>4 DEF Next

\* No wake-up is lost between the loop's count and its wait (daemon/mod.rs, wait_wake_or and
\* notify_one): a waiting task has counted all that was announced, or is about to wake.
THEOREM NewsHeard == Spec => []NewsIsHeard
  <1>1. Init => Heard
    BY DEF Init, Heard
  <1>2. Heard => NewsIsHeard
    BY DEF Heard, NewsIsHeard
  <1> QED BY <1>1, <1>2, NextHears, TypeCorrect, PTL DEF Spec

=============================================================================
