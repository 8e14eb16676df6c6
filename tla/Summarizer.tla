----------------------------- MODULE Summarizer -----------------------------
(***************************************************************************)
(* The daemon's summarizer task (daemon/mod.rs, summarizer_loop) and the   *)
(* round it runs (pipeline.rs, summarize_pending): what is pending is read *)
(* once, cut to the round's size and the day's budget, sent through the    *)
(* pool, and the results are applied one by one in the order they come,    *)
(* while the indexer adds and removes sections, clients pause and resume,  *)
(* and the daemon may stop or crash.  Beside it is a second summarizer:    *)
(* `mda index` (commands/index.rs), which looks once for a daemon, finds   *)
(* none that answers (it starts, drains or is down), and then runs a round *)
(* of its own over the same store and ledger.                              *)
(*                                                                         *)
(* Abstractions: of the store, the state of each section hash, whether a   *)
(* section carries it, and today's ledger.  Of the pool (see Pool), that   *)
(* each request is called or not and gets one result.  Which sections a    *)
(* cut round takes (hot first, then smallest) is left open, as is --limit  *)
(* of `mda index`, whose results are booked and applied in one step.  The  *)
(* embedding pass after a round is left out.                               *)
(***************************************************************************)
EXTENDS Integers, FiniteSets

CONSTANTS Hashes,
          HeadingOnly,   \* hashes of sections that are a heading and no body
          round_size,
          daily_token_budget,
          Estimate,      \* TOKENS_PER_SECTION_ESTIMATE
          MaxCost,       \* bound: tokens one request can cost
          Kinds,         \* the results the backend can bring about
          BackoffLevels, \* bound: doublings from backoff_min to backoff_max
          MaxChanges,    \* bound: changes by indexer and `mda index`
          MaxStops       \* bound: stops and crashes

\* What apply makes of a result: a valid card; an answer that fails the section
\* (malformed, invalid, refused); a failure of the environment that outlived the
\* retries (Retryable, RateLimited, an error of the backend); or was_stopped.
AllKinds == {"card", "bad_answer", "outage", "pool_stop"}

ASSUME SummarizerAssumption ==
  /\ IsFiniteSet(Hashes) /\ HeadingOnly \subseteq Hashes
  /\ Kinds \subseteq AllKinds
  /\ round_size \in Nat \ {0} /\ Estimate \in Nat \ {0} /\ BackoffLevels \in Nat \ {0}
  /\ daily_token_budget \in Nat /\ MaxCost \in Nat
  /\ MaxChanges \in Nat /\ MaxStops \in Nat

VARIABLES summaries,   \* the state of each hash, or "none"
          carried,     \* hashes some section carries
          spent,       \* today's ledger (usage_since)
          paused, wake,
          cancelled,   \* a client asked the daemon to stop
          loop,        \* where summarizer_loop stands
          backoff,     \* the current back-off, 0 for None
          sleep_owed,
          round,       \* the round in hand
          debt,        \* history: a bad round ended and nothing was slept since
          news,        \* hashes the daemon's indexer wrote and has yet to announce
          announced,   \* history: hashes announced since pending ones were counted
          index_due,   \* an `mda index` found no daemon and is about to select
          index_todo,  \* what an `mda index` has in hand
          shared,      \* history: what both summarizers had in hand at once
          together,    \* history: both had something in hand at once today
          changes, stops

vars == <<summaries, carried, spent, paused, wake, cancelled, loop, backoff,
          sleep_owed, round, debt, news, announced, index_due, index_todo,
          shared, together, changes, stops>>

store == <<summaries, carried, spent>>
control == <<paused, wake, cancelled>>
hearing == <<news, announced>>
mda_index == <<index_due, index_todo>>
overlap == <<shared, together>>
beside == <<hearing, mda_index, overlap>>
bounds == <<changes, stops>>

-----------------------------------------------------------------------------

\* Mutant: failed sections are asked for again.
MutPending == {h \in carried : summaries[h] \in {"pending", "failed"}}

\* counts().pending, pending_hashes
Pending == {h \in carried : summaries[h] = "pending"}

NoRound == [queued |-> {}, calling |-> {}, results |-> {}, submitted |-> 0,
            ok |-> 0, exhausted |-> FALSE]

\* How many sections the rest of the day's budget is estimated to pay for.
Affordable ==
  IF daily_token_budget >= spent THEN (daily_token_budget - spent) \div Estimate ELSE 0

\* Sections of the round that have yet to be applied.
Outstanding == round.queued \cup round.calling \cup {r[1] : r \in round.results}

Least(a, b) == IF a <= b THEN a ELSE b

NextBackoff == IF backoff < BackoffLevels THEN backoff + 1 ELSE BackoffLevels

-----------------------------------------------------------------------------
(* The loop *)

\* Mutant: the pause flag is not looked at.
MutTop ==
  /\ loop = "top" /\ ~cancelled
  /\ loop' = IF sleep_owed /\ backoff # 0 THEN "sleeping" ELSE "counting"
  /\ UNCHANGED <<store, control, backoff, sleep_owed, round, debt, beside, bounds>>

\* Cancelled, paused, or owing a sleep: in this order.
Top ==
  /\ loop = "top" /\ ~cancelled
  /\ loop' = IF paused THEN "quiet"
             ELSE IF sleep_owed /\ backoff # 0 THEN "sleeping" ELSE "counting"
  /\ UNCHANGED <<store, control, backoff, sleep_owed, round, debt, beside, bounds>>

\* The process is gone, with its flags, what the loop owed and what the indexer had
\* yet to announce.
Gone ==
  /\ loop' = "stopped"
  /\ paused' = FALSE /\ wake' = FALSE /\ cancelled' = FALSE
  /\ backoff' = 0 /\ sleep_owed' = FALSE /\ debt' = FALSE
  /\ round' = NoRound
  /\ news' = {} /\ announced' = {}

Finish ==
  /\ loop = "top" /\ cancelled
  /\ Gone
  /\ UNCHANGED <<store, mda_index, overlap, bounds>>

\* Nothing to do, or paused: the loop begins to wait.
Wait ==
  /\ loop = "quiet"
  /\ loop' = "waiting"
  /\ UNCHANGED <<store, control, backoff, sleep_owed, round, debt, beside, bounds>>

\* wait_wake_or: a notification, whose permit is taken; or the poll or a cancel,
\* which leave a permit that is stored.
Woken ==
  /\ loop = "waiting"
  /\ loop' = "top"
  /\ wake' \in {FALSE, wake}
  /\ UNCHANGED <<store, paused, cancelled, backoff, sleep_owed, round, debt, beside, bounds>>

\* Mutant: the sleep stays owed.
MutSleepOver ==
  /\ loop = "sleeping"
  /\ loop' = "top"
  /\ debt' = FALSE
  /\ UNCHANGED <<store, control, backoff, sleep_owed, round, beside, bounds>>

SleepOver ==
  /\ loop = "sleeping"
  /\ loop' = "top"
  /\ sleep_owed' = FALSE
  /\ debt' = FALSE
  /\ UNCHANGED <<store, control, backoff, round, beside, bounds>>

\* counts: nothing pending means waiting, with the back-off forgotten.
Count ==
  /\ loop = "counting"
  /\ IF Pending = {} THEN backoff' = 0 /\ loop' = "quiet"
     ELSE UNCHANGED backoff /\ loop' = "selecting"
  /\ announced' = {}
  /\ UNCHANGED <<store, control, sleep_owed, round, debt, news, mda_index, overlap, bounds>>

\* The store cannot be read.
CountFails ==
  /\ loop = "counting" /\ "outage" \in Kinds
  /\ backoff' = NextBackoff /\ sleep_owed' = TRUE
  /\ loop' = "top"
  /\ UNCHANGED <<store, control, round, debt, beside, bounds>>

-----------------------------------------------------------------------------
(* A round *)

\* Mutant: the cut is the round's size only.
MutCap == round_size

\* What select_round may submit.
Cap == Least(round_size, Affordable)

\* The heading-only sections among those pending get their card.
CardHeadingOnly ==
  summaries' = [h \in Hashes |->
                  IF h \in Pending \cap HeadingOnly THEN "summarized" ELSE summaries[h]]

\* Of the rest, Cap are submitted.  The budget exhausted the round only if it cut
\* more than round_size does.
Select(taken) ==
  /\ loop = "selecting"
  /\ LET rest == Pending \ HeadingOnly
     IN  /\ taken \subseteq rest
         /\ Cardinality(taken) = Least(Cap, Cardinality(rest))
         /\ round' = [NoRound EXCEPT
                        !.queued = taken, !.submitted = Cardinality(taken),
                        !.exhausted = Affordable < Least(round_size, Cardinality(rest))]
  /\ CardHeadingOnly
  /\ loop' = "round"
  /\ shared' = index_todo \cap (shared \cup taken)
  /\ together' = (together \/ (taken # {} /\ index_todo # {}))
  /\ UNCHANGED <<carried, spent, control, backoff, sleep_owed, debt, hearing, mda_index, bounds>>

\* The pool starts a call; it does so until the token is cancelled.
Call(h) ==
  /\ loop = "round" /\ h \in round.queued /\ ~cancelled
  /\ round' = [round EXCEPT !.queued = @ \ {h}, !.calling = @ \cup {h}]
  /\ UNCHANGED <<store, control, loop, backoff, sleep_owed, debt, beside, bounds>>

\* The pool reports a job whose calls are over.
Report(h, kind, cost) ==
  /\ loop = "round" /\ h \in round.calling
  /\ round' = [round EXCEPT !.calling = @ \ {h}, !.results = @ \cup {<<h, kind, cost>>}]
  /\ UNCHANGED <<store, control, loop, backoff, sleep_owed, debt, beside, bounds>>

\* The pool reports a job it did not start or cut off: after a cancel, or after
\* another job's pool-stopping result.  Its cost is that of its earlier attempts.
Cut(h, cost) ==
  /\ loop = "round" /\ h \in round.queued \cup round.calling
  /\ cancelled \/ "pool_stop" \in Kinds
  /\ h \in round.queued => cost = 0
  /\ round' = [round EXCEPT !.queued = @ \ {h}, !.calling = @ \ {h},
                            !.results = @ \cup {<<h, "pool_stop", cost>>}]
  /\ UNCHANGED <<store, control, loop, backoff, sleep_owed, debt, beside, bounds>>

\* attach_summary and mark_failed act on a hash that is not settled yet.
Settled(h, kind) ==
  CASE kind = "card" -> "summarized"
    [] kind \in {"bad_answer", "outage"} /\ summaries[h] = "pending" -> "failed"
    [] OTHER -> summaries[h]

\* apply: the ledger (record_usage, whatever the result), then the section.
Apply(r) ==
  /\ loop = "round" /\ r \in round.results
  /\ spent' = spent + r[3]
  /\ summaries' = [summaries EXCEPT ![r[1]] = Settled(r[1], r[2])]
  /\ round' = [round EXCEPT !.results = @ \ {r}, !.ok = IF r[2] = "card" THEN @ + 1 ELSE @]
  /\ UNCHANGED <<carried, control, loop, backoff, sleep_owed, debt, beside, bounds>>

\* Mutant: a round in which nothing worked is followed by the next at once.
MutRoundDone ==
  /\ loop = "round"
  /\ round.queued \cup round.calling = {} /\ round.results = {}
  /\ LET nothing_worked == round.submitted > 0 /\ round.ok = 0
     IN  /\ debt' = (round.exhausted \/ nothing_worked)
         /\ backoff' = IF round.exhausted THEN BackoffLevels + 1 ELSE 0
         /\ sleep_owed' = (sleep_owed \/ round.exhausted)
  /\ round' = NoRound
  /\ loop' = "top"
  /\ UNCHANGED <<store, control, beside, bounds>>

\* All applied.  The loop backs off when the budget cut the round (for the
\* budget_pause, longer than any back-off), or when nothing worked.
RoundDone ==
  /\ loop = "round"
  /\ round.queued \cup round.calling = {} /\ round.results = {}
  /\ LET nothing_worked == round.submitted > 0 /\ round.ok = 0
     IN  /\ debt' = (round.exhausted \/ nothing_worked)
         /\ backoff' = IF round.exhausted THEN BackoffLevels + 1
                       ELSE IF nothing_worked THEN NextBackoff ELSE 0
         /\ sleep_owed' = (sleep_owed \/ round.exhausted \/ nothing_worked)
  /\ round' = NoRound
  /\ loop' = "top"
  /\ UNCHANGED <<store, control, beside, bounds>>

\* Where a result's application stops half way: its cost is booked, the section
\* untouched.
HalfApplied == {spent} \cup {spent + r[3] : r \in round.results}

\* A store error while selecting (some heading-only sections may have their card)
\* or applying ends the round: the pool is dropped with its calls, and results
\* not applied yet are lost.
RoundFails ==
  /\ "outage" \in Kinds
  /\ \/ /\ loop = "selecting"
        /\ \E carded \in SUBSET (Pending \cap HeadingOnly) :
             summaries' = [h \in Hashes |->
                             IF h \in carded THEN "summarized" ELSE summaries[h]]
        /\ UNCHANGED spent
     \/ /\ loop = "round" /\ round.results # {}
        /\ spent' \in HalfApplied
        /\ UNCHANGED summaries
  /\ backoff' = NextBackoff /\ sleep_owed' = TRUE /\ debt' = TRUE
  /\ round' = NoRound
  /\ loop' = "top"
  /\ UNCHANGED <<carried, control, beside, bounds>>

-----------------------------------------------------------------------------
(* `mda index` beside the daemon *)

Change == changes < MaxChanges /\ changes' = changes + 1 /\ UNCHANGED stops

\* is_running: no daemon answers.  It is not asked again.
IndexStarts ==
  /\ Change
  /\ loop = "stopped" \/ cancelled
  /\ ~index_due /\ index_todo = {}
  /\ index_due' = TRUE
  /\ UNCHANGED <<store, control, loop, backoff, sleep_owed, round, debt, hearing, index_todo,
                 overlap>>

\* It takes what --limit and the budget leave of what is pending now.
IndexSelects(taken) ==
  /\ index_due
  /\ taken \subseteq Pending \ HeadingOnly
  /\ Cardinality(taken) <= Affordable
  /\ CardHeadingOnly
  /\ index_due' = FALSE /\ index_todo' = taken
  /\ shared' = Outstanding \cap (shared \cup taken)
  /\ together' = (together \/ (taken # {} /\ Outstanding # {}))
  /\ UNCHANGED <<carried, spent, control, loop, backoff, sleep_owed, round, debt, hearing, bounds>>

\* A result is booked and applied as in Apply.
IndexSettles(h, kind, cost) ==
  /\ h \in index_todo
  /\ spent' = spent + cost
  /\ summaries' = [summaries EXCEPT ![h] = Settled(h, kind)]
  /\ index_todo' = index_todo \ {h}
  /\ UNCHANGED <<carried, control, loop, backoff, sleep_owed, round, debt, hearing, index_due,
                 overlap, bounds>>

\* It ends or is killed.
IndexEnds ==
  /\ index_due \/ index_todo # {}
  /\ index_due' = FALSE /\ index_todo' = {}
  /\ UNCHANGED <<store, control, loop, backoff, sleep_owed, round, debt, hearing, overlap, bounds>>

-----------------------------------------------------------------------------
(* Everybody else *)

\* A section is written, by the daemon's indexer or another process.  A hash never
\* seen before is pending, and news to the indexer that wrote it.
Appear(h, own) ==
  /\ Change
  /\ h \notin carried
  /\ own => loop # "stopped"
  /\ carried' = carried \cup {h}
  /\ IF summaries[h] = "none"
     THEN /\ summaries' = [summaries EXCEPT ![h] = "pending"]
          /\ news' = IF own THEN news \cup {h} ELSE news
     ELSE UNCHANGED <<summaries, news>>
  /\ UNCHANGED <<spent, control, loop, backoff, sleep_owed, round, debt, announced, mda_index,
                 overlap>>

\* Mutant: only a task that already waits is told (notify_waiters).
MutAnnounce ==
  /\ loop # "stopped"
  /\ wake' = (wake \/ loop = "waiting")
  /\ news' = {} /\ announced' = announced \cup news
  /\ UNCHANGED <<store, paused, cancelled, loop, backoff, sleep_owed, round, debt, mda_index,
                 overlap, bounds>>

\* The indexer's batch, request or rescan is over: notify_one stores one permit.
Announce ==
  /\ loop # "stopped"
  /\ wake' = TRUE
  /\ news' = {} /\ announced' = announced \cup news
  /\ UNCHANGED <<store, paused, cancelled, loop, backoff, sleep_owed, round, debt, mda_index,
                 overlap, bounds>>

\* A rescan that fails half-way announces nothing.
RescanFails ==
  /\ news # {} /\ "outage" \in Kinds
  /\ news' = {}
  /\ UNCHANGED <<store, control, loop, backoff, sleep_owed, round, debt, announced, mda_index,
                 overlap, bounds>>

Vanish(h) ==
  /\ Change
  /\ h \in carried
  /\ carried' = carried \ {h}
  /\ UNCHANGED <<summaries, spent, control, loop, backoff, sleep_owed, round, debt, beside>>

\* `mda index --retry-failed`
RetryFailed ==
  /\ Change
  /\ \E h \in Hashes : summaries[h] = "failed"
  /\ summaries' = [h \in Hashes |-> IF summaries[h] = "failed" THEN "pending" ELSE summaries[h]]
  /\ UNCHANGED <<carried, spent, control, loop, backoff, sleep_owed, round, debt, beside>>

Midnight ==
  /\ spent > 0
  /\ spent' = 0
  /\ together' = (Outstanding # {} /\ index_todo # {})
  /\ UNCHANGED <<summaries, carried, control, loop, backoff, sleep_owed, round, debt, hearing,
                 mda_index, shared, bounds>>

Pause ==
  /\ loop # "stopped" /\ ~paused
  /\ paused' = TRUE
  /\ UNCHANGED <<store, wake, cancelled, loop, backoff, sleep_owed, round, debt, beside, bounds>>

Resume ==
  /\ paused
  /\ paused' = FALSE
  /\ wake' = TRUE
  /\ UNCHANGED <<store, cancelled, loop, backoff, sleep_owed, round, debt, beside, bounds>>

Stop ==
  /\ loop # "stopped" /\ ~cancelled /\ stops < MaxStops
  /\ cancelled' = TRUE
  /\ stops' = stops + 1
  /\ UNCHANGED <<store, paused, wake, loop, backoff, sleep_owed, round, debt, beside, changes>>

Crash ==
  /\ loop # "stopped" /\ stops < MaxStops
  /\ Gone
  /\ stops' = stops + 1
  /\ spent' \in HalfApplied
  /\ UNCHANGED <<summaries, carried, mda_index, overlap, changes>>

\* A new daemon, with fresh flags.
Restart ==
  /\ loop = "stopped"
  /\ loop' = "top"
  /\ UNCHANGED <<store, control, backoff, sleep_owed, round, debt, beside, bounds>>

-----------------------------------------------------------------------------

\* A daemon that has just started over whatever an earlier one left.
Init ==
  /\ carried = {}
  /\ summaries = [h \in Hashes |-> "none"]
  /\ spent = 0
  /\ paused = FALSE /\ wake = FALSE /\ cancelled = FALSE
  /\ loop = "top"
  /\ backoff = 0 /\ sleep_owed = FALSE
  /\ round = NoRound
  /\ debt = FALSE
  /\ news = {} /\ announced = {}
  /\ index_due = FALSE /\ index_todo = {}
  /\ shared = {} /\ together = FALSE
  /\ changes = 0 /\ stops = 0

\* What the pool does with a request.
Ask(h) ==
  \/ Call(h)
  \/ \E cost \in 0..MaxCost : Cut(h, cost) \/ \E kind \in Kinds : Report(h, kind, cost)

\* The task and the pool it waits for.
Work ==
  \/ Top \/ Finish \/ Wait \/ Woken \/ SleepOver \/ Count \/ CountFails
  \/ \E taken \in SUBSET Hashes : Select(taken)
  \/ \E h \in Hashes : Ask(h)
  \/ \E r \in round.results : Apply(r)
  \/ RoundDone \/ RoundFails

Index ==
  \/ IndexStarts \/ IndexEnds
  \/ \E taken \in SUBSET Hashes : IndexSelects(taken)
  \/ \E h \in Hashes, kind \in Kinds \cup {"pool_stop"}, cost \in 0..MaxCost :
       IndexSettles(h, kind, cost)

Others ==
  \/ \E h \in Hashes : Vanish(h) \/ \E own \in BOOLEAN : Appear(h, own)
  \/ Announce \/ RescanFails
  \/ RetryFailed \/ Midnight \/ Pause \/ Resume \/ Stop \/ Crash \/ Restart

Next == Work \/ Index \/ Others

Spec == Init /\ [][Next]_vars

\* The task is scheduled, its sleeps and the poll end, calls end; days pass.
Fairness == WF_vars(Work) /\ WF_vars(Midnight)

FairSpec == Spec /\ Fairness

-----------------------------------------------------------------------------
(* Correctness *)

Result == Hashes \X AllKinds \X (0..MaxCost)

Round == [queued : SUBSET Hashes, calling : SUBSET Hashes, results : SUBSET Result,
          submitted : Nat, ok : Nat, exhausted : BOOLEAN]

TypeOK ==
  /\ summaries \in [Hashes -> {"none", "pending", "summarized", "failed"}]
  /\ carried \subseteq Hashes
  /\ spent \in Nat
  /\ paused \in BOOLEAN /\ wake \in BOOLEAN /\ cancelled \in BOOLEAN
  /\ sleep_owed \in BOOLEAN /\ debt \in BOOLEAN
  /\ loop \in {"top", "quiet", "waiting", "sleeping", "counting", "selecting", "round", "stopped"}
  /\ backoff \in 0..(BackoffLevels + 1)
  /\ round \in Round
  /\ news \subseteq Hashes /\ announced \subseteq Hashes
  /\ index_due \in BOOLEAN /\ index_todo \subseteq Hashes
  /\ shared \subseteq Hashes /\ together \in BOOLEAN
  /\ changes \in 0..MaxChanges /\ stops \in 0..MaxStops

\* A section is paid for twice only by two summarizers that had it in hand at once:
\* everything else that one still has to ask, is asking or has to apply is pending in
\* the store, however long ago it was read and whoever else writes.
AsksPendingOnly ==
  \A h \in (Outstanding \cup index_todo) \ shared : summaries[h] = "pending"

\* While no request costs more than its estimate, the day's budget is kept; on a day
\* on which two summarizers had sections in hand at once, twice the budget is.
BudgetKept ==
  MaxCost <= Estimate =>
    spent <= IF together THEN 2 * daily_token_budget ELSE daily_token_budget

\* No wake-up is lost: a task that waits has counted all that was announced, or is about
\* to be woken, wherever in the loop it was when the sections were written and announced.
NewsIsHeard == (loop = "waiting" /\ ~paused /\ announced # {}) => wake

\* "Do not spin": after a round that the budget cut, that failed, or in which
\* nothing worked, the next one starts only after a sleep, whatever wake-ups,
\* pauses and resumes come in between.
NoSpin == loop \in {"counting", "selecting", "round"} => ~debt

\* A pause takes hold: at most the round in hand goes on.
PauseTakesHold == <>[](paused /\ loop # "stopped") => <>[](round = NoRound)

\* No result says that the pool was stopped.
Healthy == \A r \in round.results : r[2] # "pool_stop"

\* The store refuses a read or a write.
StoreFails == CountFails \/ RoundFails

\* Once nothing stops the pool and the store answers again, a daemon that is left running
\* settles every section there is, whatever rounds failed before.
Drains ==
  (/\ <>[](~paused /\ ~cancelled /\ loop # "stopped" /\ Healthy)
   /\ <>[][~StoreFails]_vars)
    => \A h \in Hashes : []<>(h \notin Pending)

\* "Only the model's answer or the validator can fail a section"
\* (docs/design/daemon.md, Summarizer).
FailedByAnswer ==
  \A h \in Hashes : (summaries[h] = "pending" /\ summaries'[h] = "failed") =>
    \E r \in round.results : r[1] = h /\ r[2] = "bad_answer"

OnlyAnswersFail == [][FailedByAnswer]_vars

=============================================================================
