# mda: a TLA+ development

`mda` (markdownattractor) watches a directory of Markdown files, keeps a SQLite
index of their sections, has a language model summarize each distinct section
once, embeds the cards, and answers searches.  The repository's Rust code lives
in two crates, `crates/mda-core` (the engine and the daemon) and
`crates/mda-cli` (commands, MCP server, benchmark).  The modules here are of two
kinds: state machines of the parts in which several things happen at once, or in
which a long sequence of ordinary calls has to keep two pieces of state in
agreement; and operators for the pure algorithms, checked over every small input.

## 1. Inventory

Paths are under `src/crates/`; `core` is `mda-core/src`, `cli` is `mda-cli/src`.

| Component | Source | State it keeps | Operations | Modelled by |
|---|---|---|---|---|
| Store | `core/store/mod.rs` | the tables `docs`, `sections`, `summaries`, `sections_raw_fts`, `cards_fts`, `events`, `embeddings`, `usage_log` | one transaction each: `upsert_document`, `tombstone`, `note_rename`, `attach_summary`, `mark_failed`, `retry_failed`, `put_embedding`, `delete_embeddings_not`, `record_usage` | `Store`, abstractly `KnowledgeIndex`; embeddings in `Embedder`, the ledger in `Summarizer` |
| Worker pool | `core/worker/pool.rs` | limit, in-flight count, streak, stop reason; per job its retries; the cancellation token | `Pool::run`, `Job::run`, `acquire_slot`, `classify`, `finish` | `Pool` |
| Indexer | `core/daemon/mod.rs` (`indexer_loop`, `apply_batch`, `rescan`), `core/daemon/watch.rs`, `core/pipeline.rs` | the debouncer's entries, the batch in hand; reads the file system, writes the store | hints, debouncing, batches with rename detection, rescans, `index` requests, `mda open` as a second writer | `Indexer` |
| Summarizer | `core/daemon/mod.rs` (`summarizer_loop`), `core/pipeline.rs` (`summarize_pending`, `select_round`, `apply`) | wake-up, pause and back-off, the round in hand, the day's budget | rounds, wake-ups, pause and resume, back-off, budget | `Summarizer` |
| Embedder | `core/embed.rs`, `core/pipeline.rs` (`embed_pending`), `cli/commands/rebuild.rs` | a cursor over the cards without a vector | batches: read, embed, put one by one; rebuild under another variant; dropping other models | `Embedder` |
| Lifecycle | `core/daemon/ipc.rs`, `core/daemon/mod.rs` (`run`), `cli/commands/{start,stop,index,watch,daemon}.rs` | lock, socket file, info and pid files, connection slots, the command queue | start, serve, relay, stop, drain, crash, restart, watch | `Lifecycle` |
| Search | `core/search.rs`, the read side of the store | none | lexical lists, OR fallback, vector list, filters, fusion, recency, explain, snippets | `Search` |
| Documents and queries | `core/pipeline.rs` (`open_section`, `stale`, `recent`), `core/store/mod.rs` | none of their own | open, stale, recent, counts, coverage | `Documents` |
| Planner and requests | `core/planner.rs`, `core/pipeline.rs` | none | `chunk_text`, `request_for`, heading-only sections | `Requests` |
| Validation and cards | `core/validate.rs`, `core/card.rs` | none | grounding, caps, dates | `Cards` |
| Backends | `core/worker/{api,local,claude_cli,http,parse,unavailable}.rs` | none | one call, classified; `doctor`'s checks | `Backends` |
| Evaluation harness | `core/eval/*.rs`, `cli/commands/eval.rs` | result files | data set, page ranking, grading; paired comparison; the T2 and T5 gates; the command's modes | `Docsqa`, `Analyses`, `EvalCommand` |
| Control protocol, MCP | `core/daemon/ipc.rs`, `core/mcp.rs` | none | line protocol; read tools | connections in `Lifecycle`; the MCP server is not modelled |
| Section delta | `core/diff.rs` | none | multiset diff | not modelled |
| Markdown, parser, walk | `core/markdown/mod.rs`, `core/walk.rs` | none | sections of a text, discoverable files | not modelled: a content and its section hashes are given |
| Config, clock, diagnostics | `core/config.rs`, `core/clock.rs`, `cli/commands/diagnostics.rs` | none | limits, time, reports | not modelled: constants |
| Commands | the rest of `cli` | none | argument parsing, rendering | not modelled |

How they interact.  The watcher sends path hints to the indexer task, which
debounces them and applies a batch through an `Engine` of its own; new pending
hashes wake the summarizer task, which has another `Engine` on the same SQLite
file, runs rounds through a `Pool` whose calls go to a backend, validates the
answers, and embeds the cards afterwards.  The control socket sends commands to
the indexer (`index`, `rescan`) and flags to the summarizer (`pause`, `resume`,
`stop`).  Commands in other processes (`mda open`, `mda index`, `mda rebuild`)
open the same file.  SQLite's immediate transactions are the only mutual
exclusion between the writers; what a writer read before its transaction may
have changed.  The lock file is the only mutual exclusion between daemons.

What is hard: file reads and the transactions that use them are separate steps;
hints are lost, coalesced and late; rowids of SQLite are handed out again, and
two full-text tables are keyed by them; a model's answer arrives when the
section may be gone, or settled by another process; calls end in any order, are
retried, rate limited or cut off by a cancel; the summarizer sleeps and must be
woken; a daemon is told to stop while clients fill its slots; files of a daemon
that starts, drains or crashed look alike to a command; and the pure algorithms
filter, cut and cap in an order that decides what is answered.  `PROJECT.json`
lists each of these at its line.

## 2. Modules

| Module | What it is |
|---|---|
| `Store` | the tables and every transaction that writes them |
| `KnowledgeIndex` | what the store promises readers, without tables |
| `StoreRefinement` | the refinement mapping from `Store` to `KnowledgeIndex`, and the replay of the timeline |
| `Pool` | one call of `Pool::run`: the loop, the jobs, cancellation |
| `Indexer` | the watcher, debouncer, batches, rescans, `mda open` |
| `Summarizer` | the summarizer loop and the round it runs |
| `Embedder` | the daemon's embedding passes beside `mda rebuild --embeddings` |
| `Lifecycle` | daemon processes of one root and the commands around them |
| `Search`, `Docsqa`, `EvalCommand` | search; the page benchmark on top of it; the command on top of both |
| `Analyses` | the statistics of the harness |
| `Documents`, `Requests`, `Cards`, `Backends` | the algorithms of a document's reads, a request, a card, a call |
| `Orders` | sorting, filtering, first occurrences and truncation, for `Search`, `Docsqa` and `Documents` |
| `StoreProofs`, `PoolProofs`, `IndexerProofs`, `SummarizerProofs`, `EmbedderProofs`, `LifecycleProofs` | theorems about the state machine of that name, and their proofs (`StoreProofs` has the refinement too) |
| `SearchProofs` | theorems about queries and data sets: `Orders`, `Search`, `Docsqa` |
| `AlgorithmProofs` | theorems about the other algorithms: `Backends`, `Documents`, `Requests`, `Analyses` |
| `MCStore`, `MCPool`, `MCIndexer`, `MCSummarizer`, `MCEmbedder`, `MCLifecycle`, `MCAlgorithms` | instances for TLC |

Definitions keep the names of the code where they can (`AttachSummary` is
`attach_summary`, `concurrency` is `PoolStats::concurrency`).  Definitions that
begin with `Mut` are deliberate mistakes: each is a variant of the definition
after it that a property must tell apart from the original.  They are not part
of any specification.

### Store

One action per writing method of `store/mod.rs`.  Each method opens an
immediate transaction and commits at its end, so a method is one step no matter
which process calls it, and calls of several processes interleave freely.  A
table is a function from its key to a row; the full-text tables are keyed by
the rowids of `sections`, which are handed out again after a delete
(`Placements` gives a new row any free rowid).  A document's content is one
value, and `SectionsOf` gives the hashes of its sections in order.  The
timeline `events` is a sequence of the event sets that transactions wrote.

`KnowledgeIndex` has four variables: the live documents' contents, the cards,
and all that raw and card search can return.  `StoreRefinement` computes the
last two from the two full-text tables only, so the refinement says that a
search, at any time, sees whole documents and each bought card at all of its
places.

### Pool

`loop` is where `Pool::run` stands (`fill`, `drain`, `join`), and `job[j].phase`
where the task of request `j` stands.  A step is what a task does between two
points where another thread can get in: a lock, an await, a notification.
`acquire_slot` is three steps (`Begin`/`Recheck` register with the `Notify`,
`Admit`/`Park` check under the lock, `Recheck` after the wake-up), because the
comment in the code claims that a release between check and wait is not missed.
`Slot::drop` is two steps: the counter, then the notification (`Wake`).  A
pool-stopping answer writes the stop reason and then cancels the token, in two
steps.  When a call ends and the token is cancelled, either branch of `select!`
may win, so `Answer` and `StopCall` are both enabled.

### Indexer

`disk` is what users edit at any moment.  The indexer task's work on one path
is split where the code asks the file system or the store: `Judge`
(`symlink_metadata` and the stored hash), `Read`, `Compare`, `Write` or
`Tombstone`.  `task` is the batch or rescan in hand, with the lists that
`apply_batch` and `index_root` hold in local variables.  `hints` and `held` are
the channel and the debouncer.  The watcher either hints at the changed paths
or loses the event and hints at the root.  `OpenRead`/`OpenWrite` are `mda
open`, which reads, compares and writes from another process.

Errors are part of every step.  `apply_batch` logs an error and drops the path
(`Fail`, `Err`), `Partition` takes a file that cannot be stat'ed for missing, a
rename that cannot be recorded falls back to a sync, `Walk` skips what it cannot
read, and `RescanFails` ends a rescan half-way; nobody retries.  The history
variable `failed` has the paths whose last batch, walk or request met an error.
Rule changes are of two kinds (`SetRules`): a file the watcher knows
(`.gitignore`, `.ignore`, `.markdownattractorignore`) gives a rescan hint; one
under `.git` (`.git/info/exclude`) does not, since `classify` drops everything
there, although the walk goes by it.  `unheard` has the paths whose rules changed
that way since the last walk, and those a failed rescan left out.  The patterns of
the configuration are read when an engine is opened, and are fixed here.

`NothingForgotten` and `Converges` except the paths in `failed` and `unheard`, and
no others: an error or a silent rule costs its own path a look, and no order of
events makes it cost another's.  A path in `failed` is healed by its next hint or
request, all of them by the next rescan or start that meets no error; the code has
no timer that would bring one about, so the properties do not promise it.

### Summarizer

The states of `loop` are the points of `summarizer_loop`; `round` is what
`summarize_pending` holds: the requests not started, those being called, and
the results not applied.  The pool is abstracted to what `Pool`'s properties
guarantee: each request gets one result, and a cancelled pool starts no call.
`Apply` is `apply`, in any order of results.  The other actions are what the
indexer, clients, `mda index --retry-failed`, midnight, a stop, a crash and a
restart do meanwhile.  `debt` is a history variable: a bad round has ended and
nothing was slept since.

A wake-up takes three steps, as in the code: the indexer writes sections
(`Appear`, remembered in `news`, its local `wake` or `new_hashes`), announces them
when its batch, request or rescan is over (`Announce`, `notify_one`, which stores
one permit), and the loop takes the permit only where it waits.  Between `Count`
and the wait there is a step (`quiet`), into which an announcement may fall.

`mda index` in another process is the second summarizer.  `IndexStarts` is its
one look for a daemon, which finds none that answers; `IndexSelects` reads what is
pending and cuts it to the budget; `IndexSettles` books and applies one result;
`IndexEnds` is its end or a Ctrl-C.  A daemon may start, or may still drain, in
between, so both can have the same section in hand and both then pay: the history
variable `shared` has the sections both had in hand at once, `together` says that
this happened today.  `docs/design/commands.md:20` says that `index` never
"summarizes a hash twice"; the code keeps that only for one summarizer at a time,
and `AsksPendingOnly` and `BudgetKept` say exactly this, for a daemon and one
`mda index` at a time.

### Embedder

`run[a]` is where the daemon's or the rebuild's pass stands: `Fetch` reads the
next batch behind the cursor, `Embed` is one call of the model, `Put` stores one
vector, `Count` decides whether another step follows.  A vector remembers the
text it was made of, so that `VectorsOfTheirCards` can compare it with what its
model id promises.  Cards are attached, sections go and return, the model fails
or answers with too few vectors, and the rebuild may drop the daemon's vectors.

### Lifecycle

`pc` is the place of each process in `daemon::run`; `lock`, `socket`, `files`
are what the file system holds; a client has its place in its command (`at`),
its connection as the daemon sees it (`conn`) and what its request came back
with (`reply`).  The server accepts one connection per slot, a handler reads,
relays or answers in steps of its own, and the indexer answers relayed commands.
A Ping or a request may time out at the client while the daemon goes on with it.
A daemon may crash anywhere.  The two tasks are reduced to whether they live and
whether a call is in flight.

### The algorithms

`Search` gives ranks for SQLite's BM25 and for cosines; everything after them
(candidate depth, filters, OR fallback, reciprocal-rank fusion, recency, the cut)
is the code's.  `Orders` writes a `sort_by` as the sequence in which the n-th
element has n - 1 elements before it, and a `filter`, `retain` or `dedup` as the
sequence of the elements at a set of positions: what they return can then be
read off cardinalities, without an induction.  `Docsqa` calls it in the fetch loop of `evaluate`, as
`EvalCommand` calls `Docsqa`.  `Analyses` takes the bootstrap's resamples as a
constant operator `Stream`, since they are draws of an external generator.
`Cards` keeps UTF-8 widths, because the code cuts strings at byte offsets; what is
a blank, a digit, a lower case and a width are constants, of which
`TextAssumption` says what the proofs need (lower case is idempotent and blank
only where the letter is; a digit is one byte and no blank).
`Requests` keeps the kind of each line (heading, blank, two fences, text) and its
length.  `MCAlgorithms` reads fences on its own, as Markdown does (`OpenFence`: a
fence is closed by a line of its own kind), and `CutsAreClean` compares the
planner's cut with the clean boundaries found that way.  `Backends` maps what a transport returned to the `Outcome` the pool
gets.  `Documents` relates a stored document to the file on disk.  In
`MCAlgorithms` a behaviour picks one input of one algorithm, in two steps, and
stops; each property speaks of the inputs of its own algorithm.  What the
backends have in common (`JudgedAlike`) is stated in `Backends` for any reply,
and checked by the run for the replies it enumerates; the width of the generator
(`U64MAX`) and the prices (`Prices`) are constants, so that the theorems hold for
the real ones.

## 3. Runs

| Run | Instance | What it shows |
|---|---|---|
| `store` | 2 paths, 2 hashes, 4 contents, 2 cards, 4 rowids, 4 timeline transactions | both indexes exact, foreign keys, rows are content, cards kept, the timeline replays to the live documents and their history; `Store` implements `KnowledgeIndex` |
| `pool` | 2 requests, limit 2, window 1, a retry, a back-off step, an escalation; every kind of answer | one report per request, exact in-flight count, limits, no lost wake-up, honest stop reasons, calls within their allowance, usage adds up; the run returns |
| `pool_stop` | 3 requests, limit 2 of 3 | finding 2 |
| `indexer` | 2 paths, 2 contents, 2 changes by users (edits, moves, watched and unwatched rules), 1 error or crash | no path is forgotten but those an error or an unheard rule cost their look, and the index converges on the others |
| `indexer_open` | as `indexer`, with one `mda open` and no error or crash | finding 1 |
| `summarizer` | 3 hashes (one heading-only), round of 2, budget for 1, 3 changes by others (an `mda index` counts as one), 1 stop or crash, store errors | paid twice only by two summarizers at once, the budget, no lost wake-up, no spinning; a pause takes hold; sections are settled |
| `summarizer_outage` | as `summarizer`, 4 changes | finding 3 |
| `lifecycle` | 2 daemons, 3 terminals in 4 mixes of commands, 1 slot, a queue of 1, 1 crash or failed start | one daemon works, the pid file is true, replies are true, "stopped" means no call in flight; a daemon told to stop goes |
| `lifecycle_stop` | as `lifecycle`, two stops, no fault | finding 4 |
| `embedder` | 3 cards, batches of 2, 1 model error, 2 edits | vectors are of their cards and texts; a card that stays gets one |
| `algorithms` | every input of the sets in `MCAlgorithms` (396 932 states) | search answers with all eligible matches, `explain` agrees, short rankings are complete, one population for all arms, failures count, pairs are by question, kept answers are grounded, reads agree with the file, cuts are clean, trouble is judged alike |
| `validate_iso` | as `algorithms` | finding 5 |

Why the bounds are enough.  Store: the contents include one that repeats a hash
and two with the same sections; four timeline transactions allow create,
delete, restore and rename of the same path with any number of silent rewrites
and retries in between; four rowids make reuse inevitable.  Pool: two jobs run
under a limit of two that a rate limit halves to one, so that a job waits while
more calls run than the limit allows, and an answer that widens the limit again
finds a waiter to wake; every answer and every kind of retry is there.  What
more jobs would add is proved for any number of them (section 6), except
`RunReturns`.  Indexer: two paths are a rename, two edits put
one before or during a batch and one after; two contents of different size are
a growing file; the one fault is an error at any step or a crash between any two.
Summarizer: with two ordinary sections one can be asked while the other vanishes,
fails or is retried, a budget for one section is exhausted inside a round, three
changes bring in two sections and an `mda index` that meets the daemon's round,
and one stop or crash falls between any two steps, which is also what lets an
`mda index` find no daemon.  Lifecycle: a restart spawns
the second daemon while the first drains, a second stop finds the first one
draining, a watcher takes the only slot, and the relayed command of `mda index`
fills the queue.  Embedder: three cards make a full and a partial batch, and the
three differ in which parts of a card are empty.  Algorithms: three sections in
two pages with two hashes are enough for a page with two hits, a card that stands
for two sections, and a cut between them; the other sets are given where they are
defined.  All counters are bounded by a named constant, and each bound
is in the guard of the action it limits.

Deadlock is checked in the pool and summarizer runs (a returned pool stutters
by a step of its own).  Elsewhere the system may be at rest: a store nobody
writes, an indexer with nothing to do, commands that are all done, a picked input.

## 4. Fairness

* `Pool`: weak fairness for the run loop and for each task.  The runtime polls
  every task that can go on; a backend call ends, since every backend has a
  timeout; a back-off sleep ends.  Nobody is obliged to cancel.
* `Indexer`: weak fairness for the task's own work; strong fairness for taking
  in each hint and releasing the debouncer, because `select!` picks fairly
  among ready branches but a client request may take the task away in between.
  Users, clients, errors, crashes and restarts have none: `Converges` assumes a
  daemon that stays up, and promises nothing of the paths it gave up on.
* `Summarizer`: weak fairness for the loop with its pool, and for midnight.
  `Drains` assumes that from some time on the daemon is neither paused nor
  stopped, no result says that the pool was, and the store answers.  The idle poll
  alone would make `Drains` true; that no wake-up is lost, and nobody waits for the
  poll, is the invariant `NewsIsHeard`.  The indexer is not obliged to announce.
* `Lifecycle`: weak fairness, for each process, for its own steps from the lock
  to the exit, the end of a call and the end of its two tasks.  No client, and
  nothing a client waits for, is obliged to do anything: `DaemonStops` holds
  against clients that never read, never hang up and never give their slot back.
* `Embedder`: weak fairness for the daemon coming back to its pass (it does at
  every poll) and for each pass that has begun.

## 5. Findings

1. `mda open` can overwrite a newer index entry.  `open_section` reads and
   parses the file, and `index_parsed` compares and writes later, from another
   process than the daemon.  Nothing in the transaction checks that the row is
   still the one that was compared with.  If the daemon indexes a newer version
   in between, the older text is stored, no hint is due, and the index is wrong
   until the next edit or rescan.  `docs/design/daemon.md:36` calls this safe.
   (`indexer_open`)
2. A stop drops the calls in flight, while `ipc.rs:51` says they finish and are
   recorded.  (`pool_stop`)
3. An outage that outlives the retries marks sections failed, while
   `docs/design/daemon.md:29` says that only an answer or the validator can.
   (`summarizer_outage`)
4. `mda stop` removes the files of a live daemon: of one that took the lock
   after the Ping failed, and of one that is draining, whose listener is dropped
   before its tasks end.  A first `mda stop` that waits for the pid file then
   says "stopped" with calls in flight.  `stop.rs:32` says that a dead socket
   means that the daemon is not there.  (`lifecycle_stop`)
5. `is_year_month` and `is_calendar_day` slice a string at byte 4 after
   comparing only its length in bytes: a date of 7 or 10 bytes with a character
   across byte 4 panics, where `validate.rs:181` says it is rejected.
   (`validate_iso`)

Met while reading, and not stated as runs:

* A pause takes effect between rounds: the round in hand still starts its
  remaining calls (`ipc.rs:53` speaks of no longer calling the model).
* Outcomes other than Ok and Malformed carry no usage, so a refused or
  budget-exhausted call that cost money is not charged, although
  `docs/design/summarization.md:89` counts failed attempts.
* A client error of a local server, such as an unknown model, fails each section
  instead of stopping the pool.
* `search.rs` promises that an excluded high-ranked hit never hides an eligible
  one.  It holds as long as the excluded matches fit the candidate depth;
  `ExcludedHitsHideNothing` states it without that premise.
* `planner.rs:4` says that a section is "never" cut "inside a fenced code block".
  Two cuts are.  Where no clean boundary fits, a prefix of the first line is kept,
  which can be the opening line of a fence, cut short itself; and the planner
  toggles "in a fence" at any fence line, so that a fence which shows a line of the
  other kind is taken to end there.  `CutsAreClean` says that the first happens only
  where no clean boundary fits, and for the second it assumes that no fence shows a
  fence line of the other kind (`FencesApart`).  A section whose only boundary is
  after its heading is sent as the heading alone.
* An edit of `.git/info/exclude` is not noticed while the daemon runs, until a
  rescan for another reason: the walk goes by it, the watcher ignores `.git`.  A
  path that met an error is not tried again by itself, either.
* `file_times` stats after the read: an edit in between stores the old text
  under the new time, and `stale` then trusts it; `open` still notices.
* A timed-out `stop` or `index` line is still carried out later.  A watcher that
  hangs up keeps its slot until the next event is sent.
* Two `mda index` processes, or one beside a daemon that starts after the check or
  still drains, both pay for the same pending sections, and each may spend the
  day's budget; the store keeps the first card.  `docs/design/commands.md:20` says
  that `index` never summarizes a hash twice.
* Vectors that are malformed or of another dimension are never made again, and
  an embedding's text takes the title and heading path of the lowest section
  with the hash and is not redone when that changes.
* Clipping a date to `max_chars` happens after it was grounded, and duplicates
  are removed before strings are clipped.

## 6. Proofs

`StoreProofs` proves, for all sets of paths, contents, hashes, cards and rowids
and timelines of any length, `TypeCorrect`, `KeysResolve`, `RawSearchExact`,
`CardSearchExact` and `CardsNeverLost`.  The only assumption is
`StoreAssumption`: contents have finite sequences of hashes, and NULL is no
card.  The inductive invariant is

    IInv == TypeOK /\ StateMatchesCard /\ ForeignKeys /\ RawIndexExact /\ CardIndexExact

`CardIndexExact` is not inductive by itself.  A rewrite copies the card of
each summarized hash into the new rows, so the state must say truly whether
there is a card (`StateMatchesCard`); attaching a card touches the rows that
carry the hash, and a new section row needs the hash's summaries row to exist
(`ForeignKeys`); and a rowid that is free in `sections` must be free in the
other two tables, or a new row would overwrite (`RawIndexExact`, and the domain
half of `CardIndexExact`).

The refinement and two more properties go on from `IInv`.

| Theorem | Property | Argument |
|---|---|---|
| `RowsFollowContent` | `RowsAreContent` | inductive with `IInv`: an upsert puts one row at each index of the new content, in free rowids, and takes the old rows of that document only |
| `StoreImplementsIndex` | `ImplementsKnowledgeIndex` | `Exact` says what the two full-text tables hold, in terms of live contents and cards; then each transaction is shown to be one step of `KnowledgeIndex` or a stutter |
| `TimelineIsComplete` | `TimelineReplays` | `TimelineInv`: there is a sequence of views, one after each recorded transaction, that agrees with `Replay` and ends in the `docs` table; each transaction that changes the table appends the events that say so (`StepTold`) |

`TimelineInv` avoids the recursive function of `TimelineReplays`: an existing
sequence of views is extended at its end, and only the last step shows that the
recursive function is that sequence.

`PoolProofs` proves, for every number of requests, every configuration that
`pool_bounds` can produce (`PoolAssumption`) and every answer of the backend,
all the safety properties that the run `pool` checks.  Each has its own inductive
invariant, all of them relative to

    Base == TypeOK /\ Queue /\ InFlightExact

The three parts of `Base` need each other: `in_flight - 1` is a natural number
because a running call is one of the calls counted (`InFlightExact`), a spawn
or a drain does not touch a running call because the jobs from `head` on are
the queued ones (`Queue`).  `BaseHolds` is proved first, with one lemma for the
steps of the loop and one for the steps of a task.

| Theorem | Property | Strengthened by |
|---|---|---|
| `PlacesAreGivenBack` | `InFlightExact` | `Base` |
| `LimitsHold` | `WithinLimits` | nothing: a spawn sees fewer active jobs than the limit, and nobody else adds one |
| `NoWakeupIsLost` | `NoLostWakeup` | `WithinLimits`: halving a limit of zero would raise it |
| `CallsAreAccounted` | `CallsAccounted` | `Allowance`: one call less while the job waits for its next one |
| `StopsNameTheirCause` | `StopNamesItsCause` | `Causes`: a cancelled token has a culprit, and the job that gave the reason keeps its answer |
| `EveryRequestReported` | `ReportedOnce` | `Tallied`: the counters are the number of settled jobs, and a returned loop has nothing active |
| `UsageIsConserved` | `UsageAddsUp` | `SpentAddsUp`: the counter is the sum of what the jobs spent, with a sum whose value on a set is fixed by adding one element at a time |

The last one needs induction over a finite set.  The induction theorems of the
library that take a predicate as an operator cannot be used, but the
well-foundedness of `<` on the naturals can be stated about a set: a set of
naturals that is not empty has a least element (`LeastNatural`), hence a set
that has 0 and is closed under successor is `Nat` (`SetInduction`), and the set
in question is named by a definition.

`IndexerProofs` proves `IndexerForgetsNothing` for any number of files and
ignore rules, any edits, lost events, errors and crashes, under the one hypothesis
`[]Alone`: nobody holds a text read by `mda open`.  With such an opener the
property is false, which is finding 1, so the hypothesis is the exact limit of
what the code achieves.  The inductive invariant adds four facts to
`NothingForgotten`: what stage may hold which lists (`Order`); that what a batch
or a walk believes of a path was so, and any change since is in the channel
(`Beliefs`); that the text in hand is the file's, or the path is noticed
(`InHand`); and that an indexed path that is ignored will be met by a walk
(`RulesApply`).  Each has the paths given up on as its one exception.  What the
theorem says of an error is that it costs the path it met and no other: the rest of
the batch, the walk and the renames go on as if it had not been.

`SummarizerProofs` proves, for every finite set of sections, every size of round,
budget and answer, any number of changes by others, and stops and crashes
anywhere (`SummarizerAssumption`), the four invariants of the run `summarizer`, on
top of `TypeCorrect`.

| Theorem | Property | Strengthened by |
|---|---|---|
| `NeverSpins` | `NoSpin` | `DebtSlept`: a debt comes with an owed sleep of a back-off that is not zero, at a place of the loop from which only the sleep leads to a round |
| `PaidOnce` | `AsksPendingOnly` | `Asked`: each request of a round is in one place and answered once (`OneResultEach`), what both summarizers have in hand is known to be shared (`BothShared`), and neither has a heading in hand, which is carded without a call (`BodiesOnly`) |
| `BudgetHolds` | `BudgetKept` | `Kept`: each summarizer's outstanding estimates fit the budget, and what is spent and all the estimates together fit it too, or twice the budget once both had sections in hand |
| `NewsHeard` | `NewsIsHeard` | `Heard`: the same from the moment the loop has decided to wait, when it does not wait yet |

`PaidOnce` is the exact limit of what the code achieves: settling a section makes
it not pending, and the only one it can be settled under is the other summarizer,
which then had it in hand at the same time.  `Kept` is why the budget needs
`OneResultEach`: a section answered twice would be settled twice and reserved
once.  A round that fails or a crash books at most one result more than it settles,
and drops the reservations of all the others; at midnight the ledger is empty, but
the sections in hand are still to be paid from the new day.

`EmbedderProofs` proves `VectorsAreTheirCards`, for any cards, any batch size,
failures, edits and a rebuild beside the daemon's pass.  The invariant pairs the
answer in hand with the cards of the batch, position by position (`Paired`), and
says that each stored vector was made by one of the two passes of the card it is
stored for (`Owned`); `put` takes the head of both sequences, which keeps the
pairs.

`LifecycleProofs` proves, for any number of processes and commands, crashes and
failed starts, `OneProcess` (`OneDaemonWorks`) and `FilesAreTrue`
(`FilesNameTheHolder`).  The inductive invariant says who may hold the lock
(`Locked`: exactly the process between acquire and drop), when a task may live
(`Working`: only while its process waits for it) and what the files may name
(`Described`: a process that wrote them and has not removed them).  The steps of
clients and of the server are shown first to leave lock and tasks alone
(`Around`), so that only the steps of `daemon::run` remain.

Two theorems about the commands rest on a second invariant, `CInv`, which adds
for each client: the open connection carries the request its command waits for
(`Asking`), a daemon that accepted it still runs or is on its way out (`Served`),
an `index` request is carried out once, while its answer is outstanding
(`Applied`), and a process that acknowledged a stop has started and, once its
files were seen to be gone, is past its work (`Stopping`).  About the daemons it
adds that the indexer's queue holds exactly the relayed requests, each once
(`Queued`), and that unless a stop swept them the files name the process that
works (`Named`).  From it follow `RepliesAreTruthful` (`RepliesAreTrue`) and
`StoppedLeavesNoCalls` (`StoppedMeansNoCalls`, an action property).  `Queued` is
what makes the first one provable: a request relayed twice would be carried out
once and answered twice.  `CommandAssumption` only says what the commands are.

`SearchProofs` is about queries and data sets, for every index, query, options and
data set that the types of the code allow (`IsIndex`, `IsOptions`, `IsDataset`).

| Theorem | What it says, for every input | Stated by the run as |
|---|---|---|
| `AnswersAreTheBest` | an answer is in the order of the scores, has no section twice, is no longer than k, and leaves no better candidate out | |
| `DeepListsMissNothing` | with lists as deep as the index, the candidates are the eligible matches: filters work before the choice of the OR form and before the cut | `EligibleMatchesAnswer` (`EligibleMatchesAnswered`) |
| `WinnersAreShown` | `explain` shows each winner in the lists it names and in no other | `ExplainShowsWinners` (`WinnersShown`) |
| `ShortAnswersAreWhole`, `ShortRankingsAreWhole` | a short answer has every match; a short page ranking that is not marked truncated has every page | `ShortRankingIsComplete` (`ShortRankingsComplete`) |
| `CoverageCountsTheEligible`, `LabelsChangeNobody`, `OneSetOfQuestions` | scorer, external arms, coverage and the sample speak of one set of questions, with pooled labels or without, and the holdout is in it only when it is opened | `OnePopulation` (`PopulationsAgree`) |

The argument rests on lemmas about `Orders`: a strict total order on a finite set
gives each element a place of its own, so `InOrder` is a bijection that respects
the order, and `Kept` has exactly the elements at its positions, in their order.
On them, a list that is shorter than its depth is the whole list
(`ShortAnswersAreWhole`), since one result more than fits would have made it
full.  The theorems that name a property of the run add an invariant that says
what the enumerated inputs are, and instantiate the general theorem.

`AlgorithmProofs` is about the other algorithms.

| Theorem | What it says, for every input | Stated by the run as |
|---|---|---|
| `EveryReplyIsJudged` | every reply of every backend is judged as the pool needs it | `TroubleIsJudgedAlike` (`TroubleIsJudged`) |
| `BelowIsFair` | `below` accepts each index equally often, for any width of the generator | part of `PairedByQuestion` |
| `LocateFindsContent` | the section that `open` picks is one of the file's, and has the wanted hash if any has | |
| `OpenReadsTheFile`, `OpenAgainIsTheSame` | an `open` that answers gives the file's text, leaves the index with it and nothing else changed, and its id opens the same again | `ReadsAgree` (`ReadsAgreed`) |
| `CountsAgree` | counts, `stale` and `recent` agree on whether everything has a card | `ReadsAgree` |
| `CutsStayClean` | a section is sent whole if it fits, and otherwise cut within the budget, with every missing line counted; if no fence of it shows a fence line of the other kind, at the last blank line outside every fence that fits, and by a prefix of the first line only where there is none | `CutsAreClean` (`CutsClean`) |
| `KeptCardsStay` | a card that `validate` accepts would be accepted again as it is, with nothing dropped or trimmed; every proposed name and date is kept, reported as dropped, or gave way to as many as fit | `KeptIsGrounded` (`KeptGrounded`) |

`open` returns lines `first` to `last` of the file, where the offsets are sums over
the sections before; `SectionLines` shows that these lines are the section's, for
a file of any number of sections.  Characters of a request are a sum over lines,
too (`CharsOfPrefix`).  Both sums are recursive functions; an existing function
with the same step is shown to be the one that the definition chooses, by looking
at the first place at which the two would differ (`FirstOfThem`), which is an
induction that needs no operator as a parameter.  In `BoundaryIsClean` the cut in
an open fence is the interesting case: the last blank line outside a fence lies
before the fence that is still open, so the two bounds that the code takes the
smaller of never disagree.  `TogglesAgree` relates the planner's toggle to
Markdown's reading of the fences, which `CutsAreClean` goes by.  `KeptCardsStay` is for any section, any alphabet that
`TextAssumption` allows, any caps and any answer whose strings are no longer than
the caps let them be; a longer one is cut after it was grounded, and then the
theorem would be false.  Its hard part is a date (`DateAgain`): `normalize_iso`
has rewritten its `iso`, and the rewritten one must be recognised again and left
alone.  A recognised date is solid (`DatesAreSolid`): digits and dashes, of as many
characters as bytes, so that nothing in it is trimmed, taken for a time or cut.
Trimming the raw text must not lose the year the `iso` is compared with
(`YearsTrim`), and the cap must be applied to a list that `dedupe` leaves alone the
second time (`CapList`).  `DocumentAssumption` says that an absent document is
no record and that the run's path is no error value.

The strengthened invariants of the pool were checked with TLC before they were
proved.  Only model-checked, and why:

* All liveness: `RunReturns`, `Converges`, `Drains`, `DaemonStops`,
  `CardsGetVectors` and the pause that takes hold.  Fairness and ENABLED are out
  of the prover's reach.
* `FailuresAreResults` and the order of files in `PairedByQuestion`: `Analyses`
  sorts numbers with `SortSeq`, whose result is a choice among permutations, and
  compares medians and percentiles of two such sorts.

## 7. Not modelled, and why

* Parsing, walking and rendering: text in, text out.  The models take a content
  and its section hashes, and the discoverable files, as given.
* `diff.rs`: its delta has no caller outside its tests.
* Request bodies, headers, pipes and the child process of a backend; the
  embedding model and its download.
* Scores: SQLite's BM25, the cosine of vectors and the draws of a bootstrap are
  numbers the models do not compute.
* Times: the debouncer's quiet period is a choice; modification times decide only
  what `stale` and `open` report (`Documents`).
* Schema migration, the ledger's per-day report, configuration, the clock, the
  MCP server and the commands that only render.
* The order in which a cut round takes sections (hot first, then smallest) is
  left open in `Summarizer`: any order is allowed.  So is `--limit` of `mda index`,
  of which one runs at a time.
* The configuration's `ignore` patterns are read once per engine and do not change;
  symbolic links and the hot set are left out of `Indexer`.
* `EvalCommand` states what the benchmark command does with `Docsqa` and with its
  files, and no run or theorem evaluates it: it is a description to read, and the
  properties are about `Docsqa`, which it extends, and `Analyses`.
* The `JoinError` arm of `Pool::run`: the release profile aborts on a panic.

## 8. Plan

Done: the modules and theorems above.  What is left, in this order:

1. What a sort of numbers returns, and with it `FailuresAreResults` and
   `PairedByQuestion`.
2. `Store` and `Summarizer` composed, so that the rounds of the two summarizers
   run over the tables themselves.
3. The section builder of `markdown/mod.rs` (a stack of headings over lines)
   against a reference definition.
