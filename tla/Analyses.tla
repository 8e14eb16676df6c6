------------------------------ MODULE Analyses ------------------------------
(***************************************************************************)
(* The statistics of the evaluation harness: the paired comparison         *)
(* (eval/paired.rs), the answer-quality analysis T2 (eval/analysis.rs) and *)
(* the replay analysis T5 (eval/replay.rs).                                *)
(*                                                                         *)
(* Numbers stay integers: medians are doubled, means are sums over a known *)
(* count, thresholds are fractions <<numerator, denominator>>. An optional *)
(* value is {} or {value}. A bootstrap is a stream: Stream(label, n) is    *)
(* the sequence of resamples of 1 .. n that one label's generator yields;  *)
(* a resample is a function 1 .. n -> 1 .. n.                              *)
(***************************************************************************)
EXTENDS Integers, Sequences, FiniteSets, SequencesExt, FiniteSetsExt

CONSTANTS
  Invalid, Panic,    \* the analysis is refused; the analysis panics
  U64MAX,            \* largest value of the generator
  TopRank,           \* a hit at this rank or better is a success: 5
  MIN_LOWER_BOUND,   \* <<-1, 4>>
  MIN_MEAN,          \* <<4, 1>>
  MIN_GROUNDING,     \* <<19, 20>>
  MIN_CORRECT_LOWER, \* <<-1, 20>>
  Stream(_, _)       \* the resamples of a label's generator

Each(s, F(_)) == [i \in DOMAIN s |-> F(s[i])]

Total(s) == FoldLeft(LAMBDA a, b : a + b, 0, s)

Given(s) == FlattenSeq(Each(s, LAMBDA o : SetToSeq(o)))

Count(s, P(_)) == Len(SelectSeq(s, P))

\* num / den >= the fraction f, for den > 0.
AtLeastFraction(num, den, f) == num * f[2] >= f[1] * den

Median2(values) ==
  LET s == SortSeq(values, <)
      n == Len(s)
  IN  IF n = 0 THEN {}
      ELSE IF n % 2 = 1 THEN {2 * s[(n + 1) \div 2]}
      ELSE {s[n \div 2] + s[n \div 2 + 1]}

OrZero(o) == IF o = {} THEN 0 ELSE CHOOSE v \in o : TRUE

------------------------------------------------------------------------------
(* The generator and the paired comparison. *)

\* below(n) draws again until the value lies under the largest multiple of n.
zone(n) == U64MAX - (U64MAX % n)

Accepted(n, index) == {v \in 0 .. U64MAX : v < zone(n) /\ v % n = index}

\* Nearest rank, q in thousandths.
percentile(sorted, q) ==
  LET rank == (Len(sorted) * q + 999) \div 1000
  IN  sorted[IF rank < 1 THEN 1 ELSE IF rank > Len(sorted) THEN Len(sorted) ELSE rank]

Interval(draws) ==
  LET s == SortSeq(draws, <)
  IN  [lower |-> percentile(s, 25), upper |-> percentile(s, 975)]

Resample(values, draw) == [i \in DOMAIN values |-> values[draw[i]]]

IdsOf(rows) == {rows[i].id : i \in DOMAIN rows}

Repeats(rows) == Cardinality(IdsOf(rows)) # Len(rows)

RowOf(rows, id) == rows[CHOOSE i \in DOMAIN rows : rows[i].id = id]

\* The two sides must score the same questions, each once.
Alignable(input) ==
  /\ ~Repeats(input.baseline) /\ ~Repeats(input.candidate)
  /\ IdsOf(input.baseline) = IdsOf(input.candidate) /\ input.baseline # <<>>

MutAlign(input) ==
  [i \in DOMAIN input.baseline |-> <<input.baseline[i].hit, input.candidate[i].hit>>]

\* Pairs <<baseline hit, candidate hit>> in the order of the ids.
align(input) ==
  Each(SetToSortSeq(IdsOf(input.baseline), <),
       LAMBDA id : <<RowOf(input.baseline, id).hit, RowOf(input.candidate, id).hit>>)

Delta(pair) == (IF pair[2] THEN 1 ELSE 0) - (IF pair[1] THEN 1 ELSE 0)

DeltaSum(pairs) == Total(Each(pairs, Delta))

ProjectReport(input, pairs, sums) ==
  LET wins   == Count(pairs, LAMBDA p : p[2] /\ ~p[1])
      losses == Count(pairs, LAMBDA p : p[1] /\ ~p[2])
  IN  [label |-> input.label, n |-> Len(pairs), delta |-> DeltaSum(pairs),
       baseline |-> Count(pairs, LAMBDA p : p[1]), candidate |-> Count(pairs, LAMBDA p : p[2]),
       wins |-> wins, losses |-> losses, ties |-> Len(pairs) - wins - losses, ci95 |-> Interval(sums)]

\* Draw d of the objective combines draw d of every project: each a mean over its own
\* questions, here over the common denominator of the projects' sizes.
compare(inputs, draws) ==
  LET aligned == Each(inputs, align)
      n(p)    == Len(aligned[p])
      common  == FoldLeft(LAMBDA a, b : a * b, 1, [p \in DOMAIN inputs |-> n(p)])
      Draw(p, d) == DeltaSum(Resample(aligned[p], Stream(inputs[p].label, n(p))[d]))
      Mean(F(_)) == Total([p \in DOMAIN inputs |-> F(p) * (common \div n(p))])
  IN  IF inputs = <<>> \/ draws < 2 \/ \E p \in DOMAIN inputs : ~Alignable(inputs[p]) THEN Invalid
      ELSE LET reports == [p \in DOMAIN inputs |->
                             ProjectReport(inputs[p], aligned[p], [d \in 1 .. draws |-> Draw(p, d)])]
           IN  [projects |-> reports, unit |-> common * Len(inputs),
                wins |-> Total(Each(reports, LAMBDA r : r.wins)),
                losses |-> Total(Each(reports, LAMBDA r : r.losses)),
                objective_baseline |-> Mean(LAMBDA p : reports[p].baseline),
                objective_candidate |-> Mean(LAMBDA p : reports[p].candidate),
                objective_delta |-> Mean(LAMBDA p : reports[p].delta),
                objective_ci95 |-> Interval([d \in 1 .. draws |-> Mean(LAMBDA p : Draw(p, d))])]

\* Archived rows: [id, rank, ndcg]; sums over the rows, reciprocal ranks in sixtieths.
InTop(row) == \E r \in row.rank : r <= TopRank

metric_means(rows) ==
  LET top == SelectSeq(rows, InTop)
  IN  [hits |-> Len(top), rr |-> Total(Each(top, LAMBDA r : 60 \div OrZero(r.rank))),
       ndcg |-> Total(Each(rows, LAMBDA r : r.ndcg))]

intervals(run, rows, draws) ==
  IF rows = <<>> \/ draws < 2 \/ Repeats(rows) THEN Invalid
  ELSE LET Over(f) == Interval([d \in 1 .. draws |->
                        metric_means(Resample(rows, Stream(run, Len(rows))[d]))[f]])
       IN  [run |-> run, n |-> Len(rows), means |-> metric_means(rows),
            ci95 |-> [f \in {"hits", "rr", "ndcg"} |-> Over(f)]]

\* A results file is a sequence of [run, results]; the first run of the name counts.
read_hits(file, run) ==
  LET named == SelectSeq(file, LAMBDA r : r.run = run)
  IN  IF named = <<>> THEN Invalid
      ELSE Each(named[1].results, LAMBDA r : [id |-> r.id, hit |-> InTop(r)])

------------------------------------------------------------------------------
(* What T2 and T5 share. A grade row is [id, arm, run, error, effort] plus *)
(* [score, grounded] or [correct, kind]; effort maps a measure to an       *)
(* option.                                                                 *)

Duplicate(rows) ==
  \E i, j \in DOMAIN rows : i # j /\ rows[i].id = rows[j].id /\ rows[i].arm = rows[j].arm
                                  /\ rows[i].run = rows[j].run

Unexpected(m, r) ==
  \/ ~Contains(m.question_ids, r.id)
  \/ ~Contains(m.arms, r.arm)
  \/ r.run \notin 1 .. m.runs

RunsOf(rows, id, arm) == SelectSeq(rows, LAMBDA r : r.id = id /\ r.arm = arm)

EffortMedians(rows) ==
  [e \in {"source_tokens", "tool_calls", "cost_usd"} |-> Median2(Given(Each(rows, LAMBDA r : r.effort[e])))]

MediansOver(qs) ==
  [e \in {"source_tokens", "tool_calls", "cost_usd"} |-> Median2(Given(Each(qs, LAMBDA q : q.effort[e])))]

------------------------------------------------------------------------------
(* T2: answer quality. *)

MutCompleted(r) == r.score # {}

completed(r) == ~r.error /\ r.score # {}

\* A failed run and a run without a row score 0; only completed runs have an effort.
question_arm(id, arm, expected, rows) ==
  LET runs   == Max({expected, Len(rows)} \cup {rows[i].run : i \in DOMAIN rows})
      done   == SelectSeq(rows, completed)
      scores == Each(done, LAMBDA r : OrZero(r.score))
      zeros  == [i \in 1 .. runs - Len(done) |-> 0]
  IN  [id |-> id, arm |-> arm, runs |-> runs, completed |-> Len(done), failed |-> runs - Len(done),
       score |-> OrZero(Median2(scores \o zeros)), score_completed |-> Median2(scores),
       grounded |-> Count(done, LAMBDA r : TRUE \in r.grounded), effort |-> EffortMedians(done)]

ArmSummary(qs) ==
  LET Sum(F(_)) == Total(Each(qs, F))
      with      == Given(Each(qs, LAMBDA q : q.score_completed))
  IN  [questions |-> Len(qs), score_sum |-> Sum(LAMBDA q : q.score),
       completed_sum |-> Total(with), questions_with_completed |-> Len(with),
       runs |-> Sum(LAMBDA q : q.runs), completed |-> Sum(LAMBDA q : q.completed),
       failed |-> Sum(LAMBDA q : q.failed), grounded |-> Sum(LAMBDA q : q.grounded),
       effort |-> MediansOver(qs)]

\* Scores are doubled medians: the sum over n questions is compared with 2 n times the bound.
GatesOf(lower, mda) ==
  LET lower_ok     == AtLeastFraction(lower, 2 * mda.questions, MIN_LOWER_BOUND)
      mean_ok      == AtLeastFraction(mda.score_sum, 2 * mda.questions, MIN_MEAN)
      grounding_ok == mda.runs > 0 /\ AtLeastFraction(mda.grounded, mda.runs, MIN_GROUNDING)
  IN  [lower_bound_ok |-> lower_ok, mean_ok |-> mean_ok, grounding_ok |-> grounding_ok,
       pass |-> lower_ok /\ mean_ok /\ grounding_ok]

\* The ratio comparator / mda of each question, as <<comparator, mda>> (doubled both).
MetricRatio(both, e) ==
  LET valued == SelectSeq(both, LAMBDA p : p[1].effort[e] # {} /\ p[2].effort[e] # {})
      nonzero == SelectSeq(valued, LAMBDA p : OrZero(p[1].effort[e]) > 0)
  IN  [ratios |-> Each(nonzero, LAMBDA p : <<OrZero(p[2].effort[e]), OrZero(p[1].effort[e])>>),
       excluded_missing |-> Len(both) - Len(valued),
       excluded_zero_denominator |-> Len(valued) - Len(nonzero)]

SavingsOf(mq, cq) ==
  LET both == SelectSeq(Zip(mq, cq), LAMBDA p : p[1].completed > 0 /\ p[2].completed > 0)
  IN  [questions |-> Len(both),
       ratio |-> [e \in {"source_tokens", "tool_calls", "cost_usd"} |-> MetricRatio(both, e)]]

PairReport(comp, mq, cq, draws) ==
  LET deltas == Each(Zip(mq, cq), LAMBDA p : p[1].score - p[2].score)
      ci95   == Interval([d \in 1 .. draws |-> Total(Resample(deltas, Stream(comp, Len(deltas))[d]))])
      gates  == GatesOf(ci95.lower, ArmSummary(mq))
  IN  [comparator |-> comp, n |-> Len(deltas), delta_sum |-> Total(deltas), ci95 |-> ci95,
       wins |-> Count(deltas, LAMBDA d : d > 0), losses |-> Count(deltas, LAMBDA d : d < 0),
       ties |-> Count(deltas, LAMBDA d : d = 0), gates |-> gates,
       savings |-> IF gates.pass THEN {SavingsOf(mq, cq)} ELSE {}]

\* Without a manifest the universe is what the rows mention.
InferredManifest(rows) ==
  [question_ids |-> SetToSortSeq(IdsOf(rows), <),
   arms |-> SetToSeq({rows[i].arm : i \in DOMAIN rows}),
   runs |-> Max({0} \cup {Len(RunsOf(rows, rows[i].id, rows[i].arm)) : i \in DOMAIN rows})]

analyse(rows, manifest, opts) ==
  LET m == IF manifest = {} THEN InferredManifest(rows) ELSE CHOOSE x \in manifest : TRUE
      Arm(a) == Each(m.question_ids, LAMBDA id : question_arm(id, a, m.runs, RunsOf(rows, id, a)))
      analysed == ToSet(m.arms) \cap ({opts.mda_arm} \cup ToSet(opts.comparators))
      present  == SelectSeq(opts.comparators, LAMBDA c : Contains(m.arms, c))
  IN  IF \/ opts.draws < 2 \/ Duplicate(rows) \/ ~Contains(m.arms, opts.mda_arm)
         \/ manifest # {} /\ \E i \in DOMAIN rows : Unexpected(m, rows[i])
      THEN Invalid
      ELSE IF m.question_ids = <<>> THEN Panic
      ELSE [arms |-> [a \in analysed |-> ArmSummary(Arm(a))],
            pairs |-> Each(present, LAMBDA c :
                        PairReport(c, Arm(opts.mda_arm), Arm(c), opts.draws)),
            missing_comparators |-> SelectSeq(opts.comparators, LAMBDA c : ~Contains(m.arms, c)),
            other_arms |-> ToSet(m.arms) \ analysed,
            questions |-> [a \in analysed |-> Arm(a)]]

------------------------------------------------------------------------------
(* T5: replay. *)

\* A failed or missing run is not correct; its effort counts as recorded.
question(id, arm, runs, rows) ==
  LET Right(n) == IF \E i \in DOMAIN rows : rows[i].run = n /\ ~rows[i].error /\ rows[i].correct > 0
                  THEN 1 ELSE 0
  IN  [id |-> id, arm |-> arm, runs |-> runs, kind |-> IF rows = <<>> THEN "" ELSE rows[1].kind,
       completed |-> Count(rows, LAMBDA r : ~r.error),
       correct |-> OrZero(Median2([n \in 1 .. runs |-> Right(n)])), effort |-> EffortMedians(rows)]

\* Half of the runs are enough: medians are doubled.
Correct(q) == q.correct >= 1

ReplayArm(qs) ==
  [questions |-> Len(qs), correct |-> Count(qs, Correct),
   correct_by_type |-> [k \in {qs[i].kind : i \in DOMAIN qs} |->
     [correct |-> Count(qs, LAMBDA q : q.kind = k /\ Correct(q)), of |-> Count(qs, LAMBDA q : q.kind = k)]],
   runs |-> Total(Each(qs, LAMBDA q : q.runs)),
   failed |-> Total(Each(qs, LAMBDA q : q.runs - q.completed)), effort |-> MediansOver(qs)]

\* Sums of mda - comparator over n questions; no question at all gives zeros.
difference(pairs, draws, label) ==
  LET deltas == Each(pairs, LAMBDA p : p[1] - p[2])
      n      == Len(deltas)
      ci     == Interval([d \in 1 .. draws |-> Total(Resample(deltas, Stream(label, n)[d]))])
  IN  IF n = 0 THEN [n |-> 0, diff |-> 0, lower |-> 0, upper |-> 0, higher |-> 0, lower_count |-> 0]
      ELSE [n |-> n, diff |-> Total(deltas), lower |-> ci.lower, upper |-> ci.upper,
            higher |-> Count(deltas, LAMBDA d : d > 0), lower_count |-> Count(deltas, LAMBDA d : d < 0)]

EffortPairs(mq, cq, e) ==
  Each(SelectSeq(Zip(mq, cq), LAMBDA p : p[1].effort[e] # {} /\ p[2].effort[e] # {}),
       LAMBDA p : <<OrZero(p[1].effort[e]), OrZero(p[2].effort[e])>>)

ReplayPair(comp, mq, cq, draws) ==
  LET right  == difference(Each(Zip(mq, cq), LAMBDA p : <<p[1].correct, p[2].correct>>),
                           draws, <<comp, "correct">>)
      calls  == difference(EffortPairs(mq, cq, "tool_calls"), draws, <<comp, "tool_calls">>)
      tokens == difference(EffortPairs(mq, cq, "source_tokens"), draws, <<comp, "source_tokens">>)
  IN  [comparator |-> comp, correct |-> right, tool_calls |-> calls, source_tokens |-> tokens,
       claim |-> /\ right.n > 0
                 /\ calls.n = right.n /\ tokens.n = right.n
                 /\ Count(mq, Correct) > 0
                 /\ AtLeastFraction(right.lower, 2 * right.n, MIN_CORRECT_LOWER)
                 /\ calls.upper < 0 /\ tokens.upper < 0]

analyse_replay(rows, m, opts) ==
  LET Arm(a) == Each(m.question_ids, LAMBDA id : question(id, a, m.runs, RunsOf(rows, id, a)))
      analysed == ToSet(m.arms) \cap ({opts.mda_arm} \cup ToSet(opts.comparators))
      present  == SelectSeq(opts.comparators, LAMBDA c : Contains(m.arms, c))
  IN  IF \/ opts.draws < 2 \/ Duplicate(rows) \/ ~Contains(m.arms, opts.mda_arm)
         \/ \E i \in DOMAIN rows : Unexpected(m, rows[i])
      THEN Invalid
      ELSE IF m.question_ids = <<>> THEN Panic
      ELSE [arms |-> [a \in analysed |-> ReplayArm(Arm(a))],
            pairs |-> Each(present, LAMBDA c :
                        ReplayPair(c, Arm(opts.mda_arm), Arm(c), opts.draws)),
            missing_comparators |-> SelectSeq(opts.comparators, LAMBDA c : ~Contains(m.arms, c)),
            questions |-> [a \in analysed |-> Arm(a)]]

==============================================================================
