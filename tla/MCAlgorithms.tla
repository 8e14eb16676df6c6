---------------------------- MODULE MCAlgorithms ----------------------------
(***************************************************************************)
(* The pure algorithms on every small input: a behaviour picks one input   *)
(* of one algorithm and stops. Each property speaks of the inputs of its   *)
(* own algorithm.                                                          *)
(***************************************************************************)
EXTENDS EvalCommand, TLC

CONSTANTS Invalid, Panic, NoDoc, NotFound, Unreadable, NoModel, U64MAX, Prices,
          Blank, Folded, Lower, Width, Digits  \* characters: see Cards

VARIABLE case

TopRank == 5
MIN_LOWER_BOUND == <<-1, 4>>
MIN_MEAN == <<1, 1>>
MIN_GROUNDING == <<1, 2>>
MIN_CORRECT_LOWER == <<-1, 20>>

DrawsFor(draws, n) == IF n = 2 THEN draws ELSE [d \in 1 .. 2 |-> [i \in 1 .. n |-> 1]]

\* The labels of a paired comparison are its projects: the second one draws the other way.
Stream(label, n) ==
  IF case.alg = "paired"
  THEN IF label = "p" THEN case.draws ELSE <<case.draws[2], case.draws[1]>>
  ELSE DrawsFor(case.draws, n)

Stat == INSTANCE Analyses

Idle == [alg |-> "idle"]

Init == case = Idle

------------------------------------------------------------------------------
(* Search: three sections in two pages, two hashes, words w1 and w2. *)

Words == {"w1", "w2"}

HashOf == <<"h1", "h1", "h2">>
PageOf == <<"a", "a", "b">>

Orders == {<<1, 2, 3>>, <<3, 1, 2>>}

Index(text, card, states, order, ats) ==
  [row |-> [id \in 1 .. 3 |-> [path |-> PageOf[id], at |-> ats[id], hash |-> HashOf[id],
                               state |-> states[HashOf[id]], text |-> text[id]]],
   card |-> card, rank |-> [raw |-> order, cards |-> <<2, 3, 1>>],
   vectors |-> <<[hash |-> "h1", model |-> "m", dim |-> 2, whole |-> TRUE],
                 [hash |-> "h2", model |-> "m", dim |-> 2, whole |-> TRUE]>>,
   cosine |-> [h1 |-> 1, h2 |-> 2]]

Model == [model |-> "m", dim |-> 2, ready |-> TRUE, works |-> TRUE]

BaseOptions == [k |-> 1, raw_only |-> FALSE, since |-> {}, until |-> {}, path_prefix |-> {},
                recency_half_life |-> 1, or_fallback |-> TRUE, vectors |-> TRUE,
                rrf_k |-> 1, raw_list_weight |-> 1, and_stopwords |-> FALSE]

Filters == {[since |-> {}, path_prefix |-> {}], [since |-> {1}, path_prefix |-> {}],
            [since |-> {}, path_prefix |-> {{"b"}}]}

IndexCase ==
  /\ case = Idle
  /\ \E text \in [1 .. 3 -> {{}, {"w1"}, Words}], c1 \in {{}, {"w1"}, {"w2"}}, c2 \in {{}, {"w2"}},
        h2 \in {"summarized", "pending"} :
       case' = [alg |-> "index", text |-> text, card |-> [h1 |-> c1, h2 |-> c2], states |-> [h1 |-> "summarized", h2 |-> h2]]

SearchCase ==
  /\ case.alg = "index"
  /\ \E order \in Orders, query \in {{"w1"}, Words}, f \in Filters, k \in 1 .. 2,
        emb \in {{}, {Model}}, raw_only \in BOOLEAN :
       /\ raw_only => emb = {}
       /\ case' = [alg |-> "search", query |-> query, emb |-> emb,
                   ix |-> Index(case.text, case.card, case.states, order, <<0, 1, 1>>),
                   opts |-> [BaseOptions EXCEPT !.k = k, !.since = f.since, !.raw_only = raw_only,
                                                !.path_prefix = f.path_prefix]]

\* Sections an expression finds in the lists the options allow, cut or not.
AllMatching(ix, expr, opts) ==
  IF expr.terms = {} THEN {}
  ELSE {id \in DOMAIN ix.row : \/ Matches(expr, ix.row[id].text)
                               \/ /\ ~opts.raw_only /\ ix.row[id].state = "summarized"
                                  /\ Matches(expr, ix.card[ix.row[id].hash])}

\* What the answer is made of: the AND form's matches, or the OR form's when none of those
\* is eligible, and the sections the vectors bring.
Relevant(ix, query, opts, emb) ==
  LET Ok(ids)  == {id \in ids : passes(ix.row[id], opts)}
      by_and   == Ok(AllMatching(ix, fts_escape(query), opts))
      by_or    == Ok(AllMatching(ix, or_expression(query), opts))
      vectors  == IF emb = {} \/ ~opts.vectors \/ opts.raw_only THEN {} ELSE DOMAIN ix.row
  IN  (IF by_and = {} /\ opts.or_fallback THEN by_or ELSE by_and) \cup Ok(vectors)

\* With candidate lists deep enough for the whole index, a filtered query answers with
\* eligible matches only and drops one only for want of room: the filters of passes work
\* before the cut to k and before the OR-fallback decision (search.rs fuse, lexical_lists).
EligibleMatchesAnswer ==
  case.alg = "search" /\ fetch_depth(case.opts) >= 3 =>
    LET hits == search_with(case.ix, case.query, case.opts, case.emb, 1)
        ids  == {hits[i].section_id : i \in DOMAIN hits}
        all  == Relevant(case.ix, case.query, case.opts, case.emb)
    IN  ids \subseteq all /\ Cardinality(ids) = Min({case.opts.k, Cardinality(all)})

\* search.rs explain: "every fused winner is visible in the list that produced it".
ExplainShowsWinners ==
  case.alg = "search" =>
    LET e == explain(case.ix, case.query, case.opts, case.emb, 1)
        Shown(h, list) == Contains(list, h.section_id)
    IN  \A i \in DOMAIN e.fused :
          LET h == e.fused[i]
          IN  /\ h.matched \in {"cards", "both"} <=> Shown(h, e.cards)
              /\ h.matched \in {"raw", "both"} <=> Shown(h, e.raw)
              /\ h.vector <=> Shown(h, e.vector)
              /\ h.via_or_fallback = e.via_or_fallback

\* search.rs passes: "an excluded high-ranked hit never hides an eligible one". With more
\* excluded matches than the candidate depth, the eligible one is cut before the filter.
ExcludedHitsHideNothing ==
  case.alg = "search" /\ Relevant(case.ix, case.query, case.opts, case.emb) # {} =>
    search_with(case.ix, case.query, case.opts, case.emb, 1) # <<>>

\* docsqa.rs evaluate: a ranking with fewer pages than metrics need, and not marked
\* truncated, lists every page that has a match: no relevant page can be missing from `rank`.
ShortRankingIsComplete ==
  case.alg = "search" /\ ~Filtered(case.opts) =>
    LET found == [k \in 1 .. FETCH_CAP |->
                    search_with(case.ix, case.query, [case.opts EXCEPT !.k = k], case.emb, 1)]
        list  == FetchPages(found, case.opts.k)
        all   == Relevant(case.ix, case.query, case.opts, case.emb)
    IN  ~list.truncated /\ Len(list.ranked) < PAGES_NEEDED =>
          ToSet(list.ranked) = {case.ix.row[id].path : id \in all}

------------------------------------------------------------------------------
(* The population of a dataset: four questions, pages a and b indexed. *)

QuestionKinds ==
  {[image |-> FALSE, unmapped |-> <<>>, labels |-> <<"a">>], [image |-> TRUE, unmapped |-> <<>>, labels |-> <<"a">>],
   [image |-> FALSE, unmapped |-> <<"x">>, labels |-> <<"a">>], [image |-> FALSE, unmapped |-> <<>>, labels |-> <<"a", "c">>],
   [image |-> FALSE, unmapped |-> <<>>, labels |-> <<>>]}

QuestionFor(n, kind, ref) ==
  [id |-> n, query |-> {"w1"}, relevant |-> kind.labels, original_relevant |-> kind.labels,
   reference |-> ref, category |-> {}, anchors |-> <<>>, unmapped_qrels |-> kind.unmapped,
   image_evidence |-> kind.image, multimodal_judgment |-> FALSE]

DatasetCase ==
  /\ case = Idle
  /\ \E kinds \in [1 .. 4 -> QuestionKinds], extra \in {<<>>, <<[id |-> 1, page |-> "c"], [id |-> 4, page |-> "b"]>>},
        order \in {<<1, 2, 3, 4>>, <<4, 2, 3, 1>>}, split \in {{}, {"test"}, {"holdout"}} :
       case' = [alg |-> "dataset", extra |-> extra, splits |-> split_ids(order), split |-> split, order |-> order,
                ds |-> [project |-> "p", pages |-> <<>>,
                        questions |-> [n \in 1 .. 4 |-> QuestionFor(n, kinds[n], IF n = 2 THEN {} ELSE {"r"})]]]

TwoPages == [p \in {"a", "b"} |-> {}]

OneIndex == Index(<<{"w1"}, {}, {"w1"}>>, [h1 |-> {}, h2 |-> {}], [h1 |-> "pending", h2 |-> "pending"], <<1, 2, 3>>, <<0, 0, 0>>)

Ids(run) == {run.results[i].id : i \in DOMAIN run.results}

Scores(ds, open) ==
  Ids(evaluate(OneIndex, TwoPages, {}, ds, case.splits, case.split,
               [name |-> "raw", raw_only |-> TRUE, fetch |-> 1, include_holdout |-> open,
                only |-> {}, search |-> BaseOptions], 1))

Arms(ds, open) ==
  Ids(score_arm(TwoPages, ds, case.splits, case.split, <<>>,
                [name |-> "arm", include_holdout |-> open, only |-> {}]))

\* The questions scored with the holdout open or not, against what the sample counts.
SamePopulation(pooled, open, closed, s) ==
  /\ open = Scores(case.ds, TRUE)
  /\ open = Arms(pooled, TRUE) /\ closed = Arms(pooled, FALSE)
  /\ closed = {id \in open : case.splits[id] # "holdout"}
  /\ Cardinality(open) = s.eligible
  /\ Len(s.questions) + Len(s.without_reference) = s.eligible
  /\ case.split = {} => coverage(pooled, TwoPages).eligible = s.eligible

\* Coverage, the scorer, external arms and the T2 sample describe one population, with or
\* without pooled labels, and the holdout is scored only when it is opened (docsqa.rs
\* eligible, coverage, sample, evaluate, score_arm; Question.original_relevant).
OnePopulation ==
  case.alg = "dataset" =>
    LET pooled == add_labels(case.ds, case.extra).ds
    IN  SamePopulation(pooled, Scores(pooled, TRUE), Scores(pooled, FALSE),
                       sample(pooled, case.splits, case.split, DOMAIN TwoPages, 0, case.order))

------------------------------------------------------------------------------
(* Graded runs: two questions, two arms, two runs each. *)

Effort(n) == [e \in {"source_tokens", "tool_calls", "cost_usd"} |-> n]

Grade(id, arm, run, g) ==
  [id |-> id, arm |-> arm, run |-> run, kind |-> "which", error |-> g.error, score |-> g.score, grounded |-> {g.score = {2}},
   correct |-> IF g.score = {2} THEN 1 ELSE 0, effort |-> Effort(g.effort)]

Grades == [error : {FALSE}, score : {{}, {1}, {2}}, effort : {{}, {1}, {3}}]
            \cup [error : {TRUE}, score : {{}}, effort : {{}, {1}, {3}}]

Good(n) == [error |-> FALSE, score |-> {2}, effort |-> {n}]

MdaGradeCase ==
  /\ case = Idle
  /\ \E g \in [1 .. 2 -> Grades] : case' = [alg |-> "mda", g |-> g]

GradeCase ==
  /\ case.alg = "mda"
  /\ \E c \in [1 .. 2 -> {Good(2), [Good(2) EXCEPT !.score = {1}]}],
        draws \in [1 .. 2 -> [1 .. 2 -> 1 .. 2]] :
       case' = [alg |-> "grades", draws |-> draws,
                rows |-> <<Grade(1, "mda", 1, case.g[1]), Grade(1, "mda", 2, case.g[2]), Grade(2, "mda", 1, Good(1)), Grade(2, "mda", 2, Good(1)),
                           Grade(1, "base", 1, c[1]), Grade(1, "base", 2, Good(2)), Grade(2, "base", 1, c[2]), Grade(2, "base", 2, Good(2))>>]

GradeManifest == [question_ids |-> <<1, 2>>, arms |-> <<"mda", "base">>, runs |-> 2]
GradeOptions == [mda_arm |-> "mda", comparators |-> <<"base", "absent">>, draws |-> 2]

T2(rows) == Stat!analyse(rows, {GradeManifest}, GradeOptions).pairs[1]

T5(rows) == Stat!analyse_replay(rows, GradeManifest, GradeOptions).pairs[1]

Failed(rows, i) == [rows EXCEPT ![i].error = TRUE]

Dropped(rows, i) == SubSeq(rows, 1, i - 1) \o SubSeq(rows, i + 1, Len(rows))

\* "Failures are results" (analysis.rs, replay.rs): an mda run that fails, or in T2 is
\* missing, never turns a gate or a claim from no to yes, and what a failed run recorded as
\* its effort never shows in a T2 saving.
FailuresAreResults ==
  case.alg = "grades" =>
    LET Pass(rows)  == T2(rows).gates.pass
        Claim(rows) == T5(rows).claim
    IN  \A i \in 1 .. 2 :
          /\ Pass(Failed(case.rows, i)) \/ Pass(Dropped(case.rows, i)) => Pass(case.rows)
          /\ Claim(Failed(case.rows, i)) => Claim(case.rows)
          /\ T2([Failed(case.rows, i) EXCEPT ![i].effort = Effort({})])
               = T2(Failed(case.rows, i))

------------------------------------------------------------------------------
(* Paired runs: two projects, two questions each. *)

Hits(h) == [i \in 1 .. 2 |-> [id |-> i, hit |-> h[i]]]

PairCase ==
  /\ case = Idle
  /\ \E b, c, d \in [1 .. 2 -> BOOLEAN], draws \in [1 .. 2 -> [1 .. 2 -> 1 .. 2]] :
       case' = [alg |-> "paired", draws |-> draws,
                inputs |-> <<[label |-> "p", baseline |-> Hits(b), candidate |-> Hits(c)],
                             [label |-> "q", baseline |-> Hits(c), candidate |-> Hits(d)]>>]

\* The reports of the inputs as they are, and of the same inputs in another order.
SameReport(r, t) ==
  /\ t.projects = Reverse(r.projects) /\ t.objective_ci95 = r.objective_ci95
  /\ \A p \in 1 .. 2 : LET one == r.projects[p]
                       IN  /\ one.wins - one.losses = one.delta /\ one.candidate - one.baseline = one.delta
                           /\ one.wins + one.losses + one.ties = one.n /\ one.ci95.lower <= one.ci95.upper
  /\ r.objective_delta = r.objective_candidate - r.objective_baseline

\* paired.rs compare: questions are paired by id and projects by label whatever the order of
\* the files, wins and losses account for the difference, and the objective is the mean over
\* projects; below() gives every index the same chance.
PairedByQuestion ==
  case.alg = "paired" =>
    /\ SameReport(Stat!compare(case.inputs, 2),
                  Stat!compare([p \in 1 .. 2 |-> [case.inputs[3 - p] EXCEPT !.candidate = Reverse(@)]], 2))
    /\ \A n \in 1 .. U64MAX : \A i \in 0 .. n - 1 :
         Cardinality(Stat!Accepted(n, i)) = Stat!zone(n) \div n

------------------------------------------------------------------------------
(* A model's answer about one section. *)

Space == " "
Spaces == {Space, "nbsp"}
Letters == {"a", "A", "b", "T", "-"}
Numerals == {"0", "1", "2", "6", "7"}
Quotes == {"'", "curly"}
Wide == {"two", "three"}
Alphabet == Spaces \cup Letters \cup Numerals \cup Quotes \cup Wide

Straight == [c \in Alphabet |-> IF c = "curly" THEN <<"'">> ELSE <<c>>]
LowerCase == [c \in Alphabet |-> IF c = "A" THEN "a" ELSE c]
Utf8 == [c \in Alphabet |-> IF c \in {"nbsp", "two"} THEN 2 ELSE IF c \in {"curly", "three"} THEN 3 ELSE 1]
Decimal == [c \in Numerals |-> CASE c = "0" -> 0 [] c = "1" -> 1 [] c = "2" -> 2 [] c = "6" -> 6 [] c = "7" -> 7]

Card == INSTANCE Cards

\* Lower case is a character's own, and nothing blank; a digit takes one byte and is neither
\* blank nor one of the other characters of a date; no check of a date ends like a panic.
ASSUME TextAssumption ==
  /\ Alphabet \subseteq DOMAIN Lower /\ Lower \in [DOMAIN Lower -> DOMAIN Lower]
  /\ \A c \in DOMAIN Lower : Lower[Lower[c]] = Lower[c] /\ (Lower[c] \in Blank <=> c \in Blank)
  /\ DOMAIN Digits \subseteq DOMAIN Lower \ (Blank \cup Card!TimeMarks) /\ \A c \in DOMAIN Digits : Width[c] = 1
  /\ "-" \notin Blank /\ Panic \notin BOOLEAN

Y == <<"2", "0", "2", "6">>
YM == Y \o <<"-", "0", "7">>
YMD == YM \o <<"-", "1", "2">>

Section == <<"A", "nbsp", "b", "curly", "a", Space, Space>> \o Y

Caps == [lists |-> [f \in Card!ListFields |-> 1], entities_per_category |-> 1, dates |-> 1, max_chars |-> 12]

Names == {<<"A", Space, "b">>, <<"a">>, <<"b", "'", "a">>, <<"T">>, <<Space, "A">>}

Raws == {Y, <<"A", Space, "b">>, <<"a", Space>> \o Y}

Evidences == {<<"a", "nbsp">> \o Y, <<"A", Space, "b", "'", "a">>, <<"T">>, <<>>}

Isos == {Y, YM, YMD, YMD \o <<"T", "0">>, Y \o <<"-", "0", "2", "-", "7", "1">>, <<"2", "0", "2", "7">>,
         <<"a">>, <<"two", "a", "two", "-">> \o Y, <<"three", "three", "2">>}

DateFor(raw, iso, precision, evidence) == [raw |-> raw, iso |-> iso, precision |-> precision, evidence |-> evidence]

GoodDate == DateFor(Y, Y, "year", <<"a", Space>> \o Y)

Answer(tldr, names, dates) ==
  [tldr |-> tldr, summary |-> <<"b">>, lists |-> [f \in Card!ListFields |-> names],
   entities |-> [c \in Card!Categories |-> IF c = "people" THEN names ELSE <<>>], mentioned_dates |-> dates]

CardCase ==
  /\ case = Idle
  /\ \E raw \in Raws, iso \in Isos, evidence \in Evidences,
        precision \in {"day", "month", "quarter", "year", "relative"} :
       case' = [alg |-> "date", date |-> DateFor(raw, iso, precision, evidence)]

NameLists == {<<>>} \cup {<<n>> : n \in Names} \cup {<<m, n>> : m, n \in Names}

AnswerCase ==
  /\ case.alg = "date"
  /\ \E names \in NameLists, more \in {<<>>, <<GoodDate>>}, tldr \in {<<"a">>, <<Space>>} :
       case' = [alg |-> "card",
                answer |-> Answer(tldr, names, <<case.date>> \o more)]

\* What was kept of `answer`, given what validating the kept card again makes of it.
Accounted(answer, v, again) ==
  LET proposed == [i \in DOMAIN answer.entities["people"] |-> Card!trim(answer.entities["people"][i])]
      people   == v.card.entities["people"]
  IN  /\ again.verdict = "valid" /\ again.card = v.card /\ Card!is_clean(again)
      /\ \A i \in DOMAIN proposed :
           \/ proposed[i] = <<>> \/ Contains(people, proposed[i]) \/ <<"people", proposed[i]>> \in v.dropped_entities
           \/ "people" \in v.trimmed /\ Len(people) = Caps.entities_per_category
      /\ "mentioned_dates" \in v.trimmed => Len(v.card.mentioned_dates) = Caps.dates
      /\ "mentioned_dates" \notin v.trimmed =>
           Len(v.card.mentioned_dates) + Len(v.dropped_dates) = Len(answer.mentioned_dates)

Revalidated(answer, v) ==
  v.verdict = "valid" => Accounted(answer, v, Card!validate(Section, v.card, Caps))

\* validate.rs: what is kept of an answer would be kept again from the stored card; each
\* proposed entity and date is kept, or reported as dropped, or gave way to enough others
\* that were grounded. (Strings longer than max_chars are cut after they were grounded.)
KeptIsGrounded ==
  case.alg = "card" => Revalidated(case.answer, Card!validate(Section, case.answer, Caps))

\* validate.rs normalize_iso: "Anything unrecognisable is returned trimmed and left for
\* iso_matches to reject", so every answer is either a card or rejected.
EveryAnswerIsJudged ==
  case.alg = "card" => Card!validate(Section, case.answer, Caps).verdict \in {"valid", "rejected"}

------------------------------------------------------------------------------
(* One document in the index and on disk. *)

Doc == INSTANCE Documents

SectionKinds == {[hash |-> "h1", heading |-> "A", lines |-> <<"A", "one">>], [hash |-> "h2", heading |-> "A", lines |-> <<"A">>],
                 [hash |-> "h3", heading |-> "B", lines |-> <<"B", "two", "three">>]}

Contents == BoundedSeq(SectionKinds, 3)

\* A document is never taken for the lack of one, nor its path for an error.
ASSUME DocumentAssumption ==
  /\ \A content \in Contents, t \in 1 .. 2 : NoDoc # [content |-> content, updated_at |-> t]
  /\ "p" \notin {NotFound, Unreadable}

StateCases ==
  {[h1 |-> "summarized", h2 |-> a, h3 |-> b] : a \in {"summarized", "pending"}, b \in {"summarized", "failed"}}

Entries(content) ==
  {[kind |-> "file", big |-> FALSE, readable |-> TRUE, mtime |-> t, content |-> content] : t \in 1 .. 2}
    \cup {[kind |-> k, big |-> b, readable |-> ~b, mtime |-> 2, content |-> content] : k \in {"file", "dir", "gone", "outside"}, b \in BOOLEAN}

StoredCase ==
  /\ case = Idle
  /\ \E content \in Contents, states \in StateCases :
       /\ case' = [alg |-> "stored", content |-> content, states |-> states]

OpenCase ==
  /\ case.alg = "stored"
  /\ \E content \in Contents : \E entry \in Entries(content), index \in 1 .. 3 :
       /\ index <= Len(case.content)
       /\ case' = [alg |-> "open", disk |-> [p |-> entry], index |-> index, state |-> case.states,
                   docs |-> [p |-> [content |-> case.content, updated_at |-> 1], q |-> NoDoc]]

\* pipeline.rs open_section and stale: open answers with lines of the file as it is now, with
\* the very content that was asked for when the file still has it, and leaves the index such
\* that the same id opens the same text; open finds a document stale when `mda stale` lists
\* it as changed, and then stale does not list it any more. Counts, recent and stale agree
\* on whether everything has a card.
ReadsAgree ==
  case.alg = "open" =>
    LET path    == "p"
        entry   == case.disk[path]
        wanted  == case.docs[path].content[case.index]
        opened  == Doc!open_section(case.docs, case.disk, path, case.index)
        a       == opened.answer
        answers == a \notin {NotFound, Unreadable}
        listed  == Doc!stale(case.docs, case.state, case.disk)
        later   == Doc!stale(opened.docs, case.state, case.disk)
        Lists(l) == path \in DOMAIN l /\ l[path].changed_on_disk
        c       == Doc!counts(case.docs, case.state)
        carded  == Doc!sections_carded(case.docs, case.state) = c.sections
    IN  /\ answers => /\ a.text = entry.content[a.index].lines /\ a.heading = entry.content[a.index].heading
                      /\ opened.docs[path].content = entry.content
                      /\ wanted \in ToSet(entry.content) => entry.content[a.index] = wanted
                      /\ ~Lists(later) /\ (Lists(listed) => a.stale)
                      /\ LET again == Doc!open_section(opened.docs, case.disk, path, a.index).answer
                         IN  again.text = a.text /\ again.index = a.index /\ ~again.stale
        /\ entry.kind = "file" /\ entry.readable /\ ~entry.big => (Lists(listed) <=> entry.mtime > 1 /\ entry.content # case.docs[path].content)
        /\ carded <=> c.hashes["pending"] + c.hashes["failed"] = 0
        /\ carded <=> \A p \in DOMAIN listed : listed[p].pending + listed[p].failed = 0
        /\ carded <=> \A i \in DOMAIN Doc!recent(case.docs, case.state, 1, [p |-> 1]) :
                        Doc!recent(case.docs, case.state, 1, [p |-> 1])[i].pending = 0

------------------------------------------------------------------------------
(* A section on its way to the model, and what comes back. *)

Ask == INSTANCE Requests WITH CharsPerToken <- 2, MARKER_RESERVE_CHARS <- 3, LeastPrefix <- 2

LineOf(kind) ==
  [kind |-> kind, chars |-> CASE kind = "heading" -> 1 [] kind = "blank" -> 0 [] kind \in {"para", "ticks", "tildes"} -> 3]

BudgetCase ==
  /\ case = Idle
  /\ \E max_tokens \in 1 .. 5 : case' = [alg |-> "budget", max_tokens |-> max_tokens]

LinesCase ==
  /\ case.alg = "budget"
  /\ \E kinds \in BoundedSeq({"heading", "blank", "para", "ticks", "tildes"}, 6) :
       /\ kinds # <<>>
       /\ case' = [alg |-> "lines", max_tokens |-> case.max_tokens,
                   lines |-> [i \in DOMAIN kinds |-> LineOf(kinds[i])]]

\* Fences as Markdown reads them: the one that is open is closed by a line of its own kind, and
\* a line of the other kind in it is text.
FenceAfter(open, kind) ==
  IF kind \notin {"ticks", "tildes"} THEN open
  ELSE IF open = "none" THEN kind
  ELSE IF open = kind THEN "none" ELSE open

\* The kind of the fence that is open after the first n lines.
OpenFence(lines) ==
  LET open[n \in 0 .. Len(lines)] == IF n = 0 THEN "none" ELSE FenceAfter(open[n - 1], lines[n].kind)
  IN  open

\* No line of the other kind in an open fence: the planner would take it for the end.
FencesApart(lines) ==
  LET open == OpenFence(lines)
  IN  \A n \in DOMAIN lines : lines[n].kind \in {"ticks", "tildes"} => open[n - 1] \in {"none", lines[n].kind}

\* planner.rs: a section too long for the budget is cut at the last blank line outside every
\* fence that still fits, and only where there is none such does it keep a prefix of its first
\* line alone (which may be the opening line of a fence: the planner's "never inside a fenced
\* code block" does not hold there, nor where one kind of fence is shown inside the other). The
\* cut keeps to the budget, its marker tells how many lines are missing, and a section with a
\* body is always sent.
CutsAreClean ==
  case.alg = "lines" =>
    LET lines  == case.lines
        budget == 2 * case.max_tokens
        total  == Ask!Chars(lines)
        r      == Ask!request_for([hash |-> "h1", lines |-> lines, chars |-> total], case.max_tokens)
        kept   == r.chunk.lines
        open   == OpenFence(lines)
        clean  == {n \in 1 .. Len(lines) - 1 :
                     lines[n + 1].kind = "blank" /\ open[n] = "none" /\ Ask!Chars(SubSeq(lines, 1, n + 1)) <= budget}
        body   == \E i \in DOMAIN lines : lines[i].kind # "blank" /\ (i = 1 => lines[i].kind # "heading")
    IN  /\ body => r.call
        /\ r.call => /\ IsPrefix(kept, lines)
                     /\ r.chunk.truncated <=> total > budget
                     /\ ~r.chunk.truncated => kept = lines
                     /\ r.chunk.truncated =>
                          /\ Ask!Chars(kept) + r.chunk.prefix <= Max({budget, 2})
                          /\ Len(kept) + r.chunk.dropped + (IF kept = <<>> THEN 1 ELSE 0) = Len(lines)
                          /\ FencesApart(lines) => /\ kept # <<>> => Len(kept) \in clean
                                                   /\ \A n \in clean : n <= Len(kept)

ListPrices == [m |-> [input |-> 1, output |-> 5]]

Reply == INSTANCE Backends

Texts == {[card |-> TRUE, empty |-> FALSE], [card |-> FALSE, empty |-> FALSE], [card |-> FALSE, empty |-> TRUE]}

HttpCase ==
  /\ case = Idle
  /\ \E backend \in {"api", "local"}, empty \in BOOLEAN, transport \in {"http", "timeout", "connect", "other"},
        status \in {200, 400, 401, 403, 404, 413, 429, 500, 529}, msg \in {"account", "other"}, json \in BOOLEAN,
        stop_reason \in {"end_turn", "max_tokens", "refusal"}, text \in Texts, model \in {NoModel, "m", "n"} :
       case' = [alg |-> backend, empty |-> empty,
                reply |-> [transport |-> transport, status |-> status, msg |-> msg, json |-> json,
                           doc |-> [stop_reason |-> stop_reason, text |-> text, model |-> model,
                                    input |-> 1, cache_write |-> 2, cache_read |-> 3, output |-> 1]]]

CliEnds == {"exit 0", "exit 1", "timeout", "input must be provided", "not logged in", "authentication"}

CliStatuses == {0, 400, 401, 403, 404, 429, 500, 529}

CliCase ==
  /\ case = Idle
  /\ \E empty \in BOOLEAN, found \in BOOLEAN, json \in BOOLEAN, text \in Texts, is_error \in BOOLEAN,
        end \in CliEnds, status \in CliStatuses, subtype \in {"success", "error_max_budget_usd"},
        error \in {"overloaded", "other"}, structured \in {"card", "not a card", "null"} :
       case' = [alg |-> "cli", empty |-> empty,
                reply |-> [end |-> end, found |-> found, json |-> json,
                           doc |-> [api_error_status |-> status, terminal_reason |-> "completed", subtype |-> subtype,
                                    is_error |-> is_error, error |-> error, structured |-> structured, text |-> text,
                                    model |-> NoModel, input |-> 1, output |-> 1, cost |-> 1, turns |-> 2]]]

\* Every reply is judged as the pool needs it, and so is a backend that is missing.
TroubleIsJudgedAlike ==
  /\ case.alg \in {"api", "local", "cli"} => Reply!JudgedAlike(case.alg, case.empty, case.reply, "m")
  /\ Reply!stops_pool(Reply!unavailable)

Next == BudgetCase \/ LinesCase \/ HttpCase \/ CliCase \/ CardCase \/ AnswerCase \/ StoredCase \/ OpenCase
          \/ IndexCase \/ SearchCase \/ DatasetCase \/ MdaGradeCase \/ GradeCase \/ PairCase

Spec == Init /\ [][Next]_case

==============================================================================
