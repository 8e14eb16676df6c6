------------------------------- MODULE Docsqa -------------------------------
(***************************************************************************)
(* Retrieval evaluation over a dataset of real questions (mda-core         *)
(* eval/mod.rs, eval/docsqa.rs and the docsqa mode of                      *)
(* mda-cli commands/eval.rs): splits, eligibility, coverage, sampling, the *)
(* fetch loop over Search, and the scoring of external arms.               *)
(*                                                                         *)
(* A dataset is [project, questions, pages]: a sequence of questions and   *)
(* the map doc_id -> page. `docs` maps each live page of the store to the  *)
(* set of its headings; a heading is a sequence of tokens. Options are {}  *)
(* or {value}; metrics are sums, divided by the number of questions in the *)
(* code. Hash orders (blake3) are given as permutations: any is possible.  *)
(***************************************************************************)
EXTENDS Search

CONSTANTS
  Error,        \* an operation that is refused or fails
  PAGES_NEEDED, \* distinct pages for nDCG: 10
  FETCH_CAP,    \* most sections fetched for one question: 2000
  TopRanks      \* ranks that count for success and MRR: 5

ASSUME DocsqaAssumption == {PAGES_NEEDED, FETCH_CAP, TopRanks} \subseteq Nat \ {0}

MapSeq(s, F(_)) == [i \in DOMAIN s |-> F(s[i])]

SumSeq(s) == FoldLeft(LAMBDA a, b : a + b, 0, s)

------------------------------------------------------------------------------
(* Splits and page metrics: eval/mod.rs. *)

\* The first 30 % of the seeded order are dev, the next 55 % test, the rest holdout.
split_ids(order) ==
  LET n        == Len(order)
      dev_end  == (n * 30) \div 100
      test_end == dev_end + (n * 55) \div 100
  IN  [id \in ToSet(order) |->
         LET i == Position(order, id)
         IN  IF i <= dev_end THEN "dev" ELSE IF i <= test_end THEN "test" ELSE "holdout"]

pages_of(paths) == Distinct(paths)

\* 1 / log2(i + 1), in ten-thousandths.
Gain == <<10000, 6309, 5000, 4307, 3869, 3562, 3333, 3155, 3010, 2891>>

\* A common multiple of the ranks whose reciprocals are taken.
RankUnit == 60

score_pages(ranked, relevant) ==
  LET rank == SelectInSeq(ranked, LAMBDA p : Contains(relevant, p))
      best == {i \in 1 .. Len(Take(ranked, PAGES_NEEDED)) : Contains(relevant, ranked[i])}
      n    == Cardinality(ToSet(relevant))
  IN  [rank  |-> IF rank = 0 THEN {} ELSE {rank},
       rr    |-> IF rank \in 1 .. TopRanks THEN RankUnit \div rank ELSE 0,
       dcg   |-> MapThenSumSet(LAMBDA i : Gain[i], best),
       ideal |-> MapThenSumSet(LAMBDA i : Gain[i], 1 .. Min({n, PAGES_NEEDED}))]

------------------------------------------------------------------------------
(* Loading. Rows of the three files as sequences of records. *)

PageMap(corpus, project) ==
  LET own == Filter(corpus, LAMBDA r : r.project = project)
  IN  [id \in {own[i].doc_id : i \in DOMAIN own} |->
         own[Max({i \in DOMAIN own : own[i].doc_id = id})].path]

\* The document anchor, or an anchor without a heading, stands for the whole page.
AnchorOf(pages, r) == <<pages[r.doc_id], IF r.anchor = {} THEN {} ELSE r.heading>>

QuestionOf(q, a, pages) ==
  LET mapped == Filter(a.qrel_ids, LAMBDA id : id \in DOMAIN pages)
      pagesq == Distinct(MapSeq(mapped, LAMBDA id : pages[id]))
      known  == Filter(a.anchors, LAMBDA r : r.doc_id \in DOMAIN pages)
  IN  [id |-> q.id, query |-> q.query, category |-> q.category, reference |-> a.reference,
       relevant |-> pagesq, original_relevant |-> pagesq,
       unmapped_qrels |-> Filter(a.qrel_ids, LAMBDA id : id \notin DOMAIN pages),
       anchors |-> MapSeq(known, LAMBDA r : AnchorOf(pages, r)),
       image_evidence |-> a.image, multimodal_judgment |-> a.multimodal]

\* A question without an answer row, or a project without questions, is an error.
load(corpus, answers, rows, project) ==
  LET pages  == PageMap(corpus, project)
      own    == Filter(rows, LAMBDA q : q.project = project)
      RowsOf(id) == {i \in DOMAIN answers : answers[i].id = id}
  IN  IF own = <<>> \/ \E i \in DOMAIN own : RowsOf(own[i].id) = {} THEN Error
      ELSE [project |-> project, pages |-> pages,
            questions |-> MapSeq(own, LAMBDA q : QuestionOf(q, answers[Max(RowsOf(q.id))], pages))]

\* Labels are added to the first question of the id; the original ones stay apart.
add_labels(ds, extra) ==
  LET For(i) == Filter(extra, LAMBDA x : x.id = ds.questions[i].id
                            /\ \A j \in 1 .. i - 1 : ds.questions[j].id # x.id)
      Added(i) == Distinct(ds.questions[i].relevant \o MapSeq(For(i), LAMBDA x : x.page))
  IN  [ds |-> [ds EXCEPT !.questions = [i \in DOMAIN @ |-> [@[i] EXCEPT !.relevant = Added(i)]]],
       unknown |-> {extra[i].id : i \in DOMAIN extra} \ {ds.questions[i].id : i \in DOMAIN ds.questions}]

\* Paths are sequences of segments; empty and "." segments fold away.
normalize_arm_path(path) == Filter(path, LAMBDA seg : seg \notin {"", "."})

read_extra_labels(rows) ==
  Filter(MapSeq(rows, LAMBDA r : [r EXCEPT !.page = normalize_arm_path(@)]),
            LAMBDA r : r.page # <<>>)

------------------------------------------------------------------------------
(* Who is scored. *)

MutEligible(q, indexed) ==
  ~q.image_evidence /\ q.unmapped_qrels = <<>> /\ q.relevant # <<>> /\ ToSet(q.relevant) \subseteq indexed

eligible(q, indexed) ==
  /\ ~q.image_evidence
  /\ q.unmapped_qrels = <<>>
  /\ q.original_relevant # <<>>
  /\ ToSet(q.original_relevant) \subseteq indexed

SplitOf(splits, id) == IF id \in DOMAIN splits THEN splits[id] ELSE "holdout"

\* The guards of evaluate and score_arm, in their order.
Scored(q, indexed, splits, split, include_holdout, only) ==
  LET s == SplitOf(splits, q.id)
  IN  /\ eligible(q, indexed)
      /\ \A want \in split : want = s
      /\ s = "holdout" => include_holdout
      /\ \A ids \in only : q.id \in ids

\* Categories in order of first appearance, one question of each in turn.
RoundRobin(pool, n) ==
  LET cats  == Distinct(MapSeq(pool, LAMBDA q : q.category))
      Turn(i) == Cardinality({j \in 1 .. i - 1 : pool[j].category = pool[i].category})
      Before(i, j) == \/ Turn(i) < Turn(j)
                      \/ /\ Turn(i) = Turn(j)
                         /\ Position(cats, pool[i].category) < Position(cats, pool[j].category)
      order == InOrder(DOMAIN pool, Pairs(DOMAIN pool, Before))
      want  == IF n = 0 THEN Len(pool) ELSE n
  IN  Take(MapSeq(order, LAMBDA i : pool[i]), want)

sample(ds, splits, split, indexed, n, order) ==
  LET open == Filter(ds.questions, LAMBDA q : /\ eligible(q, indexed)
                                                 /\ \A s \in split : SplitOf(splits, q.id) = s)
      kept == Filter(open, LAMBDA q : q.reference # {})
      drawn == InOrder(DOMAIN kept, Pairs(DOMAIN kept, LAMBDA i, j :
                 Position(order, kept[i].id) < Position(order, kept[j].id)))
  IN  [questions |-> RoundRobin(MapSeq(drawn, LAMBDA i : kept[i]), n), eligible |-> Len(open),
       without_reference |-> MapSeq(Filter(open, LAMBDA q : q.reference = {}), LAMBDA q : q.id)]

------------------------------------------------------------------------------
(* Coverage. Tokens: "{%" and "%}" bound a Liquid tag, "tick" a backtick.     *)

normalize_heading(tokens) ==
  FoldLeft(LAMBDA acc, t :
             CASE t = "{%" -> [acc EXCEPT !.tag = TRUE]
               [] t = "%}" /\ acc.tag -> [acc EXCEPT !.tag = FALSE]
               [] OTHER -> IF acc.tag \/ t = "tick" THEN acc ELSE [acc EXCEPT !.out = Append(@, t)],
           [tag |-> FALSE, out |-> <<>>], tokens).out

Within(needle, text) ==
  \E i \in 1 .. Len(text) - Len(needle) + 1 : SubSeq(text, i, i + Len(needle) - 1) = needle

AnchorFound(docs, anchor) ==
  LET page == anchor[1]
  IN  IF anchor[2] = {} THEN page \in DOMAIN docs
      ELSE \A h \in anchor[2] :
             LET needle == normalize_heading(h)
             IN  /\ needle # <<>> /\ page \in DOMAIN docs
                 /\ \E text \in docs[page] : Within(needle, normalize_heading(text))

\* The eligibility rule is written out a second time in coverage.
CoverageClass(q, indexed) ==
  LET present == Cardinality({i \in DOMAIN q.original_relevant : q.original_relevant[i] \in indexed})
  IN  IF q.image_evidence THEN "image"
      ELSE IF q.unmapped_qrels # <<>> \/ present < Len(q.original_relevant)
              \/ q.original_relevant = <<>> THEN "missing"
      ELSE "eligible"

coverage(ds, docs) ==
  LET indexed == DOMAIN docs
      qs      == ds.questions
      In(c)   == Filter(qs, LAMBDA q : CoverageClass(q, indexed) = c)
      Lost(q) == Filter(q.anchors, LAMBDA a : ~AnchorFound(docs, a))
  IN  [corpus_pages |-> Cardinality(DOMAIN ds.pages),
       corpus_pages_indexed |-> Cardinality({d \in DOMAIN ds.pages : ds.pages[d] \in indexed}),
       qrels |-> SumSeq(MapSeq(qs, LAMBDA q : Len(q.original_relevant) + Len(q.unmapped_qrels))),
       qrels_indexed |-> SumSeq(MapSeq(qs, LAMBDA q :
                           Len(Filter(q.original_relevant, LAMBDA p : p \in indexed)))),
       qrels_unmapped |-> SumSeq(MapSeq(qs, LAMBDA q : Len(q.unmapped_qrels))),
       questions |-> Len(qs),
       excluded_image_evidence |-> Len(In("image")),
       excluded_missing_page |-> Len(In("missing")),
       eligible |-> Len(In("eligible")),
       multimodal_judgment |-> Len(Filter(In("eligible"), LAMBDA q : q.multimodal_judgment)),
       anchors |-> SumSeq(MapSeq(In("eligible"), LAMBDA q : Len(q.anchors))),
       anchors_found |-> SumSeq(MapSeq(In("eligible"), LAMBDA q : Len(q.anchors) - Len(Lost(q)))),
       missing_anchor_ids |-> MapSeq(Filter(In("eligible"), LAMBDA q : Lost(q) # <<>>), LAMBDA q : q.id)]

------------------------------------------------------------------------------
(* Scoring. *)

MutFetchPages(found, first) ==
  LET hits == found[Clamp(first, 1, FETCH_CAP)]
  IN  [ranked |-> pages_of(MapSeq(hits, LAMBDA h : h.rel_path)), fetched |-> first,
       truncated |-> Len(hits) > FETCH_CAP]

\* The depths a question is fetched at: doubled until the cap.
Depths(first) == {Min({Clamp(first, 1, FETCH_CAP) * 2 ^ n, FETCH_CAP}) : n \in 0 .. FETCH_CAP}

\* Page ranks need PAGES_NEEDED pages: the fetch stops at the first depth that brings them or
\* brings all results, or at the cap. found[k] is what the search finds at depth k.
FetchPages(found, first) ==
  LET Pages(depth)  == pages_of(MapSeq(found[depth], LAMBDA h : h.rel_path))
      Enough(depth) == Len(Pages(depth)) >= PAGES_NEEDED \/ Len(found[depth]) < depth
      last          == Min({depth \in Depths(first) : Enough(depth) \/ depth = FETCH_CAP})
  IN  [ranked |-> Pages(last), fetched |-> last, truncated |-> ~Enough(last)]

ResultOf(q, splits, list) ==
  LET s == score_pages(list.ranked, q.relevant)
  IN  [id |-> q.id, split |-> SplitOf(splits, q.id), rank |-> s.rank, rr |-> s.rr,
       dcg |-> s.dcg, ideal |-> s.ideal, fetched |-> list.fetched, truncated |-> list.truncated,
       pages |-> Take(list.ranked, PAGES_NEEDED), relevant |-> q.relevant]

MetricsOf(results) ==
  [questions |-> Len(results),
   hits5  |-> Len(Filter(results, LAMBDA r : \E n \in r.rank : n <= TopRanks)),
   rr_sum |-> SumSeq(MapSeq(results, LAMBDA r : r.rr))]

evaluate(ix, docs, emb, ds, splits, split, opts, now) ==
  LET asked == Filter(ds.questions, LAMBDA q :
                 Scored(q, DOMAIN docs, splits, split, opts.include_holdout, opts.only))
      how   == [opts.search EXCEPT !.raw_only = opts.raw_only, !.recency_half_life = 0]
      Pages(q) == FetchPages([k \in 1 .. FETCH_CAP |-> search_with(ix, q.query, [how EXCEPT !.k = k], emb, now)],
                             opts.fetch)
      results == MapSeq(asked, LAMBDA q : ResultOf(q, splits, Pages(q)))
  IN  [run |-> opts.name, split |-> split, metrics |-> MetricsOf(results), results |-> results,
       missing |-> <<>>, unknown |-> {}]

\* An arm's rows by question; a repeated question or a path that folds away is an error.
read_arm_output(rows) ==
  IF \/ \E i, j \in DOMAIN rows : i # j /\ rows[i].question_id = rows[j].question_id
     \/ \E i \in DOMAIN rows : \E k \in DOMAIN rows[i].paths : normalize_arm_path(rows[i].paths[k]) = <<>>
  THEN Error
  ELSE [id \in {rows[i].question_id : i \in DOMAIN rows} |->
          rows[CHOOSE i \in DOMAIN rows : rows[i].question_id = id]]

\* A question without a row is a miss, counted like any other.
ArmList(rows, id) ==
  IF id \notin DOMAIN rows THEN [ranked |-> <<>>, fetched |-> 0, truncated |-> FALSE]
  ELSE [ranked |-> pages_of(MapSeq(rows[id].paths, LAMBDA p : normalize_arm_path(p))),
        fetched |-> Len(rows[id].paths), truncated |-> rows[id].truncated]

score_arm(docs, ds, splits, split, rows, how) ==
  LET asked   == Filter(ds.questions, LAMBDA q :
                   Scored(q, DOMAIN docs, splits, split, how.include_holdout, how.only))
      results == MapSeq(asked, LAMBDA q : ResultOf(q, splits, ArmList(rows, q.id)))
  IN  [run |-> how.name, split |-> split, metrics |-> MetricsOf(results), results |-> results,
       missing |-> MapSeq(Filter(asked, LAMBDA q : q.id \notin DOMAIN rows), LAMBDA q : q.id),
       unknown |-> DOMAIN rows \ {ds.questions[i].id : i \in DOMAIN ds.questions}]

==============================================================================
