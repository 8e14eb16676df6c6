---------------------------- MODULE EvalCommand ----------------------------
(***************************************************************************)
(* `mda eval` (mda-cli commands/eval.rs): which mode the arguments select, *)
(* what each mode reads, attaches, scores and writes.                      *)
(*                                                                         *)
(* `args` is the record of the command line, an absent flag being {} (or   *)
(* <<>> for the repeated ones). `fs` maps the paths that exist, sequences  *)
(* of segments, to "file", "link" or "dir". A store is the index of Search *)
(* with the headings of Docsqa: [ix, docs].                                *)
(***************************************************************************)
EXTENDS Docsqa

\* The flags in the order `run` looks at them.
Mode(args) ==
  CASE args.compare # <<>> -> "compare"
    [] args.compare = <<>> /\ args.interval # <<>> -> "interval"
    [] OTHER ->
         IF args.analysis # {} THEN "analysis"
         ELSE IF args.replay_analysis # {} THEN "replay_analysis"
         ELSE IF "docsqa" \in args.dataset THEN "docsqa"
         ELSE IF args.root # {} THEN "own_root"
         ELSE "golden"

\* --compare takes triples of a label and two files; T5 and T2 double the default draws.
CompareTriples(args) == IF Len(args.compare) % 3 = 0 THEN Len(args.compare) \div 3 ELSE Error

AnalysisDraws(args) == IF args.draws = 5000 THEN 10000 ELSE args.draws

\* T2 runs without a manifest only when told so, T5 never.
ManifestFor(args) ==
  IF args.manifest # {} THEN args.manifest
  ELSE IF Mode(args) = "analysis" /\ args.no_manifest THEN {} ELSE Error

------------------------------------------------------------------------------
(* Files. *)

Inside(path, dir) == IsPrefix(dir, path)

\* A report directory is created and resolved, and never lies in the checkout.
report_dir(out, root) == IF Inside(out, root) THEN Error ELSE out

\* Only a plain file, or nothing, is replaced.
write_report(fs, path) ==
  IF path \in DOMAIN fs /\ fs[path] # "file" THEN Error
  ELSE [p \in DOMAIN fs \cup {path} |-> IF p = path THEN "file" ELSE fs[p]]

\* Reports written in order until one is refused.
WriteAll(fs, paths) ==
  FoldLeft(LAMBDA f, p : IF f = Error THEN Error ELSE write_report(f, p), fs, paths)

\* Plain files and directories below `dir`; links are neither followed nor copied.
walkdir(fs, dir) ==
  {p \in DOMAIN fs : /\ p # dir /\ Inside(p, dir) /\ fs[p] \in {"file", "dir"}
                     /\ \A n \in Len(dir) .. Len(p) : SubSeq(p, 1, n) \in DOMAIN fs => fs[SubSeq(p, 1, n)] # "link"}

copy_tree(fs, from, to) ==
  {to \o SubSeq(p, Len(from) + 1, Len(p)) : p \in walkdir(fs, from)}

------------------------------------------------------------------------------
(* Cards. *)

\* Recorded cards go to the pending hashes that have one.
attach_cards(ix, cards) ==
  LET given == {ix.row[id].hash : id \in {s \in DOMAIN ix.row : ix.row[s].state = "pending"}}
               \cap DOMAIN cards
  IN  [ix EXCEPT !.row = [id \in DOMAIN @ |-> IF @[id].hash \in given
                                              THEN [@[id] EXCEPT !.state = "summarized"] ELSE @[id]],
                 !.card = [h \in DOMAIN @ \cup given |-> IF h \in given THEN cards[h] ELSE @[h]]]

Carded(ix) == {id \in DOMAIN ix.row : ix.row[id].state = "summarized"}

\* One card per hash, and whether every section has one.
export_cards(ix) ==
  [cards |-> [h \in {ix.row[id].hash : id \in Carded(ix)} |-> ix.card[h]],
   sections |-> Cardinality(DOMAIN ix.row), sections_carded |-> Cardinality(Carded(ix)),
   complete |-> Carded(ix) = DOMAIN ix.row]

ExportFile(file, root) == report_dir(SubSeq(file, 1, Len(file) - 1), root)

\* record_cards summarizes what is pending; some hashes may fail. Every card is kept.
record_cards(ix, answered) == export_cards(attach_cards(ix, answered)).cards

\* Engine::embed_pending without a limit, with a model that works.
EmbedAll(ix, e) ==
  LET hashes == {ix.row[id].hash : id \in Carded(ix)}
      has    == {ix.vectors[i].hash : i \in {j \in DOMAIN ix.vectors : ix.vectors[j].model = e.model}}
      new    == {[hash |-> h, model |-> e.model, dim |-> e.dim, whole |-> TRUE] : h \in hashes \ has}
  IN  [ix EXCEPT !.vectors = SetToSortSeq(ToSet(@) \cup new, LAMBDA a, b : a.hash < b.hash)]

ReadyEmbedder(emb) == {e \in emb : e.ready}

------------------------------------------------------------------------------
(* --root without a dataset. *)

run_own_root(args, ix, emb) ==
  IF args.golden # {} \/ args.record \/ (args.cards = {} /\ args.export_cards = {}) THEN Error
  ELSE LET with  == IF args.cards = {} THEN ix ELSE attach_cards(ix, CHOOSE c \in args.cards : TRUE)
           ready == ReadyEmbedder(emb)
           done  == IF args.cards # {} /\ ready # {} THEN EmbedAll(with, CHOOSE e \in ready : TRUE) ELSE with
       IN  [ix |-> done, exported |-> IF args.export_cards = {} THEN {} ELSE {export_cards(done)}]

------------------------------------------------------------------------------
(* The golden set: sections expected by path and, perhaps, a heading. *)

load_queries(lines) ==
  LET qs == SelectSeq(lines, LAMBDA l : l.kind = "query") IN IF qs = <<>> THEN Error ELSE qs

Expected(h, q) ==
  \E e \in q.expect : h.rel_path = e.path /\ \A needle \in e.heading : needle \in h.headings

\* found[q] is what the search answers to q. Hits expected within k: how many, their
\* reciprocal ranks in sixtieths, and the misses.
GoldenMetrics(queries, found) ==
  LET Rank(q) == SelectInSeq(found[q], LAMBDA h : Expected(h, q))
  IN  [queries |-> Len(queries),
       hits |-> Len(SelectSeq(queries, LAMBDA q : Rank(q) > 0)),
       rr   |-> SumSeq(MapSeq(queries, LAMBDA q : IF Rank(q) = 0 THEN 0 ELSE RankUnit \div Rank(q))),
       misses |-> SelectSeq(queries, LAMBDA q : Rank(q) = 0)]

\* The rows measured: raw only, then with cards, then with vectors.
GoldenRuns(cards, emb) ==
  <<"raw">> \o (IF cards = {} THEN <<>>
                ELSE <<"cards">> \o IF ReadyEmbedder(emb) = {} THEN <<>> ELSE <<"hybrid">>)

------------------------------------------------------------------------------
(* --dataset docsqa. *)

SplitArg(args) == IF args.split = "all" THEN {} ELSE {args.split}

\* The holdout is scored only when it is opened.
Sealed(args) == args.split = "holdout" /\ ~args.open_holdout

Labelled(args, ds) ==
  IF args.extra_labels = {} THEN ds
  ELSE add_labels(ds, read_extra_labels(CHOOSE rows \in args.extra_labels : TRUE)).ds

\* The sample is written before anything is scored.
ExportedSample(args, ds, docs, splits, order) ==
  IF args.export_questions = {} THEN {}
  ELSE {sample(ds, splits, SplitArg(args), DOMAIN docs, args.sample, order)}

StoreRuns(args, ix, docs, emb, ds, splits, now) ==
  LET Opts(name, raw) == [name |-> name, raw_only |-> raw, fetch |-> args.fetch,
                          include_holdout |-> args.open_holdout, only |-> args.only, search |-> args.search]
      Row(name, raw, e) == evaluate(ix, docs, e, ds, splits, SplitArg(args), Opts(name, raw), now)
      carded == Carded(ix) # {}
  IN  <<Row("raw", TRUE, {})>> \o
      IF ~carded THEN <<>>
      ELSE <<Row("cards", FALSE, {})>> \o IF emb = {} THEN <<>> ELSE <<Row("hybrid", FALSE, emb)>>

ArmRun(args, docs, ds, splits) ==
  LET rows == read_arm_output(CHOOSE r \in args.arm_output : TRUE)
      how  == [name |-> "arm", include_holdout |-> args.open_holdout, only |-> args.only]
  IN  IF rows = Error THEN Error
      ELSE <<score_arm(docs, ds, splits, SplitArg(args), rows, how)>>

run_docsqa(args, dataset, ix, docs, emb, order, now) ==
  LET ds     == Labelled(args, dataset)
      with   == IF args.cards = {} THEN ix ELSE attach_cards(ix, CHOOSE c \in args.cards : TRUE)
      ready  == ReadyEmbedder(emb)
      full   == IF ready # {} /\ Carded(with) # {} /\ args.arm_output = {}
                THEN EmbedAll(with, CHOOSE e \in ready : TRUE) ELSE with
      splits == split_ids(order)
      runs   == IF args.arm_output # {} THEN ArmRun(args, docs, ds, splits)
                ELSE StoreRuns(args, full, docs, ready, ds, splits, now)
  IN  IF \/ Sealed(args) \/ dataset = Error \/ runs = Error
         \/ \E o \in args.out : report_dir(o, args.checkout) = Error
         \/ \E f \in args.export_questions : Inside(f, args.checkout)
      THEN Error
      ELSE [ix |-> full, coverage |-> coverage(ds, docs), runs |-> runs, splits |-> splits,
            sample |-> ExportedSample(args, ds, docs, splits, order)]

==============================================================================
