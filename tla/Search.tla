------------------------------- MODULE Search -------------------------------
(***************************************************************************)
(* Hybrid retrieval over the store (mda-core/src/search.rs and the read    *)
(* side of store/mod.rs): two BM25 lists and one vector list, cut at a     *)
(* depth, fused by reciprocal ranks, weighted by recency, filtered on time *)
(* and path, cut to k.                                                     *)
(*                                                                         *)
(* An index `ix` is what one query reads:                                  *)
(*   ix.row      section id -> [path, at, hash, state, text]; ids are      *)
(*               integers whose order is the order of the id strings, text *)
(*               is the set of words the section's row is found by         *)
(*   ix.card     hash -> words of its card                                 *)
(*   ix.rank     list -> order BM25 puts sections in (external to src/)    *)
(*   ix.vectors  sequence, in hash order, of [hash, model, dim, whole]     *)
(*   ix.cosine   hash -> cosine with the query's vector                    *)
(* `opts` is SearchOptions; an optional bound is {} or {value}, a path     *)
(* prefix is {} or {the paths that start with it}. A query is a set of     *)
(* words. Scores are integers: a common multiple stands for 1.             *)
(***************************************************************************)
EXTENDS Orders, SequencesExt, FiniteSetsExt, Functions

CONSTANTS
  Depth,         \* candidates per list for each hit asked for: 4 in the code
  PlainFloor,    \* least depth without a filter: 16
  FilteredFloor, \* least depth with one: 200
  Stopwords,     \* words the stop-word option drops from the AND form
  Star,          \* a word that is only `*`: fts_escape leaves no term of it
  NotFinite,     \* NaN or an infinity in the configuration
  RankBound,     \* longest list scored exactly
  AgeBound       \* ages above this many half-lives weigh the same

ASSUME SearchAssumption ==
  /\ {Depth, PlainFloor, FilteredFloor, RankBound, AgeBound} \subseteq Nat \ {0}
  /\ Star \notin Stopwords

------------------------------------------------------------------------------
(* The two full-text tables, read through store.search_raw / search_cards. *)

fts_escape(words) == [op |-> "and", terms |-> words \ {Star}]

or_expression(words) == [op |-> "or", terms |-> words \ {Star}]

\* One term reads the same under AND and OR: the two strings are equal.
SameText(e, f) == e.terms = f.terms /\ (e.op = f.op \/ Cardinality(e.terms) < 2)

Matches(expr, words) ==
  IF expr.op = "and" THEN expr.terms \subseteq words ELSE expr.terms \cap words # {}

without_stopwords(words) == IF words \subseteq Stopwords THEN words ELSE words \ Stopwords

\* LIMIT k over the matching rows in BM25 order; no terms means no results.
Found(ix, list, expr, ids, k) ==
  IF expr.terms = {} THEN <<>>
  ELSE Take(Filter(ix.rank[list], LAMBDA id : id \in ids), k)

search_raw(ix, expr, k) ==
  Found(ix, "raw", expr, {id \in DOMAIN ix.row : Matches(expr, ix.row[id].text)}, k)

search_cards(ix, expr, k) ==
  Found(ix, "cards", expr,
        {id \in DOMAIN ix.row : /\ ix.row[id].state = "summarized"
                                /\ Matches(expr, ix.card[ix.row[id].hash])}, k)

------------------------------------------------------------------------------
(* Vectors. *)

LiveHashes(ix) == {ix.row[id].hash : id \in DOMAIN ix.row}

\* Well-formed rows of the model whose hash is live, all of the first row's dimension.
vector_set(ix, model) ==
  LET sound == Filter(ix.vectors, LAMBDA v : /\ v.model = model
                                             /\ v.hash \in LiveHashes(ix)
                                             /\ v.whole /\ v.dim > 0)
  IN  Filter(sound, LAMBDA v : v.dim = sound[1].dim)

section_ids_by_hash(ix, h) == {id \in DOMAIN ix.row : ix.row[id].hash = h}

\* Best cosine first, then hash order; every live section of a hash, in id order, cut at k.
top_k(ix, set, dim, k) ==
  LET Place(id)  == CHOOSE i \in DOMAIN set : set[i].hash = ix.row[id].hash
      Cosine(id) == ix.cosine[ix.row[id].hash]
      found      == UNION {section_ids_by_hash(ix, set[i].hash) : i \in DOMAIN set}
      Before(a, b) == \/ Cosine(a) > Cosine(b)
                      \/ Cosine(a) = Cosine(b) /\ Place(a) < Place(b)
                      \/ Cosine(a) = Cosine(b) /\ Place(a) = Place(b) /\ a < b
  IN  IF set = <<>> \/ set[1].dim # dim THEN <<>> ELSE Take(InOrder(found, Pairs(found, Before)), k)

\* `emb` is {} (embeddings off) or {[model, dim, ready, works]}.
vector_list(ix, fetch, opts, emb) ==
  IF \/ ~opts.vectors \/ opts.raw_only \/ emb = {}
  THEN <<>>
  ELSE LET e == CHOOSE x \in emb : TRUE
       IN  IF e.ready /\ e.works THEN top_k(ix, vector_set(ix, e.model), e.dim, fetch) ELSE <<>>

------------------------------------------------------------------------------
(* Candidates, filters, fusion. *)

Filtered(opts) == opts.since # {} \/ opts.until # {} \/ opts.path_prefix # {}

AtLeast(a, b) == IF a < b THEN b ELSE a

fetch_depth(opts) == AtLeast(Depth * opts.k, IF Filtered(opts) THEN FilteredFloor ELSE PlainFloor)

passes(section, opts) ==
  /\ \A t \in opts.since : section.at >= t
  /\ \A t \in opts.until : section.at <= t
  /\ \A paths \in opts.path_prefix : section.path \in paths

ListsOf(ix, expr, fetch, opts) ==
  [raw   |-> search_raw(ix, expr, fetch),
   cards |-> IF opts.raw_only THEN <<>> ELSE search_cards(ix, expr, fetch)]

MutLexicalLists(ix, query, fetch, opts) ==
  LET or_expr == or_expression(query)
      first   == ListsOf(ix, fts_escape(query), fetch, opts)
      fall    == first.raw = <<>> /\ first.cards = <<>> /\ opts.or_fallback
  IN  [lists |-> IF fall THEN ListsOf(ix, or_expr, fetch, opts) ELSE first, via_or |-> fall]

\* The AND form, or the OR form when nothing the AND form found passes the filters.
lexical_lists(ix, query, fetch, opts) ==
  LET and_expr == fts_escape(IF opts.and_stopwords THEN without_stopwords(query) ELSE query)
      or_expr  == or_expression(query)
      first    == ListsOf(ix, and_expr, fetch, opts)
      eligible == \E id \in ToSet(first.raw) \cup ToSet(first.cards) : passes(ix.row[id], opts)
      fall     == /\ ~eligible /\ opts.or_fallback
                  /\ ~SameText(or_expr, and_expr) /\ or_expr.terms # {}
  IN  [lists |-> IF fall THEN ListsOf(ix, or_expr, fetch, opts) ELSE first, via_or |-> fall]

Clamp(v, lo, hi) == IF v < lo THEN lo ELSE IF v > hi THEN hi ELSE v

FiniteOr(v, lo, hi, dflt) == IF v = NotFinite THEN dflt ELSE Clamp(v, lo, hi)

DefaultRrfK == 60

RrfK(v) == FiniteOr(v, 1, 1000000, DefaultRrfK)

RawWeight(v) == FiniteOr(v, 0, 100, 1)

\* A common multiple of every k + rank + 1: the score that stands for 1.
ScoreUnit(k) == FoldSet(LAMBDA a, b : a * b, 1, (k + 1) .. (k + RankBound))

rrf(rank, k) == ScoreUnit(k) \div (k + rank + 1)

Position(list, id) == CHOOSE i \in DOMAIN list : list[i] = id

ScoreIn(list, id, k) == IF Contains(list, id) THEN rrf(Position(list, id) - 1, k) ELSE 0

MutMatched(l, id) ==
  IF Contains(l.cards, id) THEN "cards" ELSE IF Contains(l.raw, id) THEN "raw" ELSE "vector"

matched(l, id) ==
  CASE Contains(l.cards, id) /\ Contains(l.raw, id) -> "both"
    [] Contains(l.cards, id) /\ ~Contains(l.raw, id) -> "cards"
    [] ~Contains(l.cards, id) /\ Contains(l.raw, id) -> "raw"
    [] OTHER -> "vector"

fuse(ix, l, vector, opts) ==
  LET k     == RrfK(opts.rrf_k)
      raw_w == RawWeight(opts.raw_list_weight)
      found == ToSet(l.cards) \cup ToSet(l.raw) \cup ToSet(vector)
  IN  {[id |-> id, matched |-> matched(l, id), vector |-> Contains(vector, id),
        score |-> ScoreIn(l.cards, id, k) + ScoreIn(l.raw, id, k) * raw_w + ScoreIn(vector, id, k)] :
         id \in {i \in found : i \in DOMAIN ix.row /\ passes(ix.row[i], opts)}}

\* Ages in half-lives, half the weight kept for ever; 2^(AgeBound + 1) stands for 1.
recency_factor(at, now, half_life) ==
  LET age == Clamp((now - at) \div half_life, 0, AgeBound)
  IN  IF half_life <= 0 THEN 2 ^ (AgeBound + 1) ELSE 2 ^ AgeBound + 2 ^ (AgeBound - age)

to_hit(ix, f, now, opts, via_or) ==
  [section_id |-> f.id, rel_path |-> ix.row[f.id].path, matched |-> f.matched, vector |-> f.vector,
   score |-> f.score * recency_factor(ix.row[f.id].at, now, opts.recency_half_life),
   pending |-> ix.row[f.id].state # "summarized", via_or_fallback |-> via_or]

BestFirst(hits) ==
  InOrder(hits, Pairs(hits, LAMBDA a, b : \/ a.score > b.score
                                          \/ a.score = b.score /\ a.section_id < b.section_id))

search_with(ix, query, opts, emb, now) ==
  IF query = {} THEN <<>>
  ELSE LET fetch  == fetch_depth(opts)
           lex    == lexical_lists(ix, query, fetch, opts)
           vector == vector_list(ix, fetch, opts, emb)
           hits   == {to_hit(ix, f, now, opts, lex.via_or) : f \in fuse(ix, lex.lists, vector, opts)}
       IN  Take(BestFirst(hits), opts.k)

\* for_config: a tunable that is not a number takes its default, any other is clamped.
for_config(opts, cfg) ==
  [opts EXCEPT !.rrf_k = RrfK(cfg.rrf_k), !.raw_list_weight = RawWeight(cfg.raw_weight),
               !.and_stopwords = cfg.and_stopwords]

explain(ix, query, opts, emb, now) ==
  LET k    == fetch_depth(opts)
      lex  == lexical_lists(ix, query, k, opts)
      note == CASE ~opts.vectors -> {"vectors disabled"}
                [] opts.vectors /\ emb = {} -> {"embeddings are off"}
                [] opts.vectors /\ emb # {} -> IF \E e \in emb : ~e.ready THEN {"not downloaded"} ELSE {}
  IN  [cards |-> lex.lists.cards, raw |-> lex.lists.raw, via_or_fallback |-> lex.via_or,
       vector |-> IF note = {} THEN vector_list(ix, k, opts, emb) ELSE <<>>,
       vector_note |-> note, fused |-> search_with(ix, query, opts, emb, now)]

------------------------------------------------------------------------------
(* Snippets. A line is a sequence of tokens: "#" a leading hash, "<" the    *)
(* start of a tag, ">" its end, "{" a lone brace, "import" an MDX statement,*)
(* anything else a word.                                                    *)

Markup == {"#", "<", ">", "{", "import"}

opens_tag(line) == line # <<>> /\ line[1] = "<"

\* <<depth, words met at depth 0>> after reading the line.
TagDepth(line) ==
  FoldLeft(LAMBDA acc, t : CASE t = "<" -> <<acc[1] + 1, acc[2]>>
                             [] t = ">" -> <<AtLeast(acc[1] - 1, 0), acc[2]>>
                             [] OTHER -> <<acc[1], acc[2] + IF acc[1] = 0 THEN 1 ELSE 0>>,
           <<0, 0>>, line)

is_markup_only(line) ==
  \/ line # <<>> /\ line[1] = "import"
  \/ line = <<"{">>
  \/ opens_tag(line) /\ TagDepth(line)[2] = 0

AfterTag(line) == SubSeq(line, SelectInSeq(line, LAMBDA t : t = ">") + 1, Len(line))

SnippetLine(acc, line) ==
  IF acc.in_tag /\ ~Contains(line, ">") THEN acc
  ELSE LET t == IF acc.in_tag THEN AfterTag(line) ELSE line
       IN  IF opens_tag(t) /\ ~Contains(t, ">") THEN [acc EXCEPT !.in_tag = TRUE]
           ELSE [in_tag |-> FALSE,
                 words  |-> acc.words \o IF is_markup_only(t) THEN <<>> ELSE t]

\* The lines after the leading ones that start with `#`, markup-only lines left out.
snippet_of(lines) ==
  LET first == SelectInSeq(lines, LAMBDA l : l = <<>> \/ l[1] # "#")
      body  == IF first = 0 THEN <<>> ELSE SubSeq(lines, first, Len(lines))
  IN  FoldLeft(SnippetLine, [in_tag |-> FALSE, words |-> <<>>], body).words

==============================================================================
