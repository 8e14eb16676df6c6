------------------------------ MODULE Embedder ------------------------------
(***************************************************************************)
(* Card vectors: the daemon's embedding passes (Engine::embed_pending in   *)
(* steps) and a concurrent `mda rebuild --embeddings`, which may be        *)
(* configured for another text variant, over one embeddings table while    *)
(* cards are attached and sections come and go.                            *)
(***************************************************************************)
EXTENDS Naturals, FiniteSets, FiniteSetsExt, SequencesExt

CONSTANTS Hashes,       \* section hashes, in their order: a set of naturals
          Card,         \* Card[h]: title, heading_path, questions, tldr, summary, keywords, entities
          DaemonText,   \* EmbedText variant the daemon was started with
          RebuildText,  \* variant the rebuild reads from the config
          EMBED_BATCH,  \* texts per call of the model (32)
          EMBED_STEP,   \* cards per daemon step (4 batches)
          MaxErrors,    \* bound: calls of the model that fail or answer short
          MaxEdits      \* bound: edits that drop or bring back a section

ASSUME HashAssumption == Hashes \subseteq Nat \ {0} /\ IsFiniteSet(Hashes)

ASSUME BatchAssumption == EMBED_BATCH \in Nat \ {0} /\ EMBED_STEP \in Nat \ {0}

VARIABLES
  state,     \* summaries.state of each hash
  live,      \* hashes some section carries
  vectors,   \* embeddings: <<hash, model>> -> the text the vector is of
  run,       \* the daemon's and the rebuild's pass
  errors, edits

vars == <<state, live, vectors, run, errors, edits>>

Actors == {"daemon", "rebuild"}

Variants == {"v1", "questions-first", "with-entities", "questions-first+with-entities"}

questions_first(v) == v \in {"questions-first", "questions-first+with-entities"}

with_entities(v) == v \in {"with-entities", "questions-first+with-entities"}

\* Mutant: the wrapper keeps the inner model's name.
Mutmodel(variant) == <<"bge-small-en-v1.5-q", "v1">>

\* VariantEmbedder carries the variant in its model id; the plain embedder is "v1".
model(variant) == <<"bge-small-en-v1.5-q", variant>>

Variant(a) == IF a = "daemon" THEN DaemonText ELSE RebuildText

ModelOf(a) == model(Variant(a))

\* Parts with nothing in them are left out.
embed_text_as(variant, card) ==
  LET Part(name) == IF card[name] THEN <<name>> ELSE <<>>
      questions(first) == IF questions_first(variant) = first THEN Part("questions") ELSE <<>>
  IN  Part("title") \o Part("heading_path") \o questions(TRUE) \o Part("tldr") \o Part("summary")
        \o Part("keywords") \o questions(FALSE)
        \o (IF with_entities(variant) THEN Part("entities") ELSE <<>>)

Text(variant, h) == <<h, embed_text_as(variant, Card[h])>>

------------------------------------------------------------------------------
(* The store *)

Carded(h) == state[h] = "summarized" /\ h \in live

HasVector(h, m) == <<h, m>> \in DOMAIN vectors

\* ORDER BY hash LIMIT limit.
Ordered(found, limit) ==
  [i \in 1 .. Min({limit, Cardinality(found)}) |-> CHOOSE h \in found : Cardinality({g \in found : g <= h}) = i]

\* Mutant: the row after the cursor never comes.
Mutcards_without_embedding(m, after, limit) ==
  Ordered({h \in Hashes : Carded(h) /\ h > after + 1 /\ ~HasVector(h, m)}, limit)

\* Carded live hashes after the cursor without a vector of m.
cards_without_embedding(m, after, limit) ==
  Ordered({h \in Hashes : Carded(h) /\ h > after /\ ~HasVector(h, m)}, limit)

embedding_counts(m) ==
  [carded   |-> Cardinality({h \in Hashes : Carded(h)}),
   embedded |-> Cardinality({h \in Hashes : Carded(h) /\ HasVector(h, m)})]

put_embedding(h, m, text) == [k \in DOMAIN vectors \cup {<<h, m>>} |-> IF k = <<h, m>> THEN text ELSE vectors[k]]

delete_embeddings_not(m) == [k \in {k \in DOMAIN vectors : k[2] = m} |-> vectors[k]]

------------------------------------------------------------------------------
(* Engine::embed_pending *)

Idle == [at |-> "idle", after |-> 0, done |-> 0, cards |-> <<>>, answer |-> <<>>]

Init ==
  /\ state = [h \in Hashes |-> "pending"] /\ live = Hashes
  /\ vectors = [k \in {} |-> <<>>]
  /\ run = [a \in Actors |-> Idle]
  /\ errors = 0 /\ edits = 0

Limit(a) == IF a = "daemon" THEN EMBED_STEP ELSE Cardinality(Hashes) + 1

\* The daemon starts a step when idle and after each round; the rebuild runs once.
Begin(a) ==
  /\ run[a].at = "idle"
  /\ run' = [run EXCEPT ![a] = [Idle EXCEPT !.at = "fetch"]]
  /\ UNCHANGED <<state, live, vectors, errors, edits>>

Fetch(a) ==
  /\ run[a].at = "fetch"
  /\ LET r     == run[a]
         cards == IF r.done < Limit(a)
                  THEN cards_without_embedding(ModelOf(a), r.after, Min({EMBED_BATCH, Limit(a) - r.done}))
                  ELSE <<>>
     IN  run' = [run EXCEPT ![a] = IF cards = <<>> THEN [r EXCEPT !.at = "count"]
                                   ELSE [r EXCEPT !.at = "embed", !.cards = cards, !.after = Last(cards)]]
  /\ UNCHANGED <<state, live, vectors, errors, edits>>

Ends(a) == IF a = "daemon" THEN "idle" ELSE "over"

\* One vector per text, in order.
Embed(a) ==
  /\ run[a].at = "embed"
  /\ run' = [run EXCEPT ![a].at = "put",
                        ![a].answer = [i \in DOMAIN run[a].cards |-> Text(Variant(a), run[a].cards[i])]]
  /\ UNCHANGED <<state, live, vectors, errors, edits>>

\* The model cannot be loaded, or fails on the batch: the pass ends, earlier batches stay.
EmbedFails(a) ==
  /\ run[a].at = "embed" /\ errors < MaxErrors
  /\ errors' = errors + 1
  /\ run' = [run EXCEPT ![a] = [Idle EXCEPT !.at = Ends(a)]]
  /\ UNCHANGED <<state, live, vectors, edits>>

Accepts(cards, answer) == Len(answer) = Len(cards)

\* The model skips a text: a count that does not match fails the pass.
EmbedsShort(a) ==
  /\ run[a].at = "embed" /\ errors < MaxErrors
  /\ errors' = errors + 1
  /\ LET cards  == run[a].cards
         answer == [i \in 1 .. Len(cards) - 1 |-> Text(Variant(a), cards[i + 1])]
     IN  run' = [run EXCEPT ![a] = IF Accepts(cards, answer) THEN [@ EXCEPT !.at = "put", !.answer = answer]
                                   ELSE [Idle EXCEPT !.at = Ends(a)]]
  /\ UNCHANGED <<state, live, vectors, edits>>

\* One upsert for each card of the batch that got a vector.
Put(a) ==
  /\ run[a].at = "put"
  /\ LET r == run[a]
     IN  \/ /\ r.answer # <<>>
            /\ vectors' = put_embedding(Head(r.cards), ModelOf(a), Head(r.answer))
            /\ run' = [run EXCEPT ![a].cards = Tail(@), ![a].answer = Tail(@), ![a].done = @ + 1]
         \/ /\ r.answer = <<>>
            /\ run' = [run EXCEPT ![a].at = "fetch", ![a].cards = <<>>]
            /\ UNCHANGED vectors
  /\ UNCHANGED <<state, live, errors, edits>>

\* The report; the daemon takes another step while something is left and the last one worked.
Count(a) ==
  /\ run[a].at = "count"
  /\ LET counts == embedding_counts(ModelOf(a))
     IN  run' = [run EXCEPT ![a] = [Idle EXCEPT !.at =
                   IF a = "rebuild" THEN "drop"
                   ELSE IF counts.carded > counts.embedded /\ run[a].done > 0 THEN "fetch" ELSE "idle"]]
  /\ UNCHANGED <<state, live, vectors, errors, edits>>

\* --drop-other-models, or not.
Drop ==
  /\ run["rebuild"].at = "drop"
  /\ vectors' \in {vectors, delete_embeddings_not(ModelOf("rebuild"))}
  /\ run' = [run EXCEPT !["rebuild"] = [Idle EXCEPT !.at = "over"]]
  /\ UNCHANGED <<state, live, errors, edits>>

------------------------------------------------------------------------------
(* What happens meanwhile *)

AttachSummary(h) ==
  /\ state[h] = "pending" /\ h \in live
  /\ state' = [state EXCEPT ![h] = "summarized"]
  /\ UNCHANGED <<live, vectors, run, errors, edits>>

\* An edit drops the last section of a hash, or one brings it back; vectors stay.
Edit(h) ==
  /\ edits < MaxEdits
  /\ edits' = edits + 1
  /\ live' = IF h \in live THEN live \ {h} ELSE live \cup {h}
  /\ UNCHANGED <<state, vectors, run, errors>>

Pass(a) == Fetch(a) \/ Embed(a) \/ Put(a) \/ Count(a)

Next ==
  \/ \E a \in Actors : Begin(a) \/ Pass(a) \/ EmbedFails(a) \/ EmbedsShort(a)
  \/ Drop
  \/ \E h \in Hashes : AttachSummary(h) \/ Edit(h)

Spec == Init /\ [][Next]_vars

\* The summarizer task comes back to the daemon's pass at every idle poll and after every
\* round; a pass that began goes on.
Fairness == WF_vars(Begin("daemon")) /\ WF_vars(Pass("daemon")) /\ WF_vars(Pass("rebuild")) /\ WF_vars(Drop)

FairSpec == Spec /\ Fairness

------------------------------------------------------------------------------
(* Properties *)

TypeOK ==
  /\ state \in [Hashes -> {"pending", "summarized"}] /\ live \subseteq Hashes
  /\ DOMAIN vectors \subseteq Hashes \X {model(v) : v \in Variants}
  /\ DOMAIN run = Actors /\ errors \in 0 .. MaxErrors /\ edits \in 0 .. MaxEdits

\* A stored vector is of its own card, in the text its model id names: batches are matched
\* with their answers, and a model that skips a text stores nothing (pipeline.rs
\* embed_pending; embed.rs: "vectors of different texts are never mixed").
VectorsOfTheirCards ==
  \A k \in DOMAIN vectors : vectors[k] = Text((CHOOSE v \in {DaemonText, RebuildText} : model(v) = k[2]), k[1])

\* A card that stays gets a vector of the daemon's model and keeps it, though it was attached
\* behind a pass's cursor, a pass failed, or a rebuild dropped the daemon's vectors.
CardsGetVectors ==
  \A h \in Hashes : <>[](Carded(h)) => <>[](HasVector(h, ModelOf("daemon")))

==============================================================================
