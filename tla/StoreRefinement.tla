-------------------------- MODULE StoreRefinement --------------------------
(***************************************************************************)
(* The refinement mapping from the Store's tables to KnowledgeIndex: live  *)
(* documents are the rows without a tombstone, cards the summarized rows,  *)
(* and the two sets of hits are read from the full-text indexes alone.     *)
(* The docs table is also what a reader of the timeline concludes from it. *)
(***************************************************************************)
EXTENDS Store

LiveContent == [d \in LiveDocs |-> docs[d].content]

BoughtCards == [h \in {x \in DOMAIN summaries : Summarized(x)} |-> summaries[h].card]

TextHits == {<<row.doc, row.idx, row.text>> : row \in Range(sections_raw_fts)}

CardHits == {<<row.doc, row.idx, row.card>> : row \in Range(cards_fts)}

KI == INSTANCE KnowledgeIndex
        WITH content <- LiveContent, cards <- BoughtCards,
             text_hits <- TextHits, card_hits <- CardHits

\* Every transaction of the store is one step of the abstract index or none of
\* it: searches never see a half-replaced document, a rename is the removal of
\* the old path, failures and retries are invisible.
ImplementsKnowledgeIndex == KI!Spec

-----------------------------------------------------------------------------
(* The timeline *)

\* One transaction's event set applied to the reader's view: who is live, and
\* whose first sighting each document's history is.
Replay(view, evs) ==
  LET created  == {e.doc : e \in {x \in evs : x.kind \in {"doc_created", "doc_restored"}}}
      deleted  == {e.doc : e \in {x \in evs : x.kind = "doc_deleted"}}
      renames  == {x \in evs : x.kind = "doc_renamed"}
      first    == {e.doc : e \in {x \in evs : x.kind = "doc_created"}}
  IN  [live    |-> (view.live \cup created) \ (deleted \cup {e.from : e \in renames}),
       history |-> [d \in Docs |->
                      IF d \in first THEN d
                      ELSE IF \E e \in renames : e.doc = d
                           THEN view.history[(CHOOSE e \in renames : e.doc = d).from]
                           ELSE view.history[d]]]

\* A reader who has seen no event.
NothingSeen == [live |-> {}, history |-> [d \in Docs |-> d]]

\* The reader's view after the first n transactions.
Replayed[n \in 0..Len(events)] ==
  IF n = 0 THEN NothingSeen ELSE Replay(Replayed[n - 1], events[n])

\* The timeline tells the whole story of which documents exist and where each
\* one's created_at and first_seen_at come from: replaying created, restored,
\* deleted and renamed events gives the live rows of docs and their history.
TimelineReplays ==
  LET view == Replayed[Len(events)]
  IN  /\ view.live = LiveDocs
      /\ \A d \in DOMAIN docs : view.history[d] = docs[d].history

=============================================================================
