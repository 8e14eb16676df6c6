---------------------------- MODULE StoreProofs ----------------------------
(***************************************************************************)
(* The Store's tables stay well-typed and its two full-text indexes exact, *)
(* its section rows are the parse of the live documents, and it implements *)
(* KnowledgeIndex: for every set of paths, contents, hashes, cards and     *)
(* rowids, and for timelines of every length.                              *)
(***************************************************************************)
EXTENDS StoreRefinement, TLAPS

\* delete_doc_sections(d) on one table removes the rowids of d and no other.
LEMMA KeptRows ==
  ASSUME NEW table, NEW d
  PROVE  /\ DOMAIN Kept(table, d) = DOMAIN table \ RowsOf(d)
         /\ \A r \in DOMAIN table \ RowsOf(d) : Kept(table, d)[r] = table[r]
  BY DEF Kept, Restrict

\* Rows written over the rows a table keeps.
LEMMA OverlayRows ==
  ASSUME NEW new, NEW kept
  PROVE  /\ DOMAIN Over(new, kept) = DOMAIN new \cup DOMAIN kept
         /\ \A r \in DOMAIN new : Over(new, kept)[r] = new[r]
         /\ \A r \in DOMAIN kept \ DOMAIN new : Over(new, kept)[r] = kept[r]
  BY DEF Over

LEMMA OverlayType ==
  ASSUME NEW R, NEW S, NEW new, NEW kept,
         DOMAIN new \subseteq R, new \in [DOMAIN new -> S],
         DOMAIN kept \subseteq R, kept \in [DOMAIN kept -> S]
  PROVE  /\ DOMAIN Over(new, kept) \subseteq R
         /\ Over(new, kept) \in [DOMAIN Over(new, kept) -> S]
  BY DEF Over

LEMMA KeptType ==
  ASSUME NEW R, NEW S, NEW d, NEW table,
         DOMAIN table \subseteq R, table \in [DOMAIN table -> S]
  PROVE  /\ DOMAIN Kept(table, d) \subseteq R
         /\ Kept(table, d) \in [DOMAIN Kept(table, d) -> S]
  BY DEF Kept, Restrict

\* A placement gives each of the n sections exactly one rowid.
LEMMA PlacementIsBijection ==
  ASSUME NEW n \in Nat, NEW place \in Placements(n)
  PROVE  /\ DOMAIN place \subseteq Rowids
         /\ place \in [DOMAIN place -> 1..n]
         /\ \A r, q \in DOMAIN place : place[r] = place[q] => r = q
         /\ \A i \in 1..n : \E r \in DOMAIN place : place[r] = i
  BY DEF Placements, Bijection, Injection, Surjection, IsInjective

\* Each section a placement writes has a hash of the content it comes from.
LEMMA PlacedHash ==
  ASSUME NEW c \in Contents, NEW place \in Placements(Len(SectionsOf[c])),
         NEW r \in DOMAIN place
  PROVE  /\ place[r] \in DOMAIN SectionsOf[c]
         /\ place[r] \in Nat
         /\ SectionsOf[c][place[r]] \in Hashes
<1>1. SectionsOf[c] \in Seq(Hashes)
  BY StoreAssumption
<1>2. Len(SectionsOf[c]) \in Nat /\ DOMAIN SectionsOf[c] = 1..Len(SectionsOf[c])
  BY <1>1
<1>3. place[r] \in 1..Len(SectionsOf[c])
  BY <1>2, PlacementIsBijection
<1> QED BY <1>1, <1>2, <1>3

\* Appending a set of events to a typed timeline keeps it typed.
LEMMA RecordType ==
  ASSUME events \in Seq(SUBSET Event), NEW evs \in SUBSET Event, Record(evs)
  PROVE  events' \in Seq(SUBSET Event)
  BY DEF Record

LEMMA DocEventType ==
  ASSUME NEW d \in Docs, NEW from \in Docs,
         NEW kind \in {"doc_created", "doc_restored", "doc_changed", "doc_deleted",
                       "doc_renamed"}
  PROVE  DocEvent(kind, d, from) \in Event
  BY DEF DocEvent, Event

LEMMA SectionEventType ==
  ASSUME TypeOK, NEW r \in DOMAIN sections,
         NEW kind \in {"section_summarized", "section_failed"}
  PROVE  SectionEvent(kind, sections[r]) \in Event
  BY DEF SectionEvent, Event, TypeOK, SectionRow

\* delete_doc_sections keeps the three section tables typed.
LEMMA DeleteType ==
  ASSUME TypeOK, NEW d \in Docs, DeleteDocSections(d)
  PROVE  /\ DOMAIN sections' \subseteq Rowids
         /\ sections' \in [DOMAIN sections' -> SectionRow]
         /\ DOMAIN sections_raw_fts' \subseteq Rowids
         /\ sections_raw_fts' \in [DOMAIN sections_raw_fts' -> RawRow]
         /\ DOMAIN cards_fts' \subseteq Rowids
         /\ cards_fts' \in [DOMAIN cards_fts' -> CardRow]
  BY DEF DeleteDocSections, TypeOK, Kept, Restrict

\* A summarized hash has a card to put in the index.
LEMMA SummarizedHasCard ==
  ASSUME TypeOK, StateMatchesCard, NEW h, Summarized(h)
  PROVE  h \in Hashes /\ summaries[h].card \in Cards
  BY DEF TypeOK, StateMatchesCard, Summarized, SummaryRow

\* Replacing a document's rows keeps the three section tables typed.
LEMMA InsertType ==
  ASSUME TypeOK, StateMatchesCard, NEW d \in Docs, NEW c \in Contents,
         NEW place \in Placements(Len(SectionsOf[c])), InsertSections(d, c, place)
  PROVE  /\ DOMAIN sections' \subseteq Rowids
         /\ sections' \in [DOMAIN sections' -> SectionRow]
         /\ DOMAIN sections_raw_fts' \subseteq Rowids
         /\ sections_raw_fts' \in [DOMAIN sections_raw_fts' -> RawRow]
         /\ DOMAIN cards_fts' \subseteq Rowids
         /\ cards_fts' \in [DOMAIN cards_fts' -> CardRow]
<1> DEFINE carded == {r \in DOMAIN place : Summarized(SectionsOf[c][place[r]])}
<1>1. DOMAIN place \subseteq Rowids
  <2>1. Len(SectionsOf[c]) \in Nat
    BY StoreAssumption
  <2> QED BY <2>1, PlacementIsBijection
<1>2. \A r \in DOMAIN place : place[r] \in Nat /\ SectionsOf[c][place[r]] \in Hashes
  BY PlacedHash
<1>3. \A r \in carded : summaries[SectionsOf[c][place[r]]].card \in Cards
  BY SummarizedHasCard
<1>4. /\ DOMAIN sections' \subseteq Rowids
      /\ sections' \in [DOMAIN sections' -> SectionRow]
  <2> DEFINE new == [r \in DOMAIN place |->
                       [doc |-> d, idx |-> place[r], hash |-> SectionsOf[c][place[r]]]]
  <2>1. DOMAIN new \subseteq Rowids /\ new \in [DOMAIN new -> SectionRow]
    BY <1>1, <1>2 DEF SectionRow
  <2>2. /\ DOMAIN Kept(sections, d) \subseteq Rowids
        /\ Kept(sections, d) \in [DOMAIN Kept(sections, d) -> SectionRow]
    BY KeptType DEF TypeOK
  <2>3. sections' = Over(new, Kept(sections, d))
    BY DEF InsertSections
  <2> HIDE DEF new
  <2> QED BY <2>1, <2>2, <2>3, OverlayType
<1>5. /\ DOMAIN sections_raw_fts' \subseteq Rowids
      /\ sections_raw_fts' \in [DOMAIN sections_raw_fts' -> RawRow]
  <2> DEFINE new == [r \in DOMAIN place |->
                       [doc |-> d, idx |-> place[r], text |-> SectionsOf[c][place[r]]]]
  <2>1. DOMAIN new \subseteq Rowids /\ new \in [DOMAIN new -> RawRow]
    BY <1>1, <1>2 DEF RawRow
  <2>2. /\ DOMAIN Kept(sections_raw_fts, d) \subseteq Rowids
        /\ Kept(sections_raw_fts, d) \in [DOMAIN Kept(sections_raw_fts, d) -> RawRow]
    BY KeptType DEF TypeOK
  <2>3. sections_raw_fts' = Over(new, Kept(sections_raw_fts, d))
    BY DEF InsertSections
  <2> HIDE DEF new
  <2> QED BY <2>1, <2>2, <2>3, OverlayType
<1>6. /\ DOMAIN cards_fts' \subseteq Rowids
      /\ cards_fts' \in [DOMAIN cards_fts' -> CardRow]
  <2> DEFINE new == [r \in carded |->
                       [doc |-> d, idx |-> place[r],
                        card |-> summaries[SectionsOf[c][place[r]]].card]]
  <2>1. DOMAIN new \subseteq Rowids /\ new \in [DOMAIN new -> CardRow]
    BY <1>1, <1>2, <1>3 DEF CardRow
  <2>2. /\ DOMAIN Kept(cards_fts, d) \subseteq Rowids
        /\ Kept(cards_fts, d) \in [DOMAIN Kept(cards_fts, d) -> CardRow]
    BY KeptType DEF TypeOK
  <2>3. cards_fts' = Over(new, Kept(cards_fts, d))
    BY DEF InsertSections
  <2> HIDE DEF new
  <2> QED BY <2>1, <2>2, <2>3, OverlayType
<1> QED BY <1>4, <1>5, <1>6

-----------------------------------------------------------------------------
(* The inductive invariant *)

\* TypeOK alone is not inductive: the card a new row gets is a card only
\* because summarized hashes have one.  The indexes stay exact because the
\* kept rows' hashes have summaries rows, which an upsert only adds to.
IInv ==
  /\ TypeOK
  /\ StateMatchesCard
  /\ ForeignKeys
  /\ RawIndexExact
  /\ CardIndexExact

\* An upsert adds pending summaries rows and changes none.
LEMMA UpsertSummaries ==
  ASSUME TypeOK, StateMatchesCard, NEW d \in Docs, NEW c \in Contents,
         summaries' = NewSummaries(d, c)
  PROVE  /\ DOMAIN summaries' = DOMAIN summaries \cup NewHashes(d, c)
         /\ \A h \in DOMAIN summaries : summaries'[h] = summaries[h]
         /\ \A h : h \in DOMAIN summaries' /\ summaries'[h].state = "summarized"
                   <=> Summarized(h)
         /\ DOMAIN summaries' \subseteq Hashes
         /\ summaries' \in [DOMAIN summaries' -> SummaryRow]
         /\ StateMatchesCard'
<1> DEFINE row == [state |-> "pending", card |-> NoCard]
<1>1. SectionsOf[c] \in Seq(Hashes)
  BY StoreAssumption
<1>2. NewHashes(d, c) \subseteq Hashes /\ NewHashes(d, c) \cap DOMAIN summaries = {}
  BY <1>1 DEF NewHashes, Range
<1>3. row \in SummaryRow
  BY DEF SummaryRow
<1>4. /\ DOMAIN summaries' = DOMAIN summaries \cup NewHashes(d, c)
      /\ \A h \in NewHashes(d, c) : summaries'[h] = row
      /\ \A h \in DOMAIN summaries : summaries'[h] = summaries[h]
  BY <1>2 DEF NewSummaries, Over
<1>5. summaries' \in [DOMAIN summaries' -> SummaryRow]
  BY <1>2, <1>3, <1>4 DEF NewSummaries, Over, TypeOK
<1>6. \A h : h \in DOMAIN summaries' /\ summaries'[h].state = "summarized"
              <=> Summarized(h)
  BY <1>2, <1>4 DEF Summarized
<1>7. StateMatchesCard'
  BY <1>4 DEF StateMatchesCard
<1>8. DOMAIN summaries' \subseteq Hashes
  BY <1>2, <1>4 DEF TypeOK
<1> QED BY <1>4, <1>5, <1>6, <1>7, <1>8

\* Replacing a document keeps both indexes exact and every key resolvable.
LEMMA UpsertInv ==
  ASSUME IInv, NEW d \in Docs, NEW c \in Contents, UpsertDocument(d, c)
  PROVE  IInv'
<1>1. PICK place \in Placements(Len(SectionsOf[c])) :
        /\ DOMAIN place \cap (DOMAIN sections \ RowsOf(d)) = {}
        /\ InsertSections(d, c, place)
        /\ docs' = WriteDocRow(d, c)
        /\ summaries' = NewSummaries(d, c)
        /\ Record(UpsertEvents(d, c))
  BY DEF UpsertDocument
<1>2. TypeOK /\ StateMatchesCard /\ ForeignKeys /\ RawIndexExact /\ CardIndexExact
  BY DEF IInv
<1> DEFINE hash(r) == SectionsOf[c][place[r]]
           old == DOMAIN sections \ RowsOf(d)
<1>3. \A r \in DOMAIN place : hash(r) \in Range(SectionsOf[c])
  BY PlacedHash DEF Range
<1>4. DOMAIN docs' = DOMAIN docs \cup {d} /\ docs' \in [DOMAIN docs' -> DocRow]
  BY <1>1, <1>2 DEF WriteDocRow, Over, TypeOK, DocRow
<1>5. events' \in Seq(SUBSET Event)
  <2>1. UpsertEvents(d, c) \subseteq Event
    BY DocEventType DEF UpsertEvents
  <2> QED BY <1>1, <1>2, <2>1, RecordType DEF TypeOK
\* What the section tables hold now that d's rows were replaced by c's.
<1>6. /\ DOMAIN sections' = DOMAIN place \cup old
      /\ \A r \in DOMAIN place :
           sections'[r] = [doc |-> d, idx |-> place[r], hash |-> hash(r)]
      /\ \A r \in old : r \notin DOMAIN place /\ sections'[r] = sections[r]
  BY <1>1 DEF InsertSections, Over, Kept, Restrict
<1>7. /\ DOMAIN sections_raw_fts' = DOMAIN place \cup old
      /\ \A r \in DOMAIN place :
           sections_raw_fts'[r] = [doc |-> d, idx |-> place[r], text |-> hash(r)]
      /\ \A r \in old : sections_raw_fts'[r] = sections_raw_fts[r]
  BY <1>1, <1>2 DEF InsertSections, Over, Kept, Restrict, RawIndexExact
<1>8. /\ DOMAIN cards_fts' = {r \in DOMAIN place : Summarized(hash(r))}
                               \cup (DOMAIN cards_fts \ RowsOf(d))
      /\ \A r \in DOMAIN place : Summarized(hash(r)) =>
           cards_fts'[r] = [doc |-> d, idx |-> place[r], card |-> summaries[hash(r)].card]
      /\ DOMAIN cards_fts \ RowsOf(d) = {r \in old : Summarized(sections[r].hash)}
      /\ \A r \in DOMAIN cards_fts \ RowsOf(d) : cards_fts'[r] = cards_fts[r]
  BY <1>1, <1>2 DEF InsertSections, Over, Kept, Restrict, CardIndexExact
<1>9. /\ DOMAIN summaries' = DOMAIN summaries \cup NewHashes(d, c)
      /\ \A h \in DOMAIN summaries : summaries'[h] = summaries[h]
      /\ \A h : h \in DOMAIN summaries' /\ summaries'[h].state = "summarized"
                <=> Summarized(h)
      /\ DOMAIN summaries' \subseteq Hashes
      /\ summaries' \in [DOMAIN summaries' -> SummaryRow]
      /\ StateMatchesCard'
  BY <1>1, <1>2, UpsertSummaries
<1>10. TypeOK'
  BY <1>1, <1>2, <1>4, <1>5, <1>9, InsertType DEF TypeOK
<1>11. \A r \in DOMAIN place : hash(r) \in DOMAIN summaries'
  <2> SUFFICES ASSUME NEW r \in DOMAIN place, hash(r) \notin DOMAIN summaries
               PROVE  hash(r) \in NewHashes(d, c)
    BY <1>9
  <2>1. \A q \in RowsOf(d) : q \notin RowsWith(hash(r))
    BY <1>2 DEF ForeignKeys, RowsOf, RowsWith
  <2> QED BY <1>3, <2>1 DEF NewHashes
<1>12. ForeignKeys'
  <2>1. \A r \in DOMAIN place : /\ sections'[r].doc \in DOMAIN docs'
                                /\ sections'[r].hash \in DOMAIN summaries'
    BY <1>4, <1>6, <1>11
  <2>2. \A r \in old : /\ sections'[r].doc \in DOMAIN docs'
                       /\ sections'[r].hash \in DOMAIN summaries'
    BY <1>2, <1>4, <1>6, <1>9 DEF ForeignKeys
  <2> QED BY <1>6, <2>1, <2>2 DEF ForeignKeys
<1>13. RawIndexExact'
  BY <1>2, <1>6, <1>7 DEF RawIndexExact
<1>14. CardIndexExact'
  <2> DEFINE settled(h) == h \in DOMAIN summaries' /\ summaries'[h].state = "summarized"
             card(r)    == [doc  |-> sections'[r].doc, idx |-> sections'[r].idx,
                            card |-> summaries'[sections'[r].hash].card]
  <2>1. DOMAIN cards_fts' = {r \in DOMAIN sections' : settled(sections'[r].hash)}
    BY <1>6, <1>8, <1>9
  <2>2. ASSUME NEW r \in DOMAIN cards_fts', r \in DOMAIN place
        PROVE  cards_fts'[r] = card(r)
    BY <1>6, <1>8, <1>9, <2>1, <2>2 DEF Summarized
  <2>3. ASSUME NEW r \in DOMAIN cards_fts', r \notin DOMAIN place
        PROVE  cards_fts'[r] = card(r)
    <3>1. r \in DOMAIN cards_fts \ RowsOf(d)
      BY <1>8, <2>3
    <3>2. r \in old /\ Summarized(sections[r].hash)
      BY <1>8, <3>1
    <3>3. summaries'[sections[r].hash] = summaries[sections[r].hash]
      BY <1>9, <3>2 DEF Summarized
    <3> QED BY <1>2, <1>6, <1>8, <3>1, <3>2, <3>3 DEF CardIndexExact
  <2> QED BY <2>1, <2>2, <2>3 DEF CardIndexExact, Summarized
<1> QED BY <1>9, <1>10, <1>12, <1>13, <1>14 DEF IInv

\* Dropping a document's rows from all three tables keeps them exact.
LEMMA DeleteInv ==
  ASSUME IInv, NEW d \in Docs, DeleteDocSections(d), UNCHANGED summaries,
         DOMAIN docs \subseteq DOMAIN docs'
  PROVE  ForeignKeys' /\ RawIndexExact' /\ CardIndexExact' /\ StateMatchesCard'
<1>1. ForeignKeys'
  BY DEF IInv, DeleteDocSections, ForeignKeys, Kept, Restrict
<1>2. RawIndexExact'
  BY DEF IInv, DeleteDocSections, RawIndexExact, Kept, Restrict
<1>3. CardIndexExact'
  BY DEF IInv, DeleteDocSections, CardIndexExact, Summarized, Kept, Restrict
<1>4. StateMatchesCard'
  BY DEF IInv, StateMatchesCard
<1> QED BY <1>1, <1>2, <1>3, <1>4

LEMMA TombstoneInv ==
  ASSUME IInv, NEW d \in Docs, Tombstone(d)
  PROVE  IInv'
<1>1. TypeOK
  BY DEF IInv
<1>2. DOMAIN docs' = DOMAIN docs /\ docs' \in [DOMAIN docs' -> DocRow]
  BY <1>1 DEF Tombstone, LiveDocs, TypeOK, DocRow
<1>3. events' \in Seq(SUBSET Event)
  <2>1. {DocEvent("doc_deleted", d, d)} \in SUBSET Event
    BY DocEventType
  <2> QED BY <1>1, <2>1, RecordType DEF Tombstone, TypeOK
<1>4. DeleteDocSections(d) /\ UNCHANGED summaries
  BY DEF Tombstone
<1>5. TypeOK'
  BY <1>1, <1>2, <1>3, <1>4, DeleteType DEF TypeOK
<1> QED BY <1>2, <1>4, <1>5, DeleteInv DEF IInv

LEMMA NoteRenameInv ==
  ASSUME IInv, NEW old \in Docs, NEW new \in Docs, NoteRename(old, new)
  PROVE  IInv'
<1>1. TypeOK
  BY DEF IInv
<1>2. DOMAIN docs' = DOMAIN docs /\ docs' \in [DOMAIN docs' -> DocRow]
  <2> DEFINE moved == [docs EXCEPT ![new].history = docs[old].history]
  <2>1. old \in DOMAIN docs /\ new \in DOMAIN docs
    BY DEF NoteRename, LiveDocs
  <2>2. DOMAIN moved = DOMAIN docs /\ moved \in [DOMAIN docs -> DocRow]
    BY <1>1, <2>1 DEF TypeOK, DocRow
  <2>3. docs' = [moved EXCEPT ![old].deleted = TRUE]
    BY DEF NoteRename
  <2> HIDE DEF moved
  <2> QED BY <2>1, <2>2, <2>3 DEF DocRow
<1>3. events' \in Seq(SUBSET Event)
  <2>1. {DocEvent("doc_renamed", new, old)} \in SUBSET Event
    BY DocEventType
  <2> QED BY <1>1, <2>1, RecordType DEF NoteRename, TypeOK
<1>4. DeleteDocSections(old) /\ UNCHANGED summaries
  BY DEF NoteRename
<1>5. TypeOK'
  BY <1>1, <1>2, <1>3, <1>4, DeleteType DEF TypeOK
<1> QED BY <1>2, <1>4, <1>5, DeleteInv DEF IInv

LEMMA AttachSummaryInv ==
  ASSUME IInv, NEW h \in Hashes, NEW card \in Cards, AttachSummary(h, card)
  PROVE  IInv'
<1>1. TypeOK /\ StateMatchesCard /\ ForeignKeys /\ RawIndexExact /\ CardIndexExact
  BY DEF IInv
<1>2. /\ DOMAIN summaries' = DOMAIN summaries
      /\ summaries' \in [DOMAIN summaries' -> SummaryRow]
      /\ summaries'[h] = [state |-> "summarized", card |-> card]
      /\ \A x \in DOMAIN summaries \ {h} : summaries'[x] = summaries[x]
  BY <1>1 DEF AttachSummary, TypeOK, SummaryRow
<1>3. StateMatchesCard'
  BY <1>1, <1>2, StoreAssumption DEF StateMatchesCard
<1>4. events' \in Seq(SUBSET Event)
  <2>1. {SectionEvent("section_summarized", sections[r]) : r \in RowsWith(h)}
          \in SUBSET Event
    BY <1>1, SectionEventType DEF RowsWith
  <2> QED BY <1>1, <2>1, RecordType DEF AttachSummary, TypeOK
<1> DEFINE new == [r \in RowsWith(h) |->
                     [doc |-> sections[r].doc, idx |-> sections[r].idx, card |-> card]]
<1>5. cards_fts' \in [DOMAIN cards_fts' -> CardRow] /\ DOMAIN cards_fts' \subseteq Rowids
  <2>1. DOMAIN new \subseteq Rowids /\ new \in [DOMAIN new -> CardRow]
    BY <1>1 DEF TypeOK, RowsWith, SectionRow, CardRow
  <2>2. cards_fts' = Over(new, cards_fts)
    BY DEF AttachSummary
  <2> HIDE DEF new
  <2> QED BY <1>1, <2>1, <2>2, OverlayType DEF TypeOK
<1>6. TypeOK'
  BY <1>1, <1>2, <1>4, <1>5 DEF TypeOK, AttachSummary
<1>7. ForeignKeys' /\ RawIndexExact'
  BY <1>1, <1>2 DEF AttachSummary, ForeignKeys, RawIndexExact
<1>8. CardIndexExact'
  <2>1. UNCHANGED sections
    BY DEF AttachSummary
  <2>2. /\ DOMAIN cards_fts' = RowsWith(h) \cup DOMAIN cards_fts
        /\ \A r \in RowsWith(h) : cards_fts'[r] = new[r]
        /\ \A r \in DOMAIN cards_fts \ RowsWith(h) : cards_fts'[r] = cards_fts[r]
    BY DEF AttachSummary, Over
  <2>3. \A x : x \in DOMAIN summaries' /\ summaries'[x].state = "summarized"
                <=> x = h \/ Summarized(x)
    BY <1>2 DEF Summarized, AttachSummary
  <2>4. DOMAIN cards_fts' =
          {r \in DOMAIN sections : /\ sections[r].hash \in DOMAIN summaries'
                                   /\ summaries'[sections[r].hash].state = "summarized"}
    BY <1>1, <2>2, <2>3 DEF CardIndexExact, RowsWith
  <2>5. ASSUME NEW r \in DOMAIN cards_fts'
        PROVE  cards_fts'[r] = [doc  |-> sections[r].doc, idx |-> sections[r].idx,
                                card |-> summaries'[sections[r].hash].card]
    <3>1. CASE r \in RowsWith(h)
      <4>1. sections[r].hash = h
        BY <3>1 DEF RowsWith
      <4> QED BY <1>2, <2>2, <3>1, <4>1
    <3>2. CASE r \notin RowsWith(h)
      <4>1. r \in DOMAIN cards_fts /\ sections[r].hash # h
              /\ sections[r].hash \in DOMAIN summaries
        BY <1>1, <2>2, <3>2 DEF RowsWith, CardIndexExact, Summarized
      <4> QED BY <1>1, <1>2, <2>2, <3>2, <4>1 DEF CardIndexExact
    <3> QED BY <3>1, <3>2
  <2> QED BY <2>1, <2>4, <2>5 DEF CardIndexExact, Summarized
<1> QED BY <1>3, <1>6, <1>7, <1>8 DEF IInv

\* A hash that is not summarized before or after leaves the card index alone.
LEMMA UnsettledInv ==
  ASSUME IInv, UNCHANGED <<docs, sections, sections_raw_fts, cards_fts>>,
         events' \in Seq(SUBSET Event),
         DOMAIN summaries' = DOMAIN summaries,
         summaries' \in [DOMAIN summaries -> SummaryRow],
         \A x \in DOMAIN summaries :
           \/ summaries'[x] = summaries[x]
           \/ /\ summaries[x].state # "summarized"
              /\ summaries'[x].state # "summarized"
              /\ summaries'[x].card = summaries[x].card
  PROVE  IInv'
<1>1. TypeOK'
  BY DEF IInv, TypeOK
<1>2. StateMatchesCard'
  BY DEF IInv, StateMatchesCard
<1>3. ForeignKeys' /\ RawIndexExact'
  BY DEF IInv, ForeignKeys, RawIndexExact
<1>4. CardIndexExact'
  BY DEF IInv, CardIndexExact, Summarized
<1> QED BY <1>1, <1>2, <1>3, <1>4 DEF IInv

LEMMA MarkFailedInv ==
  ASSUME IInv, NEW h \in Hashes, MarkFailed(h)
  PROVE  IInv'
<1>1. TypeOK
  BY DEF IInv
<1>2. events' \in Seq(SUBSET Event)
  <2>1. {SectionEvent("section_failed", sections[r]) : r \in RowsWith(h)} \in SUBSET Event
    BY <1>1, SectionEventType DEF RowsWith
  <2> QED BY <1>1, <2>1, RecordType DEF MarkFailed, TypeOK
<1>3. /\ DOMAIN summaries' = DOMAIN summaries
      /\ summaries' \in [DOMAIN summaries -> SummaryRow]
      /\ summaries[h].state # "summarized"
      /\ summaries'[h].state # "summarized"
      /\ summaries'[h].card = summaries[h].card
      /\ \A x \in DOMAIN summaries \ {h} : summaries'[x] = summaries[x]
  BY <1>1 DEF MarkFailed, TypeOK, SummaryRow
<1> QED BY <1>2, <1>3, UnsettledInv DEF MarkFailed

LEMMA RetryFailedInv ==
  ASSUME IInv, RetryFailed
  PROVE  IInv'
<1>1. TypeOK
  BY DEF IInv
<1>2. /\ DOMAIN summaries' = DOMAIN summaries
      /\ summaries' \in [DOMAIN summaries -> SummaryRow]
      /\ \A x \in DOMAIN summaries :
           \/ summaries'[x] = summaries[x]
           \/ /\ summaries[x].state # "summarized"
              /\ summaries'[x].state # "summarized"
              /\ summaries'[x].card = summaries[x].card
  BY <1>1 DEF RetryFailed, TypeOK, SummaryRow
<1> QED BY <1>1, <1>2, UnsettledInv DEF RetryFailed, TypeOK

\* The invariant holds of every behaviour of the store.
THEOREM StoreInvariant == Spec => []IInv
<1>1. Init => IInv
  BY DEF Init, IInv, TypeOK, StateMatchesCard, ForeignKeys, RawIndexExact, CardIndexExact
<1>2. IInv /\ [Next]_vars => IInv'
  <2> SUFFICES ASSUME IInv, [Next]_vars
               PROVE  IInv'
    OBVIOUS
  <2>1. ASSUME NEW d \in Docs, NEW c \in Contents, UpsertDocument(d, c)
        PROVE  IInv'
    BY <2>1, UpsertInv
  <2>2. ASSUME NEW d \in Docs, Tombstone(d)
        PROVE  IInv'
    BY <2>2, TombstoneInv
  <2>3. ASSUME NEW old \in Docs, NEW new \in Docs, NoteRename(old, new)
        PROVE  IInv'
    BY <2>3, NoteRenameInv
  <2>4. ASSUME NEW h \in Hashes, NEW card \in Cards, AttachSummary(h, card)
        PROVE  IInv'
    BY <2>4, AttachSummaryInv
  <2>5. ASSUME NEW h \in Hashes, MarkFailed(h)
        PROVE  IInv'
    BY <2>5, MarkFailedInv
  <2>6. CASE RetryFailed
    BY <2>6, RetryFailedInv
  <2>7. CASE UNCHANGED vars
    BY <2>7 DEF vars, IInv, TypeOK, StateMatchesCard, ForeignKeys, RawIndexExact,
                CardIndexExact, Summarized
  <2> QED BY <2>1, <2>2, <2>3, <2>4, <2>5, <2>6, <2>7 DEF Next
<1> QED BY <1>1, <1>2, PTL DEF Spec

\* Rows of every table have the schema's columns in every reachable state.
THEOREM TypeCorrect == Spec => []TypeOK
<1>1. IInv => TypeOK
  BY DEF IInv
<1> QED BY <1>1, StoreInvariant, PTL

\* Card search finds exactly the live sections whose hash is summarized, under
\* their own id and with the hash's own card: upsert_document, attach_summary,
\* note_rename and tombstone keep cards_fts in step although rowids are reused.
THEOREM CardSearchExact == Spec => []CardIndexExact
<1>1. IInv => CardIndexExact
  BY DEF IInv
<1> QED BY <1>1, StoreInvariant, PTL

\* Raw search finds every section row once, under its own id and text.
THEOREM RawSearchExact == Spec => []RawIndexExact
<1>1. IInv => RawIndexExact
  BY DEF IInv
<1> QED BY <1>1, StoreInvariant, PTL

\* No section row is ever left without its document or its summaries row,
\* although upsert_document looks a hash up only if the document is new to it.
THEOREM KeysResolve == Spec => []ForeignKeys
<1>1. IInv => ForeignKeys
  BY DEF IInv
<1> QED BY <1>1, StoreInvariant, PTL

\* attach_summary's WHERE clause, mark_failed's and retry_failed's together
\* never let a paid card be overwritten, failed or forgotten.
THEOREM CardsNeverLost == Spec => CardsAreKept
<1>1. IInv /\ [Next]_vars => KeepsCards
  <2> SUFFICES ASSUME IInv, [Next]_vars, NEW h \in DOMAIN summaries, Summarized(h)
               PROVE  h \in DOMAIN summaries' /\ summaries'[h] = summaries[h]
    BY DEF KeepsCards
  <2>1. ASSUME NEW d \in Docs, NEW c \in Contents, UpsertDocument(d, c)
        PROVE  h \in DOMAIN summaries' /\ summaries'[h] = summaries[h]
    BY <2>1, UpsertSummaries DEF UpsertDocument, IInv
  <2>2. ASSUME NEW d \in Docs, Tombstone(d)
        PROVE  h \in DOMAIN summaries' /\ summaries'[h] = summaries[h]
    BY <2>2 DEF Tombstone
  <2>3. ASSUME NEW old \in Docs, NEW new \in Docs, NoteRename(old, new)
        PROVE  h \in DOMAIN summaries' /\ summaries'[h] = summaries[h]
    BY <2>3 DEF NoteRename
  <2>4. ASSUME NEW x \in Hashes, NEW card \in Cards, AttachSummary(x, card)
        PROVE  h \in DOMAIN summaries' /\ summaries'[h] = summaries[h]
    BY <2>4 DEF AttachSummary, Summarized
  <2>5. ASSUME NEW x \in Hashes, MarkFailed(x)
        PROVE  h \in DOMAIN summaries' /\ summaries'[h] = summaries[h]
    BY <2>5 DEF MarkFailed, Summarized
  <2>6. CASE RetryFailed
    BY <2>6 DEF RetryFailed, Summarized
  <2>7. CASE UNCHANGED vars
    BY <2>7 DEF vars
  <2> QED BY <2>1, <2>2, <2>3, <2>4, <2>5, <2>6, <2>7 DEF Next
<1> QED BY <1>1, StoreInvariant, PTL DEF Spec, CardsAreKept

------------------------------------------------------------------------------
(* The section rows, the timeline and the refinement of KnowledgeIndex. *)


\* What one document's rows should be.
RowsMatch(d) ==
  IF docs[d].deleted THEN RowsOf(d) = {}
  ELSE /\ \A r, q \in RowsOf(d) : sections[r].idx = sections[q].idx => r = q
       /\ \A r \in RowsOf(d) :
            /\ sections[r].idx \in DOMAIN SectionsOf[docs[d].content]
            /\ sections[r].hash = SectionsOf[docs[d].content][sections[r].idx]
       /\ \A i \in DOMAIN SectionsOf[docs[d].content] :
            \E r \in RowsOf(d) : sections[r].idx = i

LEMMA RowsAreContentByDoc ==
  RowsAreContent <=> \A d \in DOMAIN docs : RowsMatch(d)
  BY DEF RowsAreContent, RowsMatch

\* A document whose row and section rows a step leaves alone still matches.
LEMMA UntouchedMatches ==
  ASSUME NEW d, RowsMatch(d),
         docs'[d].deleted = docs[d].deleted, docs'[d].content = docs[d].content,
         RowsOf(d)' = RowsOf(d), \A r \in RowsOf(d) : sections'[r] = sections[r]
  PROVE  RowsMatch(d)'
  BY DEF RowsMatch

\* delete_doc_sections(d) empties d and leaves the rows of the others alone.
LEMMA DeletedRows ==
  ASSUME NEW d, DeleteDocSections(d)
  PROVE  /\ RowsOf(d)' = {}
         /\ \A e : e # d => /\ RowsOf(e)' = RowsOf(e)
                            /\ \A r \in RowsOf(e) : sections'[r] = sections[r]
  BY DEF DeleteDocSections, Kept, Restrict, RowsOf

LEMMA UpsertRows ==
  ASSUME IInv, RowsAreContent, NEW d \in Docs, NEW c \in Contents, UpsertDocument(d, c)
  PROVE  RowsAreContent'
<1>1. PICK place \in Placements(Len(SectionsOf[c])) :
        /\ DOMAIN place \cap (DOMAIN sections \ RowsOf(d)) = {}
        /\ InsertSections(d, c, place)
        /\ docs' = WriteDocRow(d, c)
  BY DEF UpsertDocument
<1>2. SectionsOf[c] \in Seq(Hashes)
  BY StoreAssumption
<1>3. /\ \A r \in DOMAIN place : place[r] \in DOMAIN SectionsOf[c]
      /\ \A r, q \in DOMAIN place : place[r] = place[q] => r = q
      /\ \A i \in DOMAIN SectionsOf[c] : \E r \in DOMAIN place : place[r] = i
  <2>1. Len(SectionsOf[c]) \in Nat /\ DOMAIN SectionsOf[c] = 1..Len(SectionsOf[c])
    BY <1>2
  <2> QED BY <2>1, PlacementIsBijection, PlacedHash
<1>4. /\ DOMAIN docs' = DOMAIN docs \cup {d}
      /\ docs'[d].content = c /\ docs'[d].deleted = FALSE
      /\ \A e \in DOMAIN docs \ {d} : docs'[e] = docs[e]
  BY <1>1 DEF WriteDocRow, Over
<1>5. /\ DOMAIN sections' = DOMAIN place \cup (DOMAIN sections \ RowsOf(d))
      /\ \A r \in DOMAIN place :
           sections'[r] = [doc |-> d, idx |-> place[r], hash |-> SectionsOf[c][place[r]]]
      /\ \A r \in DOMAIN sections \ RowsOf(d) :
           r \notin DOMAIN place /\ sections'[r] = sections[r]
  BY <1>1 DEF InsertSections, Over, Kept, Restrict
<1>6. RowsOf(d)' = DOMAIN place
  <2>1. \A r \in DOMAIN sections' : sections'[r].doc = d <=> r \in DOMAIN place
    BY <1>5 DEF RowsOf
  <2>2. DOMAIN place \subseteq DOMAIN sections'
    BY <1>5
  <2> QED BY <2>1, <2>2 DEF RowsOf
<1>7. RowsMatch(d)'
  BY <1>3, <1>4, <1>5, <1>6 DEF RowsMatch
<1>8. ASSUME NEW e \in DOMAIN docs \ {d}
      PROVE  RowsMatch(e)'
  <2>1. RowsOf(e)' = RowsOf(e) /\ \A r \in RowsOf(e) : sections'[r] = sections[r]
    BY <1>5 DEF RowsOf
  <2> QED BY <1>4, <2>1, UntouchedMatches, RowsAreContentByDoc
<1> QED BY <1>4, <1>7, <1>8 DEF RowsAreContent, RowsMatch

\* A tombstone takes the rows of its document with it, whoever sets it.
LEMMA TombstonedRows ==
  ASSUME RowsAreContent, NEW d \in DOMAIN docs, DeleteDocSections(d),
         DOMAIN docs' = DOMAIN docs, docs'[d].deleted = TRUE,
         \A e \in DOMAIN docs \ {d} : /\ docs'[e].deleted = docs[e].deleted
                                      /\ docs'[e].content = docs[e].content
  PROVE  RowsAreContent'
<1>1. RowsMatch(d)'
  BY DeletedRows DEF RowsMatch
<1>2. \A e \in DOMAIN docs \ {d} : RowsMatch(e)'
  BY DeletedRows, UntouchedMatches, RowsAreContentByDoc
<1> QED BY <1>1, <1>2 DEF RowsAreContent, RowsMatch

LEMMA RowsStep ==
  ASSUME IInv, RowsAreContent, [Next]_vars
  PROVE  RowsAreContent'
<1>1. ASSUME NEW d \in Docs, NEW c \in Contents, UpsertDocument(d, c)
      PROVE  RowsAreContent'
  BY <1>1, UpsertRows
<1>2. ASSUME NEW d \in Docs, Tombstone(d)
      PROVE  RowsAreContent'
  BY <1>2, TombstonedRows DEF Tombstone, LiveDocs, IInv, TypeOK, DocRow
<1>3. ASSUME NEW old \in Docs, NEW new \in Docs, NoteRename(old, new)
      PROVE  RowsAreContent'
  BY <1>3, TombstonedRows DEF NoteRename, LiveDocs, IInv, TypeOK, DocRow
<1>4. CASE UNCHANGED <<docs, sections>>
  BY <1>4 DEF RowsAreContent, RowsOf
<1>5. ASSUME NEW h \in Hashes, NEW card \in Cards, AttachSummary(h, card)
      PROVE  UNCHANGED <<docs, sections>>
  BY <1>5 DEF AttachSummary
<1>6. ASSUME NEW h \in Hashes, MarkFailed(h)
      PROVE  UNCHANGED <<docs, sections>>
  BY <1>6 DEF MarkFailed
<1>7. RetryFailed \/ UNCHANGED vars => UNCHANGED <<docs, sections>>
  BY DEF RetryFailed, vars
<1> QED BY <1>1, <1>2, <1>3, <1>4, <1>5, <1>6, <1>7 DEF Next

\* The indexes are exact and the rows they index are the documents' contents.
SearchInv == IInv /\ RowsAreContent

LEMMA SearchInvariant == Spec => []SearchInv
<1>1. Init => RowsAreContent
  BY DEF Init, RowsAreContent
<1>2. IInv /\ RowsAreContent /\ [Next]_vars => RowsAreContent'
  BY RowsStep
<1> QED BY <1>1, <1>2, StoreInvariant, PTL DEF Spec, SearchInv

\* upsert_document, note_rename and tombstone leave exactly the sections of each
\* live document's content in the sections table, each index once, and none of a
\* tombstoned document.
THEOREM RowsFollowContent == Spec => []RowsAreContent
<1>1. SearchInv => RowsAreContent
  BY DEF SearchInv
<1> QED BY <1>1, SearchInvariant, PTL

-----------------------------------------------------------------------------
(* Refinement *)

\* What raw search can return is every section of every live document.
LEMMA TextHitsExact ==
  ASSUME SearchInv
  PROVE  TextHits = KI!SectionsIn(LiveContent)
<1>1. TypeOK /\ ForeignKeys /\ RawIndexExact /\ RowsAreContent
  BY DEF SearchInv, IInv
<1>2. /\ DOMAIN LiveContent = LiveDocs
      /\ \A d \in LiveDocs : LiveContent[d] = docs[d].content
  BY DEF LiveContent
<1>3. TextHits =
        {<<sections[r].doc, sections[r].idx, sections[r].hash>> : r \in DOMAIN sections}
  BY <1>1 DEF TextHits, Range, RawIndexExact
<1>4. ASSUME NEW r \in DOMAIN sections
      PROVE  <<sections[r].doc, sections[r].idx, sections[r].hash>>
               \in KI!SectionsIn(LiveContent)
  <2> DEFINE d == sections[r].doc
             i == sections[r].idx
  <2>1. d \in DOMAIN docs /\ r \in RowsOf(d)
    BY <1>1 DEF ForeignKeys, RowsOf
  <2>2. /\ d \in LiveDocs
        /\ i \in DOMAIN SectionsOf[docs[d].content]
        /\ sections[r].hash = SectionsOf[docs[d].content][i]
    BY <1>1, <2>1 DEF RowsAreContent, LiveDocs, TypeOK, DocRow
  <2> QED BY <1>2, <2>2 DEF KI!SectionsIn
<1>5. ASSUME NEW d \in LiveDocs, NEW i \in DOMAIN SectionsOf[docs[d].content]
      PROVE  \E r \in DOMAIN sections :
               <<d, i, SectionsOf[docs[d].content][i]>>
                 = <<sections[r].doc, sections[r].idx, sections[r].hash>>
  <2>1. PICK r \in RowsOf(d) : sections[r].idx = i
    BY <1>1, <1>5 DEF RowsAreContent, LiveDocs
  <2>2. sections[r].hash = SectionsOf[docs[d].content][i]
    BY <1>1, <2>1 DEF RowsAreContent, LiveDocs
  <2> QED BY <2>1, <2>2 DEF RowsOf
<1>6. \A s \in KI!SectionsIn(LiveContent) : \E d \in LiveDocs :
        \E i \in DOMAIN SectionsOf[docs[d].content] :
          s = <<d, i, SectionsOf[docs[d].content][i]>>
  BY <1>2 DEF KI!SectionsIn
<1> QED BY <1>3, <1>4, <1>5, <1>6

\* What card search can return is the card of every live section that has one.
LEMMA CardHitsExact ==
  ASSUME SearchInv
  PROVE  CardHits = KI!Carded(LiveContent, BoughtCards)
<1>1. CardIndexExact /\ RawIndexExact
  BY DEF SearchInv, IInv
<1>2. /\ DOMAIN BoughtCards = {h \in DOMAIN summaries : Summarized(h)}
      /\ \A h \in DOMAIN BoughtCards : BoughtCards[h] = summaries[h].card
  BY DEF BoughtCards
<1>3. KI!SectionsIn(LiveContent) =
        {<<sections[r].doc, sections[r].idx, sections[r].hash>> : r \in DOMAIN sections}
  BY <1>1, TextHitsExact DEF TextHits, Range, RawIndexExact
<1>4. CardHits =
        {<<sections[r].doc, sections[r].idx, summaries[sections[r].hash].card>> :
           r \in {q \in DOMAIN sections : Summarized(sections[q].hash)}}
  BY <1>1 DEF CardHits, Range, CardIndexExact
<1>5. \A h : Summarized(h) <=> h \in DOMAIN BoughtCards
  BY <1>2 DEF Summarized
<1> DEFINE hit(r) == <<sections[r].doc, sections[r].idx, sections[r].hash>>
           card(r) == <<sections[r].doc, sections[r].idx, summaries[sections[r].hash].card>>
           found   == {r \in DOMAIN sections : Summarized(sections[r].hash)}
<1>6. {t \in KI!SectionsIn(LiveContent) : t[3] \in DOMAIN BoughtCards} = {hit(r) : r \in found}
  <2>1. \A r \in DOMAIN sections : hit(r)[3] = sections[r].hash
    OBVIOUS
  <2> HIDE DEF hit
  <2>2. KI!SectionsIn(LiveContent) = {hit(r) : r \in DOMAIN sections}
    BY <1>3 DEF hit
  <2> QED BY <1>5, <2>1, <2>2
<1>7. \A r \in found :
        <<hit(r)[1], hit(r)[2], BoughtCards[hit(r)[3]]>> = card(r)
  BY <1>2, <1>5
<1>8. KI!Carded(LiveContent, BoughtCards) =
        {<<s[1], s[2], BoughtCards[s[3]]>> : s \in {hit(r) : r \in found}}
  BY <1>6 DEF KI!Carded
<1> HIDE DEF hit, card, found
<1>9. KI!Carded(LiveContent, BoughtCards) = {card(r) : r \in found}
  BY <1>7, <1>8
<1> QED BY <1>4, <1>9 DEF card, found

\* Both searches answer from the documents and the cards.
Exact ==
  /\ TextHits = KI!SectionsIn(LiveContent)
  /\ CardHits = KI!Carded(LiveContent, BoughtCards)

LEMMA SearchesExact == Spec => []Exact
<1>1. SearchInv => Exact
  BY TextHitsExact, CardHitsExact DEF Exact
<1> QED BY <1>1, SearchInvariant, PTL

\* A step that leaves the searches exact is known by what it does to the
\* documents and the cards.
LEMMA StaysSearchable == Exact' => KI!Searchable
  BY DEF Exact, KI!Searchable

\* Upsert, whether it creates, restores, changes or repeats, is Index.
LEMMA UpsertIsIndex ==
  ASSUME SearchInv, Exact', NEW d \in Docs, NEW c \in Contents, UpsertDocument(d, c)
  PROVE  KI!Index(d, c)
<1>1. docs' = WriteDocRow(d, c) /\ summaries' = NewSummaries(d, c)
  BY DEF UpsertDocument
<1>2. TypeOK /\ StateMatchesCard
  BY DEF SearchInv, IInv
<1>3. LiveContent' = [p \in LiveDocs \cup {d} |-> IF p = d THEN c ELSE LiveContent[p]]
  <2>1. /\ DOMAIN docs' = DOMAIN docs \cup {d}
        /\ docs'[d].content = c /\ docs'[d].deleted = FALSE
        /\ \A e \in DOMAIN docs \ {d} : docs'[e] = docs[e]
    BY <1>1 DEF WriteDocRow, Over
  <2>2. LiveDocs' = LiveDocs \cup {d}
    BY <2>1 DEF LiveDocs
  <2>3. \A p \in LiveDocs' : docs'[p].content = IF p = d THEN c ELSE LiveContent[p]
    BY <2>1, <2>2 DEF LiveDocs, LiveContent
  <2> QED BY <2>2, <2>3 DEF LiveContent
<1>4. BoughtCards' = BoughtCards
  <2>1. /\ {h \in DOMAIN summaries : Summarized(h)}'
             = {h \in DOMAIN summaries : Summarized(h)}
        /\ \A h \in DOMAIN summaries : summaries'[h] = summaries[h]
    BY <1>1, <1>2, UpsertSummaries DEF Summarized
  <2> QED BY <2>1 DEF BoughtCards
<1>5. DOMAIN LiveContent = LiveDocs
  BY DEF LiveContent
<1> QED BY <1>3, <1>4, <1>5, StaysSearchable DEF KI!Index

\* A tombstone, of its own or as the old name of a rename, is Remove.
LEMMA TombstonedIsRemove ==
  ASSUME Exact', NEW d \in LiveDocs, UNCHANGED summaries,
         DOMAIN docs' = DOMAIN docs, docs'[d].deleted = TRUE,
         \A e \in DOMAIN docs \ {d} : /\ docs'[e].deleted = docs[e].deleted
                                      /\ docs'[e].content = docs[e].content
  PROVE  KI!Remove(d)
<1>1. LiveDocs' = LiveDocs \ {d}
  BY DEF LiveDocs
<1>2. \A e \in LiveDocs' : docs'[e].content = LiveContent[e]
  BY <1>1 DEF LiveDocs, LiveContent
<1>3. DOMAIN LiveContent = LiveDocs
  BY DEF LiveContent
<1>4. LiveContent' = [e \in LiveDocs \ {d} |-> LiveContent[e]]
  BY <1>1, <1>2 DEF LiveContent
<1>5. BoughtCards' = BoughtCards
  BY DEF BoughtCards, Summarized
<1> QED BY <1>3, <1>4, <1>5, StaysSearchable DEF KI!Remove, KI!Restrict

LEMMA TombstoneIsRemove ==
  ASSUME SearchInv, Exact', NEW d \in Docs, Tombstone(d)
  PROVE  KI!Remove(d)
  BY TombstonedIsRemove DEF SearchInv, IInv, TypeOK, DocRow, Tombstone, LiveDocs

LEMMA NoteRenameIsRemove ==
  ASSUME SearchInv, Exact', NEW old \in Docs, NEW new \in Docs, NoteRename(old, new)
  PROVE  KI!Remove(old)
  BY TombstonedIsRemove DEF SearchInv, IInv, TypeOK, DocRow, NoteRename, LiveDocs

\* Attaching a card is AddCard: the guard keeps it from replacing one.
LEMMA AttachSummaryIsAddCard ==
  ASSUME SearchInv, Exact', NEW h \in Hashes, NEW card \in Cards, AttachSummary(h, card)
  PROVE  KI!AddCard(h, card)
<1>1. TypeOK
  BY DEF SearchInv, IInv
<1>2. /\ h \in DOMAIN summaries /\ summaries[h].state # "summarized"
      /\ DOMAIN summaries' = DOMAIN summaries
      /\ summaries'[h] = [state |-> "summarized", card |-> card]
      /\ \A x \in DOMAIN summaries \ {h} : summaries'[x] = summaries[x]
  BY <1>1 DEF AttachSummary, TypeOK
<1> DEFINE done == {x \in DOMAIN summaries : Summarized(x)}
<1>3. h \notin done /\ done' = done \cup {h}
  BY <1>2 DEF Summarized
<1>4. \A x \in done' : summaries'[x].card = IF x = h THEN card ELSE BoughtCards[x]
  BY <1>2, <1>3 DEF BoughtCards
<1>5. DOMAIN BoughtCards = done
  BY DEF BoughtCards
<1>6. BoughtCards' = [x \in done \cup {h} |-> IF x = h THEN card ELSE BoughtCards[x]]
  BY <1>3, <1>4 DEF BoughtCards
<1>7. LiveContent' = LiveContent
  BY DEF AttachSummary, LiveContent, LiveDocs
<1> QED BY <1>3, <1>5, <1>6, <1>7, StaysSearchable DEF KI!AddCard

\* Failures and retries, and steps that change no table, are not seen.
LEMMA UnseenSteps ==
  ASSUME SearchInv, Exact, Exact', UNCHANGED docs,
         {x \in DOMAIN summaries : Summarized(x)}' = {x \in DOMAIN summaries : Summarized(x)},
         \A x \in DOMAIN summaries : Summarized(x) => summaries'[x] = summaries[x]
  PROVE  UNCHANGED <<LiveContent, BoughtCards, TextHits, CardHits>>
<1>1. LiveContent' = LiveContent
  BY DEF LiveContent, LiveDocs
<1>2. BoughtCards' = BoughtCards
  BY DEF BoughtCards
<1> QED BY <1>1, <1>2 DEF Exact

LEMMA StepRefines ==
  ASSUME SearchInv, Exact, Exact', [Next]_vars
  PROVE  [KI!Next]_<<LiveContent, BoughtCards, TextHits, CardHits>>
<1>1. ASSUME NEW d \in Docs, NEW c \in Contents, UpsertDocument(d, c)
      PROVE  KI!Next
  BY <1>1, UpsertIsIndex DEF KI!Next
<1>2. ASSUME NEW d \in Docs, Tombstone(d)
      PROVE  KI!Next
  BY <1>2, TombstoneIsRemove DEF KI!Next
<1>3. ASSUME NEW old \in Docs, NEW new \in Docs, NoteRename(old, new)
      PROVE  KI!Next
  BY <1>3, NoteRenameIsRemove DEF KI!Next
<1>4. ASSUME NEW h \in Hashes, NEW card \in Cards, AttachSummary(h, card)
      PROVE  KI!Next
  BY <1>4, AttachSummaryIsAddCard DEF KI!Next
<1>5. ASSUME NEW h \in Hashes, MarkFailed(h)
      PROVE  UNCHANGED <<LiveContent, BoughtCards, TextHits, CardHits>>
  BY <1>5, UnseenSteps DEF MarkFailed, Summarized, SearchInv, IInv, TypeOK, SummaryRow
<1>6. CASE RetryFailed
  <2>1. /\ DOMAIN summaries' = DOMAIN summaries
        /\ \A x \in DOMAIN summaries :
             /\ summaries[x].state # "failed" => summaries'[x] = summaries[x]
             /\ summaries[x].state = "failed" => summaries'[x].state = "pending"
    BY <1>6 DEF RetryFailed, SearchInv, IInv, TypeOK, SummaryRow
  <2> QED BY <1>6, <2>1, UnseenSteps DEF RetryFailed, Summarized
<1>7. CASE UNCHANGED vars
  BY <1>7, UnseenSteps DEF vars, Summarized
<1> QED BY <1>1, <1>2, <1>3, <1>4, <1>5, <1>6, <1>7 DEF Next

LEMMA InitRefines == Init => KI!Init
<1> SUFFICES ASSUME Init PROVE KI!Init
  OBVIOUS
<1>1. LiveContent = <<>> /\ BoughtCards = <<>>
  BY DEF Init, LiveContent, LiveDocs, BoughtCards
<1>2. TextHits = {} /\ CardHits = {}
  BY DEF Init, TextHits, CardHits, Range
<1> QED BY <1>1, <1>2 DEF KI!Init

\* Every transaction of the store is one step of the abstract index or none of
\* it: a search never sees a half-replaced document (store/mod.rs runs each
\* operation in one BEGIN IMMEDIATE transaction and keeps both full-text tables in
\* step), a rename is the removal of the old path, and failed or retried summaries
\* are not seen.
THEOREM StoreImplementsIndex == Spec => ImplementsKnowledgeIndex
<1>1. SearchInv /\ Exact /\ Exact' /\ [Next]_vars
        => [KI!Next]_<<LiveContent, BoughtCards, TextHits, CardHits>>
  BY StepRefines
<1> QED BY <1>1, InitRefines, SearchInvariant, SearchesExact, PTL
        DEF Spec, ImplementsKnowledgeIndex, KI!Spec, KI!vars

-----------------------------------------------------------------------------
(* The timeline *)

\* What the docs table says of what a reader of the timeline concludes.
View == [live    |-> LiveDocs,
         history |-> [d \in Docs |-> IF d \in DOMAIN docs THEN docs[d].history ELSE d]]

Views == [live : SUBSET Docs, history : [Docs -> Docs]]

\* The reader's next view when a transaction appends evs: nothing else tells.
Told(evs) ==
  /\ events' = Append(events, evs)
  /\ View' = Replay(View, evs)

LEMMA ViewType ==
  ASSUME TypeOK
  PROVE  View \in Views
  BY DEF TypeOK, View, Views, LiveDocs, DocRow

\* One document event of a kind other than rename: who becomes or stops being live.
LEMMA ReplayDocEvent ==
  ASSUME NEW kind \in {"doc_created", "doc_restored", "doc_changed", "doc_deleted"},
         NEW d \in Docs
  PROVE  Replay(View, {DocEvent(kind, d, d)}) =
           [live    |-> IF kind = "doc_deleted" THEN LiveDocs \ {d}
                        ELSE IF kind = "doc_changed" THEN LiveDocs ELSE LiveDocs \cup {d},
            history |-> [p \in Docs |-> IF kind = "doc_created" /\ p = d THEN d
                                       ELSE View.history[p]]]
<1> DEFINE e == DocEvent(kind, d, d)
<1>1. e.kind = kind /\ e.doc = d
  BY DEF DocEvent
<1> HIDE DEF e
<1>2. {x \in {e} : x.kind = "doc_renamed"} = {}
  BY <1>1
<1>3. {x.doc : x \in {y \in {e} : y.kind \in {"doc_created", "doc_restored"}}}
        = IF kind \in {"doc_created", "doc_restored"} THEN {d} ELSE {}
  BY <1>1
<1>4. {x.doc : x \in {y \in {e} : y.kind = "doc_deleted"}}
        = IF kind = "doc_deleted" THEN {d} ELSE {}
  BY <1>1
<1>5. {x.doc : x \in {y \in {e} : y.kind = "doc_created"}}
        = IF kind = "doc_created" THEN {d} ELSE {}
  BY <1>1
<1>6. View.live = LiveDocs
  BY DEF View
<1> QED BY <1>2, <1>3, <1>4, <1>5, <1>6 DEF Replay, e

\* A rename event: the old path goes, the new one takes its history.
LEMMA ReplayRename ==
  ASSUME NEW old \in Docs, NEW new \in Docs
  PROVE  Replay(View, {DocEvent("doc_renamed", new, old)}) =
           [live    |-> LiveDocs \ {old},
            history |-> [p \in Docs |-> IF p = new THEN View.history[old]
                                       ELSE View.history[p]]]
<1> DEFINE e == DocEvent("doc_renamed", new, old)
<1>1. e.kind = "doc_renamed" /\ e.doc = new /\ e.from = old
  BY DEF DocEvent
<1> HIDE DEF e
<1>2. {x \in {e} : x.kind = "doc_renamed"} = {e}
  BY <1>1
<1>3. /\ {x.doc : x \in {y \in {e} : y.kind \in {"doc_created", "doc_restored"}}} = {}
      /\ {x.doc : x \in {y \in {e} : y.kind = "doc_deleted"}} = {}
      /\ {x.doc : x \in {y \in {e} : y.kind = "doc_created"}} = {}
  BY <1>1
<1>4. {x.from : x \in {e}} = {old}
  BY <1>1
<1>5. \A p \in Docs : (\E x \in {e} : x.doc = p) <=> p = new
  BY <1>1
<1>6. (CHOOSE x \in {e} : x.doc = new) = e
  BY <1>1
<1>7. View.live = LiveDocs
  BY DEF View
<1> QED BY <1>1, <1>2, <1>3, <1>4, <1>5, <1>6, <1>7 DEF Replay, e

\* Events of sections change nobody's view.
LEMMA ReplaySections ==
  ASSUME TypeOK, NEW evs, \A e \in evs : e.kind \in {"section_summarized", "section_failed"}
  PROVE  Replay(View, evs) = View
<1>1. /\ {x.doc : x \in {y \in evs : y.kind \in {"doc_created", "doc_restored"}}} = {}
      /\ {x.doc : x \in {y \in evs : y.kind = "doc_deleted"}} = {}
      /\ {x.doc : x \in {y \in evs : y.kind = "doc_created"}} = {}
      /\ {y \in evs : y.kind = "doc_renamed"} = {}
  OBVIOUS
<1>2. View.history \in [Docs -> Docs] /\ View = [live |-> View.live, history |-> View.history]
  BY ViewType DEF Views
<1> QED BY <1>1, <1>2 DEF Replay

\* What one transaction appends leads a reader on to the new state of docs.
StepTold == UNCHANGED <<events, View>> \/ \E evs \in SUBSET Event : Told(evs)

LEMMA UpsertTold ==
  ASSUME TypeOK, NEW d \in Docs, NEW c \in Contents, UpsertDocument(d, c)
  PROVE  StepTold
<1>1. docs' = WriteDocRow(d, c) /\ Record(UpsertEvents(d, c))
  BY DEF UpsertDocument
<1>2. /\ DOMAIN docs' = DOMAIN docs \cup {d}
      /\ docs'[d].deleted = FALSE
      /\ docs'[d].history = IF d \in DOMAIN docs THEN docs[d].history ELSE d
      /\ \A e \in DOMAIN docs \ {d} : docs'[e] = docs[e]
  BY <1>1 DEF WriteDocRow, Over
<1>3. LiveDocs' = LiveDocs \cup {d}
  BY <1>2 DEF LiveDocs
<1>4. \A p \in Docs : View'.history[p] =
        IF d \notin DOMAIN docs /\ p = d THEN d ELSE View.history[p]
  BY <1>2 DEF View
<1>5. View' = [live    |-> LiveDocs \cup {d},
               history |-> [p \in Docs |-> IF d \notin DOMAIN docs /\ p = d THEN d
                                          ELSE View.history[p]]]
  BY <1>3, <1>4 DEF View
<1>6. CASE d \notin DOMAIN docs
  <2>1. UpsertEvents(d, c) = {DocEvent("doc_created", d, d)}
    BY <1>6 DEF UpsertEvents
  <2>2. Told({DocEvent("doc_created", d, d)})
    BY <1>1, <1>5, <1>6, <2>1, ReplayDocEvent DEF Told, Record
  <2> QED BY <2>2, DocEventType DEF StepTold
<1>7. CASE d \in DOMAIN docs /\ docs[d].deleted
  <2>1. UpsertEvents(d, c) = {DocEvent("doc_restored", d, d)}
    BY <1>7 DEF UpsertEvents
  <2>2. Told({DocEvent("doc_restored", d, d)})
    BY <1>1, <1>5, <1>7, <2>1, ReplayDocEvent DEF Told, Record
  <2> QED BY <2>2, DocEventType DEF StepTold
<1>8. CASE d \in DOMAIN docs /\ ~docs[d].deleted
  <2>1. LiveDocs \cup {d} = LiveDocs
    BY <1>8 DEF LiveDocs
  <2>2. CASE docs[d].content # c
    <3>1. UpsertEvents(d, c) = {DocEvent("doc_changed", d, d)}
      BY <1>8, <2>2 DEF UpsertEvents
    <3>2. Told({DocEvent("doc_changed", d, d)})
      BY <1>1, <1>5, <1>8, <2>1, <3>1, ReplayDocEvent DEF Told, Record
    <3> QED BY <3>2, DocEventType DEF StepTold
  <2>3. CASE docs[d].content = c
    <3>1. UpsertEvents(d, c) = {}
      BY <1>8, <2>3 DEF UpsertEvents
    <3>2. View' = View
      BY <1>5, <1>8, <2>1 DEF View
    <3> QED BY <1>1, <3>1, <3>2 DEF StepTold, Record
  <2> QED BY <2>2, <2>3
<1> QED BY <1>6, <1>7, <1>8

LEMMA TombstoneTold ==
  ASSUME TypeOK, NEW d \in Docs, Tombstone(d)
  PROVE  StepTold
<1>1. /\ d \in DOMAIN docs /\ ~docs[d].deleted
      /\ docs' = [docs EXCEPT ![d].deleted = TRUE]
      /\ Record({DocEvent("doc_deleted", d, d)})
  BY DEF Tombstone, LiveDocs
<1>2. /\ DOMAIN docs' = DOMAIN docs
      /\ docs'[d].deleted /\ docs'[d].history = docs[d].history
      /\ \A e \in DOMAIN docs \ {d} : docs'[e] = docs[e]
  BY <1>1 DEF TypeOK, DocRow
<1>3. LiveDocs' = LiveDocs \ {d}
  BY <1>2 DEF LiveDocs
<1>4. \A p \in Docs : View'.history[p] = View.history[p]
  BY <1>2 DEF View
<1>5. Told({DocEvent("doc_deleted", d, d)})
  BY <1>1, <1>3, <1>4, ReplayDocEvent DEF Told, Record, View
<1> QED BY <1>5, DocEventType DEF StepTold

LEMMA NoteRenameTold ==
  ASSUME TypeOK, NEW old \in Docs, NEW new \in Docs, NoteRename(old, new)
  PROVE  StepTold
<1>1. /\ old # new /\ old \in DOMAIN docs /\ new \in DOMAIN docs
      /\ docs' = [docs EXCEPT ![new].history = docs[old].history, ![old].deleted = TRUE]
      /\ Record({DocEvent("doc_renamed", new, old)})
  BY DEF NoteRename, LiveDocs
<1>2. /\ DOMAIN docs' = DOMAIN docs
      /\ docs'[old].deleted /\ docs'[old].history = docs[old].history
      /\ docs'[new].deleted = docs[new].deleted
      /\ docs'[new].history = docs[old].history
      /\ \A e \in DOMAIN docs \ {old, new} : docs'[e] = docs[e]
  BY <1>1 DEF TypeOK, DocRow
<1>3. LiveDocs' = LiveDocs \ {old}
  BY <1>1, <1>2 DEF LiveDocs
<1>4. \A p \in Docs : View'.history[p] = IF p = new THEN View.history[old] ELSE View.history[p]
  BY <1>1, <1>2 DEF View
<1>5. View' = [live    |-> LiveDocs \ {old},
               history |-> [p \in Docs |-> IF p = new THEN View.history[old]
                                          ELSE View.history[p]]]
  BY <1>3, <1>4 DEF View
<1>6. Told({DocEvent("doc_renamed", new, old)})
  BY <1>1, <1>5, ReplayRename DEF Told, Record
<1> QED BY <1>6, DocEventType DEF StepTold

\* Settling a summary appends events of sections, or none.
LEMMA SectionsTold ==
  ASSUME TypeOK, NEW h \in Hashes, UNCHANGED docs,
         NEW kind \in {"section_summarized", "section_failed"},
         Record({SectionEvent(kind, sections[r]) : r \in RowsWith(h)})
  PROVE  StepTold
<1> DEFINE evs == {SectionEvent(kind, sections[r]) : r \in RowsWith(h)}
<1>1. evs \in SUBSET Event
  BY SectionEventType DEF RowsWith
<1>2. \A e \in evs : e.kind \in {"section_summarized", "section_failed"}
  BY DEF SectionEvent
<1>3. View' = View
  BY DEF View, LiveDocs
<1>4. Record(evs)
  OBVIOUS
<1> HIDE DEF evs
<1>5. Replay(View, evs) = View
  BY <1>2, ReplaySections
<1> QED BY <1>1, <1>3, <1>4, <1>5 DEF StepTold, Told, Record

LEMMA NextTold ==
  ASSUME IInv, [Next]_vars
  PROVE  StepTold
<1>1. TypeOK
  BY DEF IInv
<1>2. ASSUME NEW d \in Docs, NEW c \in Contents, UpsertDocument(d, c)
      PROVE  StepTold
  BY <1>1, <1>2, UpsertTold
<1>3. ASSUME NEW d \in Docs, Tombstone(d)
      PROVE  StepTold
  BY <1>1, <1>3, TombstoneTold
<1>4. ASSUME NEW old \in Docs, NEW new \in Docs, NoteRename(old, new)
      PROVE  StepTold
  BY <1>1, <1>4, NoteRenameTold
<1>5. ASSUME NEW h \in Hashes, NEW card \in Cards, AttachSummary(h, card)
      PROVE  StepTold
  BY <1>1, <1>5, SectionsTold DEF AttachSummary
<1>6. ASSUME NEW h \in Hashes, MarkFailed(h)
      PROVE  StepTold
  BY <1>1, <1>6, SectionsTold DEF MarkFailed
<1>7. CASE UNCHANGED <<docs, events>>
  BY <1>7 DEF StepTold, View, LiveDocs
<1>8. RetryFailed \/ UNCHANGED vars => UNCHANGED <<docs, events>>
  BY DEF RetryFailed, vars
<1> QED BY <1>2, <1>3, <1>4, <1>5, <1>6, <1>7, <1>8 DEF Next

\* views is the reader's view after each transaction of the timeline evs.
IsReplay(views, evs) ==
  views = [n \in 0..Len(evs) |-> IF n = 0 THEN NothingSeen ELSE Replay(views[n - 1], evs[n])]

\* The recursion over evs has views as its only solution.
Replays(views, evs) ==
  IsReplay(views, evs) /\ \A other : IsReplay(other, evs) => other = views

LEMMA ReplayPoints ==
  ASSUME NEW E, NEW evs \in Seq(E), NEW views
  PROVE  IsReplay(views, evs) <=>
           /\ views = [n \in 0..Len(evs) |-> views[n]]
           /\ views[0] = NothingSeen
           /\ \A n \in 1..Len(evs) : views[n] = Replay(views[n - 1], evs[n])
<1>1. Len(evs) \in Nat
  OBVIOUS
<1> DEFINE next(n) == IF n = 0 THEN NothingSeen ELSE Replay(views[n - 1], evs[n])
<1>2. (\A n \in 0..Len(evs) : views[n] = next(n)) <=>
        /\ views[0] = NothingSeen
        /\ \A n \in 1..Len(evs) : views[n] = Replay(views[n - 1], evs[n])
  BY <1>1
<1> HIDE DEF next
<1>3. views = [n \in 0..Len(evs) |-> next(n)] <=>
        /\ views = [n \in 0..Len(evs) |-> views[n]]
        /\ \A n \in 0..Len(evs) : views[n] = next(n)
  OBVIOUS
<1> QED BY <1>2, <1>3 DEF IsReplay, next

\* One more transaction, one more view.
LEMMA ReplaysAppend ==
  ASSUME NEW E, NEW evs \in Seq(E), NEW e \in E, NEW views, Replays(views, evs)
  PROVE  Replays([i \in 0..(Len(evs) + 1) |->
                    IF i = Len(evs) + 1 THEN Replay(views[Len(evs)], e) ELSE views[i]],
                 Append(evs, e))
<1> DEFINE n      == Len(evs)
           more   == Append(evs, e)
           longer == [i \in 0..(n + 1) |-> IF i = n + 1 THEN Replay(views[n], e) ELSE views[i]]
<1>1. /\ n \in Nat /\ more \in Seq(E) /\ Len(more) = n + 1
      /\ \A i \in 1..n : more[i] = evs[i]
      /\ more[n + 1] = e
  OBVIOUS
<1>2. /\ longer = [i \in 0..(n + 1) |-> longer[i]]
      /\ longer[n + 1] = Replay(views[n], e)
      /\ \A i \in 0..n : longer[i] = views[i]
  BY <1>1
<1>3. /\ views[0] = NothingSeen
      /\ \A i \in 1..n : views[i] = Replay(views[i - 1], evs[i])
      /\ \A other : IsReplay(other, evs) => other = views
  BY ReplayPoints DEF Replays
<1> HIDE DEF longer, more, n
<1>4. IsReplay(longer, more)
  <2> USE <1>1
  <2>1. longer[0] = NothingSeen
    <3>1. 0 \in 0..n
      OBVIOUS
    <3> QED BY <1>2, <1>3, <3>1
  <2>2. ASSUME NEW i \in 1..(n + 1)
        PROVE  longer[i] = Replay(longer[i - 1], more[i])
    <3>1. CASE i = n + 1
      <4>1. i - 1 = n /\ n \in 0..n
        BY <3>1
      <4> QED BY <1>2, <3>1, <4>1
    <3>2. CASE i \in 1..n
      <4>1. i \in 0..n /\ i - 1 \in 0..n
        BY <3>2
      <4>2. longer[i] = views[i] /\ longer[i - 1] = views[i - 1] /\ more[i] = evs[i]
        BY <1>2, <3>2, <4>1
      <4> QED BY <1>3, <3>2, <4>2
    <3> QED BY <3>1, <3>2
  <2> QED BY <1>1, <1>2, <2>1, <2>2, ReplayPoints
<1>5. ASSUME NEW other, IsReplay(other, more)
      PROVE  other = longer
  <2>1. /\ other = [i \in 0..(n + 1) |-> other[i]]
        /\ other[0] = NothingSeen
        /\ \A i \in 1..(n + 1) : other[i] = Replay(other[i - 1], more[i])
    BY <1>1, <1>5, ReplayPoints
  <2> DEFINE shorter == [i \in 0..n |-> other[i]]
  <2>2. /\ shorter = [i \in 0..n |-> shorter[i]]
        /\ \A i \in 0..n : shorter[i] = other[i]
    OBVIOUS
  <2> HIDE DEF shorter
  <2>3. shorter[0] = NothingSeen
    BY <1>1, <2>1, <2>2
  <2>4. ASSUME NEW i \in 1..n
        PROVE  shorter[i] = Replay(shorter[i - 1], evs[i])
    <3>1. shorter[i] = other[i] /\ shorter[i - 1] = other[i - 1] /\ more[i] = evs[i]
      BY <1>1, <2>2
    <3>2. i \in 1..(n + 1)
      BY <1>1
    <3> QED BY <2>1, <3>1, <3>2
  <2>5. shorter = views
    BY <1>3, <2>2, <2>3, <2>4, ReplayPoints DEF n
  <2>6. \A i \in 0..n : other[i] = longer[i]
    BY <1>2, <2>2, <2>5
  <2>7. other[n + 1] = Replay(other[n], more[n + 1])
    <3>1. n + 1 \in 1..(n + 1) /\ (n + 1) - 1 = n
      BY <1>1
    <3> QED BY <2>1, <3>1
  <2>8. n \in 0..n
    BY <1>1
  <2>9. other[n + 1] = longer[n + 1]
    BY <1>1, <1>2, <2>2, <2>5, <2>7, <2>8
  <2>10. \A i \in 0..(n + 1) : i = n + 1 \/ i \in 0..n
    BY <1>1
  <2>11. \A i \in 0..(n + 1) : other[i] = longer[i]
    BY <2>6, <2>9, <2>10
  <2> QED BY <1>2, <2>1, <2>11
<1> QED BY <1>4, <1>5 DEF Replays, longer, more, n

\* Replayed is defined by recursion over the timeline.  That the recursion has a
\* solution, and only one, is part of what each step carries on.
TimelineInv == \E views : Replays(views, events) /\ views[Len(events)] = View

LEMMA TimelineInit == Init => TimelineInv
<1> SUFFICES ASSUME Init PROVE TimelineInv
  OBVIOUS
<1>1. Len(events) = 0 /\ View = NothingSeen
  BY DEF Init, View, LiveDocs, NothingSeen
<1> DEFINE views == [i \in 0..0 |-> NothingSeen]
<1>2. views[Len(events)] = View
  BY <1>1
<1>3. \A other : IsReplay(other, events) <=> other = views
  BY <1>1 DEF IsReplay
<1> HIDE DEF views
<1> QED BY <1>2, <1>3 DEF TimelineInv, Replays

LEMMA TimelineStep ==
  ASSUME TypeOK, TimelineInv, StepTold
  PROVE  TimelineInv'
<1>1. PICK views : Replays(views, events) /\ views[Len(events)] = View
  BY DEF TimelineInv
<1>2. CASE UNCHANGED <<events, View>>
  BY <1>1, <1>2 DEF TimelineInv
<1>3. ASSUME NEW evs \in SUBSET Event, Told(evs)
      PROVE  TimelineInv'
  <2> DEFINE n      == Len(events)
             longer == [i \in 0..(n + 1) |->
                          IF i = n + 1 THEN Replay(views[n], evs) ELSE views[i]]
  <2>1. Replays(longer, events')
    BY <1>1, <1>3, ReplaysAppend DEF Told, TypeOK
  <2>2. Len(events') = n + 1 /\ n + 1 \in 0..(n + 1)
    BY <1>3 DEF Told, TypeOK
  <2>3. longer[Len(events')] = View'
    BY <1>1, <1>3, <2>2 DEF Told
  <2> HIDE DEF longer
  <2> QED BY <2>1, <2>3 DEF TimelineInv
<1> QED BY <1>2, <1>3 DEF StepTold

\* The solution the recursion chooses is the one the steps carried on.
LEMMA TimelineHolds ==
  ASSUME TypeOK, TimelineInv
  PROVE  TimelineReplays
<1>1. PICK views : Replays(views, events) /\ views[Len(events)] = View
  BY DEF TimelineInv
<1>2. Replayed = CHOOSE f : IsReplay(f, events)
  BY DEF IsReplay, Replayed
<1>3. Replayed[Len(events)] = View
  BY <1>1, <1>2 DEF Replays
<1> QED BY <1>3 DEF TimelineReplays, View, TypeOK

\* The events table tells the whole story of the docs table: replaying created,
\* restored, deleted and renamed events, transaction by transaction, gives the live
\* documents and whose first sighting each one's created_at records (store/mod.rs
\* upsert_document, note_rename, tombstone), for timelines of every length.
THEOREM TimelineIsComplete == Spec => []TimelineReplays
<1>1. IInv /\ IInv' /\ TimelineInv /\ [Next]_vars => TimelineInv'
  BY NextTold, TimelineStep DEF IInv
<1>2. IInv /\ TimelineInv => TimelineReplays
  BY TimelineHolds DEF IInv
<1> QED BY <1>1, <1>2, TimelineInit, StoreInvariant, PTL DEF Spec

=============================================================================
