------------------------------- MODULE Store -------------------------------
(***************************************************************************)
(* The SQLite state of mda-core (store/mod.rs): documents, their sections, *)
(* the summaries keyed by section hash, the two full-text indexes and the  *)
(* timeline.                                                               *)
(*                                                                         *)
(* Every writing operation of the code is one BEGIN IMMEDIATE transaction, *)
(* so each is one action here, whatever connection (the daemon's indexer,  *)
(* its summarizer, `mda open`, `mda index`) issues it.  An operation that  *)
(* returns early without writing, or fails with NotFound, changes nothing  *)
(* and is a stuttering step.                                               *)
(*                                                                         *)
(* Abstractions: a document's content is a value of Contents, whose hash   *)
(* identifies it; SectionsOf gives the section hashes of its parse, so two *)
(* contents may have the same sections (they differ in frontmatter) and a  *)
(* content may carry one hash twice.  Of the times only the row's history  *)
(* (created_at, created_at_source, first_seen_at) is kept, as the path     *)
(* whose first sighting it records.  The rows of one transaction in the    *)
(* events table carry one time and are kept as one set.                    *)
(***************************************************************************)
EXTENDS Integers, Sequences, Functions

CONSTANTS Docs,        \* relative paths; doc_id_for(path) is one-to-one
          Contents,    \* what a file can hold
          Hashes,      \* section hashes
          SectionsOf,  \* the section hashes of a content, in document order
          Cards,       \* summaries a model can return
          NoCard,      \* the NULL summary
          Rowids,      \* SQLite rowids of the sections table
          MaxEvents    \* bound: transactions that write to the timeline

ASSUME StoreAssumption ==
  /\ SectionsOf \in [Contents -> Seq(Hashes)]
  /\ NoCard \notin Cards
  /\ MaxEvents \in Nat

VARIABLES docs, sections, summaries, sections_raw_fts, cards_fts, events

vars == <<docs, sections, summaries, sections_raw_fts, cards_fts, events>>

-----------------------------------------------------------------------------
(* Rows *)

DocRow == [content : Contents, deleted : BOOLEAN, history : Docs]

SectionRow == [doc : Docs, idx : Nat, hash : Hashes]

RawRow == [doc : Docs, idx : Nat, text : Hashes]

CardRow == [doc : Docs, idx : Nat, card : Cards]

SummaryRow == [state : {"pending", "summarized", "failed"},
               card  : Cards \cup {NoCard}]

DocEvent(kind, d, from) == [kind |-> kind, doc |-> d, section |-> 0, from |-> from]

SectionEvent(kind, row) ==
  [kind |-> kind, doc |-> row.doc, section |-> row.idx, from |-> row.doc]

Event == [kind    : {"doc_created", "doc_restored", "doc_changed", "doc_deleted",
                     "doc_renamed", "section_summarized", "section_failed"},
          doc     : Docs,
          section : Nat,
          from    : Docs]

-----------------------------------------------------------------------------
(* Queries *)

\* document_hash answers for these only: a tombstone is not a live document.
LiveDocs == {d \in DOMAIN docs : ~docs[d].deleted}

RowsOf(d) == {r \in DOMAIN sections : sections[r].doc = d}

RowsWith(h) == {r \in DOMAIN sections : sections[r].hash = h}

\* The summary a new section row gets its card from (stored_summary).
Summarized(h) == h \in DOMAIN summaries /\ summaries[h].state = "summarized"

\* The job queue: pending hashes that a section row still carries.
PendingHashes ==
  {h \in DOMAIN summaries : summaries[h].state = "pending" /\ RowsWith(h) # {}}

-----------------------------------------------------------------------------
(* The timeline *)

\* insert_event for every row of one transaction.
Record(evs) ==
  /\ evs # {} => Len(events) < MaxEvents
  /\ events' = IF evs = {} THEN events ELSE Append(events, evs)

-----------------------------------------------------------------------------
(* Writes *)

\* A table with the rows of new written over those of old.
Over(new, old) ==
  [r \in DOMAIN new \cup DOMAIN old |-> IF r \in DOMAIN new THEN new[r] ELSE old[r]]

\* Where SQLite puts n new section rows: n distinct rowids, in document order.
\* A rowid freed by a delete is handed out again.
Placements(n) == UNION {Bijection(R, 1..n) : R \in SUBSET Rowids}

\* The rows left once delete_doc_sections(d) has run on a table keyed by rowid.
Kept(table, d) == Restrict(table, DOMAIN table \ RowsOf(d))

\* write_doc_row: a new row's history starts here; an existing row keeps its
\* own and loses its tombstone.
WriteDocRow(d, c) ==
  Over([p \in {d} |->
          [content |-> c, deleted |-> FALSE,
           history |-> IF d \in DOMAIN docs THEN docs[d].history ELSE d]],
       docs)

\* Mutant: only a document never seen before adds summaries rows.
MutNewHashes(d, c) ==
  {h \in Range(SectionsOf[c]) : RowsOf(d) = {} /\ h \notin DOMAIN summaries}

\* Hashes that get a pending summaries row: not in this document before the
\* write, and never seen anywhere.
NewHashes(d, c) ==
  {h \in Range(SectionsOf[c]) : /\ RowsOf(d) \cap RowsWith(h) = {}
                                /\ h \notin DOMAIN summaries}

NewSummaries(d, c) ==
  Over([h \in NewHashes(d, c) |-> [state |-> "pending", card |-> NoCard]], summaries)

UpsertEvents(d, c) ==
  IF d \notin DOMAIN docs THEN {DocEvent("doc_created", d, d)}
  ELSE IF docs[d].deleted THEN {DocEvent("doc_restored", d, d)}
  ELSE IF docs[d].content # c THEN {DocEvent("doc_changed", d, d)}
  ELSE {}

\* insert_section for every section of c, at the rowids of place: the section
\* row, its raw index row, and its card row when the hash is summarized.
InsertSections(d, c, place) ==
  LET hash(r) == SectionsOf[c][place[r]]
      carded  == {r \in DOMAIN place : Summarized(hash(r))}
  IN  /\ sections' =
           Over([r \in DOMAIN place |-> [doc |-> d, idx |-> place[r], hash |-> hash(r)]],
                Kept(sections, d))
      /\ sections_raw_fts' =
           Over([r \in DOMAIN place |-> [doc |-> d, idx |-> place[r], text |-> hash(r)]],
                Kept(sections_raw_fts, d))
      /\ cards_fts' =
           Over([r \in carded |->
                   [doc |-> d, idx |-> place[r], card |-> summaries[hash(r)].card]],
                Kept(cards_fts, d))

UpsertDocument(d, c) ==
  \E place \in Placements(Len(SectionsOf[c])) :
    /\ DOMAIN place \cap (DOMAIN sections \ RowsOf(d)) = {}
    /\ InsertSections(d, c, place)
    /\ docs' = WriteDocRow(d, c)
    /\ summaries' = NewSummaries(d, c)
    /\ Record(UpsertEvents(d, c))

\* Mutant: the raw index rows are forgotten.
MutDeleteDocSections(d) ==
  /\ sections' = Kept(sections, d)
  /\ cards_fts' = Kept(cards_fts, d)
  /\ UNCHANGED sections_raw_fts

\* delete_doc_sections: the rowids of d's sections leave all three tables.
DeleteDocSections(d) ==
  /\ sections' = Kept(sections, d)
  /\ sections_raw_fts' = Kept(sections_raw_fts, d)
  /\ cards_fts' = Kept(cards_fts, d)

\* Mutant: the row is tombstoned and its sections stay searchable.
MutTombstone(d) ==
  /\ d \in LiveDocs
  /\ docs' = [docs EXCEPT ![d].deleted = TRUE]
  /\ Record({DocEvent("doc_deleted", d, d)})
  /\ UNCHANGED <<summaries, sections, sections_raw_fts, cards_fts>>

Tombstone(d) ==
  /\ d \in LiveDocs
  /\ docs' = [docs EXCEPT ![d].deleted = TRUE]
  /\ DeleteDocSections(d)
  /\ Record({DocEvent("doc_deleted", d, d)})
  /\ UNCHANGED summaries

\* Mutant: the sections are expected to have moved with the row.
MutNoteRename(old, new) ==
  /\ old # new
  /\ {old, new} \subseteq LiveDocs
  /\ docs' = [docs EXCEPT ![new].history = docs[old].history, ![old].deleted = TRUE]
  /\ Record({DocEvent("doc_renamed", new, old)})
  /\ UNCHANGED <<summaries, sections, sections_raw_fts, cards_fts>>

\* Mutant: the new row keeps its own history.
MutNoteRenameHistory(old, new) ==
  /\ old # new
  /\ {old, new} \subseteq LiveDocs
  /\ docs' = [docs EXCEPT ![old].deleted = TRUE]
  /\ DeleteDocSections(old)
  /\ Record({DocEvent("doc_renamed", new, old)})
  /\ UNCHANGED summaries

\* The new row inherits the old row's history; the old one is tombstoned
\* without a delete event.
NoteRename(old, new) ==
  /\ old # new
  /\ {old, new} \subseteq LiveDocs
  /\ docs' = [docs EXCEPT ![new].history = docs[old].history, ![old].deleted = TRUE]
  /\ DeleteDocSections(old)
  /\ Record({DocEvent("doc_renamed", new, old)})
  /\ UNCHANGED summaries

\* Mutant: the first section with the hash is carded, its copies are not.
MutAttachSummary(h, card) ==
  /\ h \in DOMAIN summaries
  /\ summaries[h].state # "summarized"
  /\ summaries' = [summaries EXCEPT ![h] = [state |-> "summarized", card |-> card]]
  /\ LET first == {r \in RowsWith(h) :
                     \A q \in RowsWith(h) : sections[r].idx <= sections[q].idx}
     IN  cards_fts' =
           Over([r \in first |->
                   [doc |-> sections[r].doc, idx |-> sections[r].idx, card |-> card]],
                cards_fts)
  /\ Record({SectionEvent("section_summarized", sections[r]) : r \in RowsWith(h)})
  /\ UNCHANGED <<docs, sections, sections_raw_fts>>

\* Mutant: no state condition, so the last writer's card wins.
MutAttachSummaryAgain(h, card) ==
  /\ h \in DOMAIN summaries
  /\ summaries' = [summaries EXCEPT ![h] = [state |-> "summarized", card |-> card]]
  /\ cards_fts' =
       Over([r \in RowsWith(h) |->
               [doc |-> sections[r].doc, idx |-> sections[r].idx, card |-> card]],
            cards_fts)
  /\ Record({SectionEvent("section_summarized", sections[r]) : r \in RowsWith(h)})
  /\ UNCHANGED <<docs, sections, sections_raw_fts>>

\* Settles a pending or failed hash; a summarized one keeps the card it has.
AttachSummary(h, card) ==
  /\ h \in DOMAIN summaries
  /\ summaries[h].state # "summarized"
  /\ summaries' = [summaries EXCEPT ![h] = [state |-> "summarized", card |-> card]]
  /\ cards_fts' =
       Over([r \in RowsWith(h) |->
               [doc |-> sections[r].doc, idx |-> sections[r].idx, card |-> card]],
            cards_fts)
  /\ Record({SectionEvent("section_summarized", sections[r]) : r \in RowsWith(h)})
  /\ UNCHANGED <<docs, sections, sections_raw_fts>>

MarkFailed(h) ==
  /\ h \in DOMAIN summaries
  /\ summaries[h].state = "pending"
  /\ summaries' = [summaries EXCEPT ![h].state = "failed"]
  /\ Record({SectionEvent("section_failed", sections[r]) : r \in RowsWith(h)})
  /\ UNCHANGED <<docs, sections, sections_raw_fts, cards_fts>>

RetryFailed ==
  /\ \E h \in DOMAIN summaries : summaries[h].state = "failed"
  /\ summaries' =
       [h \in DOMAIN summaries |->
          IF summaries[h].state = "failed" THEN [summaries[h] EXCEPT !.state = "pending"]
          ELSE summaries[h]]
  /\ UNCHANGED <<docs, sections, sections_raw_fts, cards_fts, events>>

-----------------------------------------------------------------------------

\* migrate on a new file: every table is empty.
Init ==
  /\ docs = <<>>
  /\ sections = <<>>
  /\ summaries = <<>>
  /\ sections_raw_fts = <<>>
  /\ cards_fts = <<>>
  /\ events = <<>>

Next ==
  \/ \E d \in Docs, c \in Contents : UpsertDocument(d, c)
  \/ \E d \in Docs : Tombstone(d)
  \/ \E old, new \in Docs : NoteRename(old, new)
  \/ \E h \in Hashes, card \in Cards : AttachSummary(h, card)
  \/ \E h \in Hashes : MarkFailed(h)
  \/ RetryFailed

Spec == Init /\ [][Next]_vars

-----------------------------------------------------------------------------
(* Correctness *)

\* The tables hold rows of the schema's columns.
TypeOK ==
  /\ DOMAIN docs \subseteq Docs
  /\ docs \in [DOMAIN docs -> DocRow]
  /\ DOMAIN sections \subseteq Rowids
  /\ sections \in [DOMAIN sections -> SectionRow]
  /\ DOMAIN summaries \subseteq Hashes
  /\ summaries \in [DOMAIN summaries -> SummaryRow]
  /\ DOMAIN sections_raw_fts \subseteq Rowids
  /\ sections_raw_fts \in [DOMAIN sections_raw_fts -> RawRow]
  /\ DOMAIN cards_fts \subseteq Rowids
  /\ cards_fts \in [DOMAIN cards_fts -> CardRow]
  /\ events \in Seq(SUBSET Event)

\* The schema's foreign keys: a section row belongs to a row of docs and its
\* hash has a summaries row, although upsert_document inserts that row only for
\* a hash the document did not carry before.
ForeignKeys ==
  \A r \in DOMAIN sections : /\ sections[r].doc \in DOMAIN docs
                             /\ sections[r].hash \in DOMAIN summaries

\* Raw search finds each section once, under its own id and text: rowids are
\* handed out again, so a row left behind would answer for another section.
RawIndexExact ==
  /\ DOMAIN sections_raw_fts = DOMAIN sections
  /\ \A r \in DOMAIN sections :
       sections_raw_fts[r] =
         [doc |-> sections[r].doc, idx |-> sections[r].idx, text |-> sections[r].hash]

\* "one row per section whose hash is summarized" (the module's picture of
\* cards_fts), under that section's id and holding the hash's own card.
CardIndexExact ==
  /\ DOMAIN cards_fts = {r \in DOMAIN sections : Summarized(sections[r].hash)}
  /\ \A r \in DOMAIN cards_fts :
       cards_fts[r] = [doc  |-> sections[r].doc, idx |-> sections[r].idx,
                       card |-> summaries[sections[r].hash].card]

\* A live document's rows are its content's sections, each index once; a
\* tombstoned document has none.
RowsAreContent ==
  \A d \in DOMAIN docs :
    IF docs[d].deleted THEN RowsOf(d) = {}
    ELSE LET secs == SectionsOf[docs[d].content]
         IN  /\ \A r, q \in RowsOf(d) : sections[r].idx = sections[q].idx => r = q
             /\ \A r \in RowsOf(d) :
                  /\ sections[r].idx \in DOMAIN secs
                  /\ sections[r].hash = secs[sections[r].idx]
             /\ \A i \in DOMAIN secs : \E r \in RowsOf(d) : sections[r].idx = i

\* A hash is summarized exactly when it has a card.
StateMatchesCard ==
  \A h \in DOMAIN summaries :
    summaries[h].state = "summarized" <=> summaries[h].card # NoCard

\* No summarized hash loses or changes its card in this step.
KeepsCards ==
  \A h \in DOMAIN summaries : Summarized(h) =>
    h \in DOMAIN summaries' /\ summaries'[h] = summaries[h]

\* A card once attached is never replaced, failed or dropped, whatever happens
\* to the documents that carry its hash: it was paid for.
CardsAreKept == [][KeepsCards]_vars

=============================================================================
