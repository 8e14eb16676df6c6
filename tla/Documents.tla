----------------------------- MODULE Documents -----------------------------
(***************************************************************************)
(* The engine's reads of single documents against the files on disk        *)
(* (pipeline.rs: safe_join, index_parsed, stale, open_section, recent) and  *)
(* the queries of the store they use (store/mod.rs).                       *)
(*                                                                         *)
(* `disk` maps a path to an entry [kind, big, readable, mtime, content]    *)
(* where kind is "file", "dir", "gone" or "outside" (a link that resolves  *)
(* outside the root). A content is a sequence of sections [hash, heading,  *)
(* lines] and stands for its own content hash. `docs` maps a path to what  *)
(* the store holds, [content, updated_at], or NoDoc; `state` maps a hash   *)
(* to the state of its summaries row.                                      *)
(***************************************************************************)
EXTENDS Orders, SequencesExt

CONSTANTS NoDoc, NotFound, Unreadable

Live(docs) == {p \in DOMAIN docs : docs[p] # NoDoc}

\* Lines of the file; line_start counts from 1.
LinesOf(content) == FlattenSeq([i \in DOMAIN content |-> content[i].lines])

line_start(content, i) == 1 + Len(LinesOf(SubSeq(content, 1, i - 1)))

line_end(content, i) == Len(LinesOf(SubSeq(content, 1, i)))

------------------------------------------------------------------------------
(* Indexing one file. *)

\* A path resolves inside the root, to whatever is there.
safe_join(disk, path) ==
  CASE disk[path].kind = "gone"    -> Unreadable
    [] disk[path].kind = "outside" -> NotFound
    [] OTHER                       -> path

\* An unchanged document keeps its time too. file_times is read after the text was.
index_parsed(docs, path, content, modified_at) ==
  IF docs[path] # NoDoc /\ docs[path].content = content THEN docs
  ELSE [docs EXCEPT ![path] = [content |-> content, updated_at |-> modified_at]]

------------------------------------------------------------------------------
(* `mda stale`. *)

disk_state(disk, path, doc) ==
  LET entry == disk[path]
  IN  CASE safe_join(disk, path) # path -> IF entry.kind = "outside" THEN "unreadable" ELSE "missing"
        [] safe_join(disk, path) = path ->
             IF entry.kind # "file" \/ entry.big THEN "unreadable"
             ELSE IF entry.mtime <= doc.updated_at THEN "fresh"
             ELSE IF ~entry.readable THEN "unreadable"
             ELSE IF entry.content = doc.content THEN "fresh" ELSE "changed"

\* Section rows of a document whose hash is in state s.
InState(doc, state, s) == Cardinality({i \in DOMAIN doc.content : state[doc.content[i].hash] = s})

documents_with_open_sections(docs, state) ==
  {p \in Live(docs) : \E i \in DOMAIN docs[p].content : state[docs[p].content[i].hash] # "summarized"}

stale(docs, state, disk) ==
  LET Disk(p) == disk_state(disk, p, docs[p])
      listed == documents_with_open_sections(docs, state) \cup {p \in Live(docs) : Disk(p) # "fresh"}
  IN  [p \in listed |-> [pending         |-> InState(docs[p], state, "pending"),
                         failed          |-> InState(docs[p], state, "failed"),
                         changed_on_disk |-> Disk(p) = "changed",
                         missing         |-> Disk(p) = "missing",
                         unreadable      |-> Disk(p) = "unreadable"]]

------------------------------------------------------------------------------
(* `mda open`. *)

First(content, Test(_)) == SelectInSeq(content, Test)

\* Any section with the heading is taken before the content is looked for.
MutLocate(content, wanted, index) ==
  LET by_path == First(content, LAMBDA s : s.heading = wanted.heading)
      by_hash == First(content, LAMBDA s : s.hash = wanted.hash)
  IN  IF by_path # 0 THEN by_path ELSE IF by_hash # 0 THEN by_hash
      ELSE IF index <= Len(content) THEN index ELSE 0

\* Same place and hash, same hash, same heading path, same place; 0 when there is none.
locate(content, wanted, index) ==
  LET by_hash == First(content, LAMBDA s : s.hash = wanted.hash)
      by_path == First(content, LAMBDA s : s.heading = wanted.heading)
  IN  IF index <= Len(content) /\ content[index].hash = wanted.hash THEN index
      ELSE IF by_hash # 0 THEN by_hash
      ELSE IF by_path # 0 THEN by_path
      ELSE IF index <= Len(content) THEN index ELSE 0

\* The answer, and the documents as the call leaves them.
open_section(docs, disk, path, index) ==
  LET known  == path \in Live(docs) /\ index \in DOMAIN docs[path].content
      entry  == disk[path]
      wanted == docs[path].content[index]
      stale_doc == entry.content # docs[path].content
      after  == IF stale_doc THEN index_parsed(docs, path, entry.content, entry.mtime) ELSE docs
      found  == locate(entry.content, wanted, index)
      Fails(why) == [answer |-> why, docs |-> docs]
  IN  IF ~known THEN Fails(NotFound)
      ELSE IF safe_join(disk, path) # path THEN Fails(safe_join(disk, path))
      ELSE IF entry.kind # "file" \/ ~entry.readable THEN Fails(Unreadable)
      ELSE IF found = 0 THEN [answer |-> NotFound, docs |-> after]
      ELSE [answer |-> [index |-> found, heading |-> entry.content[found].heading, stale |-> stale_doc,
                        text  |-> SubSeq(LinesOf(entry.content), line_start(entry.content, found),
                                         line_end(entry.content, found))],
            docs   |-> after]

------------------------------------------------------------------------------
(* Counts and lists. *)

Rows(docs) == UNION {{<<p, i>> : i \in DOMAIN docs[p].content} : p \in Live(docs)}

HashAt(docs, row) == docs[row[1]].content[row[2]].hash

\* Summaries rows that a section still carries, by state; and sections, by row.
counts(docs, state) ==
  LET carried == {HashAt(docs, r) : r \in Rows(docs)}
  IN  [docs |-> Cardinality(Live(docs)), sections |-> Cardinality(Rows(docs)),
       hashes |-> [s \in {"summarized", "pending", "failed"} |-> Cardinality({h \in carried : state[h] = s})]]

sections_carded(docs, state) == Cardinality({r \in Rows(docs) : state[HashAt(docs, r)] = "summarized"})

\* The n documents updated last; `order` breaks ties by path.
recent_documents(docs, n, order) ==
  LET Before(p, q) == \/ docs[p].updated_at > docs[q].updated_at
                      \/ docs[p].updated_at = docs[q].updated_at /\ order[p] < order[q]
  IN  Take(InOrder(Live(docs), Pairs(Live(docs), Before)), n)

recent(docs, state, n, order) ==
  LET paths == recent_documents(docs, n, order)
      Carded(d) == InState(d, state, "summarized")
  IN  [i \in DOMAIN paths |->
         [path |-> paths[i], updated_at |-> docs[paths[i]].updated_at, sections |-> Len(docs[paths[i]].content),
          pending |-> Len(docs[paths[i]].content) - Carded(docs[paths[i]])]]

=============================================================================
