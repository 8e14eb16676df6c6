---------------------------- MODULE MCEmbedder ----------------------------
(***************************************************************************)
(* Three cards in batches of two, one of them without questions.           *)
(***************************************************************************)
EXTENDS Embedder

Full == [p \in {"title", "heading_path", "questions", "tldr", "summary", "keywords", "entities"} |-> TRUE]

Cards == <<Full, [Full EXCEPT !["questions"] = FALSE, !["title"] = FALSE], [Full EXCEPT !["entities"] = FALSE]>>

===========================================================================
