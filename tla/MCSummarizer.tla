---------------------------- MODULE MCSummarizer ----------------------------
(***************************************************************************)
(* Summarizer on three hashes, one of them a heading without a body.       *)
(***************************************************************************)
EXTENDS Summarizer

CONSTANTS h1, h2, h3

=============================================================================
