------------------------------ MODULE Requests ------------------------------
(***************************************************************************)
(* What the model is sent for a section (planner.rs, and request_for,      *)
(* is_heading_only and synthetic_summary of pipeline.rs). A section is a   *)
(* sequence of lines [kind, chars]: a "heading", a "blank" line, text      *)
(* ("para") or a fence line, "ticks" or "tildes".                          *)
(***************************************************************************)
EXTENDS Integers, Sequences, FiniteSets, FiniteSetsExt

CONSTANTS
  CharsPerToken,        \* 4
  MARKER_RESERVE_CHARS, \* 96
  LeastPrefix           \* 16

\* A line and its newline.
Chars(lines) ==
  LET upTo[n \in 0 .. Len(lines)] == IF n = 0 THEN 0 ELSE upTo[n - 1] + lines[n].chars + 1
  IN  upTo[Len(lines)]

\* Rounded up.
token_estimate(chars) == (chars + CharsPerToken - 1) \div CharsPerToken

is_fence(line) == line.kind \in {"ticks", "tildes"}

\* Whatever opened it, the next fence line closes it.
InFence(lines) == Cardinality({i \in DOMAIN lines : is_fence(lines[i])}) % 2 = 1

\* Lines that fit before the first that does not.
Fitting(lines, max_chars) ==
  Max({0} \cup {n \in 1 .. Len(lines) : Chars(SubSeq(lines, 1, n)) <= max_chars})

\* A boundary is kept wherever it falls.
MutBoundary(lines, fits) ==
  LET blanks == {i \in 1 .. fits : lines[i].kind = "blank"}
  IN  IF blanks = {} THEN 0 ELSE Max(blanks) - 1

\* The lines before the last blank line outside a fence, none of them in a fence that is
\* still open where the text stops fitting.
Boundary(lines, fits) ==
  LET blanks == {i \in 1 .. fits : lines[i].kind = "blank" /\ ~InFence(SubSeq(lines, 1, i))}
      last   == IF blanks = {} THEN 0 ELSE Max(blanks) - 1
      opens  == {i \in 1 .. fits : is_fence(lines[i])}
  IN  IF InFence(SubSeq(lines, 1, fits)) THEN Min({last, Max(opens) - 1}) ELSE last

\* [lines kept whole, characters kept of the first line otherwise, lines named as dropped].
truncate_at_paragraph(lines, max_tokens) ==
  LET max_chars == max_tokens * CharsPerToken
      keep      == Boundary(lines, Fitting(lines, max_chars))
      budget    == Max({max_chars - MARKER_RESERVE_CHARS, LeastPrefix})
  IN  IF keep = 0
      THEN [lines |-> <<>>, prefix |-> Min({lines[1].chars, budget}), dropped |-> Len(lines) - 1, truncated |-> TRUE]
      ELSE [lines |-> SubSeq(lines, 1, keep), prefix |-> 0, dropped |-> Len(lines) - keep, truncated |-> TRUE]

\* `text` ends without a newline or with one: chars is its length.
chunk_text(lines, chars, max_tokens) ==
  IF token_estimate(chars) <= max_tokens
  THEN [lines |-> lines, prefix |-> 0, dropped |-> 0, truncated |-> FALSE]
  ELSE truncate_at_paragraph(lines, max_tokens)

is_heading_only(lines) ==
  /\ lines # <<>> /\ lines[1].kind = "heading"
  /\ \A i \in 2 .. Len(lines) : lines[i].kind = "blank"

\* A section is carded without a call, or asked for under its hash with its chunk.
request_for(pending, max_tokens) ==
  IF is_heading_only(pending.lines) THEN [call |-> FALSE, id |-> pending.hash]
  ELSE [call |-> TRUE, id |-> pending.hash, chunk |-> chunk_text(pending.lines, pending.chars, max_tokens)]

\* chunk_for, plan: one chunk a section, in the order of the document.
plan(sections, max_tokens) ==
  [i \in DOMAIN sections |-> [section_hash |-> sections[i].hash, section_index |-> i - 1,
                              chunk |-> chunk_text(sections[i].lines, sections[i].chars, max_tokens)]]

=============================================================================
