------------------------------- MODULE Cards -------------------------------
(***************************************************************************)
(* The card contract (card.rs) and its enforcement on a model's answer     *)
(* (validate.rs): caps, grounding of entities and dates in the section,    *)
(* and the shape of ISO dates.                                             *)
(*                                                                         *)
(* Text is a sequence of characters. Rust measures some strings in bytes   *)
(* of UTF-8 and cuts them at byte offsets; Width gives a character's bytes.*)
(* A cut inside a character panics: Panic.                                 *)
(***************************************************************************)
EXTENDS Orders, SequencesExt, FiniteSetsExt

CONSTANTS
  Blank,   \* the whitespace characters, " " among them
  Folded,  \* character -> the characters normalize writes for it
  Lower,   \* character -> its lower case
  Width,   \* character -> its length in UTF-8, 1 .. 4
  Digits,  \* the digit characters, a function onto 0 .. 9
  Panic

\* card.rs: the fields that are plain lists, and the categories of entities.
ListFields == {"keywords", "questions_answered", "decisions", "action_items"}

Categories == {"people", "orgs", "products", "technologies", "files_paths", "commands"}

lowercase(s) == [i \in DOMAIN s |-> Lower[s[i]]]

trim(s) ==
  LET ink == {i \in DOMAIN s : s[i] \notin Blank}
  IN  IF ink = {} THEN <<>> ELSE SubSeq(s, Min(ink), Max(ink))

Occurs(needle, hay) ==
  \E i \in 0 .. Len(hay) - Len(needle) : SubSeq(hay, i + 1, i + Len(needle)) = needle

\* Fold typographic variants; a run of whitespace between other characters is one space.
normalize(s) ==
  LET t == trim(s)
      Piece(i) == IF t[i] \notin Blank THEN Folded[t[i]] ELSE IF t[i - 1] \in Blank THEN <<>> ELSE <<" ">>
  IN  FlattenSeq([i \in DOMAIN t |-> Piece(i)])

clip(s, max) == IF Len(s) <= max THEN s ELSE SubSeq(s, 1, max)

\* Keep the first of equal values, drop the empty ones.
dedupe(values) == Distinct(Filter(values, LAMBDA v : v # <<>>))

Over(values, cap) == Len(values) > cap

------------------------------------------------------------------------------
(* ISO dates. *)

Bytes(s) ==
  LET upTo[n \in 0 .. Len(s)] == IF n = 0 THEN 0 ELSE upTo[n - 1] + Width[s[n]]
  IN  upTo[Len(s)]

IsBoundary(s, byte) == \E n \in 0 .. Len(s) : Bytes(SubSeq(s, 1, n)) = byte

AllDigits(s) == \A i \in DOMAIN s : s[i] \in DOMAIN Digits

Value(s) == FoldLeft(LAMBDA n, c : 10 * n + Digits[c], 0, s)

is_year(s) == Bytes(s) = 4 /\ AllDigits(s) /\ Value(s) \in 1000 .. 2999

\* The year of s and what follows it: the code cuts s at byte 4 before it has looked at a
\* character of it.
CutAtYear(s) ==
  LET n == CHOOSE n \in 0 .. Len(s) : Bytes(SubSeq(s, 1, n)) = 4
  IN  [year |-> SubSeq(s, 1, n), rest |-> SubSeq(s, n + 1, Len(s))]

IsMonth(s) == Len(s) = 2 /\ AllDigits(s) /\ Value(s) \in 1 .. 12

is_year_month(s) ==
  IF Bytes(s) # 7 THEN FALSE
  ELSE IF ~IsBoundary(s, 4) THEN Panic
  ELSE LET c == CutAtYear(s) IN is_year(c.year) /\ c.rest[1] = "-" /\ IsMonth(Tail(c.rest))

DaysIn(year, month) ==
  CASE month = 2 -> IF year % 4 = 0 /\ (year % 100 # 0 \/ year % 400 = 0) THEN 29 ELSE 28
    [] month \in {4, 6, 9, 11} -> 30
    [] OTHER -> 31

\* What jiff accepts of the rest of a ten-byte date.
IsMonthAndDay(year, r) ==
  /\ Len(r) = 6 /\ r[1] = "-" /\ r[4] = "-"
  /\ IsMonth(SubSeq(r, 2, 3))
  /\ AllDigits(SubSeq(r, 5, 6))
  /\ Value(SubSeq(r, 5, 6)) \in 1 .. DaysIn(year, Value(SubSeq(r, 2, 3)))

is_calendar_day(s) ==
  IF Bytes(s) # 10 THEN FALSE
  ELSE IF ~IsBoundary(s, 4) THEN Panic
  ELSE LET c == CutAtYear(s) IN is_year(c.year) /\ IsMonthAndDay(Value(c.year), c.rest)

\* The four-digit runs of s that are years.
years_in(s) ==
  {y \in {SubSeq(s, i, i + 3) : i \in {j \in 1 .. Len(s) - 3 :
            /\ j = 1 \/ s[j - 1] \notin DOMAIN Digits
            /\ j + 3 = Len(s) \/ s[j + 4] \notin DOMAIN Digits}} : is_year(y)}

\* a || b and a && b, where a may have panicked.
OrElse(a, b) == IF a = FALSE THEN b ELSE a

AndThen(a, b) == IF a = TRUE THEN b ELSE a

TargetLen(precision) ==
  CASE precision \in {"day", "relative"} -> 10
    [] precision = "month"               -> 7
    [] precision \in {"quarter", "year"} -> 4

\* What a time begins with.
TimeMarks == {"T", " "}

date_part(s) ==
  LET ends == {i \in DOMAIN s : s[i] \in TimeMarks}
  IN  IF ends = {} THEN s ELSE SubSeq(s, 1, Min(ends) - 1)

\* Strip a time, cut to the precision; what is not recognised stays as it is.
normalize_iso(iso, precision) ==
  LET s     == trim(iso)
      part  == date_part(s)
      known == IF Bytes(part) < TargetLen(precision) THEN FALSE
               ELSE OrElse(OrElse(is_calendar_day(part), is_year_month(part)), is_year(part))
  IN  IF known = Panic THEN Panic ELSE IF known THEN SubSeq(part, 1, TargetLen(precision)) ELSE s

iso_matches(iso, precision, raw) ==
  LET s        == trim(iso)
      shape_ok == CASE precision = "day"   -> is_calendar_day(s)
                    [] precision = "month" -> is_year_month(s)
                    [] precision \in {"quarter", "year"} -> is_year(s)
                    [] precision = "relative" ->
                         OrElse(OrElse(is_calendar_day(s), is_year_month(s)), is_year(s))
  IN  AndThen(shape_ok, years_in(raw) = {} \/ SubSeq(s, 1, 4) \in years_in(raw))

------------------------------------------------------------------------------
(* Grounding. *)

\* The evidence is in the section, the raw date in the evidence, and the iso fits the raw.
is_grounded_date(date, haystack) ==
  LET evidence == normalize(date.evidence)
      raw      == normalize(date.raw)
  IN  IF \/ evidence = <<>> \/ raw = <<>>
         \/ ~Occurs(evidence, haystack)
         \/ ~Occurs(lowercase(raw), lowercase(evidence))
      THEN FALSE
      ELSE iso_matches(date.iso, date.precision, date.raw)

\* The category's cap applied before the values are grounded.
MutGroundEntities(values, haystack_lower, caps) ==
  LET all == dedupe([i \in DOMAIN values |-> trim(values[i])])
      Grounded(v) == normalize(v) # <<>> /\ Occurs(lowercase(normalize(v)), haystack_lower)
  IN  [kept    |-> LET k == Filter(clip(all, caps.entities_per_category), Grounded)
                   IN  [i \in DOMAIN k |-> clip(k[i], caps.max_chars)],
       dropped |-> {v \in ToSet(all) : ~Grounded(v)},
       trimmed |-> Over(all, caps.entities_per_category)]

ground_entities(values, haystack_lower, caps) ==
  LET all == dedupe([i \in DOMAIN values |-> trim(values[i])])
      Grounded(v) == normalize(v) # <<>> /\ Occurs(lowercase(normalize(v)), haystack_lower)
      found == Filter(all, Grounded)
      short == clip(found, caps.entities_per_category)
  IN  [kept    |-> [i \in DOMAIN short |-> clip(short[i], caps.max_chars)],
       dropped |-> {v \in ToSet(all) : ~Grounded(v)},
       trimmed |-> Over(found, caps.entities_per_category)]

cap_list(values, cap, max_chars) ==
  LET short == clip(values, cap) IN [i \in DOMAIN short |-> clip(short[i], max_chars)]

\* A rejected card, and one whose checking dies.
Rejected == [verdict |-> "rejected"]

Died == [verdict |-> "panic"]

Ground(d, haystack) == IF d.iso = Panic THEN Panic ELSE is_grounded_date(d, haystack)

\* The card with what was capped, and what was dropped or trimmed on the way to it.
Verdict(tldr, body, list, entities, grounded, failing, caps) ==
  LET short == clip(grounded, caps.dates)
  IN  [verdict |-> "valid",
       card    |-> [tldr |-> tldr, summary |-> body,
                    lists |-> [f \in ListFields |-> cap_list(list[f], caps.lists[f], caps.max_chars)],
                    entities |-> [c \in Categories |-> entities[c].kept],
                    mentioned_dates |->
                      [i \in DOMAIN short |->
                         [short[i] EXCEPT !.raw = clip(trim(@), caps.max_chars),
                                          !.evidence = clip(trim(@), caps.max_chars)]]],
       dropped_dates    |-> failing,
       dropped_entities |-> UNION {{c} \X entities[c].dropped : c \in Categories},
       trimmed |-> {f \in ListFields : Over(list[f], caps.lists[f])}
                     \cup {c \in Categories : entities[c].trimmed}
                     \cup (IF Over(grounded, caps.dates) THEN {"mentioned_dates"} ELSE {})]

\* Dates come with their iso normalised; checking one may die.
Judge(tldr, body, list, entities, dates, haystack, caps) ==
  IF tldr = <<>> \/ body = <<>> THEN Rejected
  ELSE IF \E i \in DOMAIN dates : Ground(dates[i], haystack) = Panic THEN Died
  ELSE Verdict(tldr, body, list, entities,
               Filter(dates, LAMBDA d : Ground(d, haystack) = TRUE),
               Filter(dates, LAMBDA d : Ground(d, haystack) = FALSE), caps)

validate(section_text, answer, caps) ==
  LET haystack == normalize(section_text)
      Plain(f, v) == IF f = "keywords" THEN lowercase(trim(v)) ELSE trim(v)
  IN  Judge(clip(trim(answer.tldr), caps.max_chars), clip(trim(answer.summary), caps.max_chars * 2),
            [f \in ListFields |-> dedupe([i \in DOMAIN answer.lists[f] |-> Plain(f, answer.lists[f][i])])],
            [c \in Categories |-> ground_entities(answer.entities[c], lowercase(haystack), caps)],
            [i \in DOMAIN answer.mentioned_dates |->
               [answer.mentioned_dates[i] EXCEPT !.iso = normalize_iso(@, answer.mentioned_dates[i].precision)]],
            haystack, caps)

is_clean(v) == v.dropped_dates = <<>> /\ v.dropped_entities = {} /\ v.trimmed = {}

=============================================================================
