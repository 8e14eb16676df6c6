--------------------------- MODULE KnowledgeIndex ---------------------------
(***************************************************************************)
(* What mda promises its readers, without tables: the live documents, the  *)
(* cards that were bought, and what each of the two searches can return.   *)
(* Raw search covers every section of every live document from the moment  *)
(* it is indexed; card search covers exactly those whose hash has a card.  *)
(* The Store implements this (StoreRefinement, MCStore).                   *)
(***************************************************************************)
EXTENDS Integers, Sequences, Functions

CONSTANTS Docs, Contents, Hashes, SectionsOf, Cards

VARIABLES content,    \* live documents and what they hold
          cards,      \* summarized hashes and their cards
          text_hits,  \* all that raw search can return
          card_hits   \* all that card search can return

vars == <<content, cards, text_hits, card_hits>>

SectionsIn(cont) ==
  UNION {{<<d, i, SectionsOf[cont[d]][i]>> : i \in DOMAIN SectionsOf[cont[d]]} :
           d \in DOMAIN cont}

Carded(cont, crds) ==
  {<<s[1], s[2], crds[s[3]]>> : s \in {t \in SectionsIn(cont) : t[3] \in DOMAIN crds}}

\* Every step leaves both searches exact.
Searchable ==
  /\ text_hits' = SectionsIn(content')
  /\ card_hits' = Carded(content', cards')

Index(d, c) ==
  /\ content' = [p \in DOMAIN content \cup {d} |-> IF p = d THEN c ELSE content[p]]
  /\ UNCHANGED cards
  /\ Searchable

Remove(d) ==
  /\ d \in DOMAIN content
  /\ content' = Restrict(content, DOMAIN content \ {d})
  /\ UNCHANGED cards
  /\ Searchable

\* A card is attached once and never replaced.
AddCard(h, card) ==
  /\ h \notin DOMAIN cards
  /\ cards' = [x \in DOMAIN cards \cup {h} |-> IF x = h THEN card ELSE cards[x]]
  /\ UNCHANGED content
  /\ Searchable

Init ==
  /\ content = <<>>
  /\ cards = <<>>
  /\ text_hits = {}
  /\ card_hits = {}

Next ==
  \/ \E d \in Docs, c \in Contents : Index(d, c)
  \/ \E d \in Docs : Remove(d)
  \/ \E h \in Hashes, card \in Cards : AddCard(h, card)

Spec == Init /\ [][Next]_vars

=============================================================================
