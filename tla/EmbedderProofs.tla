-------------------------- MODULE EmbedderProofs --------------------------
(***************************************************************************)
(* A stored vector is of its own card, in the text its model id names,     *)
(* whatever the two variants, the cards and the sizes of the batches are.  *)
(***************************************************************************)
EXTENDS Embedder, FunctionTheorems, FiniteSetTheorems, TLAPS

------------------------------------------------------------------------------
(* Batches *)

LEMMA MinOfTwo ==
  ASSUME NEW m \in Nat, NEW n \in Nat
  PROVE  Min({m, n}) \in Nat /\ Min({m, n}) <= m /\ Min({m, n}) <= n
  <1>1. \E x \in {m, n} : \A y \in {m, n} : x <= y
    <2>1. m <= n \/ n <= m
      OBVIOUS
    <2> QED BY <2>1
  <1>2. Min({m, n}) \in {m, n} /\ \A y \in {m, n} : Min({m, n}) <= y
    BY <1>1 DEF Min
  <1> QED BY <1>2

\* The rank of an element among those found names it.
LEMMA RanksNameElements ==
  ASSUME NEW found \in SUBSET Hashes, NEW i \in 1 .. Cardinality(found)
  PROVE  \E h \in found : Cardinality({g \in found : g <= h}) = i
  <1> DEFINE Upto(h) == {g \in found : g <= h}
             rank == [h \in found |-> Cardinality(Upto(h))]
             n == Cardinality(found)
  <1>1. IsFiniteSet(found) /\ n \in Nat /\ found \subseteq Nat
    BY HashAssumption, FS_Subset, FS_CardinalityType
  <1>2. ASSUME NEW h \in found
        PROVE  IsFiniteSet(Upto(h)) /\ Cardinality(Upto(h)) \in 1 .. n
    <2>1. IsFiniteSet(Upto(h)) /\ Cardinality(Upto(h)) <= n
      BY <1>1, FS_Subset
    <2>2. Cardinality(Upto(h)) \in Nat
      BY <2>1, FS_CardinalityType
    <2>3. Cardinality(Upto(h)) # 0
      <3>1. h \in Upto(h)
        BY <1>1
      <3> QED BY <2>1, <3>1, FS_EmptySet
    <2> QED BY <1>1, <2>1, <2>2, <2>3
  <1>3. ASSUME NEW g \in found, NEW h \in found, g < h
        PROVE  rank[g] # rank[h]
    <2>1. Upto(g) \in SUBSET Upto(h) /\ h \in Upto(h) /\ h \notin Upto(g)
      <3>1. g \in Nat /\ h \in Nat /\ h <= h /\ ~(h <= g)
        BY <1>1, <1>3
      <3>2. \A x \in found : x <= g => x <= h
        BY <1>1, <1>3, <3>1
      <3> QED BY <3>1, <3>2
    <2>2. Cardinality(Upto(h)) = Cardinality(Upto(g)) => Upto(h) = Upto(g)
      BY <1>2, <2>1, FS_Subset
    <2> QED BY <2>1, <2>2
  <1>4. rank \in [found -> 1 .. n]
    BY <1>2
  <1>5. \A g, h \in found : rank[g] = rank[h] => g = h
    <2>1. \A g, h \in found : g < h \/ h < g \/ g = h
      BY <1>1
    <2> QED BY <1>3, <2>1
  <1> HIDE DEF rank, n
  <1>6. rank \in Injection(found, 1 .. n)
    BY <1>4, <1>5 DEF Injection, IsInjective
  <1>7. IsFiniteSet(1 .. n) /\ Cardinality(1 .. n) = n
    BY <1>1, FS_Interval
  <1>8. rank \in Surjection(found, 1 .. n)
    BY <1>6, <1>7, FS_Injection DEF n
  <1> QED BY <1>8 DEF Surjection, rank, n

LEMMA OrderedType ==
  ASSUME NEW found \in SUBSET Hashes, NEW limit \in Nat
  PROVE  Ordered(found, limit) \in Seq(Hashes)
  <1> DEFINE size == Min({limit, Cardinality(found)})
  <1>1. Cardinality(found) \in Nat
    BY HashAssumption, FS_Subset, FS_CardinalityType
  <1>2. size \in Nat /\ size <= Cardinality(found)
    BY <1>1, MinOfTwo
  <1> HIDE DEF size
  <1>3. ASSUME NEW i \in 1 .. size
        PROVE  (CHOOSE h \in found : Cardinality({g \in found : g <= h}) = i) \in Hashes
    <2>1. i \in 1 .. Cardinality(found)
      BY <1>1, <1>2
    <2>2. \E h \in found : Cardinality({g \in found : g <= h}) = i
      BY <2>1, RanksNameElements
    <2> QED BY <2>2
  <1>4. Ordered(found, limit)
          = [i \in 1 .. size |-> CHOOSE h \in found : Cardinality({g \in found : g <= h}) = i]
    BY DEF Ordered, size
  <1>5. Ordered(found, limit) \in [1 .. size -> Hashes]
    BY <1>3, <1>4
  <1> QED BY <1>2, <1>5

------------------------------------------------------------------------------
(* A batch and its answer *)

Places == {"idle", "fetch", "embed", "put", "count", "drop", "over"}

Texts == {Text(v, h) : v \in {DaemonText, RebuildText}, h \in Hashes}

PassType == [at : Places, after : Nat, done : Nat, cards : Seq(Hashes), answer : Seq(Texts)]

\* An answer being stored has a vector of each card left, in order.
Answers(a, cards, answer) ==
  /\ Len(answer) = Len(cards)
  /\ \A i \in 1 .. Len(cards) : answer[i] = Text(Variant(a), cards[i])

Paired(a) ==
  /\ run[a].at = "embed" => run[a].cards # <<>>
  /\ run[a].at = "put" => Answers(a, run[a].cards, run[a].answer)

\* Each stored vector was made by one of the two passes, of the card it is stored for.
Owned ==
  \A k \in DOMAIN vectors :
    \E a \in Actors, h \in Hashes : k = <<h, ModelOf(a)>> /\ vectors[k] = Text(Variant(a), h)

EInv == run \in [Actors -> PassType] /\ (\A a \in Actors : Paired(a)) /\ Owned

LEMMA IdleType == Idle \in PassType /\ Idle.at = "idle"
  <1>1. <<>> \in Seq(Hashes) /\ <<>> \in Seq(Texts)
    OBVIOUS
  <1> QED BY <1>1 DEF Idle, PassType, Places

LEMMA InitEInv == Init => EInv
  BY IdleType DEF Init, EInv, Paired, Owned

\* A step of one pass that stores nothing.
LEMMA PassStep ==
  ASSUME EInv, NEW a \in Actors, NEW r \in PassType, run' = [run EXCEPT ![a] = r],
         UNCHANGED vectors, Paired(a)'
  PROVE  EInv'
  <1>1. run' \in [Actors -> PassType]
    BY DEF EInv
  <1>2. \A b \in Actors : Paired(b)'
    BY DEF EInv, Paired
  <1>3. Owned'
    BY DEF EInv, Owned
  <1> QED BY <1>1, <1>2, <1>3 DEF EInv

LEMMA StepEInv == EInv /\ [Next]_vars => EInv'
  <1> SUFFICES ASSUME EInv, [Next]_vars PROVE EInv'
    OBVIOUS
  <1>a. run \in [Actors -> PassType]
    BY DEF EInv
  \* A pass that ends, or begins again.
  <1>b. ASSUME NEW a \in Actors, NEW place \in Places \ {"embed", "put"},
               run' = [run EXCEPT ![a] = [Idle EXCEPT !.at = place]], UNCHANGED vectors
        PROVE  EInv'
    <2>1. [Idle EXCEPT !.at = place] \in PassType /\ [Idle EXCEPT !.at = place].at = place
      BY IdleType DEF PassType, Idle
    <2>2. Paired(a)'
      BY <1>a, <1>b, <2>1 DEF Paired
    <2> QED BY <1>b, <2>1, <2>2, PassStep
  <1>c. \A a \in Actors : Ends(a) \in Places \ {"embed", "put"}
    BY DEF Ends, Places
  <1>1. CASE UNCHANGED vars
    BY <1>1 DEF vars, EInv, Paired, Owned
  <1>2. ASSUME NEW a \in Actors, Begin(a)
        PROVE  EInv'
    BY <1>2, <1>b DEF Begin, Places
  <1>3. ASSUME NEW a \in Actors, Fetch(a)
        PROVE  EInv'
    <2> DEFINE r == run[a]
    <2>1. r \in PassType
      BY <1>a
    <2>2. \E cards \in Seq(Hashes) :
            run' = [run EXCEPT ![a] = IF cards = <<>> THEN [r EXCEPT !.at = "count"]
                                      ELSE [r EXCEPT !.at = "embed", !.cards = cards, !.after = Last(cards)]]
      <3>1. <<>> \in Seq(Hashes)
        OBVIOUS
      <3>2. CASE r.done < Limit(a)
        <4>1. Limit(a) \in Nat
          BY BatchAssumption, HashAssumption, FS_CardinalityType DEF Limit
        <4>2. Limit(a) - r.done \in Nat
          BY <2>1, <3>2, <4>1 DEF PassType
        <4>3. Min({EMBED_BATCH, Limit(a) - r.done}) \in Nat
          BY <4>2, BatchAssumption, MinOfTwo
        <4>4. cards_without_embedding(ModelOf(a), r.after, Min({EMBED_BATCH, Limit(a) - r.done}))
                \in Seq(Hashes)
          BY <4>3, OrderedType DEF cards_without_embedding
        <4> QED BY <1>3, <3>2, <4>4 DEF Fetch
      <3>3. CASE ~(r.done < Limit(a))
        BY <1>3, <3>1, <3>3 DEF Fetch
      <3> QED BY <3>2, <3>3
    <2>3. PICK cards \in Seq(Hashes) :
            run' = [run EXCEPT ![a] = IF cards = <<>> THEN [r EXCEPT !.at = "count"]
                                      ELSE [r EXCEPT !.at = "embed", !.cards = cards, !.after = Last(cards)]]
      BY <2>2
    <2> DEFINE s == IF cards = <<>> THEN [r EXCEPT !.at = "count"]
                    ELSE [r EXCEPT !.at = "embed", !.cards = cards, !.after = Last(cards)]
    <2>4. s \in PassType /\ s.at # "put" /\ (s.at = "embed" => s.cards # <<>>)
      <3>1. cards # <<>> => Last(cards) \in Hashes
        BY DEF Last
      <3>2. cards # <<>> => Last(cards) \in Nat
        BY <3>1, HashAssumption
      <3> QED BY <2>1, <3>2 DEF PassType, Places
    <2>5. run'[a] = s
      BY <1>a, <2>3
    <2>6. Paired(a)'
      BY <2>4, <2>5 DEF Paired
    <2> QED BY <1>3, <2>3, <2>4, <2>6, PassStep DEF Fetch
  <1>4. ASSUME NEW a \in Actors, Embed(a)
        PROVE  EInv'
    <2> DEFINE r == run[a]
               answer == [i \in DOMAIN r.cards |-> Text(Variant(a), r.cards[i])]
               s == [r EXCEPT !.at = "put", !.answer = answer]
    <2>1. r \in PassType /\ r.cards \in Seq(Hashes)
      BY <1>a DEF PassType
    <2>2. answer \in Seq(Texts) /\ Len(answer) = Len(r.cards)
      <3>1. DOMAIN r.cards = 1 .. Len(r.cards) /\ Len(r.cards) \in Nat
        BY <2>1
      <3>2. \A i \in 1 .. Len(r.cards) : Text(Variant(a), r.cards[i]) \in Texts
        BY <2>1 DEF Texts, Variant
      <3>3. answer \in [1 .. Len(r.cards) -> Texts]
        BY <3>1, <3>2
      <3> QED BY <3>1, <3>3
    <2>3. s \in PassType
      BY <2>1, <2>2 DEF PassType, Places
    <2>4. run' = [run EXCEPT ![a] = s] /\ run'[a] = s
      BY <1>4, <1>a DEF Embed
    <2>5. s.answer = answer /\ s.cards = r.cards /\ s.at = "put"
      BY <2>1 DEF PassType
    <2>6. Answers(a, r.cards, answer)
      BY <2>1, <2>2 DEF Answers
    <2>7. Paired(a)'
      <3> HIDE DEF s, answer
      <3> QED BY <2>4, <2>5, <2>6 DEF Paired
    <2> HIDE DEF s
    <2> QED BY <1>4, <2>3, <2>4, <2>7, PassStep DEF Embed
  <1>5. ASSUME NEW a \in Actors, EmbedFails(a)
        PROVE  EInv'
    BY <1>5, <1>b, <1>c DEF EmbedFails
  \* An answer that is short is not accepted.
  <1>6. ASSUME NEW a \in Actors, EmbedsShort(a)
        PROVE  EInv'
    <2> DEFINE cards == run[a].cards
               answer == [i \in 1 .. Len(cards) - 1 |-> Text(Variant(a), cards[i + 1])]
    <2>1. Len(cards) \in Nat \ {0}
      <3>1. cards \in Seq(Hashes) /\ cards # <<>>
        BY <1>6, <1>a DEF PassType, EmbedsShort, EInv, Paired
      <3> QED BY <3>1
    <2>2. ~Accepts(cards, answer)
      <3>1. Len(cards) - 1 \in Nat /\ Len(answer) = Len(cards) - 1
        BY <2>1
      <3> QED BY <2>1, <3>1 DEF Accepts
    <2> QED BY <1>6, <1>b, <1>c, <2>2 DEF EmbedsShort
  <1>7. ASSUME NEW a \in Actors, Put(a)
        PROVE  EInv'
    <2> DEFINE r == run[a]
    <2>1. r \in PassType /\ r.at = "put" /\ Answers(a, r.cards, r.answer)
      BY <1>7, <1>a DEF Put, EInv, Paired
    <2>2. r.cards \in Seq(Hashes) /\ r.answer \in Seq(Texts) /\ Len(r.answer) = Len(r.cards)
      BY <2>1 DEF PassType, Answers
    <2>3. CASE r.answer = <<>>
      <3> DEFINE s == [r EXCEPT !.at = "fetch", !.cards = <<>>]
      <3>1. s \in PassType /\ s.at = "fetch"
        <4>1. <<>> \in Seq(Hashes)
          OBVIOUS
        <4> QED BY <2>1, <4>1 DEF PassType, Places
      <3>2. run' = [run EXCEPT ![a] = s] /\ run'[a] = s /\ UNCHANGED vectors
        BY <1>7, <1>a, <2>3 DEF Put
      <3>3. Paired(a)'
        BY <3>1, <3>2 DEF Paired
      <3> HIDE DEF s
      <3> QED BY <3>1, <3>2, <3>3, PassStep
    <2>4. CASE r.answer # <<>>
      <3> DEFINE h == Head(r.cards)
                 s == [r EXCEPT !.cards = Tail(@), !.answer = Tail(@), !.done = @ + 1]
      <3>1. /\ vectors' = put_embedding(Head(r.cards), ModelOf(a), Head(r.answer))
            /\ run' = [run EXCEPT ![a] = s]
        BY <1>7, <1>a, <2>4 DEF Put
      <3>2. /\ Len(r.cards) \in Nat \ {0} /\ r.cards # <<>>
            /\ Head(r.cards) = r.cards[1] /\ Head(r.answer) = r.answer[1]
        BY <2>2, <2>4
      <3>3. PICK card \in Hashes : card = Head(r.cards) /\ Head(r.answer) = Text(Variant(a), card)
        BY <2>1, <2>2, <3>2 DEF Answers
      <3>4. Owned'
        <4>1. vectors' = [k \in DOMAIN vectors \cup {<<card, ModelOf(a)>>} |->
                            IF k = <<card, ModelOf(a)>> THEN Text(Variant(a), card) ELSE vectors[k]]
          BY <3>1, <3>3 DEF put_embedding
        <4> QED BY <4>1 DEF EInv, Owned
      <3>5. s \in PassType /\ s.at = "put" /\ s.cards = Tail(r.cards) /\ s.answer = Tail(r.answer)
        <4>1. Tail(r.cards) \in Seq(Hashes) /\ Tail(r.answer) \in Seq(Texts)
          BY <2>2, <2>4, <3>2
        <4>2. r.done + 1 \in Nat
          BY <2>1 DEF PassType
        <4> QED BY <2>1, <4>1, <4>2 DEF PassType
      <3>6. Answers(a, Tail(r.cards), Tail(r.answer))
        <4>1. Len(Tail(r.cards)) = Len(r.cards) - 1 /\ Len(Tail(r.answer)) = Len(r.answer) - 1
          BY <2>2, <2>4, <3>2
        <4>2. ASSUME NEW i \in 1 .. Len(Tail(r.cards))
              PROVE  Tail(r.answer)[i] = Text(Variant(a), Tail(r.cards)[i])
          <5>1. i + 1 \in 1 .. Len(r.cards)
            BY <3>2, <4>1
          <5>2. Tail(r.cards)[i] = r.cards[i + 1] /\ Tail(r.answer)[i] = r.answer[i + 1]
            BY <2>2, <2>4, <3>2, <4>1
          <5> QED BY <2>1, <5>1, <5>2 DEF Answers
        <4> QED BY <2>2, <4>1, <4>2 DEF Answers
      <3> HIDE DEF s
      <3>7. run' \in [Actors -> PassType] /\ run'[a] = s
        BY <1>a, <3>1, <3>5
      <3>8. ASSUME NEW b \in Actors
            PROVE  Paired(b)'
        BY <1>a, <3>1, <3>5, <3>6, <3>7 DEF EInv, Paired
      <3> QED BY <3>4, <3>7, <3>8 DEF EInv
    <2> QED BY <2>3, <2>4
  <1>8. ASSUME NEW a \in Actors, Count(a)
        PROVE  EInv'
    BY <1>8, <1>b DEF Count, Places
  <1>9. CASE Drop
    <2>1. "rebuild" \in Actors /\ "over" \in Places
      BY DEF Actors, Places
    <2>2. run' \in [Actors -> PassType] /\ \A a \in Actors : Paired(a)'
      <3>1. run' = [run EXCEPT !["rebuild"] = [Idle EXCEPT !.at = "over"]]
        BY <1>9 DEF Drop
      <3>2. [Idle EXCEPT !.at = "over"] \in PassType /\ [Idle EXCEPT !.at = "over"].at = "over"
        BY <2>1, IdleType DEF PassType, Idle
      <3> QED BY <1>a, <2>1, <3>1, <3>2 DEF EInv, Paired
    <2>3. Owned'
      BY <1>9 DEF Drop, delete_embeddings_not, EInv, Owned
    <2> QED BY <2>2, <2>3 DEF EInv
  <1>10. ASSUME NEW h \in Hashes, AttachSummary(h) \/ Edit(h)
         PROVE  EInv'
    BY <1>10 DEF AttachSummary, Edit, EInv, Paired, Owned
  <1> QED BY <1>1, <1>2, <1>3, <1>4, <1>5, <1>6, <1>7, <1>8, <1>9, <1>10 DEF Next, Pass

LEMMA EInvHolds == Spec => []EInv
  BY InitEInv, StepEInv, PTL DEF Spec

\* A stored vector is of the card it is stored for, in the text its model id names: answers
\* are matched with the cards of their batch, one by one (pipeline.rs embed_pending).
THEOREM VectorsAreTheirCards == Spec => []VectorsOfTheirCards
  <1>1. EInv => VectorsOfTheirCards
    <2> SUFFICES ASSUME EInv, NEW k \in DOMAIN vectors
                 PROVE  vectors[k] = Text((CHOOSE v \in {DaemonText, RebuildText} : model(v) = k[2]), k[1])
      BY DEF VectorsOfTheirCards
    <2>1. PICK a \in Actors, h \in Hashes : k = <<h, ModelOf(a)>> /\ vectors[k] = Text(Variant(a), h)
      BY DEF EInv, Owned
    <2>2. Variant(a) \in {DaemonText, RebuildText} /\ k[2] = model(Variant(a)) /\ k[1] = h
      BY <2>1 DEF Variant, ModelOf
    <2>3. \A v \in {DaemonText, RebuildText} : model(v) = model(Variant(a)) => v = Variant(a)
      BY DEF model
    <2>4. (CHOOSE v \in {DaemonText, RebuildText} : model(v) = k[2]) = Variant(a)
      BY <2>2, <2>3
    <2> QED BY <2>1, <2>2, <2>4
  <1> QED BY <1>1, EInvHolds, PTL

===========================================================================
