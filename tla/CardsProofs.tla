---------------------------- MODULE CardsProofs -----------------------------
(***************************************************************************)
(* Proofs about Cards, for all texts and for every geometry that satisfies *)
(* GeometryAssumption.                                                     *)
(***************************************************************************)
EXTENDS Cards, SequenceTheorems, TLAPS

-----------------------------------------------------------------------------
(* n things fit in k boxes of w exactly when there are k * w places.       *)
LEMMA CeilBound ==
    ASSUME NEW n \in Nat, NEW w \in Nat \ {0}, NEW k \in Nat
    PROVE  Ceil(n, w) \in Nat /\ (Ceil(n, w) <= k <=> n <= k * w)
<1> DEFINE q == (n + w - 1) \div w
           r == (n + w - 1) % w
<1>1. q \in Nat /\ r \in 0..(w - 1) /\ n + w - 1 = q * w + r
  BY SMTT(30)
<1> HIDE DEF q, r
<1>2. ASSUME q <= k PROVE n <= k * w
  <2>1. q * w <= k * w
    BY <1>1, <1>2, SMTT(30)
  <2> QED
    BY <1>1, <2>1, SMTT(30)
<1>3. ASSUME q > k PROVE n > k * w
  <2>1. q * w >= (k + 1) * w
    BY <1>1, <1>3, SMTT(30)
  <2>2. (k + 1) * w = k * w + w
    BY SMTT(30)
  <2> QED
    BY <1>1, <2>1, <2>2, SMTT(30)
<1>4. Ceil(n, w) = q
  BY DEF Ceil, q
<1>5. k * w \in Nat
  OBVIOUS
<1> QED
  BY <1>1, <1>2, <1>3, <1>4, <1>5

(* The geometry.                                                           *)
LEMMA Geometry ==
    /\ LINE_CHARS \in Nat \ {0} /\ LINES_PER_CHUNK \in Nat \ {0} /\ CHUNKS_PER_CARD \in Nat \ {0}
    /\ MaxChunks \in Nat /\ MaxSwept \in Nat /\ Ceil(MaxChunks, CHUNKS_PER_CARD) <= MaxSwept
    /\ LINE_CHARS * LINES_PER_CHUNK \in Nat \ {0} /\ lines_per_card \in Nat \ {0}
<1>1. \A m, n \in Nat \ {0} : m * n \in Nat \ {0}
  BY SMTT(30)
<1> QED
  BY <1>1, GeometryAssumption DEF lines_per_card

(* The lengths of what a text is cut into.                                 *)
LEMMA Lengths ==
    ASSUME NEW x \in Texts
    PROVE  /\ Len(x) \in Nat
           /\ Len(Lines(x)) = Ceil(Len(x), LINE_CHARS) /\ Len(Lines(x)) \in Nat
           /\ Len(Chunks(x)) = Ceil(Len(x), LINE_CHARS * LINES_PER_CHUNK) /\ Len(Chunks(x)) \in Nat
           /\ Len(DataCards(x)) = Ceil(Len(Lines(x)), lines_per_card) /\ Len(DataCards(x)) \in Nat
<1>1. \A n \in Nat : \A w \in Nat \ {0} : Ceil(n, w) \in Nat
  BY CeilBound
<1>2. ASSUME NEW y, Len(y) \in Nat, NEW w \in Nat \ {0}
      PROVE  Len(wrap(y, w)) = Ceil(Len(y), w) /\ Len(wrap(y, w)) \in Nat
  <2> DEFINE m == Ceil(Len(y), w)
  <2>1. m \in Nat
    BY <1>1, <1>2
  <2> HIDE DEF m
  <2>2. Len(wrap(y, w)) = m
    BY <2>1 DEF wrap, m
  <2> QED
    BY <2>1, <2>2 DEF m
<1>3. Len(x) \in Nat
  BY GeometryAssumption
<1>4. Len(Lines(x)) = Ceil(Len(x), LINE_CHARS) /\ Len(Lines(x)) \in Nat
  BY <1>2, <1>3, Geometry DEF Lines
<1>5. Len(Chunks(x)) = Ceil(Len(x), LINE_CHARS * LINES_PER_CHUNK) /\ Len(Chunks(x)) \in Nat
  BY <1>2, <1>3, Geometry DEF Chunks
<1>6. Len(DataCards(x)) = Ceil(Len(Lines(x)), lines_per_card) /\ Len(DataCards(x)) \in Nat
  BY <1>2, <1>4, Geometry DEF DataCards
<1> QED
  BY <1>3, <1>4, <1>5, <1>6

(* A text whose chunks fit the manifest has only cards that a sweep finds. *)
LEMMA CardsFit ==
    ASSUME NEW x \in Texts, Len(Chunks(x)) <= MaxChunks
    PROVE  Len(DataCards(x)) <= MaxSwept
<1> DEFINE a == LINE_CHARS
           b == LINES_PER_CHUNK
           c == CHUNKS_PER_CARD
           n == Len(x)
           M == MaxSwept
<1>1. a \in Nat \ {0} /\ b \in Nat \ {0} /\ c \in Nat \ {0} /\ n \in Nat /\ M \in Nat
      /\ a * b \in Nat \ {0} /\ b * c \in Nat \ {0} /\ Len(Lines(x)) \in Nat
  BY Geometry, Lengths DEF lines_per_card
<1>2. MaxChunks <= M * c
  BY Geometry, CeilBound
<1>3. Ceil(n, a * b) <= MaxChunks
  BY Lengths
<1>4. n <= MaxChunks * (a * b)
  BY <1>1, <1>3, Geometry, CeilBound
<1> HIDE DEF a, b, c, n, M
<1>5. MaxChunks * (a * b) <= (M * c) * (a * b)
  BY <1>1, <1>2, Geometry, SMTT(30)
<1>6. (M * c) * (a * b) = (M * (b * c)) * a
  BY <1>1, SMTT(30)
<1>7. MaxChunks * (a * b) \in Nat /\ (M * c) * (a * b) \in Nat /\ M * (b * c) \in Nat
  BY <1>1, Geometry, SMTT(30)
<1>8. n <= (M * (b * c)) * a
  BY <1>1, <1>4, <1>5, <1>6, <1>7
<1>9. Ceil(n, a) <= M * (b * c)
  BY <1>1, <1>7, <1>8, CeilBound
<1>10. Len(Lines(x)) <= M * (b * c)
  BY <1>9, Lengths DEF n, a
<1>11. Ceil(Len(Lines(x)), b * c) <= M
  BY <1>1, <1>10, CeilBound
<1> QED
  BY <1>11, Lengths DEF b, c, M, lines_per_card

(* A whole card, and a first part of one, are parts of the text's cards.   *)
LEMMA WholeIsPart ==
    ASSUME NEW x \in Texts, NEW n \in 1..Len(DataCards(x))
    PROVE  PartOf(DataCards(x)[n], x, n)
<1> DEFINE y == Lines(x)
           w == lines_per_card
           card == DataCards(x)[n]
           lo == (n - 1) * w + 1
           hi == IF n * w < Len(y) THEN n * w ELSE Len(y)
           S == {y[i] : i \in lo..hi}
<1>1. Len(y) \in Nat /\ w \in Nat /\ n \in Nat /\ n >= 1 /\ Len(DataCards(x)) \in Nat
      /\ Len(DataCards(x)) = Ceil(Len(y), w)
  BY Lengths, Geometry
<1>2. card = SubSeq(y, lo, hi)
  BY <1>1, Zenon DEF DataCards, wrap
<1> HIDE DEF y, w
<1>3. lo \in Int /\ hi \in Int
  BY <1>1, SMTT(30)
<1> HIDE DEF lo, hi
<1>4. card \in Seq(S)
  BY <1>2, <1>3, SubSeqProperties
<1> HIDE DEF card, S
<1>5. SubSeq(card, 1, Len(card)) = card /\ Len(card) \in 0..Len(card)
  BY <1>4, SubSeqFull, LenProperties
<1>6. n <= Len(DataCards(x))
  BY <1>1
<1> QED
  BY <1>5, <1>6 DEF PartOf, card

-----------------------------------------------------------------------------
(* The inductive invariant.  While a packer sweeps, what it has still to   *)
(* remove is all there is of its family; while it writes, the manifest on  *)
(* disk is that of its text.                                               *)
Swept ==
    /\ left \subseteq 0..MaxSwept
    /\ 0 \notin left => manifest[family] = NoCard
    /\ \A n \in 1..MaxSwept : n \notin left => cards[family][n] = NoCard

CardsInv ==
    /\ packing \in {"idle", "sweep", "write"}
    /\ DOMAIN manifest = Families /\ DOMAIN cards = Families
    /\ \A f \in Families : DOMAIN cards[f] = 1..MaxSwept
    /\ NeverMixed
    /\ packing # "idle" => family \in Families /\ text \in Texts /\ Len(DataCards(text)) <= MaxSwept
    /\ packing = "sweep" => Swept
    /\ packing = "write" => left \subseteq 1..Len(DataCards(text)) /\ manifest[family] = Manifest(text)

(* A family is in order: its manifest, if whole, is that of its cards.     *)
Unmixed(m, c) ==
    m \notin {NoCard, TornManifest} => \A n \in 1..MaxSwept : c[n] # NoCard => PartOf(c[n], m.bs, n)

LEMMA UnmixedAll == NeverMixed <=> \A f \in Families : Unmixed(manifest[f], cards[f])
BY DEF NeverMixed, Unmixed

(* Assigning the manifest of one family, or a card of it.                  *)
LEMMA ManifestSet ==
    ASSUME CardsInv, family \in Families, NEW m,
           manifest' = [manifest EXCEPT ![family] = m], UNCHANGED cards, Unmixed(m, cards[family])
    PROVE  NeverMixed' /\ DOMAIN manifest' = Families /\ manifest'[family] = m
<1>1. DOMAIN manifest' = Families /\ \A f \in Families : manifest'[f] = IF f = family THEN m ELSE manifest[f]
  BY DEF CardsInv
<1>2. \A f \in Families : Unmixed(manifest'[f], cards'[f])
  BY <1>1, UnmixedAll DEF CardsInv
<1> QED
  BY <1>1, <1>2 DEF NeverMixed, Unmixed

LEMMA CardSet ==
    ASSUME CardsInv, family \in Families, NEW n, NEW c,
           cards' = [cards EXCEPT ![family][n] = c], UNCHANGED manifest,
           \/ c = NoCard
           \/ PartOf(c, manifest[family].bs, n)
    PROVE  /\ NeverMixed' /\ DOMAIN cards' = Families /\ \A f \in Families : DOMAIN cards'[f] = 1..MaxSwept
           /\ n \in 1..MaxSwept => cards'[family][n] = c
           /\ \A k \in 1..MaxSwept : k # n => cards'[family][k] = cards[family][k]
<1>1. /\ DOMAIN cards' = Families
      /\ \A f \in Families : cards'[f] = IF f = family THEN [cards[family] EXCEPT ![n] = c] ELSE cards[f]
  BY DEF CardsInv
<1>2. /\ \A f \in Families : DOMAIN cards'[f] = 1..MaxSwept
      /\ n \in 1..MaxSwept => cards'[family][n] = c
      /\ \A k \in 1..MaxSwept : k # n => cards'[family][k] = cards[family][k]
  BY <1>1 DEF CardsInv
<1>3. ASSUME NEW f \in Families PROVE Unmixed(manifest'[f], cards'[f])
  <2>1. Unmixed(manifest[f], cards[f])
    BY UnmixedAll DEF CardsInv
  <2>2. CASE f # family
    BY <1>1, <2>1, <2>2
  <2>3. CASE f = family
    <3>1. \A k \in 1..MaxSwept : k = n \/ cards'[family][k] = cards[family][k]
      BY <1>2
    <3> QED
      BY <1>2, <2>1, <2>3, <3>1 DEF Unmixed
  <2> QED
    BY <2>2, <2>3
<1> QED
  BY <1>1, <1>2, <1>3 DEF NeverMixed, Unmixed

(* The invariant is preserved.                                             *)
LEMMA CardsInvStep ==
    ASSUME CardsInv, [CardsNext]_cardsVars
    PROVE  CardsInv'
<1>1. ASSUME NEW f \in Families, NEW x \in Texts, StartPack(f, x) PROVE CardsInv'
  <2>1. CASE UNCHANGED <<packing, family, text, left>>
    BY <1>1, <2>1 DEF StartPack, CardsInv, NeverMixed, Swept
  <2>2. CASE Len(Chunks(x)) <= MaxChunks /\ packing' = "sweep" /\ family' = f /\ text' = x /\ left' = Stale(f)
    <3>1. Len(DataCards(x)) <= MaxSwept
      BY <2>2, CardsFit
    <3>2. UNCHANGED <<manifest, cards>>
      BY <1>1 DEF StartPack
    <3>3. Swept'
      BY <2>2, <3>2, Geometry DEF Swept, Stale
    <3> QED
      BY <2>2, <3>1, <3>2, <3>3 DEF CardsInv, NeverMixed
  <2> QED
    BY <1>1, <2>1, <2>2 DEF StartPack
<1>2. ASSUME NEW n \in left, RemoveStale(n) PROVE CardsInv'
  <2>1. /\ packing = "sweep" /\ packing' = "sweep" /\ left' = left \ {n} /\ UNCHANGED <<family, text>>
        /\ family \in Families /\ text \in Texts /\ Len(DataCards(text)) <= MaxSwept /\ Swept
    BY <1>2 DEF RemoveStale, CardsInv
  <2>2. CASE n = 0
    <3>1. manifest' = [manifest EXCEPT ![family] = NoCard] /\ UNCHANGED cards
      BY <1>2, <2>2 DEF RemoveStale
    <3>2. NeverMixed' /\ DOMAIN manifest' = Families /\ manifest'[family] = NoCard
      BY <2>1, <3>1, ManifestSet DEF Unmixed
    <3>3. Swept'
      BY <2>1, <2>2, <3>1, <3>2 DEF Swept
    <3> QED
      BY <2>1, <3>1, <3>2, <3>3 DEF CardsInv
  <2>3. CASE n # 0
    <3>1. cards' = [cards EXCEPT ![family][n] = NoCard] /\ UNCHANGED manifest
      BY <1>2, <2>3 DEF RemoveStale
    <3>2. /\ NeverMixed' /\ DOMAIN cards' = Families /\ \A f \in Families : DOMAIN cards'[f] = 1..MaxSwept
          /\ n \in 1..MaxSwept => cards'[family][n] = NoCard
          /\ \A k \in 1..MaxSwept : k # n => cards'[family][k] = cards[family][k]
      BY <2>1, <3>1, CardSet
    <3>3. Swept'
      BY <2>1, <2>3, <3>1, <3>2 DEF Swept
    <3> QED
      BY <2>1, <3>1, <3>2, <3>3 DEF CardsInv
  <2> QED
    BY <2>2, <2>3
<1>3. CASE WriteManifest
  <2>1. /\ packing = "sweep" /\ left = {} /\ packing' = "write" /\ left' = 1..Len(DataCards(text))
        /\ manifest' = [manifest EXCEPT ![family] = Manifest(text)] /\ UNCHANGED <<cards, family, text>>
        /\ family \in Families /\ text \in Texts /\ Len(DataCards(text)) <= MaxSwept /\ Swept
    BY <1>3 DEF WriteManifest, CardsInv
  <2>2. \A n \in 1..MaxSwept : cards[family][n] = NoCard
    BY <2>1 DEF Swept
  <2>3. NeverMixed' /\ DOMAIN manifest' = Families /\ manifest'[family] = Manifest(text)
    BY <2>1, <2>2, ManifestSet DEF Unmixed
  <2> QED
    BY <2>1, <2>3 DEF CardsInv
<1>4. ASSUME packing = "write", NEW n \in left, NEW c, PartOf(c, text, n),
             cards' = [cards EXCEPT ![family][n] = c], UNCHANGED <<manifest, family, text>>,
             packing' \in {"idle", "write"}, left' \subseteq left
      PROVE  CardsInv'
  <2>1. /\ left \subseteq 1..Len(DataCards(text)) /\ manifest[family] = Manifest(text)
        /\ family \in Families /\ text \in Texts /\ Len(DataCards(text)) <= MaxSwept
    BY <1>4 DEF CardsInv
  <2>2. manifest[family].bs = text
    BY <2>1 DEF Manifest
  <2>3. NeverMixed' /\ DOMAIN cards' = Families /\ \A f \in Families : DOMAIN cards'[f] = 1..MaxSwept
    BY <1>4, <2>1, <2>2, CardSet
  <2> QED
    BY <1>4, <2>1, <2>3 DEF CardsInv
<1>5. ASSUME NEW n \in left, WriteCard(n) PROVE CardsInv'
  <2>1. text \in Texts /\ n \in 1..Len(DataCards(text))
    BY <1>5 DEF WriteCard, CardsInv
  <2>2. PartOf(DataCards(text)[n], text, n)
    BY <2>1, WholeIsPart
  <2> QED
    BY <1>4, <1>5, <2>2 DEF WriteCard
<1>6. CASE Finish
  BY <1>6 DEF Finish, CardsInv, NeverMixed
<1>7. CASE Interrupted
  <2>1. packing # "idle" /\ packing' = "idle" /\ left' = {} /\ UNCHANGED <<family, text>>
        /\ family \in Families /\ text \in Texts
    BY <1>7 DEF Interrupted, CardsInv
  <2>2. CASE UNCHANGED <<manifest, cards>>
    BY <2>1, <2>2 DEF CardsInv, NeverMixed
  <2>3. CASE manifest' = [manifest EXCEPT ![family] = TornManifest] /\ UNCHANGED cards
    <3>1. NeverMixed' /\ DOMAIN manifest' = Families
      BY <2>1, <2>3, ManifestSet DEF Unmixed
    <3> QED
      BY <2>1, <2>3, <3>1 DEF CardsInv
  <2>4. ASSUME packing = "write", NEW n \in left, NEW k \in 0..(Len(DataCards(text)[n]) - 1),
               cards' = [cards EXCEPT ![family][n] = SubSeq(DataCards(text)[n], 1, k)], UNCHANGED manifest
        PROVE  CardsInv'
    <3>1. n \in 1..Len(DataCards(text)) /\ Len(DataCards(text)) \in Nat
      BY <2>1, <2>4, Lengths DEF CardsInv
    <3>2. PartOf(SubSeq(DataCards(text)[n], 1, k), text, n)
      <4>1. k \in 0..Len(DataCards(text)[n])
        BY <2>4
      <4> QED
        BY <3>1, <4>1 DEF PartOf
    <3> QED
      BY <1>4, <2>1, <2>4, <3>2
  <2> QED
    BY <1>7, <2>2, <2>3, <2>4 DEF Interrupted
<1>8. CASE UNCHANGED cardsVars
  BY <1>8 DEF cardsVars, CardsInv, NeverMixed, Swept
<1> QED
  BY <1>1, <1>2, <1>3, <1>5, <1>6, <1>7, <1>8 DEF CardsNext

LEMMA CardsStart == CardsInit => CardsInv
BY DEF CardsInit, CardsInv, NeverMixed

(* However packings of long and short texts are interrupted and repeated,  *)
(* beside the manifest of a bundle there are only cards of that bundle.    *)
THEOREM BundlesAreNeverMixed == CardsSpec => []NeverMixed
<1>1. CardsInv => NeverMixed
  BY DEF CardsInv
<1> QED
  BY <1>1, CardsStart, CardsInvStep, PTL DEF CardsSpec

(* A packer only writes cards that the next packer's sweep finds: the      *)
(* limit on the manifest keeps the card numbers in the pattern's range.    *)
THEOREM WrittenIsSwept == CardsSpec => [](packing = "write" => left \subseteq 1..MaxSwept)
<1>1. CardsInv => (packing = "write" => left \subseteq 1..MaxSwept)
  <2> SUFFICES ASSUME CardsInv, packing = "write" PROVE left \subseteq 1..MaxSwept
    OBVIOUS
  <2>1. Len(DataCards(text)) \in Nat /\ Len(DataCards(text)) <= MaxSwept /\ left \subseteq 1..Len(DataCards(text))
    BY Lengths DEF CardsInv
  <2> QED
    BY <2>1, Geometry
<1> QED
  BY <1>1, CardsStart, CardsInvStep, PTL DEF CardsSpec
=============================================================================
