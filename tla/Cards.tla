-------------------------------- MODULE Cards --------------------------------
(***************************************************************************)
(* The notecards of tools/pack_pkg.py and tools/pack_rom.py: a bundle's    *)
(* base64 text is cut into lines, the lines into cards, and the cards are  *)
(* written over those of an earlier packing, with a manifest that lets a   *)
(* reader fetch the text chunk by chunk.                                   *)
(*                                                                         *)
(* Both packers write in the same way, each to its own family of names     *)
(* (rom-NNN.txt, pkg-<name>-NNN.txt) in one directory.  A text is a        *)
(* sequence of characters; sha256 is taken to be injective, so a hash is   *)
(* what it is of.  Each file system effect is a step, so that a packer can *)
(* be interrupted between any two and within a write.                      *)
(***************************************************************************)
EXTENDS Naturals, SequencesExt

CONSTANTS
    Families,         \* "rom", and a family per package
    Texts,            \* the base64 texts of the bundles
    LINE_CHARS, LINES_PER_CHUNK, CHUNKS_PER_CARD,
    MaxChunks,        \* the chunks whose hashes a manifest card has room for
    MaxSwept,         \* the largest number that [0-9][0-9][0-9] matches
    NoCard,           \* no such file
    TornManifest,     \* a manifest card that was only partly written
    MaxPacks          \* bound on the packings of a behaviour

Ceil(n, w) == (n + w - 1) \div w

ASSUME GeometryAssumption ==
    /\ {LINE_CHARS, LINES_PER_CHUNK, CHUNKS_PER_CARD} \subseteq Nat \ {0}
    /\ MaxChunks \in Nat /\ MaxSwept \in Nat /\ MaxPacks \in Nat
    /\ Ceil(MaxChunks, CHUNKS_PER_CARD) <= MaxSwept
    /\ \A x \in Texts : Len(x) \in Nat

VARIABLES
    manifest,     \* per family, card 000
    cards,        \* per family and number, a data card: its lines
    packing,      \* where the packer is; "idle" when none runs
    family, text, \* what it packs, or packed last
    left,         \* the numbers it has still to remove, or to write
    packs         \* counter for the bound

cardsVars == <<manifest, cards, packing, family, text, left, packs>>

-----------------------------------------------------------------------------
wrap(s, width) ==
    [i \in 1..Ceil(Len(s), width) |->
        SubSeq(s, (i - 1) * width + 1, IF i * width < Len(s) THEN i * width ELSE Len(s))]

lines_per_card == LINES_PER_CHUNK * CHUNKS_PER_CARD

Lines(x) == wrap(x, LINE_CHARS)
Chunks(x) == wrap(x, LINE_CHARS * LINES_PER_CHUNK)

(* Mutant: a card holds a line more than its chunks. *)
DataCardsLong(x) == wrap(Lines(x), lines_per_card + 1)

DataCards(x) == wrap(Lines(x), lines_per_card)

Manifest(x) == [nl |-> Len(Lines(x)), nk |-> Len(Chunks(x)), nc |-> Len(DataCards(x)),
                bs |-> x, ks |-> Chunks(x)]

(* Where the reader looks for chunk i (from 0): a card and its first line. *)
CardOf(i) == 1 + i \div CHUNKS_PER_CARD
FirstLineOf(i) == (i % CHUNKS_PER_CARD) * LINES_PER_CHUNK

(* verify: re-read the cards as the reader does, by number of cards and    *)
(* then chunk by chunk.                                                    *)
Verify(f, m) ==
    /\ manifest[f] = m
    /\ \A n \in 1..m.nc : cards[f][n] # NoCard
    /\ LET lines == FlattenSeq([n \in 1..m.nc |-> cards[f][n]])
           b64 == FlattenSeq(lines)
           chunks == wrap(b64, LINE_CHARS * LINES_PER_CHUNK)
       IN  /\ Len(lines) = m.nl
           /\ \A i \in DOMAIN lines : Len(lines[i]) <= LINE_CHARS
           /\ Len(chunks) = m.nk
           /\ \A i \in 0..(Len(chunks) - 1) :
                 LET card == cards[f][CardOf(i)]
                     last == FirstLineOf(i) + LINES_PER_CHUNK
                 IN  /\ chunks[i + 1] = m.ks[i + 1]
                     /\ FlattenSeq(SubSeq(card, FirstLineOf(i) + 1, IF last < Len(card) THEN last ELSE Len(card)))
                            = chunks[i + 1]
           /\ b64 = m.bs

-----------------------------------------------------------------------------
CardsInit ==
    /\ manifest = [f \in Families |-> NoCard]
    /\ cards = [f \in Families |-> [n \in 1..MaxSwept |-> NoCard]]
    /\ packing = "idle" /\ left = {} /\ packs = 0
    /\ family = NoCard /\ text = NoCard

(* Mutant: the pattern misses the last number. *)
StaleShort(f) ==
    {n \in 1..(MaxSwept - 1) : cards[f][n] # NoCard} \cup {n \in {0} : manifest[f] # NoCard}

(* The numbers of the family's cards that the glob finds; 0 is the         *)
(* manifest.                                                               *)
Stale(f) ==
    {n \in 1..MaxSwept : cards[f][n] # NoCard} \cup {n \in {0} : manifest[f] # NoCard}

(* pack, up to the removal of the stale cards.  A text whose manifest has  *)
(* no room is refused with the cards untouched.                            *)
StartPack(f, x) ==
    /\ packing = "idle" /\ packs < MaxPacks
    /\ packs' = packs + 1
    /\ \/ /\ Len(Chunks(x)) > MaxChunks
          /\ UNCHANGED <<packing, family, text, left>>
       \/ /\ Len(Chunks(x)) <= MaxChunks
          /\ packing' = "sweep" /\ family' = f /\ text' = x /\ left' = Stale(f)
    /\ UNCHANGED <<manifest, cards>>

RemoveStale(n) ==
    /\ packing = "sweep" /\ n \in left
    /\ left' = left \ {n}
    /\ IF n = 0 THEN manifest' = [manifest EXCEPT ![family] = NoCard] /\ UNCHANGED cards
       ELSE cards' = [cards EXCEPT ![family][n] = NoCard] /\ UNCHANGED manifest
    /\ UNCHANGED <<packing, family, text, packs>>

WriteManifest ==
    /\ packing = "sweep" /\ left = {}
    /\ manifest' = [manifest EXCEPT ![family] = Manifest(text)]
    /\ packing' = "write" /\ left' = 1..Len(DataCards(text))
    /\ UNCHANGED <<cards, family, text, packs>>

(* The cards are written in order, so the next one is the least.           *)
WriteCard(n) ==
    /\ packing = "write" /\ n \in left /\ \A k \in left : n <= k
    /\ cards' = [cards EXCEPT ![family][n] = DataCards(text)[n]]
    /\ left' = left \ {n}
    /\ UNCHANGED <<manifest, packing, family, text, packs>>

(* verify follows pack; what it finds is VerifyPasses.                     *)
Finish ==
    /\ packing = "write" /\ left = {}
    /\ packing' = "idle"
    /\ UNCHANGED <<manifest, cards, family, text, left, packs>>

(* The packer is interrupted: between two effects, or in the middle of     *)
(* writing a file, of which a first part remains.                          *)
Interrupted ==
    /\ packing # "idle"
    /\ packing' = "idle" /\ left' = {}
    /\ \/ UNCHANGED <<manifest, cards>>
       \/ /\ packing = "sweep" /\ left = {}
          /\ manifest' = [manifest EXCEPT ![family] = TornManifest] /\ UNCHANGED cards
       \/ /\ packing = "write"
          /\ \E n \in left : \E k \in 0..(Len(DataCards(text)[n]) - 1) :
                /\ \A j \in left : n <= j
                /\ cards' = [cards EXCEPT ![family][n] = SubSeq(DataCards(text)[n], 1, k)]
          /\ UNCHANGED manifest
    /\ UNCHANGED <<family, text, packs>>

CardsNext ==
    \/ \E f \in Families, x \in Texts : StartPack(f, x)
    \/ \E n \in left : RemoveStale(n) \/ WriteCard(n)
    \/ WriteManifest \/ Finish \/ Interrupted

CardsSpec == CardsInit /\ [][CardsNext]_cardsVars

-----------------------------------------------------------------------------
(* Whatever the directory held, a packing that was not interrupted passes  *)
(* verify: the text comes back from the cards, and each chunk from the     *)
(* card and line that the reader's two divisions give (pack_rom.py:14).    *)
VerifyPasses == (packing = "write" /\ left = {}) => Verify(family, Manifest(text))

(* A card is the n-th of the text's, or a first part of it.                *)
PartOf(card, x, n) == n <= Len(DataCards(x)) /\ \E k \in 0..Len(DataCards(x)[n]) : card = SubSeq(DataCards(x)[n], 1, k)

(* No mixture of bundles is ever on disk under a manifest: beside the      *)
(* manifest of a bundle there are only cards of that bundle, also after    *)
(* packings interrupted at any point and packings of fewer cards, since    *)
(* the stale cards go before the new manifest comes (pack_pkg.py:93-100,   *)
(* pack_rom.py:196-202).                                                   *)
NeverMixed ==
    \A f \in Families : manifest[f] \notin {NoCard, TornManifest} =>
        \A n \in 1..MaxSwept : cards[f][n] # NoCard => PartOf(cards[f][n], manifest[f].bs, n)
==============================================================================
