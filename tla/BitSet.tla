-------------------------------- MODULE BitSet --------------------------------
(***************************************************************************)
(* The bit set the handshake carries the features in (internal/bitset):    *)
(* the client's, in which features are set and cleared one by one, and     *)
(* which the mask of a node replaces.  A word and a byte are the sets of   *)
(* their one bits.                                                         *)
(***************************************************************************)
EXTENDS Integers, Sequences, FiniteSetsExt

CONSTANTS FeatureIds, \* the features there are
          MaxExcess   \* how many empty bytes a mask may have behind its last one bit

WordBits == 64
ByteBits == 8

(* ServiceTopologyFeature, the last one, is 16: all are in the first word. *)
ASSUME FeaturesAssumption == FeatureIds \subseteq 0 .. WordBits - 1 /\ MaxExcess \in Nat

VARIABLES bits,    \* ProtocolContext.features
          features \* the features it stands for

bitVars == <<bits, features>>

(* A BitSet is [words, wordsInUse].                                        *)
New == [words |-> <<{}>>, wordsInUse |-> 0]

WordIndex(idx) == idx \div WordBits

(* The bit of a word an index stands for.  Go shifts by 64 or more bits to *)
(* zero; in the first word idx is below 64, and the modulus keeps it so in *)
(* every word a feature can reach.                                         *)
BitIndex(idx) == IF WordIndex(idx) > 0 THEN idx % WordIndex(idx) ELSE idx

(* bs.words[w], when the slice is that long. *)
Word(bs, w) == bs.words[w + 1]

Test(bs, idx) == /\ WordIndex(idx) < bs.wordsInUse
                 /\ BitIndex(idx) \in Word(bs, WordIndex(idx))

ExpandTo(bs, w) ==
    [words      |-> IF Len(bs.words) > w THEN bs.words
                    ELSE bs.words \o [i \in 1..(Max({w + 1, 2 * Len(bs.words)}) - Len(bs.words)) |-> {}],
     wordsInUse |-> Max({bs.wordsInUse, w + 1})]

RecalculateWordsInUse(bs) ==
    [bs EXCEPT !.wordsInUse = Max({0} \cup {w \in 1..bs.wordsInUse : bs.words[w] # {}})]

Set(bs, idx) ==
    LET w == WordIndex(idx)
    IN  [ExpandTo(bs, w) EXCEPT !.words[w + 1] = @ \cup {BitIndex(idx)}]

Clear(bs, idx) ==
    LET w == WordIndex(idx)
    IN  IF w >= bs.wordsInUse THEN bs
        ELSE RecalculateWordsInUse([bs EXCEPT !.words[w + 1] = @ \ {BitIndex(idx)}])

Equals(bs, other) ==
    /\ bs.wordsInUse = other.wordsInUse
    /\ \A w \in 1..bs.wordsInUse : bs.words[w] = other.words[w]

OctetOf(word, k) == {b \in 0..ByteBits - 1 : ByteBits * k + b \in word}

Bytes(bs) == [i \in 1..ByteBits * bs.wordsInUse |->
                 OctetOf(bs.words[(i - 1) \div 8 + 1], (i - 1) % 8)]

(* Mutant: only whole words are read, a shorter tail is dropped.           *)
WholeWordsOnly(data) ==
    RecalculateWordsInUse(
        [words |-> [w \in 1..Len(data) \div 8 |->
                       {i \in 0..WordBits - 1 : i % 8 \in data[8 * (w - 1) + i \div 8 + 1]}],
         wordsInUse |-> Len(data) \div 8])

(* FromBytes pads what it is given to whole words.                         *)
FromBytes(data) ==
    LET padded == data \o [i \in 1..(0 - Len(data)) % 8 |-> {}]
    IN  IF data = <<>> THEN New
        ELSE RecalculateWordsInUse(
                [words |-> [w \in 1..Len(padded) \div 8 |->
                               {i \in 0..WordBits - 1 : i % 8 \in padded[8 * (w - 1) + i \div 8 + 1]}],
                 wordsInUse |-> Len(padded) \div 8])

(* What the client takes for set. *)
Members(bs, ids) == {i \in ids : Test(bs, i)}

-----------------------------------------------------------------------------
(* The node: a mask is as long as its last one bit needs.                  *)
NodeMask(S)     == [k \in 1..Max({-1} \cup S) \div ByteBits + 1 |-> OctetOf(S, k - 1)]
NodeReads(data) == UNION {{ByteBits * (k - 1) + b : b \in data[k]} : k \in DOMAIN data}

-----------------------------------------------------------------------------
BitSetInit == bits = New /\ features = {}

SetFeature == \E i \in FeatureIds :
    bits' = Set(bits, i) /\ features' = features \cup {i}

ClearFeature == \E i \in FeatureIds :
    bits' = Clear(bits, i) /\ features' = features \ {i}

(* updateAttributeFeatures, with the mask of a node that has the features S. *)
MaskReceived == \E S \in SUBSET FeatureIds, excess \in 0..MaxExcess :
    /\ bits' = FromBytes(NodeMask(S) \o [i \in 1..excess |-> {}])
    /\ features' = S

BitSetNext == SetFeature \/ ClearFeature \/ MaskReceived

BitSetSpec == BitSetInit /\ [][BitSetNext]_bitVars

(* The features are what the client tests and what a node reads of the     *)
(* mask it is sent, whatever was set, cleared and received before; and bit *)
(* sets of the same features are equal, whether they were built, read from *)
(* the mask of a node, however long, or from the client's own.             *)
FeaturesKept ==
    /\ Members(bits, 0..WordBits - 1) = features
    /\ NodeReads(Bytes(bits)) = features
    /\ Equals(FromBytes(NodeMask(features)), bits)
    /\ Equals(FromBytes(Bytes(bits)), bits)
=============================================================================
