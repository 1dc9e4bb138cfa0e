-------------------------- MODULE ByteRangesProofs --------------------------
(* Arithmetic of bytes and blocks, for every block size. *)
EXTENDS ByteRanges, WellFoundedInduction, TLAPS

\* a nonempty set of numbers has a least element, and Min is it
LEMMA MinOfSet ==
  ASSUME NEW S, S \subseteq Nat, S # {}
  PROVE  Min(S) \in S /\ \A y \in S : Min(S) <= y
<1> DEFINE R == OpToRel(<, Nat)
<1>1. PICK m \in S : \A u \in S : ~(<<u, m>> \in R)
  BY NatLessThanWellFounded, WFMin, Zenon
<1>2. \A u, v \in Nat : u < v => <<u, v>> \in R
  BY DEF OpToRel
<1>3. \A y \in S : m <= y
  <2> HIDE DEF R
  <2>1. TAKE y \in S
  <2>2. y \in Nat /\ m \in Nat
    OBVIOUS
  <2>3. ~(y < m)
    BY <2>2, <1>1, <1>2, Zenon
  <2> QED
    BY <2>2, <2>3
<1> QED
  BY <1>3 DEF Min

\* a byte is between the bounds of its block
LEMMA BlockBounds ==
  ASSUME NEW c \in Nat
  PROVE  /\ Block(c) \in Nat
         /\ Block(c) * BlockSize <= c /\ c < (Block(c) + 1) * BlockSize
BY BlockSizeAssumption, SMTT(30) DEF Block

\* and between the bounds of no other block
LEMMA BlockUnique ==
  ASSUME NEW c \in Nat, NEW b \in Nat, b * BlockSize <= c, c < (b + 1) * BlockSize
  PROVE  Block(c) = b
<1> DEFINE q == Block(c)
<1>1. q \in Nat /\ q * BlockSize <= c /\ c < (q + 1) * BlockSize
  BY BlockBounds
<1> HIDE DEF q
<1>2. ASSUME NEW x \in Nat, NEW y \in Nat, x < y
      PROVE  (x + 1) * BlockSize <= y * BlockSize
  <2>1. PICK d \in Nat : y = x + 1 + d
    <3>1. y - x - 1 \in Nat /\ y = x + 1 + (y - x - 1)
      BY <1>2
    <3> QED
      BY <3>1
  <2>2. y * BlockSize = (x + 1) * BlockSize + d * BlockSize
    BY <2>1, BlockSizeAssumption, SMTT(30)
  <2>3. d * BlockSize >= 0
    BY BlockSizeAssumption, SMTT(30)
  <2>4. (x + 1) * BlockSize \in Int /\ d * BlockSize \in Int
    BY BlockSizeAssumption
  <2> QED
    BY <2>2, <2>3, <2>4
<1>3. ~(q < b)
  <2>1. SUFFICES ASSUME q < b PROVE FALSE
    OBVIOUS
  <2>2. (q + 1) * BlockSize <= b * BlockSize
    BY <1>1, <1>2, <2>1
  <2>3. (q + 1) * BlockSize \in Int /\ b * BlockSize \in Int
    BY <1>1, BlockSizeAssumption
  <2> QED
    BY <1>1, <2>2, <2>3
<1>4. ~(b < q)
  <2>1. SUFFICES ASSUME b < q PROVE FALSE
    OBVIOUS
  <2>2. (b + 1) * BlockSize <= q * BlockSize
    BY <1>1, <1>2, <2>1
  <2>3. (b + 1) * BlockSize \in Int /\ q * BlockSize \in Int
    BY <1>1, BlockSizeAssumption
  <2> QED
    BY <1>1, <2>2, <2>3
<1>5. q = b
  BY <1>1, <1>3, <1>4
<1> QED
  BY <1>5 DEF q

LEMMA BlockBytesIff ==
  ASSUME NEW c \in Nat, NEW b \in Nat
  PROVE  c \in BlockBytes(b) <=> Block(c) = b
<1>1. b * BlockSize \in Int /\ (b + 1) * BlockSize \in Int
  BY BlockSizeAssumption
<1>2. c \in BlockBytes(b) <=> b * BlockSize <= c /\ c < (b + 1) * BlockSize
  BY <1>1 DEF BlockBytes
<1> QED
  BY <1>2, BlockBounds, BlockUnique

LEMMA SizeType == Size \in Nat \ {0}
BY BlockSizeAssumption, VolumeSizeAssumption, SMTT(30) DEF Size

\* the part of a range that starts at byte o lies in the range and in one block
LEMMA PartOK ==
  ASSUME NEW r, r.offset \in Nat, End(r) \in Nat, NEW o \in Span(r)
  PROVE  /\ PartEnd(r, o) \in Nat /\ o < PartEnd(r, o) /\ PartEnd(r, o) <= End(r)
         /\ Block(o) \in Nat
         /\ \A c \in Part(r, o) : c \in Span(r) /\ Block(c) = Block(o)
<1> DEFINE n == (Block(o) + 1) * BlockSize
           e == End(r)
<1>1. o \in Nat /\ r.offset <= o /\ o < e /\ e \in Nat
  BY DEF Span
<1>2. Block(o) \in Nat /\ Block(o) * BlockSize <= o /\ o < n
  BY <1>1, BlockBounds
<1>3. n \in Nat
  BY <1>2, BlockSizeAssumption, SMTT(30)
<1> HIDE DEF n, e
<1>4. PartEnd(r, o) \in {e, n} /\ PartEnd(r, o) <= e /\ PartEnd(r, o) <= n
  <2>1. Min({e, n}) \in {e, n} /\ Min({e, n}) <= e /\ Min({e, n}) <= n
    BY <1>1, <1>3, MinOfSet, {e, n} \subseteq Nat
  <2> QED
    BY <2>1 DEF PartEnd, n, e
<1>5. PartEnd(r, o) \in Nat /\ o < PartEnd(r, o) /\ PartEnd(r, o) <= e
  BY <1>1, <1>2, <1>3, <1>4
<1>6. ASSUME NEW c \in Part(r, o)
      PROVE  c \in Span(r) /\ Block(c) = Block(o)
  <2>1. c \in Nat /\ o <= c /\ c < PartEnd(r, o)
    BY <1>1, <1>5, <1>6 DEF Part
  <2>2. c \in Span(r)
    BY <1>1, <1>5, <2>1 DEF Span, e
  <2>3. Block(o) * BlockSize \in Int
    BY <1>2, BlockSizeAssumption
  <2>4. Block(o) * BlockSize <= c /\ c < n
    BY <1>1, <1>2, <1>3, <1>4, <2>1, <2>3
  <2> QED
    BY <1>2, <2>1, <2>2, <2>4, BlockUnique DEF n
<1> QED
  BY <1>2, <1>5, <1>6 DEF e
=============================================================================
