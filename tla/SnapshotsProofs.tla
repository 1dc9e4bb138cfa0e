-------------------------- MODULE SnapshotsProofs --------------------------
(* Theorems about Snapshots, for every size of blocks and of the volume, any *)
(* number of snapshots and of writers, and any copies that fail.             *)
EXTENDS Snapshots, ByteRangesProofs, FiniteSetTheorems

(***************************************************************************)
(* The inductive invariant.                                                *)
(***************************************************************************)

\* a snapshot shares its descriptor number with no earlier one that is open:
\* what an earlier one writes may end up in it, but not the other way round
OwnDescriptor ==
  \A u, s \in 1 .. made : u < s /\ IsOpen(u) => fd[u] # fd[s]

\* nothing is known yet of a snapshot that was not made
Fresh ==
  \A s \in Ids : s > made =>
    /\ life[s] = "none" /\ bitmap[s] = {} /\ lost[s] = {}
    /\ \A c \in Bytes : file[s][c] = Zero

\* at most one thread copies a block for a snapshot: it has the mutex
Alone ==
  /\ \A s \in Ids : life[s] = "writing" => working[s] \in Blocks
  /\ \A s \in Ids : \A w \in Writers :
       life[s] = "writing" /\ pc[w] = "writing" => at[w] # s
  /\ \A v, w \in Writers :
       pc[v] = "writing" /\ pc[w] = "writing" /\ at[v] = at[w] => v = w

\* a block that is copied is marked
Marked == \A s \in Ids : UnderWay(s) \subseteq bitmap[s]

\* a block that s has still to copy is as it was for s and every later snapshot
Sources ==
  \A s, u \in 1 .. made : \A c \in Bytes :
    s <= u /\ Block(c) \notin bitmap[s] => store[c] \in image[u][c]

\* what was read for s is as it was for s, and for every later snapshot that was
\* there already when it was read and that now has the number of s
Buffered ==
  \A s, u \in 1 .. made : \A c \in Bytes :
    s <= u /\ fd[u] = fd[s] /\ Block(c) \in UnderWay(s) \ stray[u] =>
      buffer[s][c] \in image[u][c]

\* no file has a byte that its snapshot may not have
Files ==
  \A s \in 1 .. made : \A c \in Bytes :
    Block(c) \in stray[s] \/ file[s][c] = Zero \/ file[s][c] \in image[s][c]

\* the offsets at which trigger_range looks
Offsets(r) == {p \in Span(r) : (p - r.offset) % BlockSize = 0}

\* what a writer has done so far
ToldOf(w) ==
  pc[w] # "idle" =>
    /\ req[w] \in Requests
    /\ pos[w] \in Offsets(req[w])
    /\ pc[w] = "writing" => at[w] <= end[w]
    /\ ok[w] =>
         /\ \A s \in 1 .. at[w] - 1 : Locked(req[w]) \subseteq Settled(s)
         /\ at[w] <= end[w] =>
              \A p \in Offsets(req[w]) : p < pos[w] => Block(p) \in Settled(at[w])

Told == \A w \in Writers : ToldOf(w)

\* how far the copying thread of s has come
ProgressOf(s) ==
  /\ \A b \in Blocks : b < working[s] => b \in Settled(s)
  /\ life[s] = "closing" => lost[s] # {}
  /\ life[s] = "finished" /\ lost[s] = {} /\ s \notin stopped => Copied(s) = Blocks

Progress == \A s \in Ids : ProgressOf(s)

\* the parts about what is in the files, and about who copies
Content == Sources /\ Buffered /\ Files /\ PictureOfItsMoment
Threads == Alone /\ Marked

SInv == TypeOK /\ OwnDescriptor /\ Fresh /\ Threads /\ Content /\ Told /\ Progress

(***************************************************************************)
(* Arithmetic of the loop over the blocks of a range.                      *)
(***************************************************************************)

LEMMA SnapshotRequest ==
  ASSUME NEW r \in Requests
  PROVE  /\ r.offset \in Nat /\ r.offset \in Span(r) /\ r.offset \in Offsets(r)
         /\ End(r) \in Nat /\ Span(r) \subseteq Bytes /\ r.data \in Values
<1>1. r \in AllRequests
  BY SnapshotsRequestsAssumption
<1>2. /\ r.offset \in Bytes /\ r.size \in 1 .. Size /\ r.data \in Values
      /\ r.offset + r.size <= Size
  BY <1>1 DEF AllRequests
<1>3. r.offset \in Nat /\ r.offset \in Span(r) /\ End(r) \in Nat /\ Span(r) \subseteq Bytes
  BY <1>2, SizeType DEF End, Span, Bytes
<1>4. (r.offset - r.offset) % BlockSize = 0
  BY <1>3, BlockSizeAssumption
<1> QED
  BY <1>2, <1>3, <1>4 DEF Offsets

LEMMA BlockOfByte ==
  ASSUME NEW c \in Bytes
  PROVE  Block(c) \in Blocks
<1>1. c \in Nat /\ c < NumBlocks * BlockSize
  BY SizeType DEF Bytes, Size
<1> DEFINE q == Block(c)
<1>2. q \in Nat /\ q * BlockSize <= c
  BY <1>1, BlockBounds
<1> HIDE DEF q
<1>3. q < NumBlocks
  <2>1. SUFFICES ASSUME q >= NumBlocks PROVE FALSE
    BY <1>2, VolumeSizeAssumption
  <2>2. PICK d \in Nat : q = NumBlocks + d
    <3>1. q - NumBlocks \in Nat /\ q = NumBlocks + (q - NumBlocks)
      BY <1>2, <2>1, VolumeSizeAssumption
    <3> QED
      BY <3>1
  <2>3. q * BlockSize = NumBlocks * BlockSize + d * BlockSize
    BY <2>2, BlockSizeAssumption, VolumeSizeAssumption, SMTT(30)
  <2>4. d * BlockSize >= 0
    BY BlockSizeAssumption, SMTT(30)
  <2>5. NumBlocks * BlockSize \in Int /\ d * BlockSize \in Int
    BY BlockSizeAssumption, VolumeSizeAssumption
  <2> QED
    BY <1>1, <1>2, <2>3, <2>4, <2>5
<1> QED
  BY <1>2, <1>3, VolumeSizeAssumption DEF Blocks, q

\* multiples of the block size are a block size apart
LEMMA NextMultiple ==
  ASSUME NEW x \in Nat, NEW y \in Nat, x % BlockSize = 0, y % BlockSize = 0, x < y
  PROVE  x + BlockSize <= y
<1>1. PICK i \in Nat : x = i * BlockSize
  <2>1. x \div BlockSize \in Nat /\ x = (x \div BlockSize) * BlockSize
    BY BlockSizeAssumption, SMTT(30)
  <2> QED
    BY <2>1
<1>2. PICK j \in Nat : y = j * BlockSize
  <2>1. y \div BlockSize \in Nat /\ y = (y \div BlockSize) * BlockSize
    BY BlockSizeAssumption, SMTT(30)
  <2> QED
    BY <2>1
<1>3. i < j
  <2>1. SUFFICES ASSUME j <= i PROVE FALSE
    OBVIOUS
  <2>2. PICK d \in Nat : i = j + d
    <3>1. i - j \in Nat /\ i = j + (i - j)
      BY <2>1
    <3> QED
      BY <3>1
  <2>3. i * BlockSize = j * BlockSize + d * BlockSize
    BY <2>2, BlockSizeAssumption, SMTT(30)
  <2>4. d * BlockSize \in Int /\ d * BlockSize >= 0
    BY BlockSizeAssumption, SMTT(30)
  <2> QED
    BY <1>1, <1>2, <2>3, <2>4
<1>4. PICK e \in Nat : j = i + 1 + e
  <2>1. j - i - 1 \in Nat /\ j = i + 1 + (j - i - 1)
    BY <1>3
  <2> QED
    BY <2>1
<1>5. j * BlockSize = i * BlockSize + BlockSize + e * BlockSize
  BY <1>4, BlockSizeAssumption, SMTT(30)
<1>6. e * BlockSize \in Int /\ e * BlockSize >= 0
  BY BlockSizeAssumption, SMTT(30)
<1> QED
  BY <1>1, <1>2, <1>5, <1>6, BlockSizeAssumption

\* the loop of trigger_range leaves no offset out
LEMMA StepOfRange ==
  ASSUME NEW r \in Requests, NEW p \in Offsets(r)
  PROVE  /\ \A o \in Offsets(r) : o < p + BlockSize => o <= p
         /\ p + BlockSize < End(r) => p + BlockSize \in Offsets(r)
<1>1. r.offset \in Nat /\ End(r) \in Nat
  BY SnapshotRequest
<1>2. \A o \in Offsets(r) : o \in Nat /\ o - r.offset \in Nat /\ (o - r.offset) % BlockSize = 0
                            /\ o < End(r)
  BY <1>1 DEF Offsets, Span
<1>3. ASSUME NEW o \in Offsets(r), o < p + BlockSize
      PROVE  o <= p
  <2>1. SUFFICES ASSUME p < o PROVE FALSE
    BY <1>2
  <2>2. (p - r.offset) + BlockSize <= o - r.offset
    <3>1. p - r.offset < o - r.offset
      BY <1>1, <1>2, <2>1
    <3> QED
      BY <1>2, <3>1, NextMultiple
  <2> QED
    BY <1>1, <1>2, <1>3, <2>2, BlockSizeAssumption
<1>4. ASSUME p + BlockSize < End(r)
      PROVE  p + BlockSize \in Offsets(r)
  <2> DEFINE x == p - r.offset
  <2>1. x \in Nat /\ x % BlockSize = 0
    BY <1>2
  <2> HIDE DEF x
  <2>2. (x + BlockSize) % BlockSize = 0
    BY <2>1, BlockSizeAssumption, SMTT(30)
  <2>3. (p + BlockSize) - r.offset = x + BlockSize
    BY <1>1, <1>2, BlockSizeAssumption DEF x
  <2>4. p + BlockSize \in Span(r)
    BY <1>1, <1>2, <1>4, <2>1, BlockSizeAssumption DEF Span, x
  <2> QED
    BY <2>2, <2>3, <2>4 DEF Offsets
<1> QED
  BY <1>3, <1>4

LEMMA LockedIsOffsets ==
  ASSUME NEW r
  PROVE  Locked(r) = {Block(o) : o \in Offsets(r)}
BY DEF Locked, Offsets

(***************************************************************************)
(* The effect of the operators of the model.                               *)
(***************************************************************************)

LEMMA BlocksAreNat == Blocks \subseteq Nat /\ Ids \subseteq Nat /\ Bytes \subseteq Nat
BY VolumeSizeAssumption, MaxSnapshotsAssumption, SizeType DEF Blocks, Ids, Bytes

LEMMA ReachedType ==
  ASSUME NEW n
  PROVE  Reached(n) \subseteq 1 .. made
BY DEF Reached

\* the block of a writer that is at an offset of its request
LEMMA BlockOfPos ==
  ASSUME TypeOK, NEW w \in Writers
  PROVE  Block(pos[w]) \in Blocks
<1>1. pos[w] \in Bytes
  BY DEF TypeOK
<1> QED
  BY <1>1, BlockOfByte

\* the same blocks are under way when nobody starts or ends a copy
LEMMA UnderWaySame ==
  ASSUME Alone,
         \A s \in Ids : (life'[s] = "writing") = (life[s] = "writing"),
         \A s \in Ids : life[s] = "writing" => working'[s] = working[s],
         \A w \in Writers : (pc'[w] = "writing") = (pc[w] = "writing"),
         \A w \in Writers : pc[w] = "writing" => at'[w] = at[w] /\ pos'[w] = pos[w]
  PROVE  Alone' /\ \A s \in Ids : UnderWay(s)' = UnderWay(s)
<1>1. Alone'
  BY DEF Alone, Blocks
<1>2. ASSUME NEW s \in Ids PROVE UnderWay(s)' = UnderWay(s)
  <2>1. \A b \in Blocks :
          (life'[s] = "writing" /\ b = working'[s]) <=> (life[s] = "writing" /\ b = working[s])
    OBVIOUS
  <2>2. \A b \in Blocks :
          (\E w \in Writers : pc'[w] = "writing" /\ at'[w] = s /\ b = Block(pos'[w]))
          <=> (\E w \in Writers : pc[w] = "writing" /\ at[w] = s /\ b = Block(pos[w]))
    OBVIOUS
  <2>3. UnderWay(s)' = {b \in Blocks :
          \/ life'[s] = "writing" /\ b = working'[s]
          \/ \E w \in Writers : pc'[w] = "writing" /\ at'[w] = s /\ b = Block(pos'[w])}
    BY DEF UnderWay, Blocks, Block
  <2> QED
    BY <2>1, <2>2, <2>3 DEF UnderWay
<1> QED
  BY <1>1, <1>2

\* a snapshot of which no block is under way has no thread that copies
LEMMA NobodyCopies ==
  ASSUME TypeOK, Alone, NEW s \in Ids, MutexFree(s)
  PROVE  life[s] # "writing" /\ \A w \in Writers : pc[w] = "writing" => at[w] # s
<1>1. UnderWay(s) = {}
  BY DEF MutexFree
<1>2. life[s] # "writing"
  BY <1>1 DEF UnderWay, Alone
<1>3. ASSUME NEW w \in Writers, pc[w] = "writing", at[w] = s PROVE FALSE
  <2>1. Block(pos[w]) \in UnderWay(s)
    BY <1>3, BlockOfPos DEF UnderWay
  <2> QED
    BY <1>1, <2>1
<1> QED
  BY <1>2, <1>3

\* a thread that copies has the only block that is under way
LEMMA CopierCopies ==
  ASSUME TypeOK, Alone, NEW s \in Ids, life[s] = "writing"
  PROVE  UnderWay(s) = {working[s]}
BY DEF Alone, UnderWay

LEMMA WriterCopies ==
  ASSUME TypeOK, Alone, NEW w \in Writers, pc[w] = "writing", at[w] \in Ids
  PROVE  UnderWay(at[w]) = {Block(pos[w])}
<1>1. Block(pos[w]) \in Blocks
  BY BlockOfPos
<1>2. life[at[w]] # "writing"
  BY DEF Alone
<1>3. \A v \in Writers : pc[v] = "writing" /\ at[v] = at[w] => v = w
  BY DEF Alone
<1> QED
  BY <1>1, <1>2, <1>3 DEF UnderWay

\* the copying thread of s starts or ends a copy
LEMMA UnderWayCopier ==
  ASSUME TypeOK, Alone, NEW s \in Ids, NEW b \in Blocks,
         UNCHANGED <<pc, at, pos>>,
         \A u \in Ids : u # s => life'[u] = life[u] /\ working'[u] = working[u],
         MutexFree(s) \/ life[s] = "writing",
         life'[s] = "writing" => working'[s] = b
  PROVE  /\ Alone'
         /\ \A u \in Ids : u # s => UnderWay(u)' = UnderWay(u)
         /\ UnderWay(s)' = IF life'[s] = "writing" THEN {b} ELSE {}
<1>1. \A w \in Writers : pc[w] = "writing" => at[w] # s
  BY NobodyCopies DEF Alone
<1>2. Alone'
  BY <1>1 DEF Alone, Blocks
<1>3. ASSUME NEW u \in Ids, u # s PROVE UnderWay(u)' = UnderWay(u)
  BY <1>3 DEF UnderWay, Blocks, Block
<1>4. UnderWay(s)' = {d \in Blocks : life'[s] = "writing" /\ d = working'[s]}
  BY <1>1 DEF UnderWay, Blocks, Block
<1> QED
  BY <1>2, <1>3, <1>4

\* a writer starts or ends a copy
LEMMA UnderWayWriter ==
  ASSUME TypeOK, Alone, NEW w \in Writers, NEW s \in Ids, at[w] = s,
         UNCHANGED <<life, working>>,
         \A v \in Writers : v # w => pc'[v] = pc[v] /\ at'[v] = at[v] /\ pos'[v] = pos[v],
         MutexFree(s) \/ pc[w] = "writing",
         pc'[w] = "writing" => at'[w] = at[w] /\ pos'[w] = pos[w]
  PROVE  /\ Alone'
         /\ \A u \in Ids : u # s => UnderWay(u)' = UnderWay(u)
         /\ UnderWay(s)' = IF pc'[w] = "writing" THEN {Block(pos[w])} ELSE {}
<1>1. /\ life[s] # "writing"
      /\ \A v \in Writers : v # w /\ pc[v] = "writing" => at[v] # s
  BY NobodyCopies DEF Alone
<1>2. pc[w] = "writing" => \A v \in Writers : v # w /\ pc[v] = "writing" => at[v] # s
  BY DEF Alone
<1>3. Alone'
  <2>1. \A u \in Ids : life'[u] = "writing" => working'[u] \in Blocks
    BY DEF Alone
  <2>2. ASSUME NEW u \in Ids, NEW v \in Writers, life'[u] = "writing", pc'[v] = "writing"
        PROVE  at'[v] # u
    BY <1>1, <2>2 DEF Alone
  <2>3. ASSUME NEW v \in Writers, NEW x \in Writers, pc'[v] = "writing", pc'[x] = "writing",
               at'[v] = at'[x]
        PROVE  v = x
    BY <1>1, <2>3 DEF Alone
  <2> QED
    BY <2>1, <2>2, <2>3 DEF Alone, Blocks
<1>4. ASSUME NEW u \in Ids, u # s PROVE UnderWay(u)' = UnderWay(u)
  <2>1. \A b \in Blocks :
          (\E v \in Writers : pc'[v] = "writing" /\ at'[v] = u /\ b = Block(pos'[v]))
          <=> (\E v \in Writers : pc[v] = "writing" /\ at[v] = u /\ b = Block(pos[v]))
    BY <1>4
  <2>2. UnderWay(u)' = {b \in Blocks :
          \/ life'[u] = "writing" /\ b = working'[u]
          \/ \E v \in Writers : pc'[v] = "writing" /\ at'[v] = u /\ b = Block(pos'[v])}
    BY DEF UnderWay, Blocks, Block
  <2> QED
    BY <2>1, <2>2 DEF UnderWay
<1>5. UnderWay(s)' = IF pc'[w] = "writing" THEN {Block(pos[w])} ELSE {}
  <2>1. UnderWay(s)' = {b \in Blocks :
          \/ life'[s] = "writing" /\ b = working'[s]
          \/ \E v \in Writers : pc'[v] = "writing" /\ at'[v] = s /\ b = Block(pos'[v])}
    BY DEF UnderWay, Blocks, Block
  <2>2. \A v \in Writers : pc'[v] = "writing" /\ at'[v] = s => v = w
    BY <1>1
  <2> QED
    BY <1>1, <2>1, <2>2, BlockOfPos
<1> QED
  BY <1>3, <1>4, <1>5

\* a step of a copy of block b for s, by whichever thread
CopyStep(s, b, outcome) ==
  \/ /\ GetSetBlockState(s, b, outcome)
     /\ \A u \in Ids : UnderWay(u)' = IF u = s /\ outcome = "read" THEN {b} ELSE UnderWay(u)
  \/ /\ CopyBlock(s, b, outcome)
     /\ UnderWay(s) = {b}
     /\ \A u \in Ids : UnderWay(u)' = IF u = s THEN {} ELSE UnderWay(u)

\* what a step of a copy leaves behind
LEMMA CopyType ==
  ASSUME TypeOK, Marked, NEW s \in 1 .. made, NEW b \in Blocks, NEW outcome,
         CopyStep(s, b, outcome)
  PROVE  /\ bitmap' \in [Ids -> SUBSET Blocks]
         /\ file' \in [Ids -> [Bytes -> Values]]
         /\ buffer' \in [Ids -> [Bytes -> Values]]
         /\ lost' \in [Ids -> SUBSET Blocks]
         /\ bitmap' = [bitmap EXCEPT ![s] = @ \cup {b}]
         /\ \A u \in Ids : lost[u] \subseteq lost'[u] /\ (u # s => lost'[u] = lost[u])
         /\ \A u \in Ids : u # s => buffer'[u] = buffer[u]
         /\ outcome = "failed" => lost'[s] # {}
<1>1. s \in Ids
  BY MaxSnapshotsAssumption DEF TypeOK, Ids
<1>0. /\ store \in [Bytes -> Values] /\ file \in [Ids -> [Bytes -> Values]]
      /\ bitmap \in [Ids -> SUBSET Blocks] /\ lost \in [Ids -> SUBSET Blocks]
      /\ buffer \in [Ids -> [Bytes -> Values]]
  BY DEF TypeOK
<1>2. Zero \in Values
  BY SnapshotsZeroAssumption
<1>3. CASE GetSetBlockState(s, b, outcome) /\ b \in bitmap[s]
  <2>1. outcome = "copied" /\ UNCHANGED <<bitmap, buffer, lost, file>>
    BY <1>3 DEF GetSetBlockState
  <2>2. [bitmap EXCEPT ![s] = @ \cup {b}] = bitmap
    BY <1>0, <1>1, <1>3
  <2> QED
    BY <1>0, <2>1, <2>2
<1>4. CASE GetSetBlockState(s, b, outcome) /\ b \notin bitmap[s]
  <2>1. bitmap' = [bitmap EXCEPT ![s] = @ \cup {b}] /\ file' = file
    BY <1>4 DEF GetSetBlockState
  <2>2. \/ lost' = [lost EXCEPT ![s] = @ \cup {b}]
        \/ outcome # "failed" /\ lost' = lost
    BY <1>4 DEF GetSetBlockState
  <2>3. \/ buffer' = buffer
        \/ buffer' = [buffer EXCEPT ![s] =
                        [c \in Bytes |-> IF c \in BlockBytes(b) THEN store[c] ELSE Zero]]
    BY <1>4 DEF GetSetBlockState
  <2>4. [c \in Bytes |-> IF c \in BlockBytes(b) THEN store[c] ELSE Zero] \in [Bytes -> Values]
    BY <1>0, <1>2
  <2> QED
    BY <1>0, <1>1, <2>1, <2>2, <2>3, <2>4
<1>5. CASE CopyBlock(s, b, outcome) /\ UnderWay(s) = {b}
  <2>1. b \in bitmap[s]
    BY <1>1, <1>5 DEF Marked
  <2>2. bitmap' = bitmap /\ bitmap' = [bitmap EXCEPT ![s] = @ \cup {b}]
    BY <1>0, <1>1, <1>5, <2>1 DEF CopyBlock
  <2>3. buffer' = [buffer EXCEPT ![s] = [c \in Bytes |-> Zero]]
    BY <1>5 DEF CopyBlock
  <2>4. \/ lost' = [lost EXCEPT ![s] = @ \cup {b}]
        \/ outcome # "failed" /\ lost' = lost
    BY <1>5 DEF CopyBlock
  <2>5. \/ file' = file
        \/ file' = [u \in Ids |->
             IF u \in Reached(fd[s])
             THEN [c \in Bytes |-> IF c \in BlockBytes(b) THEN buffer[s][c] ELSE file[u][c]]
             ELSE file[u]]
    BY <1>5 DEF CopyBlock
  <2>6. file' \in [Ids -> [Bytes -> Values]]
    <3>1. \A u \in Ids : [c \in Bytes |-> IF c \in BlockBytes(b) THEN buffer[s][c] ELSE file[u][c]]
                         \in [Bytes -> Values]
      BY <1>0, <1>1
    <3> QED
      BY <1>0, <2>5, <3>1
  <2>7. [c \in Bytes |-> Zero] \in [Bytes -> Values]
    BY <1>2
  <2> QED
    BY <1>0, <1>1, <2>2, <2>3, <2>4, <2>6, <2>7
<1> QED
  BY <1>3, <1>4, <1>5 DEF CopyStep

\* a block that nobody copies any more stays so, and b joins them
LEMMA CopySettles ==
  ASSUME TypeOK, Marked, NEW s \in 1 .. made, NEW b \in Blocks, NEW outcome,
         CopyStep(s, b, outcome)
  PROVE  /\ Marked'
         /\ \A u \in Ids : Settled(u) \subseteq Settled(u)'
         /\ outcome = "copied" => b \in Settled(s)'
<1>1. s \in Ids
  BY MaxSnapshotsAssumption DEF TypeOK, Ids
<1>0. bitmap \in [Ids -> SUBSET Blocks]
  BY DEF TypeOK
<1>2. \A u \in Ids : bitmap'[u] = IF u = s THEN bitmap[u] \cup {b} ELSE bitmap[u]
  <2>1. bitmap' = [bitmap EXCEPT ![s] = @ \cup {b}]
    BY CopyType
  <2> QED
    BY <1>0, <2>1
<1>3. CASE /\ GetSetBlockState(s, b, outcome)
           /\ \A u \in Ids : UnderWay(u)' = IF u = s /\ outcome = "read" THEN {b} ELSE UnderWay(u)
  <2>1. UnderWay(s) = {} /\ (b \in bitmap[s] => outcome = "copied")
    BY <1>3 DEF GetSetBlockState, MutexFree
  <2> QED
    BY <1>1, <1>2, <1>3, <2>1 DEF Marked, Settled
<1>4. CASE /\ UnderWay(s) = {b}
           /\ \A u \in Ids : UnderWay(u)' = IF u = s THEN {} ELSE UnderWay(u)
  BY <1>1, <1>2, <1>4 DEF Marked, Settled
<1> QED
  BY <1>3, <1>4 DEF CopyStep

\* where a byte of a file comes from, and when a block becomes one that is copied
LEMMA CopyEffect ==
  ASSUME TypeOK, Marked, NEW s \in 1 .. made, NEW b \in Blocks, NEW outcome,
         CopyStep(s, b, outcome), NEW u \in 1 .. made, NEW c \in Bytes
  PROVE  /\ \/ file'[u][c] = file[u][c]
            \/ /\ u \in Reached(fd[s]) /\ Block(c) = b /\ b \in UnderWay(s)
               /\ file'[u][c] = buffer[s][c]
         /\ Block(c) \in Copied(u)' =>
              \/ Block(c) \in Copied(u)
              \/ u = s /\ Block(c) = b /\ b \in UnderWay(s) /\ file'[u][c] = buffer[s][c]
              \/ /\ u = s /\ Block(c) = b /\ b \notin bitmap[s]
                 /\ store[c] = Zero /\ file'[u][c] = file[u][c]
<1>1. s \in Ids /\ u \in Ids
  BY MaxSnapshotsAssumption DEF TypeOK, Ids
<1>2. c \in BlockBytes(b) <=> Block(c) = b
  BY BlocksAreNat, BlockBytesIff
<1>3. /\ \A v \in Ids : bitmap'[v] = IF v = s THEN bitmap[v] \cup {b} ELSE bitmap[v]
      /\ \A v \in Ids : lost[v] \subseteq lost'[v]
  <2>1. bitmap \in [Ids -> SUBSET Blocks]
    BY DEF TypeOK
  <2>2. /\ bitmap' = [bitmap EXCEPT ![s] = @ \cup {b}]
        /\ \A v \in Ids : lost[v] \subseteq lost'[v]
    BY CopyType
  <2> QED
    BY <2>1, <2>2
<1>4. CASE /\ GetSetBlockState(s, b, outcome)
           /\ \A v \in Ids : UnderWay(v)' = IF v = s /\ outcome = "read" THEN {b} ELSE UnderWay(v)
  <2>1. file' = file /\ UnderWay(s) = {}
    BY <1>4 DEF GetSetBlockState, MutexFree
  <2>2. SUFFICES ASSUME Block(c) \in Copied(u)', Block(c) \notin Copied(u)
                 PROVE  u = s /\ Block(c) = b /\ b \notin bitmap[s] /\ store[c] = Zero
    BY <2>1
  <2>3. /\ Block(c) \in bitmap'[u] /\ Block(c) \notin UnderWay(u)' /\ Block(c) \notin lost'[u]
        /\ ~(Block(c) \in bitmap[u] /\ Block(c) \notin UnderWay(u))
    BY <1>1, <1>3, <2>2 DEF Copied, Settled
  <2>4. u = s
    BY <1>1, <1>3, <1>4, <2>3
  <2>5. Block(c) = b /\ b \notin bitmap[s]
    BY <1>1, <1>3, <2>1, <2>3, <2>4
  <2>6. outcome # "read" /\ outcome # "failed"
    <3>1. b \in lost'[s] \/ outcome # "failed"
      BY <1>1, <1>4, <2>5 DEF GetSetBlockState, TypeOK
    <3> QED
      BY <1>1, <1>4, <2>3, <2>4, <2>5, <3>1
  <2>7. IsSkipped(b)
    BY <1>4, <2>5, <2>6 DEF GetSetBlockState
  <2> QED
    BY <1>2, <2>4, <2>5, <2>7 DEF IsSkipped
<1>5. CASE /\ CopyBlock(s, b, outcome) /\ UnderWay(s) = {b}
           /\ \A v \in Ids : UnderWay(v)' = IF v = s THEN {} ELSE UnderWay(v)
  <2>1. CASE outcome = "failed" /\ file' = file /\ lost' = [lost EXCEPT ![s] = @ \cup {b}]
    BY <1>1, <1>3, <1>5, <2>1 DEF Copied, Settled, TypeOK
  <2>2. CASE /\ file' = [v \in Ids |->
                  IF v \in Reached(fd[s])
                  THEN [d \in Bytes |-> IF d \in BlockBytes(b) THEN buffer[s][d] ELSE file[v][d]]
                  ELSE file[v]]
             /\ lost' = IF IsOpen(s) THEN lost ELSE [lost EXCEPT ![s] = @ \cup {b}]
    <3>1. file'[u] = IF u \in Reached(fd[s])
                     THEN [d \in Bytes |-> IF d \in BlockBytes(b) THEN buffer[s][d] ELSE file[u][d]]
                     ELSE file[u]
      BY <1>1, <2>2
    <3>2. file'[u][c] = IF u \in Reached(fd[s]) /\ Block(c) = b THEN buffer[s][c] ELSE file[u][c]
      BY <1>2, <3>1
    <3>3. ASSUME Block(c) \in Copied(u)', Block(c) \notin Copied(u)
          PROVE  u = s /\ Block(c) = b /\ u \in Reached(fd[s])
      <4>1. /\ Block(c) \in bitmap'[u] /\ Block(c) \notin lost'[u]
            /\ ~(Block(c) \in bitmap[u] /\ Block(c) \notin UnderWay(u))
        BY <1>1, <1>3, <3>3 DEF Copied, Settled
      <4>2. u = s
        BY <1>1, <1>3, <1>5, <3>3, <4>1 DEF Copied, Settled
      <4>3. Block(c) = b
        BY <1>1, <1>3, <1>5, <4>1, <4>2
      <4>4. IsOpen(s)
        <5>1. b \in [lost EXCEPT ![s] = @ \cup {b}][s]
          BY <1>1 DEF TypeOK
        <5> QED
          BY <2>2, <4>1, <4>2, <4>3, <5>1
      <4> QED
        BY <4>2, <4>3, <4>4 DEF Reached
    <3> QED
      BY <1>5, <3>2, <3>3
  <2> QED
    BY <1>5, <2>1, <2>2 DEF CopyBlock
<1> QED
  BY <1>4, <1>5 DEF CopyStep

\* a copy reaches no snapshot that was not made
LEMMA CopyLeaves ==
  ASSUME TypeOK, NEW s \in 1 .. made, NEW b \in Blocks, NEW outcome,
         CopyStep(s, b, outcome), NEW u \in Ids, u \notin 1 .. made
  PROVE  file'[u] = file[u]
<1>1. \/ file' = file
      \/ file' = [v \in Ids |->
           IF v \in Reached(fd[s])
           THEN [c \in Bytes |-> IF c \in BlockBytes(b) THEN buffer[s][c] ELSE file[v][c]]
           ELSE file[v]]
  BY DEF CopyStep, GetSetBlockState, CopyBlock
<1>2. u \notin Reached(fd[s])
  BY ReachedType
<1> QED
  BY <1>1, <1>2

\* a copy keeps what the invariant says of the files
LEMMA CopyKeeps ==
  ASSUME TypeOK, Marked, OwnDescriptor, Content,
         NEW s \in 1 .. made, NEW b \in Blocks, NEW outcome,
         CopyStep(s, b, outcome), UNCHANGED <<store, made, fd, stray, image>>
  PROVE  Content'
<1>1. bitmap' = [bitmap EXCEPT ![s] = @ \cup {b}]
  BY CopyType
<1>0. made \in Nat /\ \A u \in 1 .. made : u \in Ids
  BY MaxSnapshotsAssumption DEF TypeOK, Ids
<1>2. \A u \in Ids : bitmap[u] \subseteq bitmap'[u]
  BY <1>1 DEF TypeOK
<1>3. Sources'
  BY <1>0, <1>2 DEF Sources, Content
<1>4. ASSUME NEW u \in 1 .. made, NEW c \in Bytes, u \in Reached(fd[s]), Block(c) = b,
             b \in UnderWay(s), b \notin stray[u]
      PROVE  buffer[s][c] \in image[u][c]
  <2>1. IsOpen(u) /\ fd[u] = fd[s]
    BY <1>4 DEF Reached
  <2>2. ~(u < s)
    BY <2>1 DEF OwnDescriptor
  <2>3. s <= u
    BY <1>0, <2>2
  <2> QED
    BY <1>4, <2>1, <2>3 DEF Content, Buffered
<1>5. Files'
  <2>1. SUFFICES ASSUME NEW u \in 1 .. made, NEW c \in Bytes, Block(c) \notin stray[u]
                 PROVE  file'[u][c] = Zero \/ file'[u][c] \in image[u][c]
    BY DEF Files
  <2>2. CASE file'[u][c] = file[u][c]
    BY <2>1, <2>2 DEF Files, Content
  <2>3. CASE /\ u \in Reached(fd[s]) /\ Block(c) = b /\ b \in UnderWay(s)
             /\ file'[u][c] = buffer[s][c]
    BY <1>4, <2>1, <2>3
  <2> QED
    BY <2>2, <2>3, CopyEffect
<1>6. PictureOfItsMoment'
  <2>1. SUFFICES ASSUME NEW u \in 1 .. made, NEW c \in Bytes,
                        Block(c) \in Copied(u)', Block(c) \notin stray[u]
                 PROVE  file'[u][c] \in image[u][c]
    BY DEF PictureOfItsMoment
  <2>2. CASE Block(c) \in Copied(u)
    <3>1. CASE file'[u][c] = file[u][c]
      BY <2>1, <2>2, <3>1 DEF PictureOfItsMoment, Content
    <3>2. CASE /\ u \in Reached(fd[s]) /\ Block(c) = b /\ b \in UnderWay(s)
               /\ file'[u][c] = buffer[s][c]
      BY <1>4, <2>1, <3>2
    <3> QED
      BY <3>1, <3>2, CopyEffect
  <2>3. CASE u = s /\ Block(c) = b /\ b \in UnderWay(s) /\ file'[u][c] = buffer[s][c]
    <3>1. s <= s
      BY <1>0
    <3> QED
      BY <2>1, <2>3, <3>1 DEF Buffered, Content
  <2>4. CASE /\ u = s /\ Block(c) = b /\ b \notin bitmap[s]
             /\ store[c] = Zero /\ file'[u][c] = file[u][c]
    <3>1. store[c] \in image[u][c]
      <4>1. s <= u
        BY <1>0, <2>4
      <4> QED
        BY <2>4, <4>1 DEF Sources, Content
    <3>2. file[u][c] = Zero \/ file[u][c] \in image[u][c]
      BY <2>1 DEF Files, Content
    <3> QED
      BY <2>4, <3>1, <3>2
  <2> QED
    BY <2>1, <2>2, <2>3, <2>4, CopyEffect
<1>7. Buffered'
  <2>1. SUFFICES ASSUME NEW v \in 1 .. made, NEW u \in 1 .. made, NEW c \in Bytes, v <= u,
                        fd[u] = fd[v], Block(c) \in UnderWay(v)', Block(c) \notin stray[u]
                 PROVE  buffer'[v][c] \in image[u][c]
    BY DEF Buffered
  <2>2. CASE v # s
    <3>1. buffer'[v] = buffer[v] /\ UnderWay(v)' = UnderWay(v)
      BY <1>0, <2>2, CopyType DEF CopyStep
    <3> QED
      BY <2>1, <3>1 DEF Buffered, Content
  <2>3. CASE v = s /\ GetSetBlockState(s, b, outcome)
    <3>0. UnderWay(s) = {} /\ UnderWay(s)' # {}
      BY <2>1, <2>3 DEF GetSetBlockState, MutexFree
    <3>1. UnderWay(s)' = {b} /\ outcome = "read"
      BY <1>0, <2>3, <3>0 DEF CopyStep, CopyBlock
    <3>2. Block(c) = b
      BY <2>1, <2>3, <3>1
    <3>3. b \notin bitmap[s]
      BY <2>3, <3>1 DEF GetSetBlockState
    <3>4. buffer' = [buffer EXCEPT ![s] =
                       [d \in Bytes |-> IF d \in BlockBytes(b) THEN store[d] ELSE Zero]]
      BY <2>3, <3>1, <3>3 DEF GetSetBlockState
    <3>5. buffer'[s][c] = store[c]
      <4>1. c \in BlockBytes(b)
        BY <3>2, BlocksAreNat, BlockBytesIff
      <4>2. buffer'[s] = [d \in Bytes |-> IF d \in BlockBytes(b) THEN store[d] ELSE Zero]
        BY <1>0, <3>4 DEF TypeOK
      <4> QED
        BY <4>1, <4>2
    <3> QED
      BY <2>1, <2>3, <3>2, <3>3, <3>5 DEF Sources, Content
  <2>4. CASE v = s /\ UnderWay(s)' = {}
    BY <2>1, <2>4
  <2> QED
    BY <1>0, <2>2, <2>3, <2>4 DEF CopyStep
<1> QED
  BY <1>3, <1>5, <1>6, <1>7 DEF Content

\* there is a free descriptor number for every snapshot that may be made
LEMMA FreeNumberOK ==
  ASSUME TypeOK, made < MaxSnapshots
  PROVE  /\ FreeNumber \in Ids
         /\ \A u \in 1 .. made : IsOpen(u) => fd[u] # FreeNumber
<1> DEFINE O == {u \in 1 .. made : IsOpen(u)}
           U == {fd[s] : s \in O}
<1>1. FreeNumber = Min(Ids \ U)
  BY DEF FreeNumber
<1>2. U \subseteq Ids /\ O \subseteq Ids
  <2>1. made \in 0 .. MaxSnapshots /\ fd \in [Ids -> Ids]
    BY DEF TypeOK
  <2>2. 1 .. made \subseteq Ids
    BY <2>1, MaxSnapshotsAssumption DEF Ids
  <2>3. \A s \in Ids : fd[s] \in Ids
    BY <2>1
  <2> QED
    BY <2>2, <2>3
<1>3. Ids \ U # {}
  <2>1. SUFFICES ASSUME U = Ids PROVE FALSE
    BY <1>2
  <2>2. /\ IsFiniteSet(1 .. made) /\ Cardinality(1 .. made) = made
        /\ IsFiniteSet(Ids) /\ Cardinality(Ids) = MaxSnapshots
    <3>1. made \in Nat /\ MaxSnapshots \in Nat
      BY MaxSnapshotsAssumption DEF TypeOK
    <3>2. /\ IsFiniteSet(1 .. made)
          /\ Cardinality(1 .. made) = IF 1 > made THEN 0 ELSE made - 1 + 1
          /\ IsFiniteSet(1 .. MaxSnapshots)
          /\ Cardinality(1 .. MaxSnapshots) = IF 1 > MaxSnapshots THEN 0 ELSE MaxSnapshots - 1 + 1
      <4> HIDE DEF O, U
      <4> QED
        BY <3>1, FS_Interval
    <3> QED
      BY <3>1, <3>2 DEF Ids
  <2>3. IsFiniteSet(O) /\ Cardinality(O) <= made
    <3>1. O \in SUBSET (1 .. made)
      OBVIOUS
    <3> HIDE DEF O
    <3> QED
      BY <2>2, <3>1, FS_Subset
  <2> DEFINE f == [s \in O |-> fd[s]]
  <2>4. f \in Surjection(O, Ids)
    <3>1. f \in [O -> Ids]
      BY <1>2 DEF TypeOK
    <3>2. \A n \in Ids : \E s \in O : f[s] = n
      BY <2>1
    <3> HIDE DEF f, O
    <3> QED
      BY <3>1, <3>2 DEF Surjection
  <2>5. Cardinality(Ids) <= Cardinality(O)
    <3> HIDE DEF f, O
    <3> QED
      BY <2>3, <2>4, FS_Surjection
  <2>6. Cardinality(O) \in Nat
    <3> HIDE DEF O
    <3> QED
      BY <2>3, FS_CardinalityType
  <2> HIDE DEF O
  <2> QED
    BY <2>2, <2>3, <2>5, <2>6, MaxSnapshotsAssumption DEF TypeOK
<1>4. Min(Ids \ U) \in Ids \ U
  <2>1. Ids \ U \subseteq Nat
    BY BlocksAreNat
  <2> HIDE DEF U
  <2> QED
    BY <1>3, <2>1, MinOfSet
<1> QED
  BY <1>1, <1>4

(***************************************************************************)
(* The invariant holds initially and is preserved by every action.         *)
(***************************************************************************)

LEMMA SnapshotsInit ==
  ASSUME Init
  PROVE  SInv
<1> USE DEF Init
<1>1. 0 \in Bytes /\ Ids \subseteq Nat /\ 0 \in 0 .. NumBlocks
  BY SizeType, BlocksAreNat, VolumeSizeAssumption DEF Bytes
<1>2. TypeOK
  <2>1. \A s \in Ids : 1 \in Ids
    BY MaxSnapshotsAssumption DEF Ids
  <2>2. fd \in [Ids -> Ids]
    BY <2>1
  <2>3. file \in [Ids -> [Bytes -> Values]] /\ buffer \in [Ids -> [Bytes -> Values]]
    BY SnapshotsZeroAssumption
  <2>4. made \in 0 .. MaxSnapshots /\ begun \in 0 .. MaxRequests
    BY MaxSnapshotsAssumption, MaxRequestsAssumption
  <2>5. at \in [Writers -> 1 .. MaxSnapshots + 1] /\ \A w \in Writers : at[w] <= end[w] + 1
    BY MaxSnapshotsAssumption
  <2> QED
    BY <1>1, <2>2, <2>3, <2>4, <2>5 DEF TypeOK
<1>3. OwnDescriptor /\ Fresh
  BY DEF OwnDescriptor, Fresh
<1>4. \A s \in Ids : UnderWay(s) = {}
  BY DEF UnderWay
<1>5. Threads
  BY <1>4 DEF Threads, Alone, Marked
<1>6. Content
  BY DEF Content, Sources, Buffered, PictureOfItsMoment, Files
<1>7. Told
  BY DEF Told, ToldOf
<1>8. Progress
  BY <1>1 DEF Progress, ProgressOf, Blocks
<1> QED
  BY <1>2, <1>3, <1>5, <1>6, <1>7, <1>8 DEF SInv

\* what a writer has done stays done
LEMMA ToldKept ==
  ASSUME TypeOK, Told, NEW w \in Writers,
         \A s \in Ids : Settled(s) \subseteq Settled(s)',
         pc'[w] = pc[w], req'[w] = req[w], end'[w] = end[w], at'[w] = at[w],
         pos'[w] = pos[w], ok'[w] = ok[w]
  PROVE  ToldOf(w)'
<1>1. /\ end[w] \in 0 .. MaxSnapshots
      /\ at[w] \in 1 .. end[w] + 1
  BY MaxSnapshotsAssumption DEF TypeOK
<1>2. 1 .. at[w] - 1 \subseteq Ids /\ (at[w] <= end[w] => at[w] \in Ids)
  BY <1>1, MaxSnapshotsAssumption DEF Ids
<1>3. ToldOf(w)
  BY DEF Told
<1>4. SUFFICES ASSUME pc[w] # "idle"
               PROVE  ToldOf(w)'
  BY DEF ToldOf
<1>5. /\ req'[w] \in Requests
      /\ pos'[w] \in Offsets(req'[w])
      /\ pc'[w] = "writing" => at'[w] <= end'[w]
  BY <1>3, <1>4 DEF ToldOf
<1>6. Offsets(req[w])' = Offsets(req[w]) /\ Locked(req[w])' = Locked(req[w])
  BY DEF Offsets, Locked, Span, End
<1>7. ASSUME ok[w], NEW s \in 1 .. at[w] - 1
      PROVE  Locked(req[w]) \subseteq Settled(s)'
  BY <1>2, <1>3, <1>4, <1>7 DEF ToldOf
<1>8. ASSUME ok[w], at[w] <= end[w], NEW p \in Offsets(req[w]), p < pos[w]
      PROVE  Block(p) \in Settled(at[w])'
  <2>1. Block(p) \in Settled(at[w])
    BY <1>3, <1>4, <1>8 DEF ToldOf
  <2>2. at[w] \in Ids
    BY <1>2, <1>8
  <2>3. ASSUME NEW s \in Ids, s = at[w] PROVE Settled(at[w])' = Settled(s)'
    BY <2>3 DEF Settled, UnderWay
  <2> QED
    BY <2>1, <2>2, <2>3
<1>9. ok'[w] => /\ \A s \in 1 .. at'[w] - 1 : Locked(req'[w]) \subseteq Settled(s)'
                /\ at'[w] <= end'[w] =>
                     \A p \in Offsets(req'[w]) : p < pos'[w] => Block(p) \in Settled(at[w])'
  BY <1>6, <1>7, <1>8 DEF Offsets, Locked, Span, End, Block
<1> QED
  BY <1>4, <1>5, <1>9 DEF ToldOf

\* nobody starts or ends a copy, and no file or mark changes
CopiesKept ==
  /\ UNCHANGED <<file, bitmap, buffer, lost, pos, at, working>>
  /\ \A s \in Ids : (life'[s] = "writing") = (life[s] = "writing")
  /\ \A w \in Writers : (pc'[w] = "writing") = (pc[w] = "writing")

LEMMA KeptCopies ==
  ASSUME Threads, CopiesKept
  PROVE  /\ Threads'
         /\ \A s \in Ids : UnderWay(s)' = UnderWay(s)
         /\ \A s \in Ids : Settled(s)' = Settled(s) /\ Copied(s)' = Copied(s)
<1>1. Alone' /\ \A s \in Ids : UnderWay(s)' = UnderWay(s)
  BY UnderWaySame DEF Threads, CopiesKept
<1>2. \A s \in Ids : bitmap'[s] = bitmap[s] /\ lost'[s] = lost[s]
  BY DEF CopiesKept
<1> QED
  BY <1>1, <1>2 DEF Threads, Marked, Settled, Copied

LEMMA ConstructKeeps ==
  ASSUME SInv, Construct
  PROVE  SInv'
<1> DEFINE n == made + 1
           W == UNION {UnderWay(s) : s \in {u \in 1 .. made : fd[u] = FreeNumber}}
<1>0. TypeOK /\ OwnDescriptor /\ Fresh /\ Threads /\ Content /\ Told /\ Progress
  BY DEF SInv
<1>1. /\ made = listed /\ made < MaxSnapshots /\ stopped = {}
      /\ made' = n
      /\ life' = [life EXCEPT ![n] = "copying"]
      /\ fd' = [fd EXCEPT ![n] = FreeNumber]
      /\ image' = [image EXCEPT ![n] = [c \in Bytes |-> {store[c]}]]
      /\ stray' = [stray EXCEPT ![n] = W]
      /\ UNCHANGED <<store, listed, file, bitmap, buffer, lost, working, stopped, pc, req, end,
                     at, pos, ok, begun>>
  BY DEF Construct, wvars, copies
<1>2. n \in Ids /\ made \in Nat /\ n \notin 1 .. made /\ 1 .. n = 1 .. made \cup {n}
  <2>1. made \in Nat /\ made < MaxSnapshots
    BY <1>0, <1>1 DEF TypeOK
  <2>2. \A x \in Int : x \in 1 .. made + 1 <=> x \in 1 .. made \/ x = made + 1
    BY <2>1
  <2>3. 1 .. n = 1 .. made \cup {n}
    BY <2>1, <2>2
  <2> QED
    BY <2>1, <2>3, MaxSnapshotsAssumption DEF Ids
<1>3. FreeNumber \in Ids /\ \A u \in 1 .. made : IsOpen(u) => fd[u] # FreeNumber
  BY <1>0, <1>1, FreeNumberOK
<1>4. 1 .. made \subseteq Ids
  BY <1>0, MaxSnapshotsAssumption DEF TypeOK, Ids
<1>a. W \subseteq Blocks
  BY DEF UnderWay
<1> HIDE DEF n, W
<1>5. TypeOK'
  <2>1. /\ life' \in [Ids -> {"none", "copying", "writing", "closing", "finished"}]
        /\ fd' \in [Ids -> Ids] /\ stray' \in [Ids -> SUBSET Blocks]
    BY <1>0, <1>1, <1>3, <1>a DEF TypeOK
  <2>2. image' \in [Ids -> [Bytes -> SUBSET Values]]
    <3>1. [c \in Bytes |-> {store[c]}] \in [Bytes -> SUBSET Values]
      BY <1>0 DEF TypeOK
    <3>2. image \in [Ids -> [Bytes -> SUBSET Values]]
      BY <1>0 DEF TypeOK
    <3> QED
      BY <1>1, <3>1, <3>2
  <2>3. made' \in 0 .. MaxSnapshots /\ listed' \in 0 .. made'
    BY <1>0, <1>1, <1>2, MaxSnapshotsAssumption DEF TypeOK, n
  <2> QED
    BY <1>0, <1>1, <2>1, <2>2, <2>3 DEF TypeOK
<1>6. OwnDescriptor'
  <2>1. SUFFICES ASSUME NEW u \in 1 .. n, NEW s \in 1 .. n, u < s, IsOpen(u)'
                 PROVE  fd'[u] # fd'[s]
    BY <1>1 DEF OwnDescriptor
  <2>2. u \in 1 .. made
    BY <1>2, <2>1 DEF n
  <2>3. fd'[u] = fd[u] /\ IsOpen(u)
    BY <1>0, <1>1, <1>2, <1>4, <2>1, <2>2 DEF IsOpen, TypeOK
  <2>4. CASE s = n
    BY <1>0, <1>1, <1>2, <1>3, <2>2, <2>3, <2>4 DEF TypeOK
  <2>5. CASE s \in 1 .. made
    <3>1. fd'[s] = fd[s]
      BY <1>0, <1>1, <1>2, <1>4, <2>5 DEF TypeOK
    <3> QED
      BY <1>0, <2>1, <2>2, <2>3, <2>5, <3>1 DEF OwnDescriptor
  <2> QED
    BY <1>2, <2>4, <2>5
<1>7. Fresh'
  <2>1. \A s \in Ids : s > n => s > made /\ s # n
    BY <1>2, BlocksAreNat DEF n
  <2>2. \A s \in Ids : s # n => life'[s] = life[s]
    BY <1>0, <1>1 DEF TypeOK
  <2> QED
    BY <1>0, <1>1, <2>1, <2>2 DEF Fresh
<1>b. life[n] = "none" /\ bitmap[n] = {} /\ \A c \in Bytes : file[n][c] = Zero
  BY <1>0, <1>2 DEF Fresh, n
<1>c. CopiesKept
  <2>1. \A s \in Ids : life'[s] = IF s = n THEN "copying" ELSE life[s]
    BY <1>0, <1>1 DEF TypeOK
  <2> QED
    BY <1>1, <1>b, <2>1 DEF CopiesKept
<1>d. /\ Threads' /\ \A s \in Ids : UnderWay(s)' = UnderWay(s)
      /\ \A s \in Ids : Settled(s)' = Settled(s) /\ Copied(s)' = Copied(s)
  BY <1>0, <1>c, KeptCopies
<1>8. \A u \in 1 .. n : \A c \in Bytes :
        image'[u][c] = IF u = n THEN {store[c]} ELSE image[u][c]
  BY <1>0, <1>1, <1>2, <1>4 DEF TypeOK
<1>e. \A u \in 1 .. n : stray'[u] = (IF u = n THEN W ELSE stray[u])
                        /\ fd'[u] = (IF u = n THEN FreeNumber ELSE fd[u])
  BY <1>0, <1>1, <1>2, <1>4 DEF TypeOK
<1>9. Sources'
  <2>1. SUFFICES ASSUME NEW s \in 1 .. n, NEW u \in 1 .. n, NEW c \in Bytes,
                        s <= u, Block(c) \notin bitmap[s]
                 PROVE  store[c] \in image'[u][c]
    BY <1>1 DEF Sources
  <2>2. CASE u = n
    BY <1>8, <2>2
  <2>3. CASE u \in 1 .. made
    <3>1. s \in 1 .. made
      BY <1>2, <2>1, <2>3
    <3> QED
      BY <1>0, <1>2, <1>8, <2>1, <2>3, <3>1 DEF Sources, Content
  <2> QED
    BY <1>2, <2>2, <2>3
<1>10. Buffered'
  <2>1. SUFFICES ASSUME NEW s \in 1 .. n, NEW u \in 1 .. n, NEW c \in Bytes, s <= u,
                        fd'[u] = fd'[s], Block(c) \in UnderWay(s)', Block(c) \notin stray'[u]
                 PROVE  buffer[s][c] \in image'[u][c]
    BY <1>1 DEF Buffered
  <2>2. s \in 1 .. made
    <3>1. s # n
      BY <1>0, <1>2, <1>b, <1>d, <2>1 DEF Threads, Marked
    <3> QED
      BY <1>2, <3>1
  <2>3. Block(c) \in UnderWay(s) /\ s # n /\ fd'[s] = fd[s]
    BY <1>2, <1>4, <1>d, <1>e, <2>1, <2>2
  <2>4. u # n
    <3>1. SUFFICES ASSUME u = n PROVE FALSE
      OBVIOUS
    <3>2. fd[s] = FreeNumber /\ Block(c) \notin W
      BY <1>e, <2>1, <2>3, <3>1
    <3> QED
      BY <2>2, <2>3, <3>2 DEF W
  <2>5. u \in 1 .. made
    BY <1>2, <2>4
  <2> QED
    BY <1>0, <1>2, <1>8, <1>e, <2>1, <2>2, <2>3, <2>4, <2>5 DEF Buffered, Content
<1>11. PictureOfItsMoment' /\ Files'
  <2>1. /\ \A u \in Ids : u = n => Copied(u)' = {}
        /\ \A u \in 1 .. n : u # n => u \in 1 .. made
        /\ 1 .. n \subseteq Ids
    BY <1>2, <1>4, <1>b, <1>d DEF Copied, Settled
  <2>2. PictureOfItsMoment'
    <3>1. SUFFICES ASSUME NEW s \in 1 .. n, NEW c \in Bytes,
                          Block(c) \in Copied(s)' \ stray'[s]
                   PROVE  file[s][c] \in image'[s][c]
      BY <1>1 DEF PictureOfItsMoment
    <3>2. s # n /\ s \in 1 .. made
      BY <2>1, <3>1
    <3> QED
      BY <1>0, <1>4, <1>8, <1>d, <1>e, <3>1, <3>2 DEF PictureOfItsMoment, Content
  <2>3. Files'
    BY <1>0, <1>1, <1>2, <1>8, <1>b, <1>e, <2>1 DEF Files, Content
  <2> QED
    BY <2>2, <2>3
<1>12. Told'
  BY <1>0, <1>1, <1>d, ToldKept DEF Told
<1>13. Progress'
  <2>1. SUFFICES ASSUME NEW s \in Ids PROVE ProgressOf(s)'
    BY DEF Progress
  <2>2. life'[s] = life[s] \/ life'[s] = "copying"
    BY <1>0, <1>1 DEF TypeOK
  <2> QED
    BY <1>0, <1>1, <1>d, <2>2 DEF Progress, ProgressOf, Blocks
<1> QED
  BY <1>5, <1>6, <1>7, <1>9, <1>10, <1>11, <1>12, <1>13, <1>d DEF SInv, Content

\* the parts of the invariant that are about the files stay as they are
LEMMA FilesKept ==
  ASSUME SInv, UNCHANGED <<store, made, fd, stray, image>>, CopiesKept,
         \A s \in Ids : life'[s] = life[s] \/ (s <= made /\ ~IsOpen(s)')
                                       \/ (s <= made /\ IsOpen(s))
  PROVE  OwnDescriptor' /\ Fresh' /\ Threads' /\ Content'
<1>0. TypeOK /\ OwnDescriptor /\ Fresh /\ Threads /\ Content
  BY DEF SInv
<1>1. made \in Nat /\ 1 .. made \subseteq Ids /\ Ids \subseteq Nat
  BY <1>0, BlocksAreNat, MaxSnapshotsAssumption DEF TypeOK, Ids
<1>2. OwnDescriptor'
  <2>1. SUFFICES ASSUME NEW u \in 1 .. made, NEW s \in 1 .. made, u < s, IsOpen(u)'
                 PROVE  fd[u] # fd[s]
    BY DEF OwnDescriptor
  <2>2. IsOpen(u)
    BY <1>1, <2>1 DEF IsOpen
  <2> QED
    BY <1>0, <2>1, <2>2 DEF OwnDescriptor
<1>3. Fresh'
  <2>1. SUFFICES ASSUME NEW s \in Ids, s > made PROVE life'[s] = "none"
    BY <1>0 DEF Fresh, CopiesKept
  <2>2. ~(s <= made)
    BY <1>1, <2>1
  <2> QED
    BY <1>0, <2>1, <2>2 DEF Fresh
<1>4. /\ Threads' /\ \A s \in Ids : UnderWay(s)' = UnderWay(s)
      /\ \A s \in Ids : Settled(s)' = Settled(s) /\ Copied(s)' = Copied(s)
  BY <1>0, KeptCopies
<1>5. Sources' /\ Files'
  BY <1>0 DEF Sources, Files, Content, CopiesKept
<1>6. Buffered'
  BY <1>0, <1>1, <1>4 DEF Buffered, Content, CopiesKept
<1>7. PictureOfItsMoment'
  BY <1>0, <1>1, <1>4 DEF PictureOfItsMoment, Content, CopiesKept
<1> QED
  BY <1>2, <1>3, <1>4, <1>5, <1>6, <1>7 DEF Content

LEMMA PushBackKeeps ==
  ASSUME SInv, PushBack
  PROVE  SInv'
<1>0. TypeOK /\ Threads /\ Told /\ Progress
  BY DEF SInv
<1>1. /\ listed' = made /\ listed < made
      /\ UNCHANGED <<store, made, life, fd, file, bitmap, buffer, lost, working, stopped, stray,
                     pc, req, end, at, pos, ok, begun, image>>
  BY DEF PushBack, wvars, copies
<1>2. TypeOK'
  <2>1. made \in Nat /\ listed \in Nat /\ 0 .. listed \subseteq 0 .. made
        /\ 1 .. listed \subseteq 1 .. made /\ made \in 0 .. made
    BY <1>0, <1>1, MaxSnapshotsAssumption DEF TypeOK
  <2>2. end' \in [Writers -> 0 .. listed']
    BY <1>0, <1>1, <2>1 DEF TypeOK
  <2> QED
    BY <1>0, <1>1, <2>1, <2>2 DEF TypeOK
<1>3. CopiesKept
  BY <1>1 DEF CopiesKept
<1>4. OwnDescriptor' /\ Fresh' /\ Threads' /\ Content'
  BY <1>1, <1>3, FilesKept
<1>5. \A s \in Ids : Settled(s)' = Settled(s) /\ Copied(s)' = Copied(s)
  BY <1>0, <1>3, KeptCopies
<1>6. Told'
  BY <1>0, <1>1, <1>5, ToldKept DEF Told
<1>7. Progress'
  BY <1>0, <1>1, <1>5 DEF Progress, ProgressOf, Blocks
<1> QED
  BY <1>2, <1>4, <1>6, <1>7 DEF SInv

LEMMA CloseKeeps ==
  ASSUME SInv, NEW s \in Ids, Close(s)
  PROVE  SInv'
<1>0. TypeOK /\ Fresh /\ Threads /\ Told /\ Progress
  BY DEF SInv
<1>1. /\ \/ life[s] = "closing"
         \/ life[s] = "copying" /\ (s \in stopped \/ working[s] = NumBlocks)
      /\ life' = [life EXCEPT ![s] = "finished"]
      /\ UNCHANGED <<store, made, listed, fd, file, bitmap, buffer, lost, working, stopped, stray,
                     pc, req, end, at, pos, ok, begun, image>>
  BY DEF Close, AllDone, wvars, copies
<1>2. TypeOK'
  BY <1>0, <1>1 DEF TypeOK
<1>3. /\ life'[s] = "finished" /\ \A u \in Ids : u # s => life'[u] = life[u]
      /\ s <= made
  <2>1. ~(s > made)
    BY <1>0, <1>1 DEF Fresh
  <2> QED
    BY <1>0, <1>1, <2>1, BlocksAreNat DEF TypeOK
<1>4. CopiesKept
  BY <1>1, <1>3 DEF CopiesKept
<1>5. OwnDescriptor' /\ Fresh' /\ Threads' /\ Content'
  BY <1>1, <1>3, <1>4, FilesKept DEF IsOpen
<1>6. \A u \in Ids : Settled(u)' = Settled(u) /\ Copied(u)' = Copied(u)
  BY <1>0, <1>4, KeptCopies
<1>7. Told'
  BY <1>0, <1>1, <1>6, ToldKept DEF Told
<1>8. Progress'
  <2>1. SUFFICES ASSUME NEW u \in Ids PROVE ProgressOf(u)'
    BY DEF Progress
  <2>2. ProgressOf(u)
    BY <1>0 DEF Progress
  <2>3. CASE u # s
    BY <1>1, <1>3, <1>6, <2>2, <2>3 DEF ProgressOf, Blocks
  <2>4. CASE u = s
    <3>1. working[s] = NumBlocks => Blocks \subseteq Settled(s)
      BY <2>2, <2>4, VolumeSizeAssumption DEF ProgressOf, Blocks
    <3>2. Settled(s) \subseteq Blocks
      BY <1>0 DEF TypeOK, Settled
    <3>3. working[s] = NumBlocks /\ lost[s] = {} => Copied(s) = Blocks
      BY <3>1, <3>2 DEF Copied
    <3> QED
      BY <1>1, <1>3, <1>6, <2>2, <2>4, <3>3 DEF ProgressOf, Blocks
  <2> QED
    BY <2>3, <2>4
<1> QED
  BY <1>2, <1>5, <1>7, <1>8 DEF SInv

LEMMA DeleteKeeps ==
  ASSUME SInv, NEW s \in Ids, Delete(s)
  PROVE  SInv'
<1>0. TypeOK /\ Threads /\ Told /\ Progress
  BY DEF SInv
<1>1. /\ s \in 1 .. listed
      /\ stopped' = stopped \cup {s}
      /\ UNCHANGED <<store, made, listed, life, fd, file, bitmap, buffer, lost, working, stray,
                     pc, req, end, at, pos, ok, begun, image>>
  BY DEF Delete, wvars, copies
<1>2. TypeOK'
  BY <1>0, <1>1 DEF TypeOK
<1>3. CopiesKept
  BY <1>1 DEF CopiesKept
<1>4. OwnDescriptor' /\ Fresh' /\ Threads' /\ Content'
  BY <1>1, <1>3, FilesKept
<1>5. \A u \in Ids : Settled(u)' = Settled(u) /\ Copied(u)' = Copied(u)
  BY <1>0, <1>3, KeptCopies
<1>6. Told'
  BY <1>0, <1>1, <1>5, ToldKept DEF Told
<1>7. Progress'
  BY <1>0, <1>1, <1>5 DEF Progress, ProgressOf, Blocks
<1> QED
  BY <1>2, <1>4, <1>6, <1>7 DEF SInv

\* nobody else starts or ends a copy while one thread takes a step of one, so
\* that the step is one of CopyStep
LEMMA OneStep ==
  ASSUME NEW s \in Ids, NEW b \in Blocks, NEW outcome \in Outcomes, NEW writing \in BOOLEAN,
         \/ GetSetBlockState(s, b, outcome) /\ (writing <=> outcome = "read")
         \/ CopyBlock(s, b, outcome) /\ UnderWay(s) = {b} /\ ~writing,
         \A u \in Ids : u # s => UnderWay(u)' = UnderWay(u),
         UnderWay(s)' = IF writing THEN {b} ELSE {}
  PROVE  CopyStep(s, b, outcome)
BY DEF CopyStep, GetSetBlockState, MutexFree

\* the part of the invariant that is about snapshots that are not made stays
LEMMA FreshKept ==
  ASSUME TypeOK, Marked, Fresh, NEW s \in 1 .. made, NEW b \in Blocks, NEW outcome,
         CopyStep(s, b, outcome), made' = made,
         \A u \in Ids : u # s => life'[u] = life[u]
  PROVE  Fresh'
<1>1. s \in Ids /\ made \in Nat
  BY MaxSnapshotsAssumption DEF TypeOK, Ids
<1>2. SUFFICES ASSUME NEW u \in Ids, u > made
               PROVE  /\ life'[u] = "none" /\ bitmap'[u] = {} /\ lost'[u] = {}
                      /\ \A c \in Bytes : file'[u][c] = Zero
  BY DEF Fresh
<1>3. u \notin 1 .. made /\ u # s
  BY <1>1, <1>2
<1>4. file'[u] = file[u]
  BY <1>3, CopyLeaves
<1>5. bitmap'[u] = bitmap[u] /\ lost'[u] = lost[u]
  <2>1. bitmap \in [Ids -> SUBSET Blocks] /\ bitmap' = [bitmap EXCEPT ![s] = @ \cup {b}]
    BY CopyType DEF TypeOK
  <2> QED
    BY <1>3, <2>1, CopyType
<1> QED
  BY <1>2, <1>3, <1>4, <1>5 DEF Fresh

\* the copying thread takes a step of a copy, or gives up
LEMMA CopierKeeps ==
  ASSUME SInv, NEW s \in Ids, CopyNext(s) \/ CopyWrite(s)
  PROVE  SInv'
<1>0. /\ TypeOK /\ OwnDescriptor /\ Fresh /\ Threads /\ Content /\ Told /\ Progress
      /\ Alone /\ Marked
  BY DEF SInv, Threads
<1>1. PICK outcome \in Outcomes :
        /\ \/ /\ life[s] = "copying" /\ working[s] < NumBlocks
              /\ GetSetBlockState(s, working[s], outcome)
           \/ life[s] = "writing" /\ CopyBlock(s, working[s], outcome)
        /\ Copying(s, outcome)
  BY DEF CopyNext, CopyWrite
<1>2. s \in 1 .. made
  <2>1. ~(s > made)
    BY <1>0, <1>1 DEF Fresh
  <2> QED
    BY <1>0, <2>1, MaxSnapshotsAssumption DEF TypeOK, Ids
<1> DEFINE b == working[s]
<1>3. b \in Blocks /\ b \in Nat
  <2>1. life[s] = "writing" => b \in Blocks
    BY <1>0 DEF Alone
  <2> QED
    BY <1>0, <1>1, <2>1, VolumeSizeAssumption DEF TypeOK, Blocks
<1>4. /\ working' = IF outcome = "copied" THEN [working EXCEPT ![s] = b + 1] ELSE working
      /\ outcome = "copied" => life' = [life EXCEPT ![s] = "copying"]
      /\ outcome = "read" => life' = [life EXCEPT ![s] = "writing"]
      /\ outcome = "failed" => life' = [life EXCEPT ![s] = "closing"]
      /\ UNCHANGED <<store, made, listed, fd, stopped, stray, pc, req, end, at, pos, ok, begun,
                     image>>
  BY <1>1 DEF Copying, wvars
<1>5. /\ \A u \in Ids : u # s => life'[u] = life[u] /\ working'[u] = working[u]
      /\ working'[s] = IF outcome = "copied" THEN b + 1 ELSE b
      /\ outcome = "copied" => life'[s] = "copying"
      /\ outcome = "read" => life'[s] = "writing"
      /\ outcome = "failed" => life'[s] = "closing"
  BY <1>0, <1>4 DEF TypeOK, Outcomes
<1>6. GetSetBlockState(s, b, outcome) \/ (life[s] = "writing" /\ CopyBlock(s, b, outcome))
  BY <1>1
<1> HIDE DEF b
<1>7. /\ GetSetBlockState(s, b, outcome) => MutexFree(s)
      /\ CopyBlock(s, b, outcome) => outcome # "read"
      /\ life[s] = "writing" => UnderWay(s) = {b}
  BY <1>0, CopierCopies DEF GetSetBlockState, CopyBlock, b
<1>8. /\ Alone'
      /\ \A u \in Ids : u # s => UnderWay(u)' = UnderWay(u)
      /\ UnderWay(s)' = IF life'[s] = "writing" THEN {b} ELSE {}
  <2>1. life'[s] = "writing" => working'[s] = b
    BY <1>5 DEF Outcomes
  <2> QED
    BY <1>0, <1>3, <1>4, <1>5, <1>6, <1>7, <2>1, UnderWayCopier
<1>9. CopyStep(s, b, outcome)
  <2> DEFINE writing == (outcome = "read")
  <2>1. writing \in BOOLEAN /\ (life'[s] = "writing" <=> writing)
    BY <1>5 DEF Outcomes
  <2> HIDE DEF writing
  <2>2. UnderWay(s)' = IF writing THEN {b} ELSE {}
    BY <1>8, <2>1
  <2>3. \/ GetSetBlockState(s, b, outcome) /\ (writing <=> outcome = "read")
        \/ CopyBlock(s, b, outcome) /\ UnderWay(s) = {b} /\ ~writing
    BY <1>6, <1>7 DEF writing
  <2> QED
    BY <1>3, <1>8, <2>1, <2>2, <2>3, OneStep
<1>10. /\ bitmap' \in [Ids -> SUBSET Blocks] /\ file' \in [Ids -> [Bytes -> Values]]
       /\ buffer' \in [Ids -> [Bytes -> Values]] /\ lost' \in [Ids -> SUBSET Blocks]
       /\ \A u \in Ids : lost[u] \subseteq lost'[u] /\ (u # s => lost'[u] = lost[u])
       /\ outcome = "failed" => lost'[s] # {}
  BY <1>0, <1>2, <1>3, <1>9, CopyType
<1>11. /\ Marked'
       /\ \A u \in Ids : Settled(u) \subseteq Settled(u)'
       /\ outcome = "copied" => b \in Settled(s)'
  BY <1>0, <1>2, <1>3, <1>9, CopySettles
<1>12. TypeOK'
  <2>1. working' \in [Ids -> 0 .. NumBlocks]
    <3>1. b + 1 \in 0 .. NumBlocks /\ working \in [Ids -> 0 .. NumBlocks]
      BY <1>0, <1>3, VolumeSizeAssumption DEF TypeOK, Blocks
    <3> QED
      BY <1>4, <3>1
  <2>2. life' \in [Ids -> {"none", "copying", "writing", "closing", "finished"}]
    BY <1>0, <1>4 DEF TypeOK, Outcomes
  <2> QED
    BY <1>0, <1>4, <1>10, <2>1, <2>2 DEF TypeOK
<1>13. OwnDescriptor'
  <2>1. SUFFICES ASSUME NEW u \in 1 .. made, NEW v \in 1 .. made, u < v, IsOpen(u)'
                 PROVE  fd[u] # fd[v]
    BY <1>4 DEF OwnDescriptor
  <2>2. IsOpen(u)
    <3>1. u \in Ids
      BY <1>0, MaxSnapshotsAssumption DEF TypeOK, Ids
    <3> QED
      BY <1>1, <1>5, <2>1, <3>1 DEF IsOpen
  <2> QED
    BY <1>0, <2>1, <2>2 DEF OwnDescriptor
<1>14. Content'
  BY <1>0, <1>2, <1>3, <1>4, <1>9, CopyKeeps
<1>15. Fresh'
  BY <1>0, <1>2, <1>3, <1>4, <1>5, <1>9, FreshKept
<1>16. Told'
  BY <1>0, <1>4, <1>11, ToldKept DEF Told
<1>17. Progress'
  <2>1. SUFFICES ASSUME NEW u \in Ids PROVE ProgressOf(u)'
    BY DEF Progress
  <2>2. ProgressOf(u)
    BY <1>0 DEF Progress
  <2>3. CASE u # s
    <3>1. Copied(u) = Blocks /\ lost[u] = {} => Copied(u)' = Blocks
      BY <1>10, <1>11, <2>3 DEF Copied, Settled, Blocks
    <3> QED
      BY <1>4, <1>5, <1>10, <1>11, <2>2, <2>3, <3>1 DEF ProgressOf, Blocks
  <2>4. CASE u = s
    <3>1. life'[s] # "finished" /\ (life'[s] = "closing" => outcome = "failed")
      BY <1>5 DEF Outcomes
    <3>2. \A d \in Blocks : d < working'[s] => d \in Settled(s)'
      <4>1. \A d \in Blocks : d < b => d \in Settled(s)'
        BY <1>11, <2>2, <2>4 DEF ProgressOf, b
      <4>2. \A d \in Blocks : d < b + 1 => d < b \/ d = b
        BY <1>3, BlocksAreNat
      <4> QED
        BY <1>5, <1>11, <4>1, <4>2
    <3> QED
      BY <1>10, <2>4, <3>1, <3>2 DEF ProgressOf, Blocks
  <2> QED
    BY <2>3, <2>4
<1> QED
  BY <1>8, <1>11, <1>12, <1>13, <1>14, <1>15, <1>16, <1>17 DEF SInv, Threads

\* the variables of the writers that do not take the step
Others(w) ==
  \A v \in Writers \ {w} :
    /\ pc'[v] = pc[v] /\ req'[v] = req[v] /\ end'[v] = end[v] /\ at'[v] = at[v]
    /\ pos'[v] = pos[v] /\ ok'[v] = ok[v]

LEMMA ToldByOne ==
  ASSUME TypeOK, Told, NEW w \in Writers, Others(w), ToldOf(w)',
         \A s \in Ids : Settled(s) \subseteq Settled(s)'
  PROVE  Told'
<1>1. SUFFICES ASSUME NEW v \in Writers PROVE ToldOf(v)'
  BY DEF Told
<1>2. CASE v = w
  BY <1>2
<1>3. CASE v # w
  BY <1>3, ToldKept DEF Others
<1> QED
  BY <1>2, <1>3

\* the type invariant, in what is the writers' and the rest
WritersOK ==
  /\ pc \in [Writers -> {"idle", "trigger", "writing"}]
  /\ req \in [Writers -> Requests \cup {NoRequest}]
  /\ end \in [Writers -> 0 .. listed]
  /\ at \in [Writers -> 1 .. MaxSnapshots + 1]
  /\ \A w \in Writers : at[w] <= end[w] + 1
  /\ pos \in [Writers -> Bytes]
  /\ ok \in [Writers -> BOOLEAN]

SnapshotsOK ==
  /\ made \in 0 .. MaxSnapshots /\ listed \in 0 .. made
  /\ life \in [Ids -> {"none", "copying", "writing", "closing", "finished"}]
  /\ fd \in [Ids -> Ids]
  /\ file \in [Ids -> [Bytes -> Values]]
  /\ bitmap \in [Ids -> SUBSET Blocks]
  /\ working \in [Ids -> 0 .. NumBlocks]
  /\ buffer \in [Ids -> [Bytes -> Values]]
  /\ stopped \subseteq 1 .. listed
  /\ lost \in [Ids -> SUBSET Blocks]
  /\ stray \in [Ids -> SUBSET Blocks]

LEMMA TypeParts ==
  TypeOK <=> /\ WritersOK /\ SnapshotsOK
             /\ store \in [Bytes -> Values] /\ begun \in 0 .. MaxRequests
             /\ image \in [Ids -> [Bytes -> SUBSET Values]]
BY DEF TypeOK, WritersOK, SnapshotsOK

\* a writer that is idle, or waits for nobody, begins or ends a request
LEMMA KeptByWriter ==
  ASSUME TypeOK, Threads, NEW w \in Writers, Others(w),
         pc[w] # "writing", pc'[w] # "writing",
         UNCHANGED <<life, working, file, bitmap, buffer, lost>>
  PROVE  /\ Threads'
         /\ \A s \in Ids : UnderWay(s)' = UnderWay(s)
         /\ \A s \in Ids : Settled(s)' = Settled(s) /\ Copied(s)' = Copied(s)
<1>1. \A v \in Writers : (pc'[v] = "writing") = (pc[v] = "writing")
  BY DEF Others
<1>2. \A v \in Writers : pc[v] = "writing" => at'[v] = at[v] /\ pos'[v] = pos[v]
  BY DEF Others
<1>3. Alone' /\ \A s \in Ids : UnderWay(s)' = UnderWay(s)
  BY <1>1, <1>2, UnderWaySame DEF Threads
<1> QED
  BY <1>3 DEF Threads, Marked, Settled, Copied

\* such a step leaves what is in the files alone
LEMMA ContentKept ==
  ASSUME TypeOK, Content, UNCHANGED <<store, made, fd, stray, image, file, bitmap, buffer>>,
         \A s \in Ids : UnderWay(s)' = UnderWay(s) /\ Copied(s)' = Copied(s)
  PROVE  Content'
<1>1. 1 .. made \subseteq Ids
  BY MaxSnapshotsAssumption DEF TypeOK, Ids
<1>2. Sources' /\ Files'
  BY DEF Sources, Files, Content
<1>3. Buffered'
  BY <1>1 DEF Buffered, Content
<1>4. PictureOfItsMoment'
  BY <1>1 DEF PictureOfItsMoment, Content
<1> QED
  BY <1>2, <1>3, <1>4 DEF Content

LEMMA BeginKeeps ==
  ASSUME SInv, NEW w \in Writers, Begin(w)
  PROVE  SInv'
<1>0. TypeOK /\ WritersOK /\ SnapshotsOK /\ Threads /\ Content /\ Told /\ Progress
  BY TypeParts DEF SInv
<1>1. PICK r \in Requests :
        /\ pc[w] = "idle"
        /\ begun < MaxRequests /\ begun' = begun + 1
        /\ pc' = [pc EXCEPT ![w] = "trigger"]
        /\ req' = [req EXCEPT ![w] = r]
        /\ end' = [end EXCEPT ![w] = listed]
        /\ at' = [at EXCEPT ![w] = 1]
        /\ pos' = [pos EXCEPT ![w] = r.offset]
        /\ ok' = [ok EXCEPT ![w] = TRUE]
        /\ UNCHANGED <<store, made, listed, life, fd, file, bitmap, buffer, lost, working,
                       stopped, stray, image>>
  BY DEF Begin, ListEnd, svars, copies
<1>2. r.offset \in Bytes /\ r.offset \in Offsets(r) /\ r.offset \in Nat
  BY SnapshotRequest
<1>3. listed \in Nat /\ 1 \in 1 .. MaxSnapshots + 1
  BY <1>0, MaxSnapshotsAssumption DEF SnapshotsOK
<1>4. /\ pc'[w] = "trigger" /\ req'[w] = r /\ end'[w] = listed /\ pos'[w] = r.offset
      /\ ok'[w] = TRUE /\ at'[w] = 1
  BY <1>0, <1>1 DEF WritersOK
<1>5. Others(w)
  BY <1>0, <1>1 DEF WritersOK, Others
<1>6. TypeOK'
  <2>1. WritersOK'
    <3>1. \A v \in Writers : at'[v] <= end'[v] + 1
      BY <1>0, <1>3, <1>4, <1>5 DEF WritersOK, Others
    <3> QED
      BY <1>0, <1>1, <1>2, <1>3, <3>1 DEF WritersOK
  <2>2. SnapshotsOK'
    BY <1>0, <1>1 DEF SnapshotsOK
  <2>3. begun' \in 0 .. MaxRequests
    BY <1>0, <1>1, MaxRequestsAssumption DEF TypeOK
  <2> QED
    BY <1>0, <1>1, <2>1, <2>2, <2>3 DEF TypeOK, WritersOK, SnapshotsOK
<1>7. /\ Threads'
      /\ \A s \in Ids : UnderWay(s)' = UnderWay(s)
      /\ \A s \in Ids : Settled(s)' = Settled(s) /\ Copied(s)' = Copied(s)
  BY <1>0, <1>1, <1>4, <1>5, KeptByWriter
<1>8. OwnDescriptor' /\ Fresh'
  BY <1>1 DEF SInv, OwnDescriptor, Fresh, IsOpen
<1>9. Content'
  BY <1>0, <1>1, <1>7, ContentKept
<1>10. ToldOf(w)'
  <2>1. Offsets(r)' = Offsets(r) /\ \A p \in Offsets(r) : ~(p < r.offset)
    BY <1>2 DEF Offsets, Span, End
  <2>2. 1 .. at'[w] - 1 = {}
    BY <1>4
  <2> QED
    BY <1>2, <1>4, <2>1, <2>2 DEF ToldOf
<1>11. Told'
  BY <1>0, <1>1, <1>5, <1>7, <1>10, ToldByOne
<1>12. Progress'
  BY <1>0, <1>1, <1>7 DEF Progress, ProgressOf, Blocks
<1> QED
  BY <1>6, <1>7, <1>8, <1>9, <1>11, <1>12 DEF SInv

\* a writer takes a step of a copy of a block, or learns that it is copied
LEMMA WriterKeeps ==
  ASSUME SInv, NEW w \in Writers, Trigger(w) \/ TriggerWrite(w)
  PROVE  SInv'
<1>0. /\ TypeOK /\ WritersOK /\ SnapshotsOK
      /\ OwnDescriptor /\ Fresh /\ Threads /\ Content /\ Told /\ Progress
      /\ Alone /\ Marked
  BY TypeParts DEF SInv, Threads
<1> DEFINE s == at[w]
           r == req[w]
           p == pos[w]
           n == p + BlockSize
           b == Block(p)
<1>1. PICK outcome \in Outcomes :
        /\ \/ pc[w] = "trigger" /\ s <= end[w] /\ GetSetBlockState(s, b, outcome)
           \/ pc[w] = "writing" /\ CopyBlock(s, b, outcome)
        /\ Triggering(w, outcome)
  BY DEF Trigger, TriggerWrite
<1>2. pc[w] # "idle" /\ s <= end[w]
  BY <1>0, <1>1 DEF Told, ToldOf
<1>3. s \in 1 .. made /\ s \in Ids /\ s \in Nat /\ end[w] \in 0 .. listed
      /\ s + 1 \in 1 .. MaxSnapshots + 1
  <2>1. s \in 1 .. MaxSnapshots + 1 /\ s <= end[w] /\ end[w] \in 0 .. listed
        /\ listed \in 0 .. made /\ made \in 0 .. MaxSnapshots
    BY <1>0, <1>2 DEF WritersOK, SnapshotsOK
  <2> HIDE DEF s
  <2>2. s \in Int /\ listed \in Int /\ made \in Int /\ end[w] \in Int
    BY <2>1, MaxSnapshotsAssumption
  <2>3. s <= made /\ 1 <= s /\ made <= MaxSnapshots
    BY <2>1, <2>2
  <2> QED
    BY <2>1, <2>2, <2>3, MaxSnapshotsAssumption DEF Ids
<1>4. /\ r \in Requests /\ p \in Offsets(r)
      /\ ok[w] => /\ \A u \in 1 .. s - 1 : Locked(r) \subseteq Settled(u)
                  /\ \A o \in Offsets(r) : o < p => Block(o) \in Settled(s)
  BY <1>0, <1>2 DEF Told, ToldOf
<1>5. p \in Bytes /\ b \in Blocks
  BY <1>4, SnapshotRequest, BlockOfByte DEF Offsets
<1>6. /\ r.offset \in Bytes /\ r.offset \in Offsets(r) /\ Span(r) \subseteq Bytes
      /\ n < End(r) => n \in Offsets(r) /\ n \in Bytes
      /\ n \in Nat /\ End(r) \in Nat
  <2> HIDE DEF r, p
  <2>1. /\ r.offset \in Span(r) /\ r.offset \in Offsets(r) /\ End(r) \in Nat
        /\ Span(r) \subseteq Bytes
    BY <1>4, SnapshotRequest
  <2>2. Offsets(r) \subseteq Span(r)
    BY DEF Offsets
  <2>3. n < End(r) => n \in Offsets(r)
    BY <1>4, StepOfRange
  <2>4. n \in Nat
    BY <1>5, BlocksAreNat, BlockSizeAssumption
  <2> QED
    BY <2>1, <2>2, <2>3, <2>4
<1>7. \A o \in Offsets(r) : o < n => o <= p
  BY <1>4, StepOfRange
<1>8. /\ pc' = [pc EXCEPT ![w] = IF outcome = "read" THEN "writing" ELSE "trigger"]
      /\ ok' = [ok EXCEPT ![w] = @ /\ outcome # "failed"]
      /\ \/ outcome = "read" /\ pos' = pos /\ at' = at
         \/ /\ outcome = "copied" /\ n < End(r)
            /\ pos' = [pos EXCEPT ![w] = n] /\ at' = at
         \/ /\ outcome = "failed" \/ (outcome = "copied" /\ n >= End(r))
            /\ pos' = [pos EXCEPT ![w] = r.offset] /\ at' = [at EXCEPT ![w] = s + 1]
      /\ UNCHANGED <<store, made, listed, life, fd, working, stopped, stray, req, end, begun,
                     image>>
  BY <1>1 DEF Triggering, NextOffset
<1>9. /\ pc'[w] = IF outcome = "read" THEN "writing" ELSE "trigger"
      /\ ok'[w] = (ok[w] /\ outcome # "failed")
      /\ \/ outcome = "read" /\ pos'[w] = p /\ at'[w] = s
         \/ outcome = "copied" /\ n < End(r) /\ pos'[w] = n /\ at'[w] = s
         \/ /\ outcome = "failed" \/ (outcome = "copied" /\ n >= End(r))
            /\ pos'[w] = r.offset /\ at'[w] = s + 1
  BY <1>0, <1>8 DEF WritersOK
<1>10. Others(w)
  BY <1>0, <1>8 DEF WritersOK, Others
<1>11. /\ GetSetBlockState(s, b, outcome) => MutexFree(s)
       /\ CopyBlock(s, b, outcome) => outcome # "read"
       /\ pc[w] = "writing" => UnderWay(s) = {b}
  BY <1>0, <1>3, WriterCopies DEF GetSetBlockState, CopyBlock
<1>12. GetSetBlockState(s, b, outcome) \/ (pc[w] = "writing" /\ CopyBlock(s, b, outcome))
  BY <1>1
<1>13. /\ Alone'
       /\ \A u \in Ids : u # s => UnderWay(u)' = UnderWay(u)
       /\ \A u \in Ids : u = s => UnderWay(u)' = IF pc'[w] = "writing" THEN {b} ELSE {}
  <2>1. PICK x \in Ids : x = s
    BY <1>3
  <2>2. \A v \in Writers : v # w => pc'[v] = pc[v] /\ at'[v] = at[v] /\ pos'[v] = pos[v]
    BY <1>10 DEF Others
  <2>3. pc'[w] = "writing" => at'[w] = at[w] /\ pos'[w] = pos[w]
    BY <1>9 DEF Outcomes
  <2>4. MutexFree(x) \/ pc[w] = "writing"
    BY <1>11, <1>12, <2>1
  <2>5. /\ Alone'
        /\ \A u \in Ids : u # x => UnderWay(u)' = UnderWay(u)
        /\ UnderWay(x)' = IF pc'[w] = "writing" THEN {Block(pos[w])} ELSE {}
    BY <1>0, <1>8, <2>1, <2>2, <2>3, <2>4, UnderWayWriter
  <2> QED
    BY <2>1, <2>5
<1> HIDE DEF s, r, p, n, b
<1>14. PICK x \in Ids : x = s
  BY <1>3
<1>15. CopyStep(x, b, outcome)
  <2> DEFINE writing == (outcome = "read")
  <2>1. writing \in BOOLEAN /\ (pc'[w] = "writing" <=> writing)
    BY <1>9 DEF Outcomes
  <2> HIDE DEF writing
  <2>2. UnderWay(x)' = IF writing THEN {b} ELSE {}
    BY <1>13, <1>14, <2>1
  <2>3. \/ GetSetBlockState(x, b, outcome) /\ (writing <=> outcome = "read")
        \/ CopyBlock(x, b, outcome) /\ UnderWay(x) = {b} /\ ~writing
    BY <1>11, <1>12, <1>14 DEF writing
  <2> QED
    BY <1>5, <1>13, <1>14, <2>1, <2>2, <2>3, OneStep
<1>16. x \in 1 .. made
  BY <1>3, <1>14
<1>17. /\ bitmap' \in [Ids -> SUBSET Blocks] /\ file' \in [Ids -> [Bytes -> Values]]
       /\ buffer' \in [Ids -> [Bytes -> Values]] /\ lost' \in [Ids -> SUBSET Blocks]
       /\ \A u \in Ids : lost[u] \subseteq lost'[u] /\ (u # x => lost'[u] = lost[u])
  BY <1>0, <1>5, <1>15, <1>16, CopyType
<1>18. /\ Marked'
       /\ \A u \in Ids : Settled(u) \subseteq Settled(u)'
       /\ outcome = "copied" => b \in Settled(x)'
  BY <1>0, <1>5, <1>15, <1>16, CopySettles
<1>19. TypeOK'
  <2>1. WritersOK'
    <3>1. \A v \in Writers : at'[v] <= end'[v] + 1
      BY <1>0, <1>2, <1>3, <1>8, <1>9, <1>10 DEF WritersOK, Others, s
    <3>2. pos' \in [Writers -> Bytes] /\ at' \in [Writers -> 1 .. MaxSnapshots + 1]
      BY <1>0, <1>3, <1>6, <1>8 DEF WritersOK
    <3>3. ok' \in [Writers -> BOOLEAN] /\ pc' \in [Writers -> {"idle", "trigger", "writing"}]
      BY <1>0, <1>8 DEF WritersOK
    <3> QED
      BY <1>0, <1>8, <3>1, <3>2, <3>3 DEF WritersOK
  <2>2. SnapshotsOK'
    BY <1>0, <1>8, <1>17 DEF SnapshotsOK
  <2> QED
    BY <1>0, <1>8, <2>1, <2>2 DEF TypeOK, WritersOK, SnapshotsOK
<1>20. OwnDescriptor'
  BY <1>0, <1>8 DEF OwnDescriptor, IsOpen
<1>21. Content'
  BY <1>0, <1>5, <1>8, <1>15, <1>16, CopyKeeps
<1>22. Fresh'
  BY <1>0, <1>5, <1>8, <1>15, <1>16, FreshKept
<1>23. ToldOf(w)'
  <2>1. /\ pc'[w] # "idle" /\ req'[w] = r /\ end'[w] = end[w]
        /\ Offsets(r)' = Offsets(r) /\ Locked(r)' = Locked(r)
    BY <1>8, <1>9 DEF Offsets, Locked, Span, End, r
  <2>2. pos'[w] \in Offsets(r) /\ (pc'[w] = "writing" => at'[w] <= end[w])
    BY <1>2, <1>4, <1>6, <1>9 DEF Outcomes, s
  <2>3. /\ \A u \in 1 .. s - 1 : u \in Ids
        /\ s \in Ids
    BY <1>3, MaxSnapshotsAssumption DEF Ids
  <2>4. ASSUME ok[w], outcome # "failed"
        PROVE  /\ \A u \in 1 .. s - 1 : Locked(r) \subseteq Settled(u)'
               /\ \A u \in Ids : u = s =>
                    \A o \in Offsets(r) : o < p \/ (o = p /\ outcome = "copied")
                                          => Block(o) \in Settled(u)'
    <3>1. \A u \in 1 .. s - 1 : Locked(r) \subseteq Settled(u)'
      BY <1>4, <1>18, <2>3, <2>4
    <3>2. \A u \in Ids : u = s => \A o \in Offsets(r) : o < p => Block(o) \in Settled(u)'
      BY <1>4, <1>18, <2>4
    <3>3. \A u \in Ids : u = s /\ outcome = "copied" => Block(p) \in Settled(u)'
      BY <1>14, <1>18 DEF b
    <3> QED
      BY <3>1, <3>2, <3>3
  <2>5. SUFFICES ASSUME ok'[w]
                 PROVE  /\ \A u \in 1 .. at'[w] - 1 : Locked(r) \subseteq Settled(u)'
                        /\ at'[w] <= end[w] =>
                             \A o \in Offsets(r) : o < pos'[w] => Block(o) \in Settled(at[w])'
    BY <1>4, <2>1, <2>2 DEF ToldOf
  <2>6. ok[w] /\ outcome # "failed"
    BY <1>9, <2>5
  <2>7. \A u \in Ids : u = at'[w] => Settled(at[w])' = Settled(u)'
    BY DEF Settled, UnderWay
  <2>8. CASE outcome = "read" /\ pos'[w] = p /\ at'[w] = s
    BY <2>3, <2>4, <2>6, <2>7, <2>8
  <2>9. CASE outcome = "copied" /\ n < End(r) /\ pos'[w] = n /\ at'[w] = s
    <3>1. \A o \in Offsets(r) : o < n => o < p \/ o = p
      <4>1. p \in Nat /\ \A o \in Offsets(r) : o \in Nat
        BY <1>4, <1>5, SnapshotRequest, BlocksAreNat DEF Offsets
      <4> QED
        BY <1>7, <4>1
    <3> QED
      BY <2>3, <2>4, <2>6, <2>7, <2>9, <3>1
  <2>10. CASE outcome = "copied" /\ n >= End(r) /\ pos'[w] = r.offset /\ at'[w] = s + 1
    <3>1. \A o \in Offsets(r) : o < p \/ o = p
      <4>1. \A o \in Offsets(r) : o \in Nat /\ o < End(r)
        BY <1>4, SnapshotRequest DEF Offsets, Span
      <4>2. p \in Nat
        BY <1>5, BlocksAreNat
      <4> QED
        BY <1>6, <1>7, <2>10, <4>1, <4>2
    <3>2. \A u \in Ids : u = s => Locked(r) \subseteq Settled(u)'
      <4>1. \A u \in Ids : u = s => \A o \in Offsets(r) : Block(o) \in Settled(u)'
        BY <2>4, <2>6, <2>10, <3>1
      <4> QED
        BY <4>1, LockedIsOffsets
    <3>3. \A u \in 1 .. (s + 1) - 1 : u \in 1 .. s - 1 \/ (u = s /\ u \in Ids)
      BY <1>3
    <3>4. \A o \in Offsets(r) : ~(o < r.offset)
      BY <1>4, SnapshotRequest DEF Offsets, Span
    <3>5. \A u \in 1 .. (s + 1) - 1 : Locked(r) \subseteq Settled(u)'
      BY <2>4, <2>6, <3>2, <3>3
    <3> QED
      BY <2>10, <3>4, <3>5
  <2> QED
    BY <1>9, <2>6, <2>8, <2>9, <2>10
<1>24. Told'
  BY <1>0, <1>10, <1>18, <1>23, ToldByOne
<1>25. Progress'
  <2>1. SUFFICES ASSUME NEW u \in Ids PROVE ProgressOf(u)'
    BY DEF Progress
  <2>2. ProgressOf(u)
    BY <1>0 DEF Progress
  <2>3. /\ Settled(u) \subseteq Settled(u)' /\ lost[u] \subseteq lost'[u]
        /\ Settled(u)' \subseteq Blocks
    BY <1>17, <1>18 DEF Settled, Blocks
  <2>4. lost'[u] = {} /\ Copied(u) = Blocks => Copied(u)' = Blocks
    BY <2>3 DEF Copied, Blocks
  <2> QED
    BY <1>8, <2>2, <2>3, <2>4 DEF ProgressOf, Blocks
<1> QED
  BY <1>13, <1>18, <1>19, <1>20, <1>21, <1>22, <1>24, <1>25 DEF SInv, Threads

\* a writer is done
DoneBy(w) ==
  /\ pc'[w] = "idle" /\ Others(w)
  /\ WritersOK' /\ begun' = begun

LEMMA DoneEffect ==
  ASSUME SInv, NEW w \in Writers, Done(w), UNCHANGED listed
  PROVE  DoneBy(w)
<1>0. WritersOK /\ listed \in 0 .. made /\ made \in 0 .. MaxSnapshots
  BY TypeParts DEF SInv, SnapshotsOK
<1>1. /\ pc' = [pc EXCEPT ![w] = "idle"]
      /\ req' = [req EXCEPT ![w] = NoRequest]
      /\ end' = [end EXCEPT ![w] = 0]
      /\ at' = [at EXCEPT ![w] = 1]
      /\ pos' = [pos EXCEPT ![w] = 0]
      /\ ok' = [ok EXCEPT ![w] = TRUE]
      /\ begun' = begun
  BY DEF Done
<1>2. 0 \in Bytes /\ 0 \in 0 .. listed /\ 1 \in 1 .. MaxSnapshots + 1
  BY <1>0, SizeType, MaxSnapshotsAssumption DEF Bytes
<1>3. Others(w) /\ pc'[w] = "idle" /\ end'[w] = 0 /\ at'[w] = 1
  BY <1>0, <1>1 DEF WritersOK, Others
<1>4. \A v \in Writers : at'[v] <= end'[v] + 1
  BY <1>0, <1>3 DEF WritersOK, Others
<1>5. WritersOK'
  BY <1>0, <1>1, <1>2, <1>4 DEF WritersOK
<1> QED
  BY <1>1, <1>3, <1>5 DEF DoneBy

LEMMA RefuseKeeps ==
  ASSUME SInv, NEW w \in Writers, Refuse(w)
  PROVE  SInv'
<1>0. TypeOK /\ SnapshotsOK /\ Threads /\ Content /\ Told /\ Progress
  BY TypeParts DEF SInv
<1>1. /\ Done(w) /\ pc[w] = "trigger"
      /\ UNCHANGED <<store, made, listed, life, fd, file, bitmap, buffer, lost, working, stopped,
                     stray, image>>
  BY DEF Refuse, Triggered, svars, copies
<1>2. DoneBy(w)
  BY <1>1, DoneEffect
<1>3. TypeOK'
  <2>1. SnapshotsOK'
    BY <1>0, <1>1 DEF SnapshotsOK
  <2> QED
    BY <1>0, <1>1, <1>2, <2>1 DEF TypeOK, WritersOK, SnapshotsOK, DoneBy
<1>4. /\ Threads'
      /\ \A s \in Ids : UnderWay(s)' = UnderWay(s)
      /\ \A s \in Ids : Settled(s)' = Settled(s) /\ Copied(s)' = Copied(s)
  BY <1>0, <1>1, <1>2, KeptByWriter DEF DoneBy
<1>5. OwnDescriptor' /\ Fresh'
  BY <1>1 DEF SInv, OwnDescriptor, Fresh, IsOpen
<1>6. Content'
  BY <1>0, <1>1, <1>4, ContentKept
<1>7. Told'
  BY <1>0, <1>1, <1>2, <1>4, ToldByOne DEF DoneBy, ToldOf
<1>8. Progress'
  BY <1>0, <1>1, <1>4 DEF Progress, ProgressOf, Blocks
<1> QED
  BY <1>3, <1>4, <1>5, <1>6, <1>7, <1>8 DEF SInv

\* what a writer changes was copied for every snapshot that it was told of
LEMMA PutIsCopied ==
  ASSUME SInv, NEW w \in Writers, Put(w), NEW c \in Bytes, store'[c] # store[c]
  PROVE  /\ pc[w] = "trigger" /\ pc'[w] = "idle"
         /\ \A s \in 1 .. end[w] : Block(c) \in Settled(s)
<1>0. TypeOK /\ Told /\ WritersOK
  BY TypeParts DEF SInv
<1>1. /\ pc[w] = "trigger" /\ at[w] > end[w] /\ ok[w] /\ Done(w)
      /\ c \in Span(req[w])
  BY <1>0 DEF Put, Triggered, TypeOK
<1>2. pc'[w] = "idle"
  BY <1>0, <1>1 DEF Done, WritersOK
<1>3. req[w] \in Requests /\ \A s \in 1 .. at[w] - 1 : Locked(req[w]) \subseteq Settled(s)
  BY <1>0, <1>1 DEF Told, ToldOf
<1>4. Block(c) \in Locked(req[w])
  BY <1>1, <1>3, CoveredAssumption DEF Touched
<1>5. 1 .. end[w] \subseteq 1 .. at[w] - 1
  <2>1. at[w] \in 1 .. MaxSnapshots + 1 /\ end[w] \in 0 .. listed
    BY <1>0 DEF WritersOK
  <2>2. at[w] \in Int /\ end[w] \in Int
    BY <2>1, MaxSnapshotsAssumption
  <2> QED
    BY <1>1, <2>2
<1> QED
  BY <1>1, <1>2, <1>3, <1>4, <1>5

LEMMA PutKeeps ==
  ASSUME SInv, NEW w \in Writers, Put(w)
  PROVE  SInv'
<1>0. /\ TypeOK /\ WritersOK /\ SnapshotsOK
      /\ OwnDescriptor /\ Fresh /\ Threads /\ Content /\ Told /\ Progress
  BY TypeParts DEF SInv
<1>1. PICK k \in Blocks \cup {NumBlocks} :
        /\ pc[w] = "trigger"
        /\ store' = [c \in Bytes |->
                       IF c \in Span(req[w]) /\ Block(c) < k THEN req[w].data ELSE store[c]]
        /\ image' = [s \in Ids |-> [c \in Bytes |->
                       IF end[w] < s /\ s <= made THEN image[s][c] \cup {store'[c]} ELSE image[s][c]]]
        /\ Done(w)
        /\ UNCHANGED <<made, listed, life, fd, file, bitmap, buffer, lost, working, stopped, stray>>
  BY DEF Put, Triggered, svars, copies
<1>2. DoneBy(w)
  BY <1>1, DoneEffect
<1>3. req[w].data \in Values
  BY <1>0, <1>1, SnapshotRequest DEF Told, ToldOf
<1>4. store' \in [Bytes -> Values]
  BY <1>0, <1>1, <1>3 DEF TypeOK
<1>5. TypeOK'
  <2>1. SnapshotsOK'
    BY <1>0, <1>1 DEF SnapshotsOK
  <2>2. image' \in [Ids -> [Bytes -> SUBSET Values]]
    <3>1. image \in [Ids -> [Bytes -> SUBSET Values]]
      BY <1>0 DEF TypeOK
    <3>2. \A s \in Ids : \A c \in Bytes : image'[s][c] \in SUBSET Values
      BY <1>1, <1>4, <3>1
    <3>3. \A s \in Ids : image'[s] = [c \in Bytes |-> image'[s][c]]
      BY <1>1
    <3>4. \A s \in Ids : image'[s] \in [Bytes -> SUBSET Values]
      BY <3>2, <3>3
    <3>5. image' = [s \in Ids |-> image'[s]]
      BY <1>1
    <3> QED
      BY <3>4, <3>5
  <2> QED
    BY <1>0, <1>1, <1>2, <1>4, <2>1, <2>2 DEF TypeOK, WritersOK, SnapshotsOK, DoneBy
<1>6. OwnDescriptor' /\ Fresh'
  BY <1>0, <1>1 DEF OwnDescriptor, Fresh, IsOpen
<1>7. /\ Threads'
      /\ \A s \in Ids : UnderWay(s)' = UnderWay(s)
      /\ \A s \in Ids : Settled(s)' = Settled(s) /\ Copied(s)' = Copied(s)
  BY <1>0, <1>1, <1>2, KeptByWriter DEF DoneBy
<1>8. 1 .. made \subseteq Ids /\ made \in Nat /\ end[w] \in Nat
  BY <1>0, MaxSnapshotsAssumption DEF SnapshotsOK, WritersOK, Ids
<1>9. ASSUME NEW s \in 1 .. made, NEW c \in Bytes
      PROVE  /\ image[s][c] \subseteq image'[s][c]
             /\ end[w] < s => store'[c] \in image'[s][c]
  <2>1. s \in Ids /\ s <= made
    BY <1>8
  <2>2. image'[s][c] = IF end[w] < s /\ s <= made THEN image[s][c] \cup {store'[c]} ELSE image[s][c]
    BY <1>1, <2>1
  <2> QED
    BY <2>1, <2>2
<1>10. Sources'
  <2>1. SUFFICES ASSUME NEW s \in 1 .. made, NEW u \in 1 .. made, NEW c \in Bytes,
                        s <= u, Block(c) \notin bitmap[s]
                 PROVE  store'[c] \in image'[u][c]
    BY <1>1 DEF Sources
  <2>2. CASE end[w] < u
    BY <1>9, <2>2
  <2>3. CASE ~(end[w] < u)
    <3>1. s \in 1 .. end[w]
      BY <1>8, <2>1, <2>3
    <3>2. store'[c] = store[c]
      BY <2>1, <3>1, PutIsCopied DEF Settled
    <3> QED
      BY <1>0, <1>9, <2>1, <3>2 DEF Sources, Content
  <2> QED
    BY <2>2, <2>3
<1>11. PictureOfItsMoment' /\ Files' /\ Buffered'
  <2>1. PictureOfItsMoment'
    BY <1>0, <1>1, <1>7, <1>8, <1>9 DEF PictureOfItsMoment, Content
  <2>2. Files'
    BY <1>0, <1>1, <1>9 DEF Files, Content
  <2>3. Buffered'
    <3>1. SUFFICES ASSUME NEW s \in 1 .. made, NEW u \in 1 .. made, NEW c \in Bytes, s <= u,
                          fd[u] = fd[s], Block(c) \in UnderWay(s)', Block(c) \notin stray[u]
                   PROVE  buffer[s][c] \in image'[u][c]
      BY <1>1 DEF Buffered
    <3>2. buffer[s][c] \in image[u][c]
      BY <1>0, <1>7, <1>8, <3>1 DEF Buffered, Content
    <3> QED
      BY <1>9, <3>2
  <2> QED
    BY <2>1, <2>2, <2>3
<1>12. Told'
  BY <1>0, <1>1, <1>2, <1>7, ToldByOne DEF DoneBy, ToldOf
<1>13. Progress'
  BY <1>0, <1>1, <1>7 DEF Progress, ProgressOf, Blocks
<1> QED
  BY <1>5, <1>6, <1>7, <1>10, <1>11, <1>12, <1>13 DEF SInv, Content

LEMMA SnapshotsNext ==
  ASSUME SInv, [Next]_vars
  PROVE  SInv'
<1>1. CASE Construct
  BY <1>1, ConstructKeeps
<1>2. CASE PushBack
  BY <1>2, PushBackKeeps
<1>3. ASSUME NEW s \in Ids, CopyNext(s) \/ CopyWrite(s)
      PROVE  SInv'
  BY <1>3, CopierKeeps
<1>4. ASSUME NEW s \in Ids, Close(s)
      PROVE  SInv'
  BY <1>4, CloseKeeps
<1>5. ASSUME NEW s \in Ids, Delete(s)
      PROVE  SInv'
  BY <1>5, DeleteKeeps
<1>6. ASSUME NEW w \in Writers, Begin(w)
      PROVE  SInv'
  BY <1>6, BeginKeeps
<1>7. ASSUME NEW w \in Writers, Trigger(w) \/ TriggerWrite(w)
      PROVE  SInv'
  BY <1>7, WriterKeeps
<1>8. ASSUME NEW w \in Writers, Put(w)
      PROVE  SInv'
  BY <1>8, PutKeeps
<1>9. ASSUME NEW w \in Writers, Refuse(w)
      PROVE  SInv'
  BY <1>9, RefuseKeeps
<1>10. CASE UNCHANGED vars
  <2>1. UNCHANGED <<store, made, listed, life, fd, file, bitmap, buffer, lost, working, stopped,
                    stray, pc, req, end, at, pos, ok, begun, image>>
    BY <1>10 DEF vars, svars, wvars, copies
  <2>2. TypeOK /\ Threads /\ Told /\ Progress
    BY DEF SInv
  <2>3. TypeOK'
    BY <2>1, <2>2 DEF TypeOK
  <2>4. CopiesKept
    BY <2>1 DEF CopiesKept
  <2>5. OwnDescriptor' /\ Fresh' /\ Threads' /\ Content'
    BY <2>1, <2>4, FilesKept
  <2>6. \A s \in Ids : Settled(s)' = Settled(s) /\ Copied(s)' = Copied(s)
    BY <2>2, <2>4, KeptCopies
  <2>7. Told'
    BY <2>1, <2>2, <2>6, ToldKept DEF Told
  <2>8. Progress'
    BY <2>1, <2>2, <2>6 DEF Progress, ProgressOf, Blocks
  <2> QED
    BY <2>3, <2>5, <2>7, <2>8 DEF SInv
<1> QED
  BY <1>1, <1>2, <1>3, <1>4, <1>5, <1>6, <1>7, <1>8, <1>9, <1>10 DEF Next

\* The inductive invariant holds in every state that is reached.
THEOREM SnapshotsInvariant == Spec => []SInv
<1>1. Init => SInv
  BY SnapshotsInit
<1>2. SInv /\ [Next]_vars => SInv'
  BY SnapshotsNext
<1> QED
  BY <1>1, <1>2, PTL DEF Spec

\* Every variable keeps its type, whatever the snapshots and writers do.
THEOREM SnapshotsTypeCorrect == Spec => []TypeOK
<1>1. SInv => TypeOK
  BY DEF SInv
<1> QED
  BY <1>1, SnapshotsInvariant, PTL

\* What was copied for a snapshot (copy_block, read and write apart) is what the
\* volume had when it was triggered or what a request already under way wrote,
\* for any number of snapshots, writers and failures, except for blocks that were
\* on their way to its descriptor number when it was given that number (stray).
THEOREM SnapshotsPicture == Spec => []PictureOfItsMoment
<1>1. SInv => PictureOfItsMoment
  BY DEF SInv, Content
<1> QED
  BY <1>1, SnapshotsInvariant, PTL

\* A snapshot that finishes by itself without a failed copy has every block.
THEOREM SnapshotsComplete == Spec => []FinishedIsComplete
<1>1. SInv => FinishedIsComplete
  BY DEF SInv, Progress, ProgressOf, FinishedIsComplete
<1> QED
  BY <1>1, SnapshotsInvariant, PTL

\* No request changes a byte before the copying of its block has ended in every
\* snapshot that was listed when the request began (put_data, trim_zero).
THEOREM SnapshotsCopiedFirst == Spec => CopiedBeforeChanged
<1> DEFINE Step == \A c \in Bytes : store'[c] # store[c] =>
                     \E w \in Writers : /\ pc[w] = "trigger" /\ pc'[w] = "idle"
                                        /\ \A s \in 1 .. end[w] : Block(c) \in Settled(s)
<1>1. SInv /\ [Next]_vars => [Step]_vars
  <2>1. SUFFICES ASSUME SInv, Next PROVE Step
    OBVIOUS
  <2>2. CASE \E w \in Writers : Put(w)
    BY <2>1, <2>2, PutIsCopied
  <2>3. CASE UNCHANGED store
    BY <2>3
  <2>4. \/ \E w \in Writers : Put(w)
        \/ UNCHANGED store
    BY <2>1 DEF Next, Construct, PushBack, CopyNext, CopyWrite, Copying, Close, Delete, Begin,
                Trigger, TriggerWrite, Triggering, Refuse, svars
  <2> QED
    BY <2>2, <2>3, <2>4
<1> QED
  BY <1>1, SnapshotsInvariant, PTL DEF Spec, CopiedBeforeChanged
=============================================================================
