--------------------------- MODULE VolumeProofs ----------------------------
(* Theorems about Volume, for every size of blocks, backend and lock group. *)
EXTENDS VolumeAtomic, ByteRangesProofs

\* Every request takes its locks (that is, nothing is trimmed if the backend is
\* the one that trims without), and every block of it is locked: its last block
\* is none that un_lock_block_group misses.
Disciplined == \A r \in Requests : LocksFor(r) /\ Covered(r)

\* Trims without locks as well, of whole blocks.
AllCovered == \A r \in Requests : Covered(r)
Whole(r) == \A c \in Span(r) : BlockBytes(Block(c)) \subseteq Span(r)
TrimsWhole == AllCovered /\ \A r \in Requests : LocksFor(r) \/ Whole(r)

LEMMA DisciplinedCovers == Disciplined => AllCovered /\ TrimsWhole
BY DEF Disciplined, AllCovered, TrimsWhole

LEMMA RequestType ==
  ASSUME NEW r \in Requests
  PROVE  /\ r \in AllRequests
         /\ r.offset \in Bytes /\ r.offset \in Nat /\ r.size \in 1 .. Size
         /\ r.data \in Values
         /\ End(r) \in Nat /\ r.offset < End(r) /\ End(r) <= Size
         /\ Span(r) \subseteq Bytes
<1>1. r \in AllRequests
  BY RequestsAssumption
<1>2. /\ r.offset \in Bytes /\ r.size \in 1 .. Size /\ r.data \in Values
      /\ r.offset + r.size <= Size
  BY <1>1 DEF AllRequests
<1> QED
  BY <1>1, <1>2, SizeType DEF End, Span, Bytes

\* the chunk lies in the request and in one block
LEMMA ChunkOK ==
  ASSUME NEW t \in Threads, req[t] \in Requests, pos[t] \in Span(req[t])
  PROVE  /\ ChunkEnd(t) \in Nat /\ pos[t] < ChunkEnd(t) /\ ChunkEnd(t) <= End(req[t])
         /\ Block(pos[t]) \in Nat
         /\ \A c \in Chunk(t) : c \in Span(req[t]) /\ c \in Bytes /\ Block(c) = Block(pos[t])
<1>1. req[t].offset \in Nat /\ End(req[t]) \in Nat /\ Span(req[t]) \subseteq Bytes
  BY RequestType
<1> QED
  BY <1>1, PartOK DEF ChunkEnd, Chunk

(***************************************************************************)
(* The inductive invariant.                                                *)
(***************************************************************************)

InLoop(t) == pc[t] \in {"work", "modified", "unlock"}

\* which locks a thread holds at each point
LocksOf(t) ==
  /\ pc[t] \in {"idle", "mirror", "fallocate"} => holds[t] = {}
  /\ pc[t] = "lock" => /\ holds[t] \subseteq NrsToLocks(req[t])
                       /\ holds[t] # NrsToLocks(req[t])
  /\ InLoop(t) => holds[t] = NrsToLocks(req[t])

LocksHeld == \A t \in Threads : LocksOf(t)

\* a lock that two threads hold is shared by both
Exclusion ==
  \A t, u \in Threads : \A l \in Locks :
    t # u /\ l \in holds[t] /\ l \in holds[u]
      => ~Exclusive(req[t]) /\ ~Exclusive(req[u])

\* where a thread is in its request
PositionOf(t) ==
  /\ pc[t] = "fallocate" => Backend = "file" /\ req[t].op = "trim"
  /\ Active(t) => req[t] \in Requests
  /\ pc[t] \in {"lock", "work", "modified"} => pos[t] \in Span(req[t])
  /\ pc[t] = "lock" => pos[t] = req[t].offset
  /\ pc[t] \in {"lock", "work", "modified"} =>
       pos[t] = req[t].offset \/ pos[t] = Block(pos[t]) * BlockSize
  /\ InLoop(t) => pos[t] <= End(req[t])
  /\ pc[t] \in {"modified", "mirror"} => Changes(req[t])
  /\ IF pc[t] = "mirror" THEN next[t] < NumMirrors ELSE next[t] = 0

PositionOK == \A t \in Threads : PositionOf(t)

\* what was read of a block is what the block still contains
CopyOf(t) ==
  pc[t] = "modified" =>
    \A c \in Bytes : Block(c) = Block(pos[t]) => copy[t][c] = store[c]

\* the same of what get_data has read
ReadOf(t) ==
  req[t].op = "get" /\ pc[t] \in {"work", "unlock"} =>
    \A c \in req[t].offset .. pos[t] - 1 : copy[t][c] = store[c]

CopyOK == \A t \in Threads : CopyOf(t) /\ ReadOf(t)

\* only with the right locks is a copy what is stored
VInv == TypeOK /\ LocksHeld /\ Exclusion /\ PositionOK /\ (Disciplined => CopyOK)

LEMMA NrsToLocksType ==
  ASSUME NEW r \in Requests
  PROVE  NrsToLocks(r) \subseteq Locks /\ NrsToLocks(r) # {}
<1>1. \A c \in Bytes : Block(c) \in Nat
  BY BlockBounds DEF Bytes
<1>2. \A b \in Nat : b % NumLocks \in Locks
  BY NumLocksAssumption DEF Locks
<1>3. Locked(r) \subseteq Nat
  BY <1>1, RequestType DEF Locked
<1>4. r.offset \in Span(r)
  BY RequestType DEF Span
<1>5. (r.offset - r.offset) % BlockSize = 0
  BY RequestType, BlockSizeAssumption
<1>6. Block(r.offset) \in Locked(r)
  BY <1>4, <1>5 DEF Locked
<1> QED
  BY <1>2, <1>3, <1>6 DEF NrsToLocks

LEMMA NextLockOK ==
  ASSUME TypeOK, LocksHeld, NEW t \in Threads, pc[t] = "lock", req[t] \in Requests
  PROVE  NextLock(t) \in NrsToLocks(req[t]) /\ NextLock(t) \in Locks
<1> DEFINE S == NrsToLocks(req[t]) \ holds[t]
<1>1. S # {} /\ S \subseteq Locks
  BY NrsToLocksType DEF LocksHeld, LocksOf
<1>2. S \subseteq Nat
  BY <1>1 DEF Locks
<1>3. Min(S) \in S
  <2> HIDE DEF S
  <2> QED
    BY <1>1, <1>2, MinOfSet
<1> QED
  BY <1>1, <1>3 DEF NextLock

\* two threads in the loop that touch the same block only read
LEMMA SharedBlock ==
  ASSUME AllCovered, VInv, NEW t \in Threads, NEW u \in Threads, t # u,
         InLoop(t), InLoop(u),
         NEW c \in Span(req[t]), NEW d \in Span(req[u]), Block(c) = Block(d)
  PROVE  ~Changes(req[t]) /\ ~Changes(req[u])
<1> USE DEF VInv
<1>1. req[t] \in Requests /\ req[u] \in Requests
  BY DEF InLoop, PositionOK, PositionOf, Active
<1>2. Block(c) \in Locked(req[t]) /\ Block(d) \in Locked(req[u])
  BY <1>1 DEF AllCovered, Covered, Touched
<1> DEFINE l == Block(c) % NumLocks
<1>3. l \in NrsToLocks(req[t]) /\ l \in NrsToLocks(req[u])
  BY <1>2 DEF NrsToLocks
<1>4. l \in Locks
  BY <1>1, <1>3, NrsToLocksType
<1>5. l \in holds[t] /\ l \in holds[u]
  BY <1>3 DEF LocksHeld, LocksOf
<1> HIDE DEF l
<1> QED
  BY <1>4, <1>5 DEF Exclusion, Exclusive

\* what a PutBlock does to the bytes
LEMMA PutBlockEffect ==
  ASSUME VInv, NEW t \in Threads, CopyOf(t), PutBlock(t),
         NEW c \in Bytes, store'[c] # store[c]
  PROVE  /\ InLoop(t) /\ Changes(req[t]) /\ pos[t] \in Span(req[t])
         /\ c \in Span(req[t]) /\ store'[c] = req[t].data /\ Block(c) = Block(pos[t])
         /\ c \in Chunk(t)
<1> USE DEF VInv
<1>1. /\ InLoop(t) /\ Changes(req[t]) /\ pos[t] \in Span(req[t]) /\ req[t] \in Requests
      /\ pc[t] = "work" => WholeBlock(t)
      /\ pc[t] # "work" => pc[t] = "modified"
  BY DEF PutBlock, PositionOK, PositionOf, InLoop, Active
<1>2. /\ Block(pos[t]) \in Nat
      /\ \A x \in Chunk(t) : x \in Span(req[t]) /\ Block(x) = Block(pos[t])
  BY <1>1, ChunkOK
<1>3. c \in Nat
  BY DEF Bytes
<1>4. store'[c] = IF c \in Chunk(t) THEN req[t].data
                  ELSE IF c \in BlockBytes(Block(pos[t])) THEN copy[t][c]
                  ELSE store[c]
  BY DEF PutBlock
<1>5. ASSUME c \notin Chunk(t), c \in BlockBytes(Block(pos[t]))
      PROVE  copy[t][c] = store[c]
  <2>1. pc[t] = "modified"
    BY <1>1, <1>5 DEF WholeBlock
  <2>2. Block(c) = Block(pos[t])
    BY <1>2, <1>3, <1>5, BlockBytesIff
  <2> QED
    BY <2>1, <2>2 DEF CopyOf
<1>6. c \in Chunk(t)
  BY <1>4, <1>5
<1> QED
  BY <1>1, <1>2, <1>4, <1>6

(***************************************************************************)
(* Types.                                                                  *)
(***************************************************************************)

LEMMA VTypeInit == Init => TypeOK
<1> SUFFICES ASSUME Init PROVE TypeOK
  OBVIOUS
<1>1. 0 \in 0 .. Size /\ 0 \in 0 .. NumMirrors
  BY SizeType, NumMirrorsAssumption
<1> QED
  BY <1>1, VolumeZeroAssumption DEF Init, TypeOK

LEMMA ReturnType ==
  ASSUME TypeOK, NEW t \in Threads, Return(t)
  PROVE  /\ pc' \in [Threads -> {"idle", "lock", "work", "modified", "unlock", "fallocate", "mirror"}]
         /\ req' \in [Threads -> Requests \cup {NoRequest}]
         /\ pos' \in [Threads -> 0 .. Size]
         /\ copy' \in [Threads -> [Bytes -> Values]]
         /\ next' \in [Threads -> 0 .. NumMirrors]
         /\ err' \in [Threads -> BOOLEAN]
<1>1. 0 \in 0 .. Size /\ 0 \in 0 .. NumMirrors
  BY SizeType, NumMirrorsAssumption
<1>2. [c \in Bytes |-> Zero] \in [Bytes -> Values]
  BY VolumeZeroAssumption
<1> QED
  BY <1>1, <1>2 DEF Return, TypeOK

LEMMA BeginType ==
  ASSUME TypeOK, NEW t \in Threads, Begin(t)
  PROVE  TypeOK'
<1>1. PICK r \in Requests :
        /\ pc' = [pc EXCEPT ![t] = IF LocksFor(r) THEN "lock" ELSE "fallocate"]
        /\ req' = [req EXCEPT ![t] = r]
        /\ pos' = [pos EXCEPT ![t] = r.offset]
        /\ clean' = (clean /\ ~Collides(r))
  BY DEF Begin
<1>2. UNCHANGED <<store, mirror, holds, copy, next, err>>
  BY DEF Begin
<1>3. r.offset \in 0 .. Size
  BY RequestType, SizeType DEF Bytes
<1>4. clean' \in BOOLEAN
  BY <1>1
<1> QED
  BY <1>1, <1>2, <1>3, <1>4 DEF TypeOK

LEMMA LockType ==
  ASSUME VInv, NEW t \in Threads, Lock(t)
  PROVE  TypeOK'
<1>1. NextLock(t) \in Locks
  BY NextLockOK DEF VInv, Lock, PositionOK, PositionOf, Active
<1>2. holds' \in [Threads -> SUBSET Locks]
  BY <1>1 DEF VInv, TypeOK, Lock
<1>3. pc' \in [Threads -> {"idle", "lock", "work", "modified", "unlock", "fallocate", "mirror"}]
  BY DEF VInv, TypeOK, Lock
<1> QED
  BY <1>2, <1>3 DEF VInv, TypeOK, Lock

\* the position after a chunk
LEMMA AdvanceOK ==
  ASSUME VInv, NEW t \in Threads, InLoop(t), pos[t] \in Span(req[t]), Advance(t),
         req' = req
  PROVE  /\ pos' \in [Threads -> 0 .. Size]
         /\ pc' \in [Threads -> {"idle", "lock", "work", "modified", "unlock", "fallocate", "mirror"}]
         /\ pos'[t] = ChunkEnd(t) /\ pos'[t] <= End(req[t])
         /\ pc'[t] \in {"work", "unlock"}
         /\ pc'[t] = "work" => /\ pos'[t] \in Span(req[t])
                              /\ pos'[t] = Block(pos'[t]) * BlockSize
         /\ pc'[t] = "unlock" => pos'[t] = End(req[t])
<1>1. req[t] \in Requests
  BY DEF VInv, PositionOK, PositionOf, InLoop, Active
<1>2. ChunkEnd(t) \in Nat /\ pos[t] < ChunkEnd(t) /\ ChunkEnd(t) <= End(req[t])
  BY <1>1, ChunkOK
<1>3. /\ End(req[t]) \in Nat /\ End(req[t]) <= Size /\ req[t].offset \in Nat
      /\ pos[t] \in Nat /\ req[t].offset <= pos[t]
  BY <1>1, RequestType DEF Span
<1>4. ChunkEnd(t) \in 0 .. Size
  BY <1>2, <1>3, SizeType
<1>5. ChunkEnd(t) # End(req[t]) => ChunkEnd(t) \in Span(req[t])
  BY <1>2, <1>3 DEF Span
<1>6. pos'[t] = ChunkEnd(t) /\ pos' \in [Threads -> 0 .. Size]
  BY <1>4 DEF Advance, VInv, TypeOK
<1>8. ChunkEnd(t) # End(req[t]) => ChunkEnd(t) = Block(ChunkEnd(t)) * BlockSize
  <2>1. SUFFICES ASSUME ChunkEnd(t) # End(req[t])
                 PROVE  ChunkEnd(t) = Block(ChunkEnd(t)) * BlockSize
    OBVIOUS
  <2>2. ChunkEnd(t) = (Block(pos[t]) + 1) * BlockSize
    <3>1. Block(pos[t]) \in Nat
      BY <1>3, BlockBounds
    <3>2. (Block(pos[t]) + 1) * BlockSize \in Nat
      BY <3>1, BlockSizeAssumption, SMTT(30)
    <3> QED
      BY <1>3, <2>1, <3>2, MinOfSet,
         {End(req[t]), (Block(pos[t]) + 1) * BlockSize} \subseteq Nat DEF ChunkEnd, PartEnd
  <2>3. PICK k \in Nat : ChunkEnd(t) = k * BlockSize
    BY <1>3, <2>2, BlockBounds
  <2>4. Block(k * BlockSize) = k
    <3>1. k * BlockSize \in Nat /\ k * BlockSize < (k + 1) * BlockSize
      BY BlockSizeAssumption, SMTT(30)
    <3> QED
      BY <3>1, BlockUnique
  <2> QED
    BY <2>3, <2>4
<1>7. /\ pc'[t] = IF ChunkEnd(t) = End(req[t]) THEN "unlock" ELSE "work"
      /\ pc' \in [Threads -> {"idle", "lock", "work", "modified", "unlock", "fallocate", "mirror"}]
  BY DEF Advance, VInv, TypeOK
<1> QED
  BY <1>2, <1>5, <1>6, <1>7, <1>8

LEMMA PutBlockType ==
  ASSUME VInv, NEW t \in Threads, PutBlock(t)
  PROVE  store' \in [Bytes -> Values]
<1>1. req[t] \in Requests
  BY DEF VInv, PutBlock, PositionOK, PositionOf, Active
<1>2. req[t].data \in Values
  BY <1>1, RequestType
<1> QED
  BY <1>2 DEF VInv, TypeOK, PutBlock

\* the mirrors and the rest of the state after a call of a mirror
LEMMA MirrorType ==
  ASSUME VInv, NEW t \in Threads, Mirror(t) \/ MirrorError(t)
  PROVE  TypeOK'
<1> USE DEF VInv
<1>1. /\ pc[t] = "mirror" /\ NextMirror(t)
      /\ UNCHANGED <<store, holds>> /\ clean' \in BOOLEAN
      /\ next[t] \in 0 .. NumMirrors /\ next[t] < NumMirrors /\ req[t] \in Requests
  BY DEF Mirror, MirrorError, TypeOK, PositionOK, PositionOf, Active
<1>2. next[t] + 1 \in 1 .. NumMirrors
  BY <1>1, NumMirrorsAssumption
<1>3. Sent(t) \in [Bytes -> Values]
  <2>1. req[t].data \in Values /\ mirror[next[t] + 1] \in [Bytes -> Values]
    BY <1>1, <1>2, RequestType DEF TypeOK
  <2> QED
    BY <2>1 DEF Sent
<1>4. mirror' \in [1 .. NumMirrors -> [Bytes -> Values]]
  BY <1>3 DEF Mirror, MirrorError, TypeOK
<1>5. CASE Return(t)
  BY <1>1, <1>4, <1>5, ReturnType DEF TypeOK
<1>6. CASE /\ next' = [next EXCEPT ![t] = @ + 1]
           /\ UNCHANGED <<pc, req, pos, copy, err>>
  <2>1. next' \in [Threads -> 0 .. NumMirrors]
    BY <1>2, <1>6 DEF TypeOK
  <2> QED
    BY <1>1, <1>4, <1>6, <2>1 DEF TypeOK
<1> QED
  BY <1>1, <1>5, <1>6 DEF NextMirror

\* what a step of t leaves alone
Frame(t) ==
  \A u \in Threads \ {t} :
    /\ pc'[u] = pc[u] /\ req'[u] = req[u] /\ pos'[u] = pos[u]
    /\ copy'[u] = copy[u] /\ next'[u] = next[u] /\ holds'[u] = holds[u]
    /\ err'[u] = err[u]

LEMMA StepFrame ==
  ASSUME TypeOK, NEW t \in Threads, Begin(t) \/ Step(t)
  PROVE  Frame(t)
<1> USE DEF TypeOK, Frame
<1>1. CASE Begin(t)
  BY <1>1 DEF Begin
<1>2. CASE Lock(t)
  BY <1>2 DEF Lock
<1>3. CASE GetBlock(t) \/ PutBlock(t)
  BY <1>3 DEF GetBlock, PutBlock, Advance
<1>4. CASE GetBlockError(t) \/ PutBlockError(t)
  BY <1>4 DEF GetBlockError, PutBlockError, Break
<1>5. CASE ReadModify(t)
  BY <1>5 DEF ReadModify
<1>6. CASE Unlock(t)
  BY <1>6 DEF Unlock, Return
<1>7. CASE Fallocate(t)
  BY <1>7 DEF Fallocate, Return
<1>8. CASE Mirror(t) \/ MirrorError(t)
  BY <1>8 DEF Mirror, MirrorError, NextMirror, Return
<1> QED
  BY <1>1, <1>2, <1>3, <1>4, <1>5, <1>6, <1>7, <1>8 DEF Step

\* it is enough to look at the thread that makes the step
LEMMA LocalInvariants ==
  ASSUME VInv, NEW t \in Threads, Frame(t), LocksOf(t)', PositionOf(t)'
  PROVE  LocksHeld' /\ PositionOK'
<1>1. ASSUME NEW u \in Threads \ {t}
      PROVE  LocksOf(u)' /\ PositionOf(u)'
  <2>1. LocksOf(u) /\ PositionOf(u)
    BY DEF VInv, LocksHeld, PositionOK
  <2>2. UNCHANGED <<pc[u], req[u], pos[u], next[u], holds[u]>>
    BY DEF Frame
  <2> QED
    BY <2>1, <2>2 DEF LocksOf, PositionOf, InLoop, Active, NrsToLocks, Locked, Span,
       End, Changes, Block
<1> QED
  BY <1>1 DEF LocksHeld, PositionOK

LEMMA CopiesKept ==
  ASSUME VInv, NEW t \in Threads, Frame(t), UNCHANGED store,
         Disciplined => CopyOf(t)' /\ ReadOf(t)'
  PROVE  Disciplined => CopyOK'
<1> SUFFICES ASSUME Disciplined PROVE CopyOK'
  OBVIOUS
<1>1. ASSUME NEW u \in Threads \ {t}
      PROVE  CopyOf(u)' /\ ReadOf(u)'
  <2>1. CopyOf(u) /\ ReadOf(u)
    BY DEF VInv, CopyOK
  <2>2. UNCHANGED <<pc[u], req[u], pos[u], copy[u]>>
    BY DEF Frame
  <2> QED
    BY <2>1, <2>2 DEF CopyOf, ReadOf, Block
<1> QED
  BY <1>1 DEF CopyOK

\* a thread that takes no lock does not disturb the exclusion
LEMMA ExclusionKept ==
  ASSUME VInv, NEW t \in Threads, Frame(t),
         holds'[t] = {} \/ (holds'[t] = holds[t] /\ req'[t] = req[t])
  PROVE  Exclusion'
<1> USE DEF VInv
<1>1. \A u \in Threads \ {t} : holds'[u] = holds[u] /\ req'[u] = req[u]
  BY DEF Frame
<1>2. CASE holds'[t] = {}
  BY <1>1, <1>2 DEF Exclusion, Exclusive, Changes
<1>3. CASE holds'[t] = holds[t] /\ req'[t] = req[t]
  <2>1. \A u \in Threads : holds'[u] = holds[u] /\ req'[u] = req[u]
    BY <1>1, <1>3
  <2> QED
    BY <2>1 DEF Exclusion, Exclusive, Changes
<1> QED
  BY <1>2, <1>3

(***************************************************************************)
(* One lemma for each action.                                              *)
(***************************************************************************)

LEMMA InitVInv == Init => VInv
<1> SUFFICES ASSUME Init PROVE VInv
  OBVIOUS
<1>1. TypeOK
  BY VTypeInit
<1>2. \A t \in Threads : pc[t] = "idle" /\ holds[t] = {} /\ next[t] = 0
  BY DEF Init
<1>3. LocksHeld /\ PositionOK
  BY <1>2 DEF LocksHeld, LocksOf, PositionOK, PositionOf, InLoop, Active
<1>4. Exclusion
  BY <1>2 DEF Exclusion
<1>5. CopyOK
  BY <1>2 DEF CopyOK, CopyOf, ReadOf
<1> QED
  BY <1>1, <1>3, <1>4, <1>5 DEF VInv

LEMMA BeginOK ==
  ASSUME VInv, NEW t \in Threads, Begin(t)
  PROVE  VInv'
<1> USE DEF VInv
<1>1. PICK r \in Requests :
        /\ pc' = [pc EXCEPT ![t] = IF LocksFor(r) THEN "lock" ELSE "fallocate"]
        /\ req' = [req EXCEPT ![t] = r]
        /\ pos' = [pos EXCEPT ![t] = r.offset]
  BY DEF Begin
<1>2. /\ pc'[t] = "lock" \/ (pc'[t] = "fallocate" /\ Backend = "file" /\ r.op = "trim")
      /\ req'[t] = r /\ pos'[t] = r.offset
      /\ holds' = holds /\ next' = next /\ UNCHANGED store
      /\ pc[t] = "idle"
  BY <1>1, BackendAssumption DEF TypeOK, LocksFor, Begin, Active
<1>3. TypeOK' /\ Frame(t)
  BY BeginType, StepFrame
<1>4. holds[t] = {} /\ next[t] = 0
  BY <1>2 DEF LocksHeld, LocksOf, PositionOK, PositionOf
<1>5. LocksOf(t)'
  <2>1. NrsToLocks(r) # {}
    BY NrsToLocksType
  <2>2. NrsToLocks(req[t])' = NrsToLocks(r)
    BY <1>2 DEF NrsToLocks, Locked, Span, End, Block
  <2> QED
    BY <1>2, <1>4, <2>1, <2>2 DEF LocksOf, InLoop
<1>6. PositionOf(t)'
  <2>1. r.offset \in Span(r)
    BY RequestType DEF Span
  <2> QED
    BY <1>2, <1>4, <2>1 DEF PositionOf, InLoop, Active, Span, End
<1>7. CopyOf(t)' /\ ReadOf(t)'
  BY <1>2 DEF CopyOf, ReadOf
<1>8. Exclusion'
  BY <1>2, <1>3, <1>4, ExclusionKept
<1> QED
  BY <1>2, <1>3, <1>5, <1>6, <1>7, <1>8, LocalInvariants, CopiesKept

LEMMA LockOK ==
  ASSUME VInv, NEW t \in Threads, Lock(t)
  PROVE  VInv'
<1> USE DEF VInv
<1> DEFINE l == NextLock(t)
<1>1. /\ pc[t] = "lock" /\ req[t] \in Requests /\ pos[t] = req[t].offset
      /\ pos[t] \in Span(req[t]) /\ next[t] = 0
  BY DEF Lock, PositionOK, PositionOf, Active
<1>2. l \in NrsToLocks(req[t]) /\ l \in Locks
  BY <1>1, NextLockOK
<1> HIDE DEF l
<1>3. /\ holds'[t] = holds[t] \cup {l} /\ Available(t, l)
      /\ pc'[t] = IF holds'[t] = NrsToLocks(req[t]) THEN "work" ELSE "lock"
      /\ UNCHANGED <<store, mirror, req, pos, copy, next, err, clean>>
  BY DEF Lock, TypeOK, l
<1>4. TypeOK' /\ Frame(t)
  BY LockType, StepFrame DEF Step
<1>5. NrsToLocks(req[t])' = NrsToLocks(req[t])
  BY <1>3 DEF NrsToLocks, Locked, Span, End, Block
<1>6. LocksOf(t)'
  BY <1>1, <1>2, <1>3, <1>5 DEF LocksOf, LocksHeld, InLoop
<1>7. PositionOf(t)'
  <2>1. pos[t] <= End(req[t])
    BY <1>1, RequestType
  <2> QED
    BY <1>1, <1>3, <2>1 DEF PositionOf, InLoop, Active, Span, End
<1>8. CopyOf(t)' /\ ReadOf(t)'
  <2>1. req[t].offset .. pos[t] - 1 = {}
    BY <1>1, RequestType
  <2> QED
    BY <1>3, <2>1 DEF CopyOf, ReadOf
<1>9. Exclusion'
  <2>1. \A u \in Threads \ {t} : holds'[u] = holds[u] /\ req' = req
    BY <1>3, <1>4 DEF Frame
  <2>2. \A u \in Threads \ {t} : l \in holds[u] => ~Exclusive(req[t]) /\ ~Exclusive(req[u])
    BY <1>3 DEF Available
  <2> QED
    BY <1>3, <2>1, <2>2 DEF Exclusion, Exclusive, Changes
<1> QED
  BY <1>3, <1>4, <1>6, <1>7, <1>8, <1>9, LocalInvariants, CopiesKept

\* the parts of the invariant that a step in the loop keeps by staying in it
LEMMA LoopStays ==
  ASSUME VInv, NEW t \in Threads, Frame(t), InLoop(t), InLoop(t)',
         UNCHANGED <<req, holds, next>>
  PROVE  LocksOf(t)' /\ Exclusion'
<1>1. LocksOf(t)
  BY DEF VInv, LocksHeld
<1>2. LocksOf(t)'
  BY <1>1 DEF LocksOf, InLoop, NrsToLocks, Locked, Span, End, Block
<1> QED
  BY <1>2, ExclusionKept

LEMMA GetBlockOK ==
  ASSUME VInv, NEW t \in Threads, GetBlock(t)
  PROVE  VInv'
<1> USE DEF VInv
<1>1. /\ pc[t] = "work" /\ req[t].op = "get" /\ Advance(t)
      /\ copy'[t] = [c \in Bytes |-> IF c \in Chunk(t) THEN store[c] ELSE copy[t][c]]
      /\ UNCHANGED <<store, mirror, holds, req, next, err, clean>>
  BY DEF GetBlock, TypeOK
<1>2. /\ InLoop(t) /\ pos[t] \in Span(req[t]) /\ req[t] \in Requests /\ next[t] = 0
  BY <1>1 DEF PositionOK, PositionOf, InLoop, Active
<1>3. /\ pos' \in [Threads -> 0 .. Size]
      /\ pc' \in [Threads -> {"idle", "lock", "work", "modified", "unlock", "fallocate", "mirror"}]
      /\ pos'[t] = ChunkEnd(t) /\ pos'[t] <= End(req[t])
      /\ pc'[t] \in {"work", "unlock"}
      /\ pc'[t] = "work" => /\ pos'[t] \in Span(req[t])
                           /\ pos'[t] = Block(pos'[t]) * BlockSize
  BY <1>1, <1>2, AdvanceOK
<1>4. TypeOK'
  <2>1. copy' \in [Threads -> [Bytes -> Values]]
    BY DEF GetBlock, TypeOK
  <2> QED
    BY <1>1, <1>3, <2>1 DEF TypeOK
<1>5. Frame(t)
  BY StepFrame DEF Step
<1>6. LocksOf(t)' /\ Exclusion'
  BY <1>1, <1>2, <1>3, <1>5, LoopStays DEF InLoop
<1>7. PositionOf(t)'
  BY <1>1, <1>2, <1>3 DEF PositionOf, InLoop, Active, Span, End, Block
<1>8. CopyOf(t)'
  BY <1>3 DEF CopyOf
<1>9. Disciplined => ReadOf(t)'
  <2> SUFFICES ASSUME Disciplined PROVE ReadOf(t)'
    OBVIOUS
  <2>1. /\ ChunkEnd(t) \in Nat /\ pos[t] \in Nat /\ req[t].offset \in Nat
        /\ End(req[t]) \in Nat /\ ChunkEnd(t) <= End(req[t]) /\ End(req[t]) <= Size
        /\ Size \in Nat
    BY <1>2, ChunkOK, RequestType, SizeType DEF Span
  <2>2. ASSUME NEW c \in req[t].offset .. ChunkEnd(t) - 1
        PROVE  copy'[t][c] = store[c]
    <3>1. c \in Bytes
      BY <2>1, <2>2 DEF Bytes
    <3>2. CASE c \in Chunk(t)
      BY <1>1, <3>1, <3>2
    <3>3. CASE c \notin Chunk(t)
      <4>1. c \in req[t].offset .. pos[t] - 1
        BY <2>1, <2>2, <3>3 DEF Chunk, Part, ChunkEnd
      <4>2. copy[t][c] = store[c]
        BY <1>1, <4>1 DEF CopyOK, ReadOf
      <4> QED
        BY <1>1, <3>1, <3>3, <4>2
    <3> QED
      BY <3>2, <3>3
  <2> QED
    BY <1>1, <1>3, <2>2 DEF ReadOf
<1> QED
  BY <1>1, <1>4, <1>5, <1>6, <1>7, <1>8, <1>9, LocalInvariants, CopiesKept

LEMMA ReadModifyOK ==
  ASSUME VInv, NEW t \in Threads, ReadModify(t)
  PROVE  VInv'
<1> USE DEF VInv
<1>1. /\ pc[t] = "work" /\ Changes(req[t])
      /\ pc'[t] = "modified" /\ copy'[t] = store
      /\ UNCHANGED <<store, mirror, holds, req, pos, next, err, clean>>
  BY DEF ReadModify, TypeOK
<1>2. /\ InLoop(t) /\ PositionOf(t) /\ Frame(t)
  BY <1>1, StepFrame DEF PositionOK, InLoop, Step
<1>3. TypeOK'
  BY DEF ReadModify, TypeOK
<1>4. LocksOf(t)' /\ Exclusion'
  BY <1>1, <1>2, LoopStays DEF InLoop
<1>5. PositionOf(t)'
  BY <1>1, <1>2 DEF PositionOf, InLoop, Active, Span, End, Changes
<1>6. CopyOf(t)' /\ ReadOf(t)'
  BY <1>1 DEF CopyOf, ReadOf
<1> QED
  BY <1>1, <1>2, <1>3, <1>4, <1>5, <1>6, LocalInvariants, CopiesKept

LEMMA BreakOK ==
  ASSUME VInv, NEW t \in Threads, GetBlockError(t) \/ PutBlockError(t)
  PROVE  VInv'
<1> USE DEF VInv
<1>1. /\ pc[t] \in {"work", "modified"} /\ Break(t)
      /\ pc'[t] = "unlock"
      /\ UNCHANGED <<store, mirror, holds, req, pos, copy, next>>
  BY DEF GetBlockError, PutBlockError, Break, TypeOK
<1>2. /\ InLoop(t) /\ PositionOf(t) /\ Frame(t)
  BY <1>1, StepFrame DEF PositionOK, InLoop, Step
<1>3. TypeOK'
  BY <1>1 DEF Break, TypeOK
<1>4. LocksOf(t)' /\ Exclusion'
  BY <1>1, <1>2, LoopStays DEF InLoop
<1>5. PositionOf(t)'
  BY <1>1, <1>2 DEF PositionOf, InLoop, Active, Span, End
<1>6. Disciplined => CopyOf(t)' /\ ReadOf(t)'
  <2> SUFFICES ASSUME Disciplined PROVE CopyOf(t)' /\ ReadOf(t)'
    OBVIOUS
  <2>1. req[t].op = "get" => pc[t] = "work"
    BY <1>1, <1>2 DEF PositionOf, Changes
  <2>2. ReadOf(t)
    BY DEF CopyOK
  <2> QED
    BY <1>1, <2>1, <2>2 DEF CopyOf, ReadOf
<1> QED
  BY <1>1, <1>2, <1>3, <1>4, <1>5, <1>6, LocalInvariants, CopiesKept

\* a thread that returns, or that goes on to the mirrors, holds no lock
LEMMA UnlockOK ==
  ASSUME VInv, NEW t \in Threads, Unlock(t)
  PROVE  VInv'
<1> USE DEF VInv
<1>1. /\ pc[t] = "unlock" /\ holds' = [holds EXCEPT ![t] = {}]
      /\ UNCHANGED <<store, mirror, clean>>
  BY DEF Unlock
<1>2. \/ /\ pc' = [pc EXCEPT ![t] = "mirror"] /\ Mirrored(t)
         /\ UNCHANGED <<req, pos, copy, next, err>>
      \/ Return(t)
  BY DEF Unlock
<1>3. Frame(t)
  BY StepFrame DEF Step
<1>4. holds'[t] = {} /\ holds' \in [Threads -> SUBSET Locks]
  BY <1>1 DEF TypeOK
<1>5. Exclusion'
  BY <1>3, <1>4, ExclusionKept
<1>6. CASE Return(t)
  <2>1. pc'[t] = "idle" /\ next'[t] = 0
    BY <1>6 DEF Return, TypeOK
  <2>2. TypeOK'
    BY <1>1, <1>4, <1>6, ReturnType DEF TypeOK
  <2>3. /\ LocksOf(t)' /\ PositionOf(t)'
        /\ CopyOf(t)' /\ ReadOf(t)'
    BY <1>4, <2>1 DEF LocksOf, PositionOf, CopyOf, ReadOf, InLoop, Active
  <2> QED
    BY <1>1, <1>3, <1>5, <2>2, <2>3, LocalInvariants, CopiesKept
<1>7. CASE /\ pc' = [pc EXCEPT ![t] = "mirror"] /\ Mirrored(t)
           /\ UNCHANGED <<req, pos, copy, next, err>>
  <2>1. pc'[t] = "mirror"
    BY <1>7 DEF TypeOK
  <2>2. TypeOK'
    BY <1>1, <1>4, <1>7 DEF TypeOK
  <2>3. PositionOf(t) /\ Changes(req[t]) /\ NumMirrors > 0
    BY <1>7 DEF PositionOK, Mirrored
  <2>4. /\ LocksOf(t)' /\ PositionOf(t)'
        /\ CopyOf(t)' /\ ReadOf(t)'
    BY <1>1, <1>4, <1>7, <2>1, <2>3
    DEF LocksOf, PositionOf, CopyOf, ReadOf, InLoop, Active, Changes
  <2> QED
    BY <1>1, <1>3, <1>5, <2>2, <2>4, LocalInvariants, CopiesKept
<1> QED
  BY <1>2, <1>6, <1>7

LEMMA MirrorOK ==
  ASSUME VInv, NEW t \in Threads, Mirror(t) \/ MirrorError(t)
  PROVE  VInv'
<1> USE DEF VInv
<1>1. pc[t] = "mirror" /\ NextMirror(t) /\ UNCHANGED <<store, holds>>
  BY DEF Mirror, MirrorError
<1>2. TypeOK' /\ Frame(t)
  BY MirrorType, StepFrame DEF Step
<1>3. /\ holds'[t] = {} /\ PositionOf(t)
      /\ next[t] \in 0 .. NumMirrors /\ next[t] < NumMirrors
  BY <1>1 DEF LocksHeld, LocksOf, PositionOK, PositionOf, TypeOK
<1>4. Exclusion'
  BY <1>2, <1>3, ExclusionKept
<1>5. CASE Return(t)
  <2>1. pc'[t] = "idle" /\ next'[t] = 0
    BY <1>5 DEF Return, TypeOK
  <2>2. /\ LocksOf(t)' /\ PositionOf(t)'
        /\ CopyOf(t)' /\ ReadOf(t)'
    BY <1>3, <2>1 DEF LocksOf, PositionOf, CopyOf, ReadOf, InLoop, Active
  <2> QED
    BY <1>1, <1>2, <1>4, <2>2, LocalInvariants, CopiesKept
<1>6. CASE /\ next[t] + 1 # NumMirrors
           /\ next' = [next EXCEPT ![t] = @ + 1]
           /\ UNCHANGED <<pc, req, pos, copy, err>>
  <2>1. next'[t] < NumMirrors
    BY <1>3, <1>6, NumMirrorsAssumption DEF TypeOK
  <2>2. /\ LocksOf(t)' /\ PositionOf(t)'
        /\ CopyOf(t)' /\ ReadOf(t)'
    BY <1>1, <1>3, <1>6, <2>1
    DEF LocksOf, PositionOf, CopyOf, ReadOf, InLoop, Active, Changes
  <2> QED
    BY <1>1, <1>2, <1>4, <2>2, LocalInvariants, CopiesKept
<1> QED
  BY <1>1, <1>5, <1>6 DEF NextMirror

LEMMA PutBlockOK ==
  ASSUME VInv, NEW t \in Threads, PutBlock(t)
  PROVE  VInv'
<1> USE DEF VInv
<1>1. /\ pc[t] \in {"work", "modified"} /\ Changes(req[t]) /\ Advance(t)
      /\ UNCHANGED <<mirror, holds, req, copy, next, err, clean>>
  BY DEF PutBlock, PositionOK, PositionOf
<1>2. /\ InLoop(t) /\ pos[t] \in Span(req[t]) /\ req[t] \in Requests /\ next[t] = 0
  BY <1>1 DEF PositionOK, PositionOf, InLoop, Active
<1>3. /\ pos' \in [Threads -> 0 .. Size]
      /\ pc' \in [Threads -> {"idle", "lock", "work", "modified", "unlock", "fallocate", "mirror"}]
      /\ pos'[t] = ChunkEnd(t) /\ pos'[t] <= End(req[t])
      /\ pc'[t] \in {"work", "unlock"}
      /\ pc'[t] = "work" => /\ pos'[t] \in Span(req[t])
                           /\ pos'[t] = Block(pos'[t]) * BlockSize
  BY <1>1, <1>2, AdvanceOK
<1>4. TypeOK'
  BY <1>1, <1>3, PutBlockType DEF TypeOK
<1>5. Frame(t)
  BY StepFrame DEF Step
<1>6. LocksOf(t)' /\ Exclusion'
  BY <1>1, <1>2, <1>3, <1>5, LoopStays DEF InLoop
<1>7. PositionOf(t)'
  BY <1>1, <1>2, <1>3 DEF PositionOf, InLoop, Active, Span, End, Block
<1>8. ASSUME Disciplined, NEW u \in Threads \ {t}
      PROVE  CopyOf(u)' /\ ReadOf(u)'
  <2>1. UNCHANGED <<pc[u], req[u], pos[u], copy[u]>> /\ CopyOf(u) /\ ReadOf(u)
    BY <1>5, <1>8 DEF Frame, CopyOK
  <2>2. ASSUME InLoop(u), NEW d \in Span(req[u]), NEW c \in Bytes, Block(c) = Block(d)
        PROVE  store'[c] = store[c]
    BY <1>1, <1>2, <1>8, <2>2, PutBlockEffect, SharedBlock, DisciplinedCovers DEF CopyOK
  <2>3. CopyOf(u)'
    <3>1. SUFFICES ASSUME pc[u] = "modified", NEW c \in Bytes, Block(c) = Block(pos[u])
                   PROVE  copy[u][c] = store'[c]
      BY <2>1 DEF CopyOf, Block
    <3>2. InLoop(u) /\ pos[u] \in Span(req[u])
      BY <3>1 DEF InLoop, PositionOK, PositionOf
    <3> QED
      BY <2>1, <2>2, <3>1, <3>2 DEF CopyOf
  <2>4. ReadOf(u)'
    <3>1. SUFFICES ASSUME req[u].op = "get", pc[u] \in {"work", "unlock"},
                          NEW c \in req[u].offset .. pos[u] - 1
                   PROVE  copy[u][c] = store'[c]
      BY <2>1 DEF ReadOf
    <3>2. /\ InLoop(u) /\ req[u] \in Requests /\ pos[u] <= End(req[u])
          /\ pos[u] \in 0 .. Size
      BY <3>1 DEF InLoop, PositionOK, PositionOf, Active, TypeOK
    <3>3. c \in Span(req[u]) /\ c \in Bytes
      BY <3>1, <3>2, RequestType, SizeType DEF Span
    <3> QED
      BY <2>1, <2>2, <3>1, <3>2, <3>3 DEF ReadOf
  <2> QED
    BY <2>3, <2>4
<1>9. CopyOf(t)' /\ ReadOf(t)'
  BY <1>1, <1>3 DEF CopyOf, ReadOf, Changes
<1> QED
  BY <1>4, <1>5, <1>6, <1>7, <1>8, <1>9, LocalInvariants DEF CopyOK

LEMMA FallocateOK ==
  ASSUME VInv, NEW t \in Threads, Fallocate(t)
  PROVE  VInv'
<1> USE DEF VInv
<1>1. /\ pc[t] = "fallocate" /\ Backend = "file" /\ ~Disciplined
      /\ UNCHANGED <<mirror, holds>> /\ Frame(t) /\ PositionOf(t)
      /\ req[t] \in Requests /\ req[t].op = "trim" /\ holds[t] = {}
  <2>1. /\ pc[t] = "fallocate" /\ Backend = "file" /\ Frame(t) /\ PositionOf(t)
        /\ req[t] \in Requests /\ req[t].op = "trim" /\ holds[t] = {}
    BY StepFrame DEF Fallocate, Step, PositionOK, PositionOf, Active, LocksHeld, LocksOf
  <2>2. ~Disciplined
    BY <2>1 DEF Disciplined, LocksFor
  <2> QED
    BY <2>1, <2>2 DEF Fallocate
<1>2. store' \in [Bytes -> Values] /\ clean' \in BOOLEAN
  BY VolumeZeroAssumption DEF Fallocate, TypeOK
<1>3. Exclusion'
  BY <1>1, ExclusionKept
<1>4. CASE Return(t)
  <2>1. pc'[t] = "idle" /\ next'[t] = 0
    BY <1>4 DEF Return, TypeOK
  <2>2. TypeOK'
    BY <1>1, <1>2, <1>4, ReturnType DEF TypeOK
  <2>3. LocksOf(t)' /\ PositionOf(t)'
    BY <1>1, <2>1 DEF LocksOf, PositionOf, InLoop, Active
  <2> QED
    BY <1>1, <1>3, <2>2, <2>3, LocalInvariants
<1>5. CASE /\ pc' = [pc EXCEPT ![t] = "mirror"] /\ NumMirrors > 0
           /\ UNCHANGED <<req, pos, copy, next, err>>
  <2>1. pc'[t] = "mirror" /\ next[t] = 0
    BY <1>1, <1>5 DEF TypeOK, PositionOf
  <2>2. TypeOK'
    BY <1>1, <1>2, <1>5 DEF TypeOK
  <2>3. LocksOf(t)' /\ PositionOf(t)'
    BY <1>1, <1>5, <2>1 DEF LocksOf, PositionOf, InLoop, Active, Changes
  <2> QED
    BY <1>1, <1>3, <2>2, <2>3, LocalInvariants
<1> QED
  BY <1>4, <1>5 DEF Fallocate

LEMMA NextVInv ==
  ASSUME VInv, [Next]_vars
  PROVE  VInv'
<1>1. ASSUME NEW t \in Threads, Begin(t)
      PROVE  VInv'
  BY <1>1, BeginOK
<1>2. ASSUME NEW t \in Threads, Step(t)
      PROVE  VInv'
  BY <1>2, LockOK, GetBlockOK, ReadModifyOK, BreakOK, PutBlockOK, UnlockOK, FallocateOK,
     MirrorOK DEF Step
<1>3. CASE UNCHANGED vars
  <2>1. /\ store' = store /\ mirror' = mirror /\ clean' = clean /\ holds' = holds
        /\ pc' = pc /\ req' = req /\ pos' = pos /\ copy' = copy /\ next' = next
        /\ err' = err
    BY <1>3 DEF vars, tvars
  <2>2. TypeOK' /\ LocksHeld' /\ Exclusion'
    BY <2>1 DEF VInv, TypeOK, LocksHeld, LocksOf, Exclusion, InLoop
  <2>3. PositionOK'
    BY <2>1 DEF VInv, PositionOK, PositionOf, InLoop, Active
  <2>4. Disciplined => CopyOK'
    BY <2>1 DEF VInv, CopyOK, CopyOf, ReadOf
  <2> QED
    BY <2>2, <2>3, <2>4 DEF VInv
<1> QED
  BY <1>1, <1>2, <1>3 DEF Next

(***************************************************************************)
(* The mirrors, as long as nothing has failed and no byte was changed by    *)
(* two at once.                                                            *)
(***************************************************************************)

Changing(t) == Active(t) /\ Changes(req[t])

\* no byte is in two requests that change it
OneChanger ==
  \A t, u \in Threads :
    t # u /\ Changing(t) /\ Changing(u) => Span(req[t]) \cap Span(req[u]) = {}

\* the bytes that the thread is done with are stored, and at the mirrors that
\* it has called
SentOf(t) ==
  /\ ~err[t]
  /\ Changing(t) =>
       \A c \in Span(req[t]) : c < pos[t] \/ pc[t] = "mirror" => store[c] = req[t].data
  /\ pc[t] = "unlock" => pos[t] = End(req[t])
  /\ pc[t] = "mirror" =>
       \A k \in 1 .. next[t] : \A c \in Span(req[t]) : mirror[k][c] = req[t].data

\* a byte that nobody changes is the same everywhere
SameElsewhere ==
  \A c \in Bytes : (\A t \in Threads : Changing(t) => c \notin Span(req[t])) =>
    \A k \in 1 .. NumMirrors : mirror[k][c] = store[c]

MirrorsOK == OneChanger /\ SameElsewhere /\ \A t \in Threads : SentOf(t)

\* and what was read of a block to change a part of it is what it contains
CopiesOK == \A t \in Threads : CopyOf(t)

MirrorInv == clean => MirrorsOK /\ CopiesOK

\* outside the bytes that t changes nothing happens
Keeps(t) ==
  \A c \in Bytes : ~Changing(t) \/ c \notin Span(req[t]) =>
    /\ store'[c] = store[c]
    /\ \A k \in 1 .. NumMirrors : mirror'[k][c] = mirror[k][c]

LEMMA OthersSent ==
  ASSUME VInv, MirrorsOK, NEW t \in Threads, Frame(t), Keeps(t), NEW u \in Threads \ {t}
  PROVE  SentOf(u)'
<1>1. /\ pc'[u] = pc[u] /\ req'[u] = req[u] /\ pos'[u] = pos[u] /\ next'[u] = next[u]
      /\ err'[u] = err[u] /\ (Changing(u)' <=> Changing(u)) /\ SentOf(u)
  BY DEF Frame, Changing, Active, Changes, MirrorsOK
<1>2. ASSUME Changing(u), NEW c \in Span(req[u])
      PROVE  /\ store'[c] = store[c]
             /\ \A k \in 1 .. NumMirrors : mirror'[k][c] = mirror[k][c]
  <2>1. c \in Bytes
    BY <1>2, RequestType DEF VInv, PositionOK, PositionOf, Changing
  <2>2. Changing(t) => c \notin Span(req[t])
    BY <1>2 DEF MirrorsOK, OneChanger
  <2> QED
    BY <2>1, <2>2 DEF Keeps
<1>3. 1 .. next[u] \subseteq 1 .. NumMirrors
  BY NumMirrorsAssumption DEF VInv, TypeOK
<1>4. pc[u] = "mirror" => Changing(u)
  BY DEF VInv, PositionOK, PositionOf, Changing, Active
<1>5. /\ Changing(u) => \A c \in Span(req[u]) : c < pos[u] \/ pc[u] = "mirror" =>
                                                 store'[c] = req[u].data
      /\ pc[u] = "mirror" => \A k \in 1 .. next[u] : \A c \in Span(req[u]) :
                               mirror'[k][c] = req[u].data
  BY <1>1, <1>2, <1>3, <1>4 DEF SentOf
<1> QED
  BY <1>1, <1>5 DEF SentOf, Span, End

\* a step of a request that is under way
LEMMA StepMirrors ==
  ASSUME VInv, MirrorsOK, NEW t \in Threads, Frame(t), Keeps(t), SentOf(t)',
         Changing(t)' => Changing(t) /\ req'[t] = req[t],
         Changing(t) /\ ~Changing(t)' =>
           \A c \in Span(req[t]) : \A k \in 1 .. NumMirrors : mirror'[k][c] = store'[c]
  PROVE  MirrorsOK'
<1>1. \A u \in Threads : SentOf(u)'
  BY OthersSent
<1>2. /\ \A u \in Threads : Changing(u)' => Changing(u) /\ req'[u] = req[u]
      /\ \A u \in Threads \ {t} : Changing(u) => Changing(u)' /\ req'[u] = req[u]
  BY DEF Frame, Changing, Active, Changes
<1>3. OneChanger'
  <2>1. SUFFICES ASSUME NEW x \in Threads, NEW y \in Threads, x # y, Changing(x)', Changing(y)'
                 PROVE  Span(req'[x]) \cap Span(req'[y]) = {}
    BY DEF OneChanger, Span, End
  <2> QED
    BY <1>2, <2>1 DEF MirrorsOK, OneChanger
<1>4. SameElsewhere'
  <2>1. SUFFICES ASSUME NEW c \in Bytes,
                        \A x \in Threads : Changing(x)' => c \notin Span(req'[x]),
                        NEW k \in 1 .. NumMirrors
                 PROVE  mirror'[k][c] = store'[c]
    BY DEF SameElsewhere, Span, End
  <2>2. \A x \in Threads \ {t} : Changing(x) => c \notin Span(req[x])
    BY <1>2, <2>1
  <2>3. CASE Changing(t) /\ c \in Span(req[t])
    <3>1. ~Changing(t)'
      BY <2>1, <2>3
    <3> QED
      BY <2>3, <3>1
  <2>4. CASE ~Changing(t) \/ c \notin Span(req[t])
    <3>1. mirror[k][c] = store[c]
      BY <2>2, <2>4 DEF MirrorsOK, SameElsewhere
    <3> QED
      BY <2>4, <3>1 DEF Keeps
  <2> QED
    BY <2>3, <2>4
<1> QED
  BY <1>1, <1>3, <1>4 DEF MirrorsOK

\* a step that touches neither the bytes nor the request
LEMMA QuietMirrors ==
  ASSUME VInv, MirrorsOK, NEW t \in Threads, Frame(t), UNCHANGED <<store, mirror, err>>,
         req'[t] = req[t], Active(t), Active(t)',
         pc[t] # "mirror", pc'[t] # "mirror",
         pos'[t] = pos[t] \/ ~Changes(req[t]),
         pc'[t] = "unlock" => pos'[t] = End(req[t])
  PROVE  MirrorsOK'
<1>1. Keeps(t)
  BY DEF Keeps
<1>2. Changing(t)' <=> Changing(t)
  BY DEF Changing, Changes
<1>3. SentOf(t)'
  BY <1>2 DEF MirrorsOK, SentOf, Changing, Span, End
<1> QED
  BY <1>1, <1>2, <1>3, StepMirrors

LEMMA InitMirrors == Init => MirrorsOK
<1> SUFFICES ASSUME Init PROVE MirrorsOK
  OBVIOUS
<1>1. \A t \in Threads : pc[t] = "idle" /\ ~err[t] /\ ~Changing(t)
  BY DEF Init, Changing, Active
<1>2. SameElsewhere
  BY DEF Init, SameElsewhere
<1> QED
  BY <1>1, <1>2 DEF MirrorsOK, OneChanger, SentOf

LEMMA BeginMirrors ==
  ASSUME VInv, MirrorsOK, NEW t \in Threads, Begin(t), clean'
  PROVE  MirrorsOK'
<1>1. PICK r \in Requests :
        /\ ~Active(t)
        /\ pc' = [pc EXCEPT ![t] = IF LocksFor(r) THEN "lock" ELSE "fallocate"]
        /\ req' = [req EXCEPT ![t] = r]
        /\ pos' = [pos EXCEPT ![t] = r.offset]
        /\ ~Collides(r)
        /\ UNCHANGED <<store, mirror, err>>
  BY DEF Begin
<1>2. /\ Frame(t) /\ pc'[t] \in {"lock", "fallocate"} /\ req'[t] = r /\ pos'[t] = r.offset
      /\ ~err[t]
  BY <1>1, StepFrame DEF VInv, TypeOK, MirrorsOK, SentOf
<1>3. ~Changing(t) /\ Keeps(t)
  BY <1>1 DEF Changing, Keeps
<1>4. SentOf(t)'
  <2>1. \A c \in Span(r) : ~(c < r.offset)
    BY RequestType DEF Span
  <2> QED
    BY <1>1, <1>2, <2>1 DEF SentOf, Span, End
<1>5. \A u \in Threads : SentOf(u)'
  BY <1>2, <1>3, <1>4, OthersSent
<1>6. \A u \in Threads \ {t} : (Changing(u)' <=> Changing(u)) /\ req'[u] = req[u]
  BY <1>2 DEF Frame, Changing, Active, Changes
<1>7. OneChanger'
  <2>1. SUFFICES ASSUME NEW x \in Threads, NEW y \in Threads, x # y, Changing(x)', Changing(y)'
                 PROVE  Span(req'[x]) \cap Span(req'[y]) = {}
    BY DEF OneChanger, Span, End
  <2>2. ASSUME NEW u \in Threads \ {t}, Changing(u), Changes(r)
        PROVE  Span(r) \cap Span(req[u]) = {}
    BY <1>1, <2>2 DEF Collides, Changing
  <2>3. Changing(t)' => Changes(r)
    BY <1>2 DEF Changing, Changes
  <2>4. CASE x # t /\ y # t
    BY <1>6, <2>1, <2>4 DEF MirrorsOK, OneChanger
  <2>5. CASE x = t
    BY <1>2, <1>6, <2>1, <2>2, <2>3, <2>5
  <2>6. CASE y = t
    BY <1>2, <1>6, <2>1, <2>2, <2>3, <2>6
  <2> QED
    BY <2>4, <2>5, <2>6
<1>8. SameElsewhere'
  <2>1. SUFFICES ASSUME NEW c \in Bytes,
                        \A x \in Threads : Changing(x)' => c \notin Span(req'[x]),
                        NEW k \in 1 .. NumMirrors
                 PROVE  mirror'[k][c] = store'[c]
    BY DEF SameElsewhere, Span, End
  <2>2. \A x \in Threads : Changing(x) => c \notin Span(req[x])
    BY <1>3, <1>6, <2>1
  <2> QED
    BY <1>1, <2>2 DEF MirrorsOK, SameElsewhere
<1> QED
  BY <1>5, <1>7, <1>8 DEF MirrorsOK

\* Lock, GetBlock and ReadModify
LEMMA LoopMirrors ==
  ASSUME VInv, MirrorsOK, NEW t \in Threads, Lock(t) \/ GetBlock(t) \/ ReadModify(t)
  PROVE  MirrorsOK'
<1>1. /\ Frame(t) /\ Active(t) /\ pc[t] # "mirror"
      /\ UNCHANGED <<store, mirror, err, req>>
  BY StepFrame DEF Lock, GetBlock, ReadModify, Active, Step, VInv
<1>2. CASE Lock(t) \/ ReadModify(t)
  <2>1. pc'[t] \in {"lock", "work", "modified"} /\ pos' = pos
    BY <1>2 DEF Lock, ReadModify, VInv, TypeOK
  <2> QED
    BY <1>1, <2>1, QuietMirrors DEF Active
<1>3. CASE GetBlock(t)
  <2>1. InLoop(t) /\ pos[t] \in Span(req[t]) /\ Advance(t) /\ ~Changes(req[t])
    BY <1>3 DEF GetBlock, VInv, PositionOK, PositionOf, InLoop, Changes
  <2>2. pc'[t] \in {"work", "unlock"} /\ (pc'[t] = "unlock" => pos'[t] = End(req[t]))
    BY <1>1, <2>1, AdvanceOK
  <2> QED
    BY <1>1, <2>1, <2>2, QuietMirrors DEF Active
<1> QED
  BY <1>2, <1>3

LEMMA PutBlockMirrors ==
  ASSUME VInv, MirrorsOK, NEW t \in Threads, CopyOf(t), PutBlock(t)
  PROVE  MirrorsOK'
<1>1. /\ Frame(t) /\ Changing(t) /\ InLoop(t) /\ pos[t] \in Span(req[t]) /\ Advance(t)
      /\ UNCHANGED <<mirror, err, req>> /\ req[t] \in Requests
  BY StepFrame DEF PutBlock, Changing, Active, Step, VInv, PositionOK, PositionOf, InLoop
<1>2. /\ pos'[t] = ChunkEnd(t) /\ pc'[t] \in {"work", "unlock"}
      /\ pc'[t] = "unlock" => pos'[t] = End(req[t])
  BY <1>1, AdvanceOK
<1>3. \A c \in Bytes : store'[c] # store[c] =>
                         c \in Span(req[t]) /\ store'[c] = req[t].data
  BY PutBlockEffect
<1>4. Keeps(t)
  BY <1>1, <1>3 DEF Keeps
<1>5. ASSUME NEW c \in Span(req[t]), c < ChunkEnd(t)
      PROVE  store'[c] = req[t].data
  <2>1. c \in Bytes /\ c \in Nat /\ pos[t] \in Nat /\ ChunkEnd(t) \in Nat
    BY <1>1, RequestType, ChunkOK DEF Bytes
  <2>2. CASE c < pos[t]
    BY <1>1, <1>3, <2>1, <2>2 DEF MirrorsOK, SentOf
  <2>3. CASE ~(c < pos[t])
    <3>1. c \in Chunk(t)
      BY <1>5, <2>1, <2>3 DEF Chunk, Part, ChunkEnd
    <3> QED
      BY <2>1, <3>1 DEF PutBlock
  <2> QED
    BY <2>2, <2>3
<1>6. SentOf(t)'
  BY <1>1, <1>2, <1>5 DEF MirrorsOK, SentOf, Span, End
<1>7. Changing(t)'
  BY <1>1, <1>2 DEF Changing, Active, Changes
<1> QED
  BY <1>1, <1>4, <1>6, <1>7, StepMirrors

\* a call that changes nothing more, or has no mirror to call
LEMMA ReturnMirrors ==
  ASSUME VInv, MirrorsOK, NEW t \in Threads, Frame(t), Keeps(t), Return(t),
         Changing(t) =>
           \A c \in Span(req[t]) : \A k \in 1 .. NumMirrors : mirror'[k][c] = store'[c]
  PROVE  MirrorsOK'
<1>1. pc'[t] = "idle" /\ ~err'[t] /\ ~Changing(t)'
  BY DEF Return, VInv, TypeOK, Changing, Active
<1>2. SentOf(t)'
  BY <1>1 DEF SentOf
<1> QED
  BY <1>1, <1>2, StepMirrors

\* the request goes on to the mirrors
LEMMA ToMirrors ==
  ASSUME VInv, MirrorsOK, NEW t \in Threads, Frame(t), Keeps(t), Changing(t),
         pc' = [pc EXCEPT ![t] = "mirror"], UNCHANGED <<req, pos, copy, next, err>>,
         next[t] = 0,
         \A c \in Span(req[t]) : store'[c] = req[t].data
  PROVE  MirrorsOK'
<1>1. pc'[t] = "mirror" /\ Changing(t)'
  BY DEF VInv, TypeOK, Changing, Active, Changes
<1>2. 1 .. next'[t] = {}
  OBVIOUS
<1>3. SentOf(t)'
  BY <1>1, <1>2 DEF MirrorsOK, SentOf, Span, End
<1> QED
  BY <1>1, <1>3, StepMirrors

LEMMA UnlockMirrors ==
  ASSUME VInv, MirrorsOK, NEW t \in Threads, Unlock(t)
  PROVE  MirrorsOK'
<1>1. /\ pc[t] = "unlock" /\ Frame(t) /\ UNCHANGED <<store, mirror>>
      /\ ~err[t] /\ next[t] = 0 /\ pos[t] = End(req[t]) /\ req[t] \in Requests
  BY StepFrame DEF Unlock, Step, VInv, PositionOK, PositionOf, Active, MirrorsOK, SentOf
<1>2. Keeps(t)
  BY <1>1 DEF Keeps
<1>3. CASE Mirrored(t)
  <2>1. Changing(t)
    BY <1>1, <1>3 DEF Mirrored, Changing, Active
  <2>2. \A c \in Span(req[t]) : c < pos[t]
    BY <1>1, RequestType DEF Span
  <2>3. \A c \in Span(req[t]) : store'[c] = req[t].data
    BY <1>1, <2>1, <2>2 DEF MirrorsOK, SentOf
  <2>4. pc' = [pc EXCEPT ![t] = "mirror"] /\ UNCHANGED <<req, pos, copy, next, err>>
    BY <1>3 DEF Unlock
  <2> QED
    BY <1>1, <1>2, <2>1, <2>3, <2>4, ToMirrors
<1>4. CASE ~Mirrored(t)
  <2>1. ~Changes(req[t]) \/ 1 .. NumMirrors = {}
    BY <1>1, <1>4, NumMirrorsAssumption DEF Mirrored
  <2>2. Return(t)
    BY <1>4 DEF Unlock
  <2> QED
    BY <1>1, <1>2, <2>1, <2>2, ReturnMirrors DEF Changing
<1> QED
  BY <1>3, <1>4

LEMMA FallocateMirrors ==
  ASSUME VInv, MirrorsOK, NEW t \in Threads, Fallocate(t), clean'
  PROVE  MirrorsOK'
<1>1. /\ pc[t] = "fallocate" /\ Frame(t) /\ UNCHANGED mirror
      /\ store' = [c \in Bytes |-> IF c \in Span(req[t]) THEN Zero ELSE store[c]]
      /\ next[t] = 0 /\ req[t] \in Requests /\ req[t].op = "trim" /\ Changing(t)
  BY StepFrame DEF Fallocate, Step, VInv, PositionOK, PositionOf, Active, Changing, Changes
<1>2. Span(req[t]) \subseteq Bytes /\ req[t].data = Zero
  BY <1>1, RequestType DEF AllRequests
<1>3. \A c \in Span(req[t]) : store'[c] = req[t].data
  BY <1>1, <1>2
<1>4. Keeps(t)
  BY <1>1 DEF Keeps
<1>5. CASE NumMirrors > 0
  BY <1>1, <1>3, <1>4, <1>5, ToMirrors DEF Fallocate
<1>6. CASE ~(NumMirrors > 0)
  <2>1. 1 .. NumMirrors = {}
    BY <1>6, NumMirrorsAssumption
  <2> QED
    BY <1>1, <1>4, <1>6, <2>1, ReturnMirrors DEF Fallocate
<1> QED
  BY <1>5, <1>6

LEMMA MirrorMirrors ==
  ASSUME VInv, MirrorsOK, NEW t \in Threads, Mirror(t)
  PROVE  MirrorsOK'
<1> DEFINE n == next[t] + 1
<1>1. /\ pc[t] = "mirror" /\ Frame(t) /\ UNCHANGED store
      /\ next[t] \in 0 .. NumMirrors /\ next[t] < NumMirrors /\ req[t] \in Requests
      /\ Changing(t) /\ SentOf(t)
  BY StepFrame DEF Mirror, Step, VInv, TypeOK, PositionOK, PositionOf, Active, Changing,
     MirrorsOK
<1>2. n \in 1 .. NumMirrors
  BY <1>1, NumMirrorsAssumption
<1>3. Span(req[t]) \subseteq Bytes
  BY <1>1, RequestType
<1>4. \A k \in 1 .. NumMirrors : mirror'[k] = IF k = n THEN Sent(t) ELSE mirror[k]
  BY DEF Mirror, VInv, TypeOK
<1>5. \A c \in Bytes : Sent(t)[c] = IF c \in Span(req[t]) THEN req[t].data ELSE mirror[n][c]
  BY DEF Sent
<1>6. ASSUME NEW k \in 1 .. NumMirrors, NEW c \in Bytes
      PROVE  mirror'[k][c] = IF k = n /\ c \in Span(req[t]) THEN req[t].data
                                                            ELSE mirror[k][c]
  BY <1>4, <1>5
<1> HIDE DEF n
<1>7. Keeps(t)
  BY <1>1, <1>6 DEF Keeps
<1>8. \A c \in Span(req[t]) : store'[c] = req[t].data
  BY <1>1 DEF SentOf
<1>9. \A k \in 1 .. n : k \in 1 .. NumMirrors /\ (k # n => k \in 1 .. next[t])
  <2>1. next[t] \in Nat /\ NumMirrors \in Nat /\ n = next[t] + 1 /\ n <= NumMirrors
    BY <1>1, <1>2, NumMirrorsAssumption DEF n
  <2> QED
    BY <2>1
<1>10. ASSUME NEW k \in 1 .. n, NEW c \in Span(req[t])
       PROVE  mirror'[k][c] = req[t].data
  <2>1. k # n => mirror[k][c] = req[t].data
    BY <1>1, <1>9 DEF SentOf
  <2> QED
    BY <1>3, <1>6, <1>9, <2>1
<1>11. CASE n = NumMirrors
  <2>1. Return(t)
    BY <1>11 DEF Mirror, NextMirror, n
  <2>2. \A c \in Span(req[t]) : \A k \in 1 .. NumMirrors : mirror'[k][c] = store'[c]
    BY <1>8, <1>10, <1>11
  <2> QED
    BY <1>1, <1>7, <2>1, <2>2, ReturnMirrors
<1>12. CASE n # NumMirrors
  <2>1. next' = [next EXCEPT ![t] = n] /\ UNCHANGED <<pc, req, pos, copy, err>>
    BY <1>12 DEF Mirror, NextMirror, n
  <2>2. next'[t] = n
    BY <2>1 DEF VInv, TypeOK
  <2>3. Changing(t)'
    BY <1>1, <2>1 DEF Changing, Active, Changes
  <2>4. SentOf(t)'
    BY <1>1, <1>8, <1>10, <2>1, <2>2 DEF SentOf, Span, End
  <2> QED
    BY <1>1, <1>7, <2>1, <2>3, <2>4, StepMirrors
<1> QED
  BY <1>11, <1>12

LEMMA NextMirrors ==
  ASSUME VInv, MirrorInv, [Next]_vars
  PROVE  clean' => MirrorsOK'
<1> SUFFICES ASSUME clean' PROVE MirrorsOK'
  OBVIOUS
<1>1. CASE UNCHANGED vars
  <2>1. /\ store' = store /\ mirror' = mirror /\ clean' = clean /\ pc' = pc /\ req' = req
        /\ pos' = pos /\ next' = next /\ err' = err
    BY <1>1 DEF vars, tvars
  <2>2. \A u \in Threads : (Changing(u)' <=> Changing(u)) /\ (SentOf(u) => SentOf(u)')
    BY <2>1 DEF Changing, Active, Changes, SentOf, Span, End
  <2>3. OneChanger' /\ SameElsewhere'
    BY <2>1 DEF MirrorsOK, OneChanger, SameElsewhere, Changing, Active, Changes, MirrorInv
  <2> QED
    BY <2>1, <2>2, <2>3 DEF MirrorsOK, MirrorInv
<1>2. ASSUME NEW t \in Threads, Begin(t)
      PROVE  MirrorsOK'
  BY <1>2, BeginMirrors DEF Begin, MirrorInv
<1>3. ASSUME NEW t \in Threads, Step(t)
      PROVE  MirrorsOK'
  <2>1. clean /\ ~GetBlockError(t) /\ ~PutBlockError(t) /\ ~MirrorError(t)
    BY <1>3 DEF Step, Lock, GetBlock, GetBlockError, ReadModify, PutBlock, PutBlockError,
       Break, Unlock, Fallocate, Mirror, MirrorError
  <2> QED
    BY <1>3, <2>1, LoopMirrors, PutBlockMirrors, UnlockMirrors, FallocateMirrors,
       MirrorMirrors DEF Step, MirrorInv, CopiesOK
<1> QED
  BY <1>1, <1>2, <1>3 DEF Next

\* what the others do to the bytes around a part: puts are locked out, and a
\* trim without locks would change bytes of the part too
LEMMA BlockKept ==
  ASSUME TrimsWhole, VInv, OneChanger, CopiesOK, NEW t \in Threads, Step(t),
         NEW u \in Threads \ {t}, pc[u] = "modified",
         NEW c \in Bytes, Block(c) = Block(pos[u])
  PROVE  store'[c] = store[c]
<1>1. /\ InLoop(u) /\ Changing(u) /\ pos[u] \in Span(req[u]) /\ req[u] \in Requests
  BY DEF VInv, PositionOK, PositionOf, InLoop, Active, Changing
<1>2. CASE PutBlock(t)
  <2>1. SUFFICES ASSUME store'[c] # store[c] PROVE FALSE
    OBVIOUS
  <2>2. /\ InLoop(t) /\ Changes(req[t]) /\ pos[t] \in Span(req[t])
        /\ Block(pos[t]) = Block(pos[u])
    BY <1>2, <2>1, PutBlockEffect DEF CopiesOK
  <2> QED
    BY <1>1, <2>2, SharedBlock DEF TrimsWhole
<1>3. CASE Fallocate(t)
  <2>1. SUFFICES ASSUME c \in Span(req[t]) PROVE FALSE
    BY <1>3 DEF Fallocate
  <2>2. /\ req[t] \in Requests /\ ~LocksFor(req[t]) /\ Changing(t)
    BY <1>3 DEF Fallocate, VInv, PositionOK, PositionOf, Active, LocksFor, Changing, Changes
  <2>3. BlockBytes(Block(c)) \subseteq Span(req[t])
    BY <2>1, <2>2 DEF TrimsWhole, Whole
  <2>4. pos[u] \in Nat /\ Block(c) \in Nat
    BY <1>1, RequestType, BlockBounds DEF Bytes
  <2>5. pos[u] \in BlockBytes(Block(c))
    BY <2>4, BlockBytesIff
  <2> QED
    BY <1>1, <2>2, <2>3, <2>5 DEF OneChanger
<1>4. CASE ~PutBlock(t) /\ ~Fallocate(t)
  BY <1>4 DEF Step, Lock, GetBlock, GetBlockError, ReadModify, PutBlockError, Break,
     Unlock, Mirror, MirrorError
<1> QED
  BY <1>2, <1>3, <1>4

LEMMA NextCopies ==
  ASSUME TrimsWhole, VInv, MirrorInv, [Next]_vars, clean'
  PROVE  CopiesOK'
<1>1. clean /\ OneChanger /\ CopiesOK
  <2>1. clean
    BY DEF Next, vars, Begin, Step, Lock, GetBlock, GetBlockError, ReadModify, PutBlock,
       PutBlockError, Break, Unlock, Fallocate, Mirror, MirrorError
  <2> QED
    BY <2>1 DEF MirrorInv, MirrorsOK
<1>2. SUFFICES ASSUME NEW u \in Threads, pc'[u] = "modified",
                      NEW c \in Bytes, Block(c) = Block(pos'[u])
               PROVE  copy'[u][c] = store'[c]
  BY DEF CopiesOK, CopyOf, Block
<1>3. CASE UNCHANGED vars
  BY <1>1, <1>2, <1>3 DEF vars, tvars, CopiesOK, CopyOf
<1>4. ASSUME NEW t \in Threads, Begin(t) \/ Step(t)
      PROVE  copy'[u][c] = store'[c]
  <2>1. TypeOK /\ Frame(t)
    BY <1>4, StepFrame DEF VInv
  <2>2. CASE u = t
    <3>1. ReadModify(t)
      BY <1>2, <1>4, <2>1, <2>2 DEF TypeOK, Begin, Step, Lock, GetBlock, GetBlockError,
         PutBlock, PutBlockError, Break, Advance, Unlock, Return, Fallocate, Mirror,
         MirrorError, NextMirror
    <3> QED
      BY <2>1, <2>2, <3>1 DEF ReadModify, TypeOK
  <2>3. CASE u # t
    <3>1. pc[u] = "modified" /\ Block(c) = Block(pos[u]) /\ copy'[u] = copy[u]
      BY <1>2, <2>1, <2>3 DEF Frame
    <3>2. copy[u][c] = store[c]
      BY <1>1, <3>1 DEF CopiesOK, CopyOf
    <3>3. store'[c] = store[c]
      BY <1>1, <1>4, <2>3, <3>1, BlockKept DEF Begin
    <3> QED
      BY <3>1, <3>2, <3>3
  <2> QED
    BY <2>2, <2>3
<1> QED
  BY <1>3, <1>4 DEF Next

(***************************************************************************)
(* The order in which locks are taken.                                     *)
(***************************************************************************)

\* the locks that a thread has are below those that it still needs
InOrder ==
  \A t \in Threads : pc[t] = "lock" =>
    \A h \in holds[t] : \A l \in NrsToLocks(req[t]) \ holds[t] : h < l

\* nothing keeps the thread from its next step: Lock is the only one that waits
CanGoOn(t) == Active(t) /\ (pc[t] = "lock" => Available(t, NextLock(t)))

SomeoneGoesOn == (\E t \in Threads : Active(t)) => \E t \in Threads : CanGoOn(t)

\* the next lock is the lowest that is missing
LEMMA NextLockLowest ==
  ASSUME VInv, NEW t \in Threads, pc[t] = "lock"
  PROVE  /\ NextLock(t) \in NrsToLocks(req[t]) \ holds[t] /\ NextLock(t) \in Locks
         /\ \A l \in NrsToLocks(req[t]) \ holds[t] : l \in Nat /\ NextLock(t) <= l
<1> DEFINE S == NrsToLocks(req[t]) \ holds[t]
<1>1. req[t] \in Requests
  BY DEF VInv, PositionOK, PositionOf, Active
<1>2. S # {} /\ S \subseteq Locks
  BY <1>1, NrsToLocksType DEF VInv, LocksHeld, LocksOf
<1>3. S \subseteq Nat
  BY <1>2 DEF Locks
<1>4. Min(S) \in S /\ \A l \in S : Min(S) <= l
  <2> HIDE DEF S
  <2> QED
    BY <1>2, <1>3, MinOfSet
<1> QED
  BY <1>2, <1>3, <1>4 DEF NextLock

LEMMA LockInOrder ==
  ASSUME VInv, InOrder, NEW t \in Threads, Begin(t) \/ Step(t)
  PROVE  InOrder'
<1>0. TypeOK /\ Frame(t)
  BY StepFrame DEF VInv
<1>1. SUFFICES ASSUME NEW u \in Threads, pc'[u] = "lock", NEW h \in holds'[u],
                      NEW l \in NrsToLocks(req'[u]) \ holds'[u]
               PROVE  h < l
  BY DEF InOrder, NrsToLocks, Locked, Span, End, Block
<1>2. CASE u # t
  BY <1>0, <1>1, <1>2 DEF Frame, InOrder
<1>3. CASE u = t /\ Lock(t)
  <2>1. /\ pc[t] = "lock" /\ req' = req
        /\ holds'[t] = holds[t] \cup {NextLock(t)}
    BY <1>0, <1>3 DEF Lock, TypeOK
  <2>2. l \in NrsToLocks(req[t]) \ holds[t] /\ l # NextLock(t)
    BY <1>1, <1>3, <2>1
  <2>3. NextLock(t) <= l /\ l \in Nat /\ NextLock(t) \in Nat
    BY <2>1, <2>2, NextLockLowest DEF Locks
  <2>4. CASE h = NextLock(t)
    BY <2>2, <2>3, <2>4
  <2>5. CASE h \in holds[t]
    BY <2>1, <2>2, <2>5 DEF InOrder
  <2> QED
    BY <1>1, <1>3, <2>1, <2>4, <2>5
<1>4. CASE u = t /\ ~Lock(t)
  <2>1. pc[t] = "idle" /\ holds' = holds
    BY <1>0, <1>1, <1>4 DEF Begin, Step, TypeOK, Active, GetBlock, Advance, GetBlockError,
       Break, ReadModify, PutBlock, PutBlockError, Unlock, Return, Fallocate, Mirror,
       MirrorError, NextMirror
  <2> QED
    BY <1>1, <1>4, <2>1 DEF VInv, LocksHeld, LocksOf
<1> QED
  BY <1>2, <1>3, <1>4

\* of the waiting threads the one with the highest next lock has to wait for
\* none: who holds that lock would wait for a higher one
LEMMA OrderNoCircle ==
  ASSUME VInv, InOrder
  PROVE  SomeoneGoesOn
<1> SUFFICES ASSUME NEW a \in Threads, Active(a), \A t \in Threads : ~CanGoOn(t)
             PROVE  FALSE
  BY DEF SomeoneGoesOn
<1>1. \A t \in Threads : Active(t) => pc[t] = "lock" /\ ~Available(t, NextLock(t))
  BY DEF CanGoOn
<1>2. \A t \in Threads : Active(t) =>
        NextLock(t) \in Nat /\ NumLocks - NextLock(t) \in Nat
  BY <1>1, NextLockLowest, NumLocksAssumption DEF Locks
<1> DEFINE S == {NumLocks - NextLock(t) : t \in {x \in Threads : Active(x)}}
<1>3. S \subseteq Nat /\ S # {}
  BY <1>2
<1>4. Min(S) \in S /\ \A y \in S : Min(S) <= y
  <2> HIDE DEF S
  <2> QED
    BY <1>3, MinOfSet
<1>5. PICK t \in Threads : Active(t) /\ Min(S) = NumLocks - NextLock(t)
  BY <1>4
<1>6. PICK u \in Threads \ {t} : NextLock(t) \in holds[u]
  BY <1>1, <1>5 DEF Available
<1>7. Active(u)
  BY <1>6 DEF VInv, LocksHeld, LocksOf, Active
<1>8. NextLock(t) < NextLock(u)
  BY <1>1, <1>6, <1>7, NextLockLowest DEF InOrder
<1>9. NumLocks - NextLock(t) <= NumLocks - NextLock(u)
  BY <1>4, <1>5, <1>7
<1> QED
  BY <1>2, <1>5, <1>7, <1>8, <1>9, NumLocksAssumption

(***************************************************************************)
(* The theorems.                                                           *)
(***************************************************************************)

\* Every variable has a value of its type: no thread asks for a lock that the
\* group does not have, no work_offset leaves the backend - for both backends
\* and for every range of bytes.
THEOREM VolumeTypeCorrect == Spec => []TypeOK
<1>1. VInv /\ [Next]_vars => VInv'
  BY NextVInv
<1>2. VInv => TypeOK
  BY DEF VInv
<1> QED
  BY <1>1, <1>2, InitVInv, PTL DEF Spec

\* A get_data returns what all its blocks contained at one moment, whatever
\* the other threads write, for every number of threads, blocks and locks.
THEOREM ReadsAreOneMoment == ASSUME Disciplined PROVE Spec => []ReadsOneMoment
<1>1. VInv /\ [Next]_vars => VInv'
  BY NextVInv
<1>2. VInv => ReadsOneMoment
  BY DEF VInv, CopyOK, ReadOf, ReadsOneMoment
<1> QED
  BY <1>1, <1>2, InitVInv, PTL DEF Spec

\* a step changes bytes of the request it serves, to what the request says
LEMMA OnlyRequestedStep ==
  ASSUME Disciplined, VInv, [Next]_vars, NEW c \in Bytes, store'[c] # store[c]
  PROVE  \E t \in Threads : Serves(t, c) /\ store'[c] = req[t].data
<1>1. PICK t \in Threads : Begin(t) \/ Step(t)
  BY DEF Next, vars
<1>2. PutBlock(t)
  <2>1. ~Fallocate(t)
    BY DEF Fallocate, VInv, PositionOK, PositionOf, Active, Disciplined, LocksFor
  <2> QED
    BY <1>1, <2>1 DEF Step, Begin, Lock, GetBlock, GetBlockError, ReadModify,
       PutBlockError, Break, Unlock, Mirror, MirrorError
<1>3. /\ InLoop(t) /\ Changes(req[t]) /\ c \in Span(req[t])
      /\ store'[c] = req[t].data
  BY <1>2, PutBlockEffect DEF VInv, CopyOK
<1> QED
  BY <1>3 DEF Serves, InLoop, Active

\* No update is lost: whatever the interleaving, a byte only changes to what a
\* request for it says; the read-modify-write of a block does not bring back
\* old values of the bytes around.
THEOREM NoLostUpdate == ASSUME Disciplined PROVE Spec => OnlyRequestedBytesChange
<1>1. VInv /\ [Next]_vars => VInv'
  BY NextVInv
<1>2. VInv /\ [Next]_vars =>
        [\A c \in Bytes : store'[c] # store[c] =>
            \E t \in Threads : Serves(t, c) /\ store'[c] = req[t].data]_vars
  BY OnlyRequestedStep
<1> QED
  BY <1>1, <1>2, InitVInv, PTL DEF Spec, OnlyRequestedBytesChange

\* When nothing is under way, nothing has failed and no byte was changed by two
\* at once, every mirror has the content of the backend, although the mirrors
\* are written after the locks are gone: for every number of mirrors, with a
\* backend that locks, and with one that trims without a lock (file) if the
\* trims are of whole blocks.
THEOREM MirrorsFollow == ASSUME TrimsWhole PROVE Spec => []MirrorsAgree
<1>1. VInv /\ MirrorInv /\ [Next]_vars => VInv' /\ MirrorInv'
  BY NextVInv, NextMirrors, NextCopies DEF MirrorInv
<1>2. Init => VInv /\ MirrorInv
  <2>1. Init => CopiesOK
    BY DEF Init, CopiesOK, CopyOf
  <2> QED
    BY <2>1, InitVInv, InitMirrors DEF MirrorInv
<1>3. VInv /\ MirrorInv => MirrorsAgree
  <2>1. SUFFICES ASSUME VInv, MirrorsOK, \A t \in Threads : ~Active(t),
                        NEW k \in 1 .. NumMirrors
                 PROVE  mirror[k] = store
    BY DEF MirrorInv, MirrorsAgree
  <2>2. \A c \in Bytes : mirror[k][c] = store[c]
    BY <2>1 DEF MirrorsOK, SameElsewhere, Changing
  <2>3. mirror[k] \in [Bytes -> Values] /\ store \in [Bytes -> Values]
    BY <2>1 DEF VInv, TypeOK
  <2> QED
    BY <2>2, <2>3
<1> QED
  BY <1>1, <1>2, <1>3, PTL DEF Spec

\* The locks cause no deadlock: while a request is under way there is a thread
\* that need not wait for a lock of another, or of its own, whatever blocks share
\* a lock.  This is the part of NoCircularWait that does not need ENABLED; all
\* steps but Lock are possible where the thread is.
THEOREM LocksInOrder == Spec => []SomeoneGoesOn
<1>1. VInv /\ InOrder /\ [Next]_vars => VInv' /\ InOrder'
  <2>1. SUFFICES ASSUME VInv, InOrder, [Next]_vars PROVE VInv' /\ InOrder'
    OBVIOUS
  <2>2. CASE UNCHANGED vars
    <3>1. InOrder'
      BY <2>1, <2>2 DEF vars, tvars, InOrder, NrsToLocks, Locked, Span, End, Block
    <3> QED
      BY <2>1, <3>1, NextVInv
  <2> QED
    BY <2>1, <2>2, NextVInv, LockInOrder DEF Next
<1>2. Init => VInv /\ InOrder
  BY InitVInv DEF Init, InOrder
<1> QED
  BY <1>1, <1>2, OrderNoCircle, PTL DEF Spec

(***************************************************************************)
(* Volume is an atomic volume, where trims take their locks.               *)
(***************************************************************************)

\* the bytes that a call under way has changed so far
Written(t) ==
  IF Working(t) /\ Changes(req[t]) THEN req[t].offset .. pos[t] - 1 ELSE {}

WrittenOK == \A t \in Threads : \A c \in Written(t) : store[c] = req[t].data

\* all others are as the finished calls left them
SettledOK ==
  \A c \in Bytes : (\A t \in Threads : c \notin Written(t)) => mem[c] = store[c]

\* no call, no request; and an error ends the loop
CallOf(t) ==
  /\ pc[t] = "idle" => req[t] = NoRequest
  /\ err[t] => HasAnswer(t)

LInv ==
  /\ VInv
  /\ \A t \in Threads : CallOf(t)
  /\ mem \in [Bytes -> Values]
  /\ WrittenOK /\ SettledOK

LEMMA WrittenInSpan ==
  ASSUME VInv, NEW t \in Threads
  PROVE  /\ Written(t) \subseteq Span(req[t])
         /\ Working(t) => /\ InLoop(t) /\ Active(t) /\ req[t] \in Requests
                          /\ pos[t] \in Span(req[t]) /\ Span(req[t]) \subseteq Bytes
                          /\ req[t].offset \in Nat /\ pos[t] \in Nat /\ End(req[t]) \in Nat
<1>1. CASE Working(t)
  <2>1. /\ InLoop(t) /\ Active(t) /\ req[t] \in Requests /\ pos[t] \in Span(req[t])
    BY <1>1 DEF Working, InLoop, Active, VInv, PositionOK, PositionOf
  <2>2. /\ req[t].offset \in Nat /\ End(req[t]) \in Nat /\ Span(req[t]) \subseteq Bytes
    BY <2>1, RequestType
  <2>3. req[t].offset .. pos[t] - 1 \subseteq Span(req[t]) /\ pos[t] \in Nat
    BY <2>1, <2>2 DEF Span
  <2> QED
    BY <2>1, <2>2, <2>3 DEF Written
<1>2. CASE ~Working(t)
  BY <1>2 DEF Written
<1> QED
  BY <1>1, <1>2

\* what one call in its loop looks at or changes no other call has changed
LEMMA WrittenAlone ==
  ASSUME Disciplined, VInv, NEW t \in Threads, InLoop(t), NEW u \in Threads, u # t,
         NEW c \in Span(req[t])
  PROVE  c \notin Written(u)
<1> SUFFICES ASSUME c \in Written(u) PROVE FALSE
  OBVIOUS
<1>1. Working(u) /\ Changes(req[u]) /\ c \in Span(req[u])
  BY WrittenInSpan DEF Written
<1>2. InLoop(u)
  BY <1>1 DEF Working, InLoop
<1> QED
  BY <1>1, <1>2, SharedBlock, DisciplinedCovers

LEMMA UnwrittenIsMem ==
  ASSUME Disciplined, LInv, NEW t \in Threads, InLoop(t), NEW c \in Span(req[t]),
         c \in Bytes, c \notin Written(t)
  PROVE  mem[c] = store[c]
BY WrittenAlone DEF LInv, SettledOK

\* only the thread that makes a step can end its loop in it
LEMMA WhoSettles ==
  ASSUME NEW t \in Threads, Frame(t), LNext, NEW c \in Bytes
  PROVE  mem'[c] = IF Settles(t, c) THEN store'[c] ELSE mem[c]
<1>1. ASSUME NEW u \in Threads, u # t
      PROVE  ~Settles(u, c)
  BY <1>1 DEF Settles, Working, Frame
<1>2. (\E u \in Threads : Settles(u, c)) <=> Settles(t, c)
  BY <1>1
<1> QED
  BY <1>2 DEF LNext

LEMMA OthersWritten ==
  ASSUME NEW t \in Threads, Frame(t), NEW u \in Threads \ {t}
  PROVE  Written(u)' = Written(u) /\ req'[u] = req[u]
BY DEF Frame, Written, Working, Changes

\* a step that changes no byte, and no call's part
LEMMA QuietLInv ==
  ASSUME LInv, NEW t \in Threads, Frame(t), LNext, UNCHANGED store,
         \A c \in Bytes : ~Settles(t, c), Written(t)' = Written(t),
         Written(t) # {} => req'[t] = req[t]
  PROVE  mem' = mem /\ WrittenOK' /\ SettledOK'
<1>1. \A c \in Bytes : mem'[c] = mem[c]
  BY WhoSettles
<1>2. mem' = mem
  <2>1. mem' = [c \in Bytes |-> IF \E u \in Threads : Settles(u, c) THEN store'[c] ELSE mem[c]]
    BY DEF LNext
  <2>2. mem \in [Bytes -> Values]
    BY DEF LInv
  <2> QED
    BY <1>1, <2>1, <2>2
<1>3. \A u \in Threads : Written(u)' = Written(u) /\ (Written(u) # {} => req'[u] = req[u])
  BY OthersWritten
<1>4. WrittenOK'
  BY <1>3 DEF LInv, WrittenOK
<1>5. SettledOK'
  BY <1>2, <1>3 DEF LInv, SettledOK
<1> QED
  BY <1>2, <1>4, <1>5

LEMMA MemType ==
  ASSUME LInv, TypeOK', LNext
  PROVE  mem' \in [Bytes -> Values]
<1>1. mem' = [c \in Bytes |-> IF \E u \in Threads : Settles(u, c) THEN store'[c] ELSE mem[c]]
  BY DEF LNext
<1>2. store' \in [Bytes -> Values] /\ mem \in [Bytes -> Values]
  BY DEF TypeOK, LInv
<1> QED
  BY <1>1, <1>2

\* the bytes after a PutBlock
LEMMA PutBlockBytes ==
  ASSUME Disciplined, VInv, NEW t \in Threads, PutBlock(t)
  PROVE  /\ Working(t) /\ Changes(req[t]) /\ Frame(t) /\ req' = req /\ err' = err
         /\ pos'[t] = ChunkEnd(t) /\ ChunkEnd(t) \in Nat /\ pos[t] < ChunkEnd(t)
         /\ ChunkEnd(t) <= End(req[t])
         /\ IF ChunkEnd(t) = End(req[t]) THEN pc'[t] = "unlock" ELSE pc'[t] = "work"
         /\ \A c \in Chunk(t) : store'[c] = req[t].data
         /\ \A c \in Bytes : c \notin Chunk(t) => store'[c] = store[c]
         /\ Chunk(t) \subseteq Span(req[t])
<1>1. /\ Working(t) /\ Changes(req[t]) /\ Advance(t) /\ UNCHANGED <<req, err>>
  BY DEF PutBlock, Working, VInv, PositionOK, PositionOf
<1>2. Frame(t)
  BY StepFrame DEF Step, VInv
<1>3. req[t] \in Requests /\ pos[t] \in Span(req[t])
  BY <1>1, WrittenInSpan
<1>4. /\ ChunkEnd(t) \in Nat /\ pos[t] < ChunkEnd(t) /\ ChunkEnd(t) <= End(req[t])
      /\ \A c \in Chunk(t) : c \in Span(req[t]) /\ c \in Bytes
  BY <1>3, ChunkOK
<1>5. /\ pos'[t] = ChunkEnd(t)
      /\ pc'[t] = IF ChunkEnd(t) = End(req[t]) THEN "unlock" ELSE "work"
  BY <1>1 DEF Advance, VInv, TypeOK
<1>6. \A c \in Bytes : c \notin Chunk(t) => store'[c] = store[c]
  BY PutBlockEffect DEF VInv, CopyOK
<1>7. \A c \in Chunk(t) : store'[c] = req[t].data
  BY <1>4 DEF PutBlock
<1> QED
  BY <1>1, <1>2, <1>4, <1>5, <1>6, <1>7

\* all the bytes before the end of the block are those of the request
LEMMA PutBlockWritten ==
  ASSUME Disciplined, LInv, NEW t \in Threads, PutBlock(t),
         NEW c \in Span(req[t]), c < ChunkEnd(t)
  PROVE  store'[c] = req[t].data
<1>1. /\ Working(t) /\ Changes(req[t]) /\ ChunkEnd(t) \in Nat
      /\ \A d \in Chunk(t) : store'[d] = req[t].data
      /\ \A d \in Bytes : d \notin Chunk(t) => store'[d] = store[d]
  BY PutBlockBytes DEF LInv
<1>2. /\ Span(req[t]) \subseteq Bytes /\ req[t].offset \in Nat /\ pos[t] \in Nat
      /\ End(req[t]) \in Nat
  BY <1>1, WrittenInSpan DEF LInv
<1>3. CASE c \in Chunk(t)
  BY <1>1, <1>3
<1>4. CASE c \notin Chunk(t)
  <2>1. c \in req[t].offset .. pos[t] - 1
    BY <1>1, <1>2, <1>4 DEF Span, Chunk, Part, ChunkEnd
  <2>2. store[c] = req[t].data
    BY <1>1, <2>1 DEF LInv, WrittenOK, Written
  <2> QED
    BY <1>1, <1>2, <1>4, <2>2
<1> QED
  BY <1>3, <1>4

\* a put goes to its next block
LEMMA PutBlockGoesOn ==
  ASSUME Disciplined, LInv, NEW t \in Threads, PutBlock(t), LNext, pc'[t] = "work"
  PROVE  mem' = mem /\ WrittenOK' /\ SettledOK'
<1>1. /\ Working(t) /\ Changes(req[t]) /\ Frame(t) /\ req' = req
      /\ pos'[t] = ChunkEnd(t) /\ ChunkEnd(t) \in Nat /\ pos[t] < ChunkEnd(t)
      /\ ChunkEnd(t) <= End(req[t])
      /\ \A d \in Bytes : d \notin Chunk(t) => store'[d] = store[d]
      /\ Chunk(t) \subseteq Span(req[t])
  BY PutBlockBytes DEF LInv
<1>2. /\ Span(req[t]) \subseteq Bytes /\ req[t].offset \in Nat /\ pos[t] \in Nat
      /\ End(req[t]) \in Nat /\ InLoop(t) /\ req[t].offset <= pos[t]
  BY <1>1, WrittenInSpan DEF LInv, Span
<1>3. mem' = mem
  <2>1. \A c \in Bytes : mem'[c] = mem[c]
    BY <1>1, WhoSettles DEF Settles
  <2>2. mem' = [c \in Bytes |-> IF \E u \in Threads : Settles(u, c) THEN store'[c] ELSE mem[c]]
    BY DEF LNext
  <2>3. mem \in [Bytes -> Values]
    BY DEF LInv
  <2> QED
    BY <2>1, <2>2, <2>3
<1>4. Written(t)' = req[t].offset .. ChunkEnd(t) - 1
  BY <1>1 DEF Written, Working, Changes
<1>5. Written(t) = req[t].offset .. pos[t] - 1
  BY <1>1 DEF Written
<1>6. \A c \in Written(t) : c \in Written(t)'
  BY <1>1, <1>2, <1>4, <1>5
<1>7. \A c \in Chunk(t) : c \in Written(t)'
  BY <1>1, <1>2, <1>4 DEF Chunk, Part, ChunkEnd
<1>8. \A c \in Written(t)' : c \in Span(req[t]) /\ c < ChunkEnd(t)
  BY <1>1, <1>2, <1>4 DEF Span
<1>9. WrittenOK'
  <2>1. SUFFICES ASSUME NEW u \in Threads, NEW c \in Written(u)'
                 PROVE  store'[c] = req'[u].data
    BY DEF WrittenOK
  <2>2. CASE u = t
    BY <1>1, <1>8, <2>1, <2>2, PutBlockWritten
  <2>3. CASE u # t
    <3>1. c \in Written(u) /\ store[c] = req[u].data
      BY <1>1, <2>1, <2>3, OthersWritten DEF LInv, WrittenOK
    <3>2. c \notin Chunk(t)
      BY <1>1, <1>2, <2>3, <3>1, WrittenAlone DEF LInv
    <3>3. c \in Bytes
      <4>1. Working(u)
        BY <3>1 DEF Written
      <4> QED
        BY <3>1, <4>1, WrittenInSpan DEF LInv
    <3> QED
      BY <1>1, <3>1, <3>2, <3>3
  <2> QED
    BY <2>2, <2>3
<1>10. SettledOK'
  <2>1. SUFFICES ASSUME NEW c \in Bytes, \A u \in Threads : c \notin Written(u)'
                 PROVE  mem'[c] = store'[c]
    BY DEF SettledOK
  <2>2. c \notin Chunk(t) /\ c \notin Written(t)
    BY <1>6, <1>7, <2>1
  <2>3. \A u \in Threads : c \notin Written(u)
    BY <1>1, <2>1, <2>2, OthersWritten
  <2> QED
    BY <1>1, <1>3, <2>2, <2>3 DEF LInv, SettledOK
<1> QED
  BY <1>3, <1>9, <1>10

\* the loop of a call ends: what it has changed is settled
LEMMA LoopEnds ==
  ASSUME Disciplined, LInv, NEW t \in Threads, Working(t), Frame(t), LNext,
         req' = req, pc'[t] = "unlock",
         \A c \in Bytes : c \notin Span(req[t]) \/ ~Changes(req[t]) => store'[c] = store[c]
  PROVE  WrittenOK' /\ SettledOK'
<1>1. Written(t)' = {}
  BY DEF Written, Working
<1>2. InLoop(t) /\ (Written(t) # {} => Changes(req[t]))
  BY DEF Working, InLoop, Written
<1>3. WrittenOK'
  <2>1. SUFFICES ASSUME NEW u \in Threads, u # t, NEW c \in Written(u)'
                 PROVE  store'[c] = req'[u].data
    BY <1>1 DEF WrittenOK
  <2>2. c \in Written(u) /\ store[c] = req[u].data
    BY <2>1, OthersWritten DEF LInv, WrittenOK
  <2>3. c \notin Span(req[t])
    BY <1>2, <2>1, <2>2, WrittenAlone DEF LInv
  <2>4. c \in Bytes
    <3>1. Working(u)
      BY <2>2 DEF Written
    <3> QED
      BY <2>2, <3>1, WrittenInSpan DEF LInv
  <2> QED
    BY <2>2, <2>3, <2>4
<1>4. SettledOK'
  <2>1. SUFFICES ASSUME NEW c \in Bytes, \A u \in Threads : c \notin Written(u)'
                 PROVE  mem'[c] = store'[c]
    BY DEF SettledOK
  <2>2. CASE Settles(t, c)
    BY <2>2, WhoSettles
  <2>3. CASE ~Settles(t, c)
    <3>1. mem'[c] = mem[c]
      BY <2>3, WhoSettles
    <3>2. c \notin Span(req[t]) \/ ~Changes(req[t])
      BY <2>3 DEF Settles
    <3>3. c \notin Written(t)
      BY <1>2, <3>2, WrittenInSpan DEF LInv
    <3>4. \A u \in Threads : c \notin Written(u)
      BY <2>1, <3>3, OthersWritten
    <3> QED
      BY <3>1, <3>2, <3>4 DEF LInv, SettledOK
  <2> QED
    BY <2>2, <2>3
<1> QED
  BY <1>3, <1>4

(* The steps of the volume are steps of the atomic one.                     *)

LEMMA AtomicNames ==
  /\ Atomic!Bytes = Bytes
  /\ \A r \in Requests : Atomic!Span(r) = Span(r)
  /\ \A t : Atomic!UnderWay(t) <=> req[t] # NoRequest /\ Answers[t] = Atomic!NoAnswer
<1>1. Atomic!Bytes = Bytes
  BY DEF Atomic!Bytes, Bytes
<1>2. ASSUME NEW r \in Requests
      PROVE  Atomic!Span(r) = Span(r)
  <2>1. r.offset \in Nat /\ r.size \in Nat
    BY RequestType, SizeType
  <2> QED
    BY <2>1 DEF Atomic!Span, Span, End
<1>3. \A t : Atomic!UnderWay(t) <=> req[t] # NoRequest /\ Answers[t] = Atomic!NoAnswer
  BY DEF Atomic!UnderWay
<1> QED
  BY <1>1, <1>2, <1>3

LEMMA AnswersStep ==
  ASSUME NEW t \in Threads, Frame(t)
  PROVE  Answers' = [Answers EXCEPT ![t] = Answer(t)']
<1>1. ASSUME NEW u \in Threads, u # t
      PROVE  Answer(u)' = Answer(u)
  <2>1. pc'[u] = pc[u] /\ req'[u] = req[u] /\ copy'[u] = copy[u] /\ err'[u] = err[u]
    BY <1>1 DEF Frame
  <2>2. Outcome(u)' = Outcome(u)
    BY <2>1 DEF Outcome, HasAnswer
  <2>3. DataRead(u)' = DataRead(u)
    BY <2>1, <2>2 DEF DataRead, Span, End
  <2> QED
    BY <2>2, <2>3 DEF Answer
<1> QED
  BY <1>1 DEF Answers

LEMMA NoAnswerYet ==
  ASSUME NEW t \in Threads, ~HasAnswer(t)
  PROVE  Answers[t] = Atomic!NoAnswer
<1>1. DataRead(t) = [c \in Bytes |-> Zero] /\ Outcome(t) = "none"
  BY DEF DataRead, Outcome
<1> QED
  BY <1>1, AtomicNames DEF Answers, Answer, Atomic!NoAnswer, Atomic!Blank

LEMMA NoAnswerThen ==
  ASSUME NEW t \in Threads, ~HasAnswer(t)'
  PROVE  Answer(t)' = Atomic!NoAnswer
<1>1. DataRead(t)' = [c \in Bytes |-> Zero] /\ Outcome(t)' = "none"
  BY DEF DataRead, Outcome
<1> QED
  BY <1>1, AtomicNames DEF Answer, Atomic!NoAnswer, Atomic!Blank

LEMMA HasAnswerNow ==
  ASSUME NEW t \in Threads, HasAnswer(t)
  PROVE  Answers[t] # Atomic!NoAnswer
<1>1. Answers[t].outcome # "none"
  BY DEF Answers, Answer, Outcome
<1> QED
  BY <1>1 DEF Atomic!NoAnswer

LEMMA FailedThen ==
  ASSUME NEW t \in Threads, HasAnswer(t)', err'[t]
  PROVE  Answer(t)' = Atomic!Failed
<1>1. Outcome(t)' = "failed"
  BY DEF Outcome
<1>2. DataRead(t)' = [c \in Bytes |-> Zero]
  BY <1>1 DEF DataRead
<1> QED
  BY <1>1, <1>2, AtomicNames DEF Answer, Atomic!Failed, Atomic!Blank

LEMMA PutThen ==
  ASSUME NEW t \in Threads, HasAnswer(t)', ~err'[t], Changes(req'[t])
  PROVE  Answer(t)' = Atomic!Success(Atomic!Blank)
<1>1. Outcome(t)' = "success"
  BY DEF Outcome
<1>2. DataRead(t)' = [c \in Bytes |-> Zero]
  BY DEF DataRead, Changes
<1> QED
  BY <1>1, <1>2, AtomicNames DEF Answer, Atomic!Success, Atomic!Blank

\* a step that gives no call an answer and takes none away
LEMMA AtomicStutters ==
  ASSUME NEW t \in Threads, Frame(t), req' = req, mem' = mem,
         Answer(t)' = Answer(t)
  PROVE  UNCHANGED Atomic!vars
<1>1. Answers' = [Answers EXCEPT ![t] = Answers[t]]
  BY AnswersStep DEF Answers
<1>2. Answers' = Answers
  BY <1>1 DEF Answers
<1> QED
  BY <1>2 DEF Atomic!vars

LEMMA BeginAtomic ==
  ASSUME LInv, VInv', LNext, NEW t \in Threads, Begin(t)
  PROVE  CallOf(t)' /\ WrittenOK' /\ SettledOK' /\ Atomic!Invoke(t)
<1>0. PICK r \in Requests :
        /\ ~Active(t)
        /\ pc' = [pc EXCEPT ![t] = IF LocksFor(r) THEN "lock" ELSE "fallocate"]
        /\ req' = [req EXCEPT ![t] = r] /\ UNCHANGED <<store, err>>
  BY DEF Begin
<1>1. /\ pc[t] = "idle" /\ pc'[t] \in {"lock", "fallocate"}
      /\ req' = [req EXCEPT ![t] = r] /\ UNCHANGED <<store, err>>
  BY <1>0 DEF Active, LInv, VInv, TypeOK
<1>2. Frame(t) /\ CallOf(t)
  BY StepFrame DEF LInv, VInv
<1>3. mem' = mem /\ WrittenOK' /\ SettledOK'
  BY <1>1, <1>2, QuietLInv DEF Settles, Working, Written
<1>4. CallOf(t)' /\ req[t] = NoRequest
  BY <1>1, <1>2 DEF CallOf, HasAnswer
<1>5. ~HasAnswer(t) /\ ~HasAnswer(t)'
  BY <1>1 DEF HasAnswer
<1>6. Answers' = Answers
  <2>1. Answers[t] = Atomic!NoAnswer /\ Answer(t)' = Atomic!NoAnswer
    BY <1>5, NoAnswerYet, NoAnswerThen
  <2>2. Answers' = [Answers EXCEPT ![t] = Answers[t]]
    BY <1>2, <2>1, AnswersStep
  <2> QED
    BY <2>2 DEF Answers
<1>7. Atomic!Invoke(t)
  BY <1>1, <1>3, <1>4, <1>6 DEF Atomic!Invoke
<1> QED
  BY <1>3, <1>4, <1>7

LEMMA LockAtomic ==
  ASSUME LInv, VInv', LNext, NEW t \in Threads, Lock(t)
  PROVE  CallOf(t)' /\ WrittenOK' /\ SettledOK' /\ UNCHANGED Atomic!vars
<1>1. /\ pc[t] = "lock" /\ pc'[t] \in {"lock", "work"}
      /\ UNCHANGED <<store, req, pos, copy, err>>
  BY DEF Lock, LInv, VInv, TypeOK
<1>2. Frame(t) /\ CallOf(t)
  BY StepFrame DEF LInv, VInv, Step
<1>3. /\ Active(t) /\ req[t] \in Requests /\ pos[t] = req[t].offset
  BY <1>1 DEF LInv, VInv, PositionOK, PositionOf, Active
<1>4. req[t].offset .. pos[t] - 1 = {}
  BY <1>3, RequestType
<1>5. Written(t) = {} /\ Written(t)' = {}
  BY <1>1, <1>4 DEF Written, Working, Changes
<1>6. mem' = mem /\ WrittenOK' /\ SettledOK'
  BY <1>1, <1>2, <1>5, QuietLInv DEF Settles, Working
<1>7. CallOf(t)'
  BY <1>1, <1>2 DEF CallOf, HasAnswer
<1>8. Answer(t) = Atomic!NoAnswer /\ Answer(t)' = Atomic!NoAnswer
  BY <1>1, NoAnswerYet, NoAnswerThen DEF HasAnswer, Answers
<1> QED
  BY <1>1, <1>2, <1>6, <1>7, <1>8, AtomicStutters

LEMMA ReadModifyAtomic ==
  ASSUME LInv, VInv', LNext, NEW t \in Threads, ReadModify(t)
  PROVE  CallOf(t)' /\ WrittenOK' /\ SettledOK' /\ UNCHANGED Atomic!vars
<1>1. /\ pc[t] = "work" /\ pc'[t] = "modified"
      /\ UNCHANGED <<store, req, pos, err>>
  BY DEF ReadModify, LInv, VInv, TypeOK
<1>2. Frame(t) /\ CallOf(t)
  BY StepFrame DEF LInv, VInv, Step
<1>3. Written(t)' = Written(t)
  BY <1>1 DEF Written, Working, Changes
<1>4. mem' = mem /\ WrittenOK' /\ SettledOK'
  BY <1>1, <1>2, <1>3, QuietLInv DEF Settles
<1>5. CallOf(t)'
  BY <1>1, <1>2 DEF CallOf, HasAnswer
<1>6. Answer(t) = Atomic!NoAnswer /\ Answer(t)' = Atomic!NoAnswer
  BY <1>1, NoAnswerYet, NoAnswerThen DEF HasAnswer, Answers
<1> QED
  BY <1>1, <1>2, <1>4, <1>5, <1>6, AtomicStutters

\* what get_data has read is the volume at the end of its loop
LEMMA GetBlockAtomic ==
  ASSUME Disciplined, LInv, VInv', LNext, NEW t \in Threads, GetBlock(t)
  PROVE  /\ CallOf(t)' /\ WrittenOK' /\ SettledOK'
         /\ Atomic!Get(t) \/ UNCHANGED Atomic!vars
<1>1. /\ pc[t] = "work" /\ req[t].op = "get" /\ Advance(t)
      /\ UNCHANGED <<store, req, err>>
  BY DEF GetBlock
<1>2. Frame(t) /\ CallOf(t) /\ Working(t)
  BY <1>1, StepFrame DEF LInv, VInv, Step, Working
<1>3. /\ pos'[t] = ChunkEnd(t)
      /\ pc'[t] = IF ChunkEnd(t) = End(req[t]) THEN "unlock" ELSE "work"
  BY <1>1 DEF Advance, LInv, VInv, TypeOK
<1>4. Written(t) = {} /\ Written(t)' = {}
  BY <1>1 DEF Written, Changes
<1>5. mem' = mem /\ WrittenOK' /\ SettledOK'
  BY <1>1, <1>2, <1>4, QuietLInv DEF Settles, Changes
<1>6. CallOf(t)' /\ ~err'[t]
  BY <1>1, <1>2, <1>3 DEF CallOf, HasAnswer
<1>7. Answers[t] = Atomic!NoAnswer
  BY <1>1, NoAnswerYet DEF HasAnswer
<1>8. CASE pc'[t] = "work"
  <2>1. Answer(t) = Atomic!NoAnswer /\ Answer(t)' = Atomic!NoAnswer
    BY <1>7, <1>8, NoAnswerThen DEF HasAnswer, Answers
  <2> QED
    BY <1>1, <1>2, <1>5, <1>6, <2>1, AtomicStutters
<1>9. CASE pc'[t] = "unlock"
  <2>1. /\ req[t] \in Requests /\ InLoop(t) /\ Span(req[t]) \subseteq Bytes
        /\ req[t] # NoRequest
    BY <1>1, <1>2, WrittenInSpan DEF LInv, NoRequest
  <2>2. ASSUME NEW c \in Span(req[t])
        PROVE  copy'[t][c] = mem[c]
    <3>1. c \in req'[t].offset .. pos'[t] - 1
      BY <1>1, <1>3, <1>9, <2>2 DEF Span
    <3>2. copy'[t][c] = store'[c]
      BY <1>1, <1>9, <3>1 DEF VInv, CopyOK, ReadOf
    <3>3. mem[c] = store[c]
      BY <1>4, <2>1, <2>2, UnwrittenIsMem
    <3> QED
      BY <1>1, <3>2, <3>3
  <2>3. Outcome(t)' = "success"
    BY <1>6, <1>9 DEF Outcome, HasAnswer
  <2>4. DataRead(t)' = [c \in Bytes |-> IF c \in Span(req[t]) THEN mem[c] ELSE Zero]
    BY <1>1, <2>2, <2>3 DEF DataRead, Span, End
  <2>5. Answer(t)' = Atomic!Success(Atomic!Read(mem, req[t]))
    BY <2>1, <2>3, <2>4, AtomicNames DEF Answer, Atomic!Success, Atomic!Read
  <2>6. Answers' = [Answers EXCEPT ![t] = Atomic!Success(Atomic!Read(mem, req[t]))]
    BY <1>2, <2>5, AnswersStep
  <2>7. Atomic!UnderWay(t)
    BY <1>7, <2>1, AtomicNames
  <2> QED
    BY <1>1, <1>5, <1>6, <2>6, <2>7 DEF Atomic!Get
<1> QED
  BY <1>3, <1>8, <1>9

\* a put or trim takes effect when its last block is stored
LEMMA PutBlockAtomic ==
  ASSUME Disciplined, LInv, VInv', LNext, NEW t \in Threads, PutBlock(t)
  PROVE  /\ CallOf(t)' /\ WrittenOK' /\ SettledOK'
         /\ Atomic!Put(t) \/ UNCHANGED Atomic!vars
<1>1. /\ Working(t) /\ Changes(req[t]) /\ Frame(t) /\ req' = req /\ err' = err
      /\ ChunkEnd(t) \in Nat /\ ChunkEnd(t) <= End(req[t])
      /\ IF ChunkEnd(t) = End(req[t]) THEN pc'[t] = "unlock" ELSE pc'[t] = "work"
      /\ \A c \in Bytes : c \notin Chunk(t) => store'[c] = store[c]
      /\ Chunk(t) \subseteq Span(req[t])
  BY PutBlockBytes DEF LInv
<1>2. /\ InLoop(t) /\ req[t] \in Requests /\ Span(req[t]) \subseteq Bytes
      /\ req[t].offset \in Nat /\ End(req[t]) \in Nat
      /\ CallOf(t)
  BY <1>1, WrittenInSpan DEF LInv
<1>3. CallOf(t)' /\ ~err'[t]
  BY <1>1, <1>2 DEF CallOf, HasAnswer, Working
<1>4. Answers[t] = Atomic!NoAnswer
  BY <1>1, NoAnswerYet DEF HasAnswer, Working
<1>5. CASE pc'[t] = "work"
  <2>1. mem' = mem /\ WrittenOK' /\ SettledOK'
    BY <1>5, PutBlockGoesOn
  <2>2. Answer(t) = Atomic!NoAnswer /\ Answer(t)' = Atomic!NoAnswer
    BY <1>4, <1>5, NoAnswerThen DEF HasAnswer, Answers
  <2> QED
    BY <1>1, <1>3, <2>1, <2>2, AtomicStutters
<1>6. CASE pc'[t] = "unlock"
  <2>1. WrittenOK' /\ SettledOK'
    BY <1>1, <1>6, LoopEnds
  <2>2. ASSUME NEW c \in Bytes
        PROVE  mem'[c] = IF c \in Span(req[t]) THEN req[t].data ELSE mem[c]
    <3>1. CASE c \in Span(req[t])
      <4>1. c < ChunkEnd(t)
        BY <1>1, <1>2, <1>6, <3>1 DEF Span
      <4>2. store'[c] = req[t].data
        BY <3>1, <4>1, PutBlockWritten
      <4>3. Settles(t, c)
        BY <1>1, <1>6, <3>1 DEF Settles
      <4> QED
        BY <1>1, <3>1, <4>2, <4>3, WhoSettles
    <3>2. CASE c \notin Span(req[t])
      BY <1>1, <3>2, WhoSettles DEF Settles
    <3> QED
      BY <3>1, <3>2
  <2>3. mem' = [c \in Bytes |-> IF c \in Span(req[t]) THEN req[t].data ELSE mem[c]]
    <3>1. mem' = [c \in Bytes |-> IF \E u \in Threads : Settles(u, c) THEN store'[c] ELSE mem[c]]
      BY DEF LNext
    <3> QED
      BY <2>2, <3>1
  <2>4. Answers' = [Answers EXCEPT ![t] = Atomic!Success(Atomic!Blank)]
    BY <1>1, <1>3, <1>6, PutThen, AnswersStep DEF HasAnswer
  <2>5. req[t] # NoRequest /\ Atomic!UnderWay(t)
    <3>1. req[t].op # "none"
      BY <1>2, RequestsAssumption DEF AllRequests
    <3> QED
      BY <1>4, <3>1, AtomicNames DEF NoRequest
  <2>6. Atomic!Put(t)
    BY <1>1, <1>2, <2>3, <2>4, <2>5, AtomicNames DEF Atomic!Put, Changes
  <2> QED
    BY <1>3, <2>1, <2>6
<1> QED
  BY <1>1, <1>5, <1>6

\* a call that fails leaves what it has changed so far
LEMMA BreakAtomic ==
  ASSUME Disciplined, LInv, VInv', LNext, NEW t \in Threads,
         GetBlockError(t) \/ PutBlockError(t)
  PROVE  CallOf(t)' /\ WrittenOK' /\ SettledOK' /\ Atomic!Fail(t)
<1>1. /\ Working(t) /\ pc'[t] = "unlock" /\ err'[t]
      /\ UNCHANGED <<store, req, pos>>
  BY DEF GetBlockError, PutBlockError, Break, Working, LInv, VInv, TypeOK
<1>2. Frame(t) /\ CallOf(t)
  BY StepFrame DEF LInv, VInv, Step
<1>3. WrittenOK' /\ SettledOK'
  BY <1>1, <1>2, LoopEnds
<1>4. CallOf(t)'
  BY <1>1 DEF CallOf, HasAnswer
<1>5. /\ InLoop(t) /\ req[t] \in Requests /\ Span(req[t]) \subseteq Bytes
      /\ req[t].offset \in Nat /\ End(req[t]) \in Nat /\ pos[t] \in Span(req[t])
      /\ pos[t] \in Nat
  BY <1>1, WrittenInSpan DEF LInv
<1>6. ASSUME NEW c \in Bytes
      PROVE  mem'[c] = IF Changes(req[t]) /\ c \in Span(req[t]) /\ c < pos[t]
                         THEN req[t].data ELSE mem[c]
  <2>1. CASE Changes(req[t]) /\ c \in Span(req[t])
    <3>1. mem'[c] = store[c]
      BY <1>1, <1>2, <2>1, WhoSettles DEF Settles
    <3>2. c < pos[t] <=> c \in Written(t)
      BY <1>1, <1>5, <2>1 DEF Written, Span
    <3>3. CASE c < pos[t]
      BY <2>1, <3>1, <3>2, <3>3 DEF LInv, WrittenOK
    <3>4. CASE ~(c < pos[t])
      BY <1>5, <2>1, <3>1, <3>2, <3>4, UnwrittenIsMem
    <3> QED
      BY <3>3, <3>4
  <2>2. CASE ~(Changes(req[t]) /\ c \in Span(req[t]))
    BY <1>2, <2>2, WhoSettles DEF Settles
  <2> QED
    BY <2>1, <2>2
<1>7. mem' = [c \in Bytes |-> IF Changes(req[t]) /\ c \in Span(req[t]) /\ c < pos[t]
                                THEN req[t].data ELSE mem[c]]
  <2>1. mem' = [c \in Bytes |-> IF \E u \in Threads : Settles(u, c) THEN store'[c] ELSE mem[c]]
    BY DEF LNext
  <2> QED
    BY <1>6, <2>1
<1>8. Answers' = [Answers EXCEPT ![t] = Atomic!Failed]
  BY <1>1, <1>2, FailedThen, AnswersStep DEF HasAnswer
<1>9. req[t] # NoRequest /\ Atomic!UnderWay(t)
  <2>1. req[t].op # "none"
    BY <1>5, RequestsAssumption DEF AllRequests
  <2>2. Answers[t] = Atomic!NoAnswer
    BY <1>1, NoAnswerYet DEF HasAnswer, Working
  <2> QED
    BY <2>1, <2>2, AtomicNames DEF NoRequest
<1>10. Atomic!Fail(t)
  BY <1>1, <1>5, <1>7, <1>8, <1>9, AtomicNames DEF Atomic!Fail, Changes
<1> QED
  BY <1>3, <1>4, <1>10

LEMMA ReturnAtomic ==
  ASSUME LInv, VInv', LNext, NEW t \in Threads, Frame(t), HasAnswer(t), Return(t),
         UNCHANGED store
  PROVE  CallOf(t)' /\ WrittenOK' /\ SettledOK' /\ Atomic!Return(t)
<1>1. /\ pc'[t] = "idle" /\ ~err'[t] /\ req' = [req EXCEPT ![t] = NoRequest]
      /\ req'[t] = NoRequest
  BY DEF Return, LInv, VInv, TypeOK
<1>2. ~Working(t) /\ ~Working(t)'
  BY <1>1 DEF Working, HasAnswer
<1>3. mem' = mem /\ WrittenOK' /\ SettledOK'
  BY <1>1, <1>2, QuietLInv DEF Settles, Written
<1>4. CallOf(t)'
  BY <1>1 DEF CallOf
<1>5. Answers' = [Answers EXCEPT ![t] = Atomic!NoAnswer] /\ Answers[t] # Atomic!NoAnswer
  BY <1>1, AnswersStep, NoAnswerThen, HasAnswerNow DEF HasAnswer
<1> QED
  BY <1>1, <1>3, <1>4, <1>5 DEF Atomic!Return

\* the answer stays what it is while the mirrors are called
LEMMA WaitsAtomic ==
  ASSUME LInv, VInv', LNext, NEW t \in Threads, Frame(t), HasAnswer(t), HasAnswer(t)',
         UNCHANGED <<store, req, copy, err>>
  PROVE  CallOf(t)' /\ WrittenOK' /\ SettledOK' /\ UNCHANGED Atomic!vars
<1>1. ~Working(t) /\ ~Working(t)' /\ pc[t] # "idle" /\ pc'[t] # "idle"
  BY DEF Working, HasAnswer
<1>2. mem' = mem /\ WrittenOK' /\ SettledOK'
  BY <1>1, QuietLInv DEF Settles, Written
<1>3. CallOf(t)'
  BY <1>1 DEF CallOf
<1>4. Answer(t)' = Answer(t)
  <2>1. Outcome(t)' = Outcome(t)
    BY DEF Outcome
  <2>2. DataRead(t)' = DataRead(t)
    BY <2>1 DEF DataRead, Span, End
  <2> QED
    BY <2>1, <2>2 DEF Answer
<1> QED
  BY <1>2, <1>3, <1>4, AtomicStutters

LEMMA UnlockAtomic ==
  ASSUME LInv, VInv', LNext, NEW t \in Threads, Unlock(t) \/ Mirror(t) \/ MirrorError(t)
  PROVE  /\ CallOf(t)' /\ WrittenOK' /\ SettledOK'
         /\ Atomic!Return(t) \/ UNCHANGED Atomic!vars
<1>1. Frame(t)
  BY StepFrame DEF LInv, VInv, Step
<1>2. HasAnswer(t) /\ store' = store
  BY DEF HasAnswer, Unlock, Mirror, MirrorError
<1>3. CASE Return(t)
  BY <1>1, <1>2, <1>3, ReturnAtomic
<1>4. CASE ~Return(t)
  <2>1. /\ pc' = [pc EXCEPT ![t] = "mirror"] \/ (pc' = pc)
        /\ UNCHANGED <<req, copy, err>>
    BY <1>4 DEF Unlock, Mirror, MirrorError, NextMirror
  <2>2. HasAnswer(t)'
    BY <1>2, <2>1 DEF HasAnswer, LInv, VInv, TypeOK
  <2> QED
    BY <1>1, <1>2, <2>1, <2>2, WaitsAtomic
<1> QED
  BY <1>3, <1>4

LEMMA OthersCall ==
  ASSUME LInv, NEW t \in Threads, Frame(t), CallOf(t)'
  PROVE  \A u \in Threads : CallOf(u)'
BY DEF LInv, CallOf, Frame, HasAnswer

LEMMA AtomicStep ==
  ASSUME Disciplined, LInv, [LNext]_lvars
  PROVE  LInv' /\ [Atomic!Next]_Atomic!vars
<1>1. CASE UNCHANGED lvars
  <2>1. /\ store' = store /\ holds' = holds /\ pc' = pc /\ req' = req /\ pos' = pos
        /\ copy' = copy /\ next' = next /\ err' = err /\ mem' = mem
        /\ [Next]_vars
    BY <1>1 DEF lvars, vars, tvars
  <2>2. VInv'
    BY <2>1, NextVInv DEF LInv
  <2>3. \A u \in Threads : Written(u)' = Written(u) /\ CallOf(u)'
    BY <2>1 DEF Written, Working, Changes, LInv, CallOf, HasAnswer
  <2>4. WrittenOK' /\ SettledOK'
    BY <2>1, <2>3 DEF LInv, WrittenOK, SettledOK
  <2>5. \A u \in Threads : Answer(u)' = Answer(u)
    BY <2>1 DEF Answer, Outcome, DataRead, HasAnswer, Span, End
  <2>6. UNCHANGED Atomic!vars
    BY <2>1, <2>5 DEF Atomic!vars, Answers
  <2> QED
    BY <2>1, <2>2, <2>3, <2>4, <2>6 DEF LInv
<1>2. CASE LNext
  <2>1. VInv'
    BY <1>2, NextVInv DEF LInv, LNext
  <2>2. mem' \in [Bytes -> Values]
    BY <1>2, <2>1, MemType DEF VInv
  <2>3. PICK t \in Threads : Begin(t) \/ Step(t)
    BY <1>2 DEF LNext, Next
  <2>4. ~Fallocate(t)
    BY DEF Fallocate, LInv, VInv, PositionOK, PositionOf, Active, Disciplined, LocksFor
  <2>5. Frame(t)
    BY <2>3, StepFrame DEF LInv, VInv
  <2>6. /\ CallOf(t)' /\ WrittenOK' /\ SettledOK'
        /\ \/ Atomic!Invoke(t) \/ Atomic!Get(t) \/ Atomic!Put(t) \/ Atomic!Fail(t)
           \/ Atomic!Return(t) \/ UNCHANGED Atomic!vars
    BY <1>2, <2>1, <2>3, <2>4, BeginAtomic, LockAtomic, ReadModifyAtomic, GetBlockAtomic,
       PutBlockAtomic, BreakAtomic, UnlockAtomic DEF Step
  <2>7. \A u \in Threads : CallOf(u)'
    BY <2>5, <2>6, OthersCall
  <2>8. [Atomic!Next]_Atomic!vars
    BY <2>6 DEF Atomic!Next
  <2> QED
    BY <2>1, <2>2, <2>6, <2>7, <2>8 DEF LInv
<1> QED
  BY <1>1, <1>2

LEMMA AtomicInit == LInit => LInv /\ Atomic!Init
<1> SUFFICES ASSUME LInit PROVE LInv /\ Atomic!Init
  OBVIOUS
<1>1. VInv
  BY InitVInv DEF LInit
<1>2. /\ mem = [c \in Bytes |-> Zero] /\ store = mem
      /\ req = [t \in Threads |-> NoRequest]
      /\ \A t \in Threads : pc[t] = "idle" /\ ~err[t]
  BY DEF LInit, Init
<1>3. \A t \in Threads : CallOf(t) /\ Written(t) = {} /\ ~HasAnswer(t)
  BY <1>2 DEF CallOf, Written, Working, HasAnswer
<1>4. LInv
  BY <1>1, <1>2, <1>3, VolumeZeroAssumption DEF LInv, WrittenOK, SettledOK
<1>5. \A t \in Threads : Answer(t) = Atomic!NoAnswer
  BY <1>3, NoAnswerYet DEF Answers
<1>6. Answers = [t \in Threads |-> Atomic!NoAnswer]
  BY <1>5 DEF Answers
<1>7. Atomic!Init
  BY <1>2, <1>6, AtomicNames DEF Atomic!Init, Atomic!Blank
<1> QED
  BY <1>4, <1>7

\* Between the calls the backend has the bytes of the finished calls.
LEMMA CallsSettle ==
  ASSUME LInv
  PROVE  SettledIsStored
<1>1. SUFFICES ASSUME \A t \in Threads : ~Working(t) PROVE mem = store
  BY DEF SettledIsStored
<1>2. \A c \in Bytes : mem[c] = store[c]
  BY <1>1 DEF LInv, SettledOK, Written
<1>3. mem \in [Bytes -> Values] /\ store \in [Bytes -> Values]
  BY DEF LInv, VInv, TypeOK
<1> QED
  BY <1>2, <1>3

\* Calls are linearizable: for every number of threads, blocks, locks and
\* mirrors, and requests that lock all their blocks (of the file backend: gets
\* and puts), every get_data, put_data and trim_zero takes effect at one moment
\* while it is under way, whatever fails; a call that fails leaves a first part
\* of its range changed; and between the calls the backend has what they put.
THEOREM CallsAreAtomic == ASSUME Disciplined PROVE LSpec => Linearizable
<1>1. LInit => LInv /\ Atomic!Init
  BY AtomicInit
<1>2. LInv /\ [LNext]_lvars => LInv' /\ [Atomic!Next]_Atomic!vars
  BY AtomicStep
<1>3. LInv => SettledIsStored
  BY CallsSettle
<1> QED
  BY <1>1, <1>2, <1>3, PTL DEF LSpec, Linearizable, Atomic!Spec
=============================================================================
