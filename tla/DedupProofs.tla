---------------------------- MODULE DedupProofs -----------------------------
(* Theorems about Dedup, for every number of threads, blocks and contents. *)
EXTENDS Dedup, ByteRangesProofs, FiniteSetTheorems

(***************************************************************************)
(* Records that agree on a set S of blocks: counts and contents.           *)
(***************************************************************************)

UsersIn(S, d, h) == {x \in S : d.hash[x] = h}

ExactOn(S, d) == \A h \in Hashes : d.uses[h] = Cardinality(UsersIn(S, d, h))

FilledOn(S, d) ==
  \A x \in S : d.hash[x] # NoHash =>
                 /\ d.data[d.hash[x]] \in Contents
                 /\ Hash[d.data[d.hash[x]]] = d.hash[x]

\* after increase_use_count, before map_blocknr_to_hash: one use is not mapped
CountedOn(S, d, c) ==
  /\ \A h \in Hashes :
       d.uses[h] = Cardinality(UsersIn(S, d, h)) + (IF h = Hash[c] THEN 1 ELSE 0)
  /\ FilledOn(S, d)
  /\ d.data[Hash[c]] = c

LEMMA BlocksFinite ==
  /\ IsFiniteSet(Blocks) /\ Cardinality(Blocks) = NumBlocks
  /\ \A S \in SUBSET Blocks : IsFiniteSet(S) /\ Cardinality(S) \in 0 .. NumBlocks
<1>1. 0 \in Int /\ NumBlocks - 1 \in Int /\ NumBlocks \in Nat /\ ~(0 > NumBlocks - 1)
  BY VolumeSizeAssumption
<1>2. IsFiniteSet(0 .. NumBlocks - 1) /\ Cardinality(0 .. NumBlocks - 1) = NumBlocks
  BY <1>1, FS_Interval
<1>3. IsFiniteSet(Blocks) /\ Cardinality(Blocks) = NumBlocks
  BY <1>2 DEF Blocks
<1>4. ASSUME NEW S \in SUBSET Blocks
      PROVE  IsFiniteSet(S) /\ Cardinality(S) \in 0 .. NumBlocks
  <2>1. IsFiniteSet(S) /\ Cardinality(S) <= Cardinality(Blocks)
    BY <1>3, FS_Subset
  <2>2. Cardinality(S) \in Nat
    BY <2>1, FS_CardinalityType
  <2> QED
    BY <1>1, <1>3, <2>1, <2>2
<1> QED
  BY <1>3, <1>4

LEMMA UsersFinite ==
  ASSUME NEW S \in SUBSET Blocks, NEW d, NEW h
  PROVE  /\ IsFiniteSet(UsersIn(S, d, h))
         /\ Cardinality(UsersIn(S, d, h)) \in 0 .. NumBlocks
<1>1. UsersIn(S, d, h) \in SUBSET Blocks
  BY DEF UsersIn
<1> QED
  BY <1>1, BlocksFinite

\* one block more or less in the set
LEMMA UsersWithout ==
  ASSUME NEW d, NEW h, NEW b \in Blocks
  PROVE  Cardinality(UsersIn(Blocks, d, h)) =
           Cardinality(UsersIn(Blocks \ {b}, d, h)) + (IF d.hash[b] = h THEN 1 ELSE 0)
<1> DEFINE U == UsersIn(Blocks, d, h)
           W == UsersIn(Blocks \ {b}, d, h)
<1>1. IsFiniteSet(U) /\ IsFiniteSet(W) /\ Cardinality(U) \in Nat /\ Cardinality(W) \in Nat
  BY UsersFinite
<1>2. W = U \ {b} /\ (b \in U <=> d.hash[b] = h)
  BY DEF UsersIn
<1>3. Cardinality(U \ {b}) = IF b \in U THEN Cardinality(U) - 1 ELSE Cardinality(U)
  BY <1>1, FS_RemoveElement
<1> QED
  BY <1>1, <1>2, <1>3

LEMMA OthersFewer ==
  ASSUME NEW d, NEW h, NEW b \in Blocks
  PROVE  Cardinality(UsersIn(Blocks \ {b}, d, h)) <= NumBlocks - 1
<1> DEFINE W == UsersIn(Blocks \ {b}, d, h)
<1>1. Cardinality(Blocks \ {b}) = NumBlocks - 1 /\ IsFiniteSet(Blocks \ {b})
  BY BlocksFinite, FS_RemoveElement
<1>2. W \in SUBSET (Blocks \ {b})
  BY DEF UsersIn
<1>3. Cardinality(W) <= Cardinality(Blocks \ {b})
  BY <1>1, <1>2, FS_Subset
<1> QED
  BY <1>1, <1>3

LEMMA HashType ==
  ASSUME NEW c \in Contents
  PROVE  Hash[c] \in Hashes /\ Hash[c] # NoHash
BY NoHashAssumption DEF Hashes

\* decrease_use_count and the two deletions take block b out
LEMMA ReleasedOK ==
  ASSUME NEW d \in Records, NEW b \in Blocks, ExactOn(Blocks, d), FilledOn(Blocks, d),
         d.hash[b] # NoHash
  PROVE  /\ d.uses[d.hash[b]] > 0
         /\ Released(d, b) \in Records
         /\ ExactOn(Blocks \ {b}, Released(d, b))
         /\ FilledOn(Blocks \ {b}, Released(d, b))
<1> DEFINE g == d.hash[b]
           e == Released(d, b)
<1>1. /\ d.hash \in [Blocks -> Hashes \cup {NoHash}] /\ d.uses \in [Hashes -> 0 .. NumBlocks]
      /\ d.data \in [Hashes -> Contents \cup {NoData}] /\ g \in Hashes
  BY DEF Records
<1>2. \A h \in Hashes :
         /\ d.uses[h] \in 0 .. NumBlocks
         /\ Cardinality(UsersIn(Blocks \ {b}, d, h)) \in Nat
         /\ d.uses[h] = Cardinality(UsersIn(Blocks \ {b}, d, h)) + (IF g = h THEN 1 ELSE 0)
  BY <1>1, UsersWithout, UsersFinite DEF ExactOn
<1>3. d.uses[g] > 0 /\ d.uses[g] \in 1 .. NumBlocks
  BY <1>1, <1>2
<1>4. /\ e.hash = IF d.uses[g] = 1 THEN [d.hash EXCEPT ![b] = NoHash] ELSE d.hash
      /\ e.uses = [d.uses EXCEPT ![g] = @ - 1]
      /\ e.data = d.data
      /\ e = [hash |-> e.hash, uses |-> e.uses, data |-> e.data]
  BY <1>1 DEF Released
<1>5. e \in Records
  <2>1. e.hash \in [Blocks -> Hashes \cup {NoHash}]
    BY <1>1, <1>4
  <2>2. e.uses \in [Hashes -> 0 .. NumBlocks]
    BY <1>1, <1>3, <1>4, VolumeSizeAssumption
  <2> QED
    BY <1>1, <1>4, <2>1, <2>2 DEF Records
<1>6. \A x \in Blocks \ {b} : e.hash[x] = d.hash[x]
  BY <1>1, <1>4
<1>7. ASSUME NEW h \in Hashes
      PROVE  e.uses[h] = Cardinality(UsersIn(Blocks \ {b}, e, h))
  <2>1. UsersIn(Blocks \ {b}, e, h) = UsersIn(Blocks \ {b}, d, h)
    BY <1>6 DEF UsersIn
  <2>2. e.uses[h] = IF h = g THEN d.uses[h] - 1 ELSE d.uses[h]
    BY <1>1, <1>4
  <2>3. /\ d.uses[h] = Cardinality(UsersIn(Blocks \ {b}, d, h)) + (IF g = h THEN 1 ELSE 0)
        /\ Cardinality(UsersIn(Blocks \ {b}, d, h)) \in Nat
    BY <1>2
  <2> HIDE DEF e, g
  <2> QED
    BY <2>1, <2>2, <2>3
<1>8. FilledOn(Blocks \ {b}, e)
  BY <1>4, <1>6 DEF FilledOn
<1> QED
  BY <1>3, <1>5, <1>7, <1>8 DEF ExactOn

\* increase_use_count, or set_use_count and the content
LEMMA ClaimedOK ==
  ASSUME NEW d \in Records, NEW b \in Blocks, NEW c \in Contents,
         ExactOn(Blocks \ {b}, d), FilledOn(Blocks \ {b}, d)
  PROVE  Claimed(d, c) \in Records /\ CountedOn(Blocks \ {b}, Claimed(d, c), c)
<1> DEFINE g == Hash[c]
           S == Blocks \ {b}
           e == Claimed(d, c)
<1>1. /\ d.hash \in [Blocks -> Hashes \cup {NoHash}] /\ d.uses \in [Hashes -> 0 .. NumBlocks]
      /\ d.data \in [Hashes -> Contents \cup {NoData}] /\ g \in Hashes
  BY HashType DEF Records
<1>2. \A h \in Hashes :
         /\ d.uses[h] = Cardinality(UsersIn(S, d, h))
         /\ d.uses[h] \in Nat /\ d.uses[h] <= NumBlocks - 1
  BY <1>1, OthersFewer DEF ExactOn
<1>3. /\ e.hash = d.hash
      /\ e.uses = [d.uses EXCEPT ![g] = @ + 1]
      /\ e.data = IF d.uses[g] > 0 THEN d.data ELSE [d.data EXCEPT ![g] = c]
      /\ e = [hash |-> e.hash, uses |-> e.uses, data |-> e.data]
  <2>1. d.uses[g] > 0 \/ d.uses[g] = 0
    BY <1>1, <1>2
  <2> QED
    BY <2>1, <1>1 DEF Claimed
<1>4. e \in Records
  <2>1. e.uses \in [Hashes -> 0 .. NumBlocks]
    BY <1>1, <1>2, <1>3, VolumeSizeAssumption
  <2>2. e.data \in [Hashes -> Contents \cup {NoData}]
    BY <1>1, <1>3
  <2> QED
    BY <1>1, <1>3, <2>1, <2>2 DEF Records
<1>5. \A h \in Hashes : UsersIn(S, e, h) = UsersIn(S, d, h)
  BY <1>3 DEF UsersIn
<1>6. \A h \in Hashes :
         e.uses[h] = Cardinality(UsersIn(S, e, h)) + (IF h = g THEN 1 ELSE 0)
  BY <1>1, <1>2, <1>3, <1>5
<1>7. d.uses[g] > 0 => d.data[g] = c
  <2>1. SUFFICES ASSUME d.uses[g] > 0 PROVE d.data[g] = c
    OBVIOUS
  <2>2. UsersIn(S, d, g) # {}
    <3> HIDE DEF g, S
    <3>1. Cardinality(UsersIn(S, d, g)) # 0
      BY <1>1, <1>2, <2>1
    <3> QED
      BY <3>1, FS_EmptySet
  <2>3. PICK x \in S : d.hash[x] = g
    BY <2>2 DEF UsersIn
  <2>4. d.data[g] \in Contents /\ Hash[d.data[g]] = g
    BY <2>3, HashType DEF FilledOn
  <2> QED
    BY <2>4, HashAssumption
<1>8. e.data[g] = c
  BY <1>1, <1>3, <1>7
<1>9. FilledOn(S, e)
  <2>1. SUFFICES ASSUME NEW x \in S, d.hash[x] # NoHash
                 PROVE  e.data[d.hash[x]] \in Contents /\ Hash[e.data[d.hash[x]]] = d.hash[x]
    BY <1>3 DEF FilledOn
  <2>2. CASE d.hash[x] = g
    BY <2>2, <1>8
  <2>3. CASE d.hash[x] # g
    BY <2>1, <2>3, <1>1, <1>3 DEF FilledOn
  <2> QED
    BY <2>2, <2>3
<1> QED
  BY <1>4, <1>6, <1>8, <1>9 DEF CountedOn

\* map_blocknr_to_hash
LEMMA MappedOK ==
  ASSUME NEW d \in Records, NEW b \in Blocks, NEW c \in Contents,
         CountedOn(Blocks \ {b}, d, c)
  PROVE  /\ Mapped(d, b, c) \in Records
         /\ ExactOn(Blocks, Mapped(d, b, c)) /\ FilledOn(Blocks, Mapped(d, b, c))
<1> DEFINE g == Hash[c]
           S == Blocks \ {b}
           e == Mapped(d, b, c)
<1>1. /\ d.hash \in [Blocks -> Hashes \cup {NoHash}] /\ g \in Hashes
      /\ e.hash = [d.hash EXCEPT ![b] = g] /\ e.uses = d.uses /\ e.data = d.data
      /\ e \in Records
  BY HashType DEF Records, Mapped
<1>2. e.hash[b] = g /\ \A x \in S : e.hash[x] = d.hash[x]
  BY <1>1
<1>3. ASSUME NEW h \in Hashes
      PROVE  e.uses[h] = Cardinality(UsersIn(Blocks, e, h))
  <2>1. UsersIn(S, e, h) = UsersIn(S, d, h)
    BY <1>2 DEF UsersIn
  <2>2. Cardinality(UsersIn(Blocks, e, h)) =
           Cardinality(UsersIn(S, e, h)) + (IF e.hash[b] = h THEN 1 ELSE 0)
    BY UsersWithout
  <2>3. d.uses[h] = Cardinality(UsersIn(S, d, h)) + (IF h = g THEN 1 ELSE 0)
    BY DEF CountedOn
  <2> QED
    BY <1>1, <1>2, <2>1, <2>2, <2>3
<1>4. FilledOn(Blocks, e)
  <2>1. SUFFICES ASSUME NEW x \in Blocks, e.hash[x] # NoHash
                 PROVE  d.data[e.hash[x]] \in Contents /\ Hash[d.data[e.hash[x]]] = e.hash[x]
    BY <1>1 DEF FilledOn
  <2>2. CASE x = b
    BY <2>2, <1>2 DEF CountedOn
  <2>3. CASE x # b
    BY <2>1, <2>3, <1>2 DEF CountedOn, FilledOn
  <2> QED
    BY <2>2, <2>3
<1> QED
  BY <1>1, <1>3, <1>4 DEF ExactOn

(***************************************************************************)
(* The invariant.                                                          *)
(***************************************************************************)

Writing(t) == pc[t] = "begin" \/ InTransaction(t)

\* the threads: who holds `lock', and that work_offset is in the request
ThreadsOK ==
  /\ lock \in SUBSET Threads
  /\ pc \in [Threads -> {"idle", "lock", "work", "put", "begin", "release", "claim",
                         "map", "commit"}]
  /\ req \in [Threads -> Requests \cup {NoRequest}]
  /\ pos \in [Threads -> Bytes]
  /\ temp \in [Threads -> Contents]
  /\ raced \in SUBSET Threads
  /\ \A t \in Threads : Writing(t) \/ (pc[t] = "work" /\ req[t].op = "trim") => lock = {t}
  /\ \A t \in Threads : Active(t) => req[t] \in Requests /\ pos[t] \in Span(req[t])

\* the records that are committed
RecordsOK ==
  /\ db \in Records /\ tx \in Records
  /\ open \in BOOLEAN /\ dead \in BOOLEAN
  /\ ~open => tx = db
  /\ ExactOn(Blocks, db) /\ FilledOn(Blocks, db)

\* the records of the transaction, at each point of put_block_int
PhaseOf(t) ==
  /\ pc[t] = "release" => tx = db
  /\ pc[t] = "claim" => /\ ExactOn(Blocks \ {At(t)}, tx)
                        /\ FilledOn(Blocks \ {At(t)}, tx)
  /\ pc[t] = "map" => CountedOn(Blocks \ {At(t)}, tx, temp[t])
  /\ pc[t] = "commit" => ExactOn(Blocks, tx) /\ FilledOn(Blocks, tx)

TransactionOK ==
  /\ \A t \in Threads : PhaseOf(t)
  /\ \A t \in Threads : InTransaction(t) => open
  /\ open => \E t \in Threads : InTransaction(t)

DInv == ThreadsOK /\ RecordsOK /\ TransactionOK

\* a step of t leaves the other threads where they are
Frame(t) ==
  \A u \in Threads \ {t} :
    pc'[u] = pc[u] /\ req'[u] = req[u] /\ pos'[u] = pos[u] /\ temp'[u] = temp[u]

LEMMA RequestType ==
  ASSUME NEW r \in Requests
  PROVE  /\ r.offset \in Nat /\ r.size \in Nat \ {0} /\ r.data \in Values
         /\ r.op \in {"put", "trim"}
         /\ End(r) \in Nat /\ r.offset \in Span(r) /\ Span(r) \subseteq Bytes
<1>1. r \in AllRequests
  BY DedupRequestsAssumption
<1>2. /\ r.offset \in Bytes /\ r.size \in 1 .. Size /\ r.data \in Values
      /\ r.op \in {"put", "trim"} /\ r.offset + r.size <= Size
  BY <1>1 DEF AllRequests
<1> QED
  BY <1>2, SizeType DEF End, Span, Bytes

\* every byte is in a block
LEMMA ByteInBlock ==
  ASSUME NEW c \in Bytes
  PROVE  Block(c) \in Blocks
<1>1. c \in Nat /\ c < NumBlocks * BlockSize
  BY SizeType DEF Bytes, Size
<1>2. Block(c) \in Nat /\ Block(c) * BlockSize <= c
  BY <1>1, BlockBounds
<1>3. Block(c) < NumBlocks
  <2>1. SUFFICES ASSUME NumBlocks <= Block(c) PROVE FALSE
    BY <1>2, VolumeSizeAssumption
  <2>2. PICK k \in Nat : Block(c) = NumBlocks + k
    <3>1. Block(c) - NumBlocks \in Nat
      BY <1>2, <2>1, VolumeSizeAssumption
    <3> QED
      BY <1>2, <3>1, VolumeSizeAssumption
  <2>3. Block(c) * BlockSize = NumBlocks * BlockSize + k * BlockSize
    BY <2>2, BlockSizeAssumption, VolumeSizeAssumption, SMTT(30)
  <2>4. /\ k * BlockSize \in Nat /\ NumBlocks * BlockSize \in Nat
        /\ Block(c) * BlockSize \in Nat
    BY <1>2, BlockSizeAssumption, VolumeSizeAssumption, SMTT(30)
  <2> QED
    BY <1>1, <1>2, <2>3, <2>4
<1> QED
  BY <1>2, <1>3, VolumeSizeAssumption DEF Blocks

\* the block a thread works on exists
LEMMA AtType ==
  ASSUME ThreadsOK, NEW t \in Threads
  PROVE  At(t) \in Blocks
<1>1. pos[t] \in Bytes
  BY DEF ThreadsOK
<1> QED
  BY <1>1, ByteInBlock DEF At

LEMMA DiskType ==
  ASSUME RecordsOK, NEW b \in Blocks
  PROVE  Disk(b) \in Contents
<1>1. Zeroes \in Contents
  BY DedupZeroAssumption DEF Zeroes, Contents
<1> QED
  BY <1>1 DEF Disk, RecordsOK, FilledOn

LEMMA MergedType ==
  ASSUME NEW r \in Requests, NEW o, NEW c \in Contents
  PROVE  Merged(r, o, c) \in Contents
BY RequestType DEF Merged, Contents

\* nobody else is in put_block_int
LEMMA WritesAlone ==
  ASSUME DInv, NEW t \in Threads, Writing(t), NEW u \in Threads \ {t}
  PROVE  ~Writing(u) /\ lock = {t}
<1>1. lock = {t} /\ {t} # {u}
  BY DEF DInv, ThreadsOK
<1> QED
  BY <1>1 DEF DInv, ThreadsOK

\* a call that returns, or goes on with the next block, leaves the threads well
LEMMA LeaveOK ==
  ASSUME DInv, NEW t \in Threads, Active(t),
         lock = {t} \/ (lock = {} /\ req[t].op = "put"),
         Failed(t) \/ Advance(t) \/ Return(t)
  PROVE  ThreadsOK' /\ Frame(t) /\ pc'[t] \in {"idle", "work"}
<1> DEFINE r == req[t]
           e == PartEnd(r, pos[t])
<1>1. /\ r \in Requests /\ pos[t] \in Span(r) /\ r.offset \in Nat /\ End(r) \in Nat
      /\ Span(r) \subseteq Bytes
  BY RequestType DEF DInv, ThreadsOK
<1>2. e \in Nat /\ pos[t] < e /\ e <= End(r)
  BY <1>1, PartOK
<1>3. 0 \in Bytes /\ Zeroes \in Contents
  BY SizeType, DedupZeroAssumption DEF Bytes, Zeroes, Contents
<1>4. \A u \in Threads \ {t} :
         /\ ~Writing(u) \/ lock = {u}
         /\ ~(pc[u] = "work" /\ req[u].op = "trim") \/ lock = {u}
  BY DEF DInv, ThreadsOK
<1>5. \A u \in Threads \ {t} : ~Writing(u) /\ ~(pc[u] = "work" /\ req[u].op = "trim")
  BY <1>4
<1>6. ASSUME Return(t)
      PROVE  ThreadsOK' /\ Frame(t) /\ pc'[t] = "idle"
  <2>1. /\ lock' \in SUBSET Threads /\ raced' \in SUBSET Threads
        /\ req' \in [Threads -> Requests \cup {NoRequest}]
        /\ pos' \in [Threads -> Bytes]
        /\ temp' \in [Threads -> Contents]
        /\ pc' \in [Threads -> {"idle", "lock", "work", "put", "begin", "release", "claim",
                                "map", "commit"}]
        /\ pc'[t] = "idle"
    BY <1>3, <1>6 DEF Return, DInv, ThreadsOK
  <2>2. Frame(t)
    BY <1>6 DEF Return, DInv, ThreadsOK, Frame
  <2>3. \A u \in Threads :
          ~Writing(u)' /\ ~(pc'[u] = "work" /\ req'[u].op = "trim")
    BY <1>5, <2>1, <2>2 DEF Frame, Writing, InTransaction
  <2>4. \A u \in Threads : Active(u)' => req'[u] \in Requests /\ pos'[u] \in Span(req'[u])
    BY <2>1, <2>2 DEF Frame, Active, DInv, ThreadsOK
  <2> QED
    BY <2>1, <2>2, <2>3, <2>4 DEF ThreadsOK
<1>7. ASSUME Advance(t), e # End(r)
      PROVE  ThreadsOK' /\ Frame(t) /\ pc'[t] = "work"
  <2>1. e \in Span(r) /\ e \in Bytes
    BY <1>1, <1>2, <1>7 DEF Span
  <2>2. /\ lock' \in SUBSET Threads /\ raced' \in SUBSET Threads
        /\ req' = req /\ temp' = temp /\ pos' = [pos EXCEPT ![t] = e]
        /\ pc' = [pc EXCEPT ![t] = "work"]
        /\ lock' = IF req[t].op = "put" THEN lock \ {t} ELSE lock
    BY <1>7 DEF Advance, DInv, ThreadsOK
  <2>3. Frame(t) /\ pc'[t] = "work" /\ pos'[t] = e
    BY <2>2 DEF Frame, DInv, ThreadsOK
  <2>4. ASSUME NEW u \in Threads,
               Writing(u)' \/ (pc'[u] = "work" /\ req'[u].op = "trim")
        PROVE  lock' = {u}
    <3>1. u = t
      BY <1>5, <2>3, <2>4 DEF Frame, Writing, InTransaction
    <3>2. req[t].op = "trim"
      BY <2>2, <2>3, <2>4, <3>1 DEF Writing, InTransaction
    <3> QED
      BY <2>2, <3>1, <3>2
  <2>5. \A u \in Threads : Active(u)' => req'[u] \in Requests /\ pos'[u] \in Span(req'[u])
    BY <1>1, <2>1, <2>2, <2>3 DEF Frame, Active, DInv, ThreadsOK
  <2> QED
    BY <2>1, <2>2, <2>3, <2>4, <2>5 DEF ThreadsOK, DInv
<1> QED
  BY <1>6, <1>7 DEF Failed, Advance

(***************************************************************************)
(* What the steps have in common.                                          *)
(***************************************************************************)

\* a step outside the transaction
LEMMA QuietOK ==
  ASSUME DInv, NEW t \in Threads, ThreadsOK', Frame(t), dead' \in BOOLEAN,
         UNCHANGED <<db, tx, open>>, ~InTransaction(t), ~InTransaction(t)'
  PROVE  DInv'
<1>1. RecordsOK'
  BY DEF DInv, RecordsOK, ExactOn, FilledOn, UsersIn
<1>2. \A u \in Threads : InTransaction(u)' <=> InTransaction(u)
  BY DEF Frame, InTransaction
<1>3. ASSUME NEW u \in Threads PROVE PhaseOf(u)'
  <2>1. CASE u = t
    BY <2>1 DEF PhaseOf, InTransaction
  <2>2. CASE u # t
    <3>1. pc'[u] = pc[u] /\ pos'[u] = pos[u] /\ temp'[u] = temp[u] /\ PhaseOf(u)
      BY <2>2 DEF Frame, DInv, TransactionOK
    <3> QED
      BY <3>1 DEF PhaseOf, At, ExactOn, FilledOn, CountedOn, UsersIn
  <2> QED
    BY <2>1, <2>2
<1> QED
  BY <1>1, <1>2, <1>3 DEF DInv, TransactionOK

\* a step of put_block_int from record to record
LEMMA TransactionStepOK ==
  ASSUME DInv, NEW t \in Threads, ThreadsOK', Frame(t), UNCHANGED <<db, dead>>,
         Writing(t), InTransaction(t)', open' = TRUE, tx' \in Records, PhaseOf(t)'
  PROVE  DInv'
<1>1. RecordsOK'
  BY DEF DInv, RecordsOK, ExactOn, FilledOn, UsersIn
<1>2. \A u \in Threads \ {t} : ~Writing(u)
  BY WritesAlone
<1>3. \A u \in Threads \ {t} : PhaseOf(u)'
  BY <1>2 DEF Frame, PhaseOf, Writing, InTransaction
<1> QED
  BY <1>1, <1>3 DEF DInv, TransactionOK

\* a transaction ends
LEMMA EndOK ==
  ASSUME DInv, NEW t \in Threads, ThreadsOK', Frame(t), dead' = dead,
         InTransaction(t), pc'[t] \in {"idle", "work"}, open' = FALSE, tx' = db',
         db' \in {db, tx}, db' = db \/ pc[t] = "commit"
  PROVE  DInv'
<1>1. /\ db' \in Records
      /\ ExactOn(Blocks, db') /\ FilledOn(Blocks, db')
  <2>1. CASE db' = db
    BY <2>1 DEF DInv, RecordsOK
  <2>2. CASE db' # db
    BY <2>2 DEF DInv, RecordsOK, TransactionOK, PhaseOf
  <2> QED
    BY <2>1, <2>2
<1>2. RecordsOK'
  BY <1>1 DEF DInv, RecordsOK, ExactOn, FilledOn, UsersIn
<1>3. \A u \in Threads \ {t} : ~Writing(u)
  BY WritesAlone DEF Writing
<1>4. \A u \in Threads : ~InTransaction(u)'
  BY <1>3 DEF Frame, Writing, InTransaction
<1> QED
  BY <1>2, <1>4 DEF DInv, TransactionOK, PhaseOf, InTransaction

\* a step that changes only where t is, the block it puts, and `lock'
LEMMA MoveOK ==
  ASSUME DInv, NEW t \in Threads, Active(t),
         NEW p \in {"work", "put", "begin", "release", "claim", "map", "commit"},
         pc' = [pc EXCEPT ![t] = p], UNCHANGED <<req, pos, raced>>,
         NEW c \in Contents, temp' = temp \/ temp' = [temp EXCEPT ![t] = c],
         lock = {} \/ lock = {t} \/ p = "put", lock' \in {lock, {t}},
         p \notin {"work", "put"} => lock' = {t},
         p = "work" => lock' = {t} \/ req[t].op = "put",
         p = "put" => lock' = lock
  PROVE  ThreadsOK' /\ Frame(t) /\ pc'[t] = p
<1>1. Frame(t) /\ pc'[t] = p
  BY DEF Frame, DInv, ThreadsOK
<1>2. \A u \in Threads :
        Writing(u)' \/ (pc'[u] = "work" /\ req'[u].op = "trim") => lock' = {u}
  <2>1. TAKE u \in Threads
  <2>2. CASE u = t
    BY <1>1, <2>2, RequestType DEF Writing, InTransaction, DInv, ThreadsOK
  <2>3. CASE u # t
    <3>1. (Writing(u) \/ (pc[u] = "work" /\ req[u].op = "trim")) => lock = {u}
      BY DEF DInv, ThreadsOK
    <3>2. Writing(u)' <=> Writing(u)
      BY <1>1, <2>3 DEF Frame, Writing, InTransaction
    <3>3. {u} # {t} /\ {u} # {}
      BY <2>3
    <3> QED
      BY <1>1, <2>3, <3>1, <3>2, <3>3 DEF Frame
  <2> QED
    BY <2>2, <2>3
<1> QED
  BY <1>1, <1>2 DEF DInv, ThreadsOK, Active

(***************************************************************************)
(* One step after the other.                                               *)
(***************************************************************************)

LEMMA BeginOK ==
  ASSUME DInv, NEW t \in Threads, Begin(t)
  PROVE  DInv'
<1>0. \A r \in Requests : NowRaced(t, r) \subseteq Threads
  BY DEF NowRaced, Others
<1>1. PICK r \in Requests :
        /\ ~Active(t)
        /\ pc' = [pc EXCEPT ![t] = IF r.op = "put" THEN "work" ELSE "lock"]
        /\ req' = [req EXCEPT ![t] = r]
        /\ pos' = [pos EXCEPT ![t] = r.offset]
        /\ raced' \in SUBSET Threads
        /\ UNCHANGED <<db, tx, open, lock, dead, temp>>
  BY <1>0 DEF Begin, DInv, ThreadsOK
<1>2. r.offset \in Span(r) /\ r.offset \in Bytes
  BY RequestType
<1>3. Frame(t) /\ pc'[t] \in {"work", "lock"} /\ (pc'[t] = "work" => req'[t].op = "put")
  BY <1>1 DEF Frame, DInv, ThreadsOK
<1>4. \A u \in Threads :
        Writing(u)' \/ (pc'[u] = "work" /\ req'[u].op = "trim") => lock' = {u}
  BY <1>1, <1>3 DEF DInv, ThreadsOK, Frame, Writing, InTransaction
<1>5. ThreadsOK'
  BY <1>1, <1>2, <1>4 DEF DInv, ThreadsOK, Active
<1> QED
  BY <1>1, <1>3, <1>5, QuietOK DEF InTransaction, Active, DInv, RecordsOK

LEMMA LockTrimOK ==
  ASSUME DInv, NEW t \in Threads, LockTrim(t)
  PROVE  DInv'
<1>1. temp[t] \in Contents
  BY DEF DInv, ThreadsOK
<1>2. ThreadsOK' /\ Frame(t) /\ pc'[t] = "work"
  BY <1>1, MoveOK DEF LockTrim, Active
<1> QED
  BY <1>2, QuietOK DEF LockTrim, InTransaction, DInv, RecordsOK

\* ReadModify, WholeBlock, TrimBlock and PutBlock
LEMMA BlockOK ==
  ASSUME DInv, NEW t \in Threads,
         ReadModify(t) \/ WholeBlock(t) \/ TrimBlock(t) \/ PutBlock(t)
  PROVE  DInv'
<1> DEFINE c == Merged(req[t], pos[t], Disk(At(t)))
           z == Merged(req[t], pos[t], Zeroes)
<1>1. Active(t) /\ req[t] \in Requests /\ temp[t] \in Contents
  BY DEF ReadModify, WholeBlock, TrimBlock, PutBlock, Active, DInv, ThreadsOK
<1>2. Zeroes \in Contents /\ Disk(At(t)) \in Contents
  BY DedupZeroAssumption, AtType, DiskType DEF Zeroes, Contents, DInv
<1>3. c \in Contents /\ z \in Contents
  BY <1>1, <1>2, MergedType
<1>4. CASE ReadModify(t)
  <2>1. ThreadsOK' /\ Frame(t) /\ pc'[t] = "put"
    BY <1>1, <1>3, <1>4, MoveOK DEF ReadModify
  <2> QED
    BY <1>4, <2>1, QuietOK DEF ReadModify, InTransaction, DInv, RecordsOK
<1>5. CASE WholeBlock(t)
  <2>1. ThreadsOK' /\ Frame(t) /\ pc'[t] = "put"
    BY <1>1, <1>3, <1>5, MoveOK DEF WholeBlock
  <2> QED
    BY <1>5, <2>1, QuietOK DEF WholeBlock, InTransaction, DInv, RecordsOK
<1>6. CASE TrimBlock(t)
  <2>1. lock = {t}
    BY <1>6 DEF TrimBlock, DInv, ThreadsOK
  <2>2. ThreadsOK' /\ Frame(t) /\ pc'[t] = "begin"
    BY <1>1, <1>3, <1>6, <2>1, MoveOK DEF TrimBlock
  <2> QED
    BY <1>6, <2>2, QuietOK DEF TrimBlock, InTransaction, DInv, RecordsOK
<1>7. CASE PutBlock(t)
  <2>1. ThreadsOK' /\ Frame(t) /\ pc'[t] = "begin"
    BY <1>1, <1>7, MoveOK DEF PutBlock
  <2> QED
    BY <1>7, <2>1, QuietOK DEF PutBlock, InTransaction, DInv, RecordsOK
<1> QED
  BY <1>4, <1>5, <1>6, <1>7

LEMMA TrimNewBlockOK ==
  ASSUME DInv, NEW t \in Threads, TrimNewBlock(t)
  PROVE  DInv'
<1>1. ThreadsOK' /\ Frame(t)
  BY DEF TrimNewBlock, tvars, DInv, ThreadsOK, Frame, Writing, InTransaction, Active
<1> QED
  BY <1>1, QuietOK DEF TrimNewBlock, tvars, InTransaction

\* GetBlockError and BeginTransactionError
LEMMA ErrorOK ==
  ASSUME DInv, NEW t \in Threads, GetBlockError(t) \/ BeginTransactionError(t)
  PROVE  DInv'
<1>1. /\ Active(t) /\ ~InTransaction(t)
      /\ Failed(t) \/ Return(t)
      /\ UNCHANGED <<db, tx, open, dead>>
  BY DEF GetBlockError, BeginTransactionError, Active, InTransaction
<1>2. lock = {t} \/ (lock = {} /\ req[t].op = "put")
  <2>1. req[t].op \in {"put", "trim"}
    BY <1>1, RequestType DEF DInv, ThreadsOK
  <2>2. CASE GetBlockError(t)
    BY <2>1, <2>2 DEF GetBlockError, DInv, ThreadsOK
  <2>3. CASE BeginTransactionError(t)
    BY <2>3 DEF BeginTransactionError, Writing, DInv, ThreadsOK
  <2> QED
    BY <2>2, <2>3
<1>3. ThreadsOK' /\ Frame(t) /\ pc'[t] \in {"idle", "work"}
  BY <1>1, <1>2, LeaveOK
<1> QED
  BY <1>1, <1>3, QuietOK DEF InTransaction, DInv, RecordsOK

LEMMA BeginTransactionOK ==
  ASSUME DInv, NEW t \in Threads, BeginTransaction(t)
  PROVE  DInv'
<1>1. Active(t) /\ Writing(t) /\ lock = {t} /\ temp[t] \in Contents
  BY DEF BeginTransaction, Active, Writing, DInv, ThreadsOK
<1>2. ThreadsOK' /\ Frame(t) /\ pc'[t] = "release"
  BY <1>1, MoveOK DEF BeginTransaction
<1>3. tx' = db' /\ tx' \in Records /\ open' = TRUE
  BY DEF BeginTransaction, DInv, RecordsOK
<1>4. PhaseOf(t)'
  BY <1>2, <1>3 DEF PhaseOf
<1> QED
  BY <1>1, <1>2, <1>3, <1>4, TransactionStepOK DEF BeginTransaction, InTransaction

LEMMA ReleaseOK ==
  ASSUME DInv, NEW t \in Threads, Release(t)
  PROVE  DInv'
<1>1. /\ Active(t) /\ Writing(t) /\ lock = {t} /\ temp[t] \in Contents
      /\ open = TRUE /\ tx = db /\ At(t) \in Blocks
  BY AtType DEF Release, Active, Writing, InTransaction, DInv, ThreadsOK, RecordsOK,
     TransactionOK, PhaseOf
<1>2. ThreadsOK' /\ Frame(t) /\ pc'[t] = "claim" /\ At(t)' = At(t)
  BY <1>1, MoveOK DEF Release, At
<1>3. tx \in Records /\ ExactOn(Blocks, tx) /\ FilledOn(Blocks, tx)
  BY <1>1 DEF DInv, RecordsOK
<1>4. /\ tx' \in Records
      /\ ExactOn(Blocks \ {At(t)}, tx') /\ FilledOn(Blocks \ {At(t)}, tx')
  <2>1. CASE tx.hash[At(t)] = NoHash
    <3>1. ASSUME NEW h \in Hashes
          PROVE  tx.uses[h] = Cardinality(UsersIn(Blocks \ {At(t)}, tx, h))
      <4>1. UsersIn(Blocks \ {At(t)}, tx, h) = UsersIn(Blocks, tx, h)
        BY <2>1, NoHashAssumption DEF UsersIn
      <4> QED
        BY <1>3, <4>1 DEF ExactOn
    <3> QED
      BY <1>3, <2>1, <3>1 DEF Release, ExactOn, FilledOn
  <2>2. CASE tx.hash[At(t)] # NoHash
    BY <1>1, <1>3, <2>2, ReleasedOK DEF Release
  <2> QED
    BY <2>1, <2>2
<1>5. PhaseOf(t)'
  BY <1>2, <1>4 DEF PhaseOf, ExactOn, FilledOn, UsersIn
<1> QED
  BY <1>1, <1>2, <1>4, <1>5, TransactionStepOK DEF Release, InTransaction

LEMMA ClaimOK ==
  ASSUME DInv, NEW t \in Threads, Claim(t)
  PROVE  DInv'
<1>1. /\ Active(t) /\ Writing(t) /\ lock = {t} /\ temp[t] \in Contents
      /\ open = TRUE /\ tx \in Records /\ At(t) \in Blocks
      /\ ExactOn(Blocks \ {At(t)}, tx) /\ FilledOn(Blocks \ {At(t)}, tx)
  BY AtType DEF Claim, Active, Writing, InTransaction, DInv, ThreadsOK, RecordsOK,
     TransactionOK, PhaseOf
<1>2. ThreadsOK' /\ Frame(t) /\ pc'[t] = "map" /\ At(t)' = At(t) /\ temp' = temp
  BY <1>1, MoveOK DEF Claim, At
<1>3. tx' \in Records /\ CountedOn(Blocks \ {At(t)}, tx', temp[t])
  BY <1>1, ClaimedOK DEF Claim
<1>4. PhaseOf(t)'
  BY <1>2, <1>3 DEF PhaseOf, CountedOn, FilledOn, UsersIn
<1> QED
  BY <1>1, <1>2, <1>3, <1>4, TransactionStepOK DEF Claim, InTransaction

LEMMA MapOK ==
  ASSUME DInv, NEW t \in Threads, Map(t)
  PROVE  DInv'
<1>1. /\ Active(t) /\ Writing(t) /\ lock = {t} /\ temp[t] \in Contents
      /\ open = TRUE /\ tx \in Records /\ At(t) \in Blocks
      /\ CountedOn(Blocks \ {At(t)}, tx, temp[t])
  BY AtType DEF Map, Active, Writing, InTransaction, DInv, ThreadsOK, RecordsOK,
     TransactionOK, PhaseOf
<1>2. ThreadsOK' /\ Frame(t) /\ pc'[t] = "commit"
  BY <1>1, MoveOK DEF Map
<1>3. tx' \in Records /\ ExactOn(Blocks, tx') /\ FilledOn(Blocks, tx')
  BY <1>1, MappedOK DEF Map
<1>4. PhaseOf(t)'
  BY <1>2, <1>3 DEF PhaseOf, ExactOn, FilledOn, UsersIn
<1> QED
  BY <1>1, <1>2, <1>3, <1>4, TransactionStepOK DEF Map, InTransaction

\* Abort, Commit and CommitError
LEMMA CloseOK ==
  ASSUME DInv, NEW t \in Threads, Abort(t) \/ Commit(t) \/ CommitError(t)
  PROVE  DInv'
<1>1. /\ InTransaction(t) /\ Active(t) /\ lock = {t}
      /\ Failed(t) \/ Advance(t)
  BY DEF Abort, Commit, CommitError, Active, InTransaction, Writing, DInv, ThreadsOK
<1>2. ThreadsOK' /\ Frame(t) /\ pc'[t] \in {"idle", "work"}
  BY <1>1, LeaveOK
<1>3. /\ open' = FALSE /\ tx' = db' /\ dead' = dead /\ db' \in {db, tx}
      /\ db' = db \/ pc[t] = "commit"
  BY DEF Abort, Commit, CommitError
<1> QED
  BY <1>1, <1>2, <1>3, EndOK

LEMMA RestartOK ==
  ASSUME DInv, Restart
  PROVE  DInv'
<1>1. Zeroes \in Contents /\ 0 \in Bytes
  BY DedupZeroAssumption, SizeType DEF Zeroes, Contents, Bytes
<1>2. \A u \in Threads : pc'[u] = "idle"
  BY DEF Restart
<1>3. ThreadsOK'
  BY <1>1, <1>2 DEF Restart, ThreadsOK, Writing, InTransaction, Active
<1>4. RecordsOK'
  BY DEF Restart, DInv, RecordsOK, ExactOn, FilledOn, UsersIn
<1>5. TransactionOK'
  BY <1>2 DEF Restart, TransactionOK, PhaseOf, InTransaction
<1> QED
  BY <1>3, <1>4, <1>5 DEF DInv

LEMMA InitDInv == Init => DInv
<1>1. Zeroes \in Contents /\ 0 \in Bytes /\ 0 \in 0 .. NumBlocks
  BY DedupZeroAssumption, SizeType, VolumeSizeAssumption DEF Zeroes, Contents, Bytes
<1>2. SUFFICES ASSUME Init PROVE DInv
  OBVIOUS
<1>3. ThreadsOK
  BY <1>1, <1>2 DEF Init, ThreadsOK, Writing, InTransaction, Active
<1>4. db \in Records /\ FilledOn(Blocks, db)
  BY <1>1, <1>2 DEF Init, Records, FilledOn
<1>5. ExactOn(Blocks, db)
  <2>1. SUFFICES ASSUME NEW h \in Hashes
                 PROVE  db.uses[h] = Cardinality(UsersIn(Blocks, db, h))
    BY DEF ExactOn
  <2>2. UsersIn(Blocks, db, h) = {}
    BY <1>2, NoHashAssumption DEF Init, UsersIn
  <2> QED
    BY <1>2, <2>2, FS_EmptySet DEF Init
<1>6. TransactionOK
  BY <1>2 DEF Init, TransactionOK, PhaseOf, InTransaction
<1> QED
  BY <1>2, <1>3, <1>4, <1>5, <1>6 DEF DInv, RecordsOK, Init

LEMMA NextDInv ==
  ASSUME DInv, [Next]_vars
  PROVE  DInv'
<1>1. ASSUME NEW t \in Threads, Thread(t)
      PROVE  DInv'
  BY <1>1, BeginOK, LockTrimOK, BlockOK, TrimNewBlockOK, ErrorOK, BeginTransactionOK,
     ReleaseOK, ClaimOK, MapOK, CloseOK DEF Thread, PutBlockInt
<1>2. CASE UNCHANGED vars
  <2>1. /\ db' = db /\ tx' = tx /\ open' = open /\ lock' = lock /\ dead' = dead
        /\ pc' = pc /\ req' = req /\ pos' = pos /\ temp' = temp /\ raced' = raced
    BY <1>2 DEF vars, tvars
  <2>2. ThreadsOK' /\ RecordsOK'
    BY <2>1 DEF DInv, ThreadsOK, RecordsOK, Writing, InTransaction, Active, ExactOn,
       FilledOn, UsersIn
  <2>3. TransactionOK'
    BY <2>1 DEF DInv, TransactionOK, PhaseOf, InTransaction, At, ExactOn, FilledOn,
       CountedOn, UsersIn
  <2> QED
    BY <2>2, <2>3 DEF DInv
<1> QED
  BY <1>1, <1>2, RestartOK DEF Next

(***************************************************************************)
(* What a put stores.                                                      *)
(***************************************************************************)

\* every block that a put changes is one that it locks (un_lock_block_group
\* misses the last block of some ranges)
Covered == \A r \in Requests : r.op = "put" => Touched(r) \subseteq Locked(r)

\* nobody else works on the blocks of a put, or the put is marked
Apart ==
  \A t, u \in Threads :
    t # u /\ Active(t) /\ Active(u) /\ req[t].op = "put" /\ t \notin raced =>
      Touched(req[t]) \cap Touched(req[u]) = {}

\* what the thread will put is the block with the bytes of the request in it
TempOf(t) ==
  /\ pc[t] = "put" => req[t].op = "put"
  /\ (pc[t] = "put" \/ Writing(t)) /\ (req[t].op = "trim" \/ t \notin raced) =>
         temp[t] = Merged(req[t], pos[t], Disk(At(t)))

\* the transaction changes one mapping, to the hash of what is put
TxOf(t) ==
  /\ pc[t] \in {"claim", "map", "commit"} =>
       \A x \in Blocks \ {At(t)} : tx.hash[x] = db.hash[x]
  /\ pc[t] = "commit" => tx.hash[At(t)] = Hash[temp[t]]

\* the bytes that a put has passed are in the database
DoneOf(t) ==
  Active(t) /\ req[t].op = "put" /\ t \notin raced =>
    \A c \in Span(req[t]) : c < pos[t] => Disk(Block(c))[c % BlockSize] = req[t].data

ChangeOK == \A t \in Threads : TempOf(t) /\ TxOf(t) /\ DoneOf(t)

EInv == DInv /\ Apart /\ ChangeOK

\* a byte of a block that is put is the request's or as it was
LEMMA MergedBytes ==
  ASSUME NEW r \in Requests, NEW o \in Span(r), NEW d \in Contents,
         NEW c \in Span(r), Block(c) = Block(o)
  PROVE  /\ c < PartEnd(r, o) /\ ~(c < o) => Merged(r, o, d)[c % BlockSize] = r.data
         /\ c < o => Merged(r, o, d)[c % BlockSize] = d[c % BlockSize]
<1> DEFINE q == Block(c)
           i == c % BlockSize
<1>1. c \in Nat /\ o \in Nat /\ r.offset \in Nat /\ End(r) \in Nat
  BY RequestType DEF Span
<1>2. i \in Offsets /\ q * BlockSize + i = c
  BY <1>1, BlockSizeAssumption, SMTT(30) DEF Block, Offsets
<1>3. Merged(r, o, d)[i] = IF c \in Part(r, o) THEN r.data ELSE d[i]
  BY <1>2 DEF Merged
<1>4. PartEnd(r, o) \in Nat
  BY <1>1, PartOK
<1>5. c \in Part(r, o) <=> c < PartEnd(r, o) /\ ~(c < o)
  BY <1>1, <1>4 DEF Part
<1> QED
  BY <1>1, <1>3, <1>5

\* of a whole block nothing is left
LEMMA MergedWhole ==
  ASSUME NEW r, NEW o \in Nat, NEW d, NEW e, Part(r, o) = BlockBytes(Block(o))
  PROVE  Merged(r, o, d) = Merged(r, o, e)
<1>1. ASSUME NEW i \in Offsets PROVE Block(o) * BlockSize + i \in Part(r, o)
  <2> DEFINE q == Block(o)
  <2>1. q \in Nat
    BY BlockBounds
  <2> HIDE DEF q
  <2>2. q * BlockSize + i \in q * BlockSize .. (q + 1) * BlockSize - 1
    BY <2>1, BlockSizeAssumption, SMTT(30) DEF Offsets
  <2> QED
    BY <2>2 DEF BlockBytes, q
<1> QED
  BY <1>1 DEF Merged

\* the end of a transaction puts the block, and no other
LEMMA PutChanges ==
  ASSUME EInv, NEW t \in Threads, pc[t] = "commit", db' = tx
  PROVE  \A x \in Blocks : Disk(x)' = IF x = At(t) THEN temp[t] ELSE Disk(x)
<1>1. /\ At(t) \in Blocks /\ temp[t] \in Contents
      /\ FilledOn(Blocks, tx) /\ FilledOn(Blocks, db)
      /\ \A x \in Blocks \ {At(t)} : tx.hash[x] = db.hash[x]
      /\ tx.hash[At(t)] = Hash[temp[t]]
  BY AtType DEF EInv, DInv, ThreadsOK, RecordsOK, TransactionOK, PhaseOf, ChangeOK, TxOf
<1>2. ASSUME NEW x \in Blocks, x = At(t)
      PROVE  Disk(x)' = temp[t]
  <2>1. db'.hash[x] = Hash[temp[t]] /\ Hash[temp[t]] # NoHash
    BY <1>1, <1>2, HashType
  <2>2. tx.data[Hash[temp[t]]] \in Contents /\ Hash[tx.data[Hash[temp[t]]]] = Hash[temp[t]]
    BY <1>1, <1>2, <2>1 DEF FilledOn
  <2>3. tx.data[Hash[temp[t]]] = temp[t]
    BY <1>1, <2>2, HashAssumption
  <2> QED
    BY <2>1, <2>3 DEF Disk
<1>3. ASSUME NEW x \in Blocks, x # At(t)
      PROVE  Disk(x)' = Disk(x)
  <2>1. db'.hash[x] = db.hash[x] /\ tx.hash[x] = db.hash[x]
    BY <1>1, <1>3
  <2>2. CASE db.hash[x] = NoHash
    BY <2>1, <2>2 DEF Disk
  <2>3. CASE db.hash[x] # NoHash
    <3>1. /\ tx.data[db.hash[x]] \in Contents /\ Hash[tx.data[db.hash[x]]] = db.hash[x]
          /\ db.data[db.hash[x]] \in Contents /\ Hash[db.data[db.hash[x]]] = db.hash[x]
      BY <1>1, <2>1, <2>3 DEF FilledOn
    <3>2. tx.data[db.hash[x]] = db.data[db.hash[x]]
      BY <3>1, HashAssumption
    <3> QED
      BY <2>1, <3>2 DEF Disk
  <2> QED
    BY <2>2, <2>3
<1> QED
  BY <1>1, <1>2, <1>3

\* a step of t outside Commit
LEMMA Unwritten ==
  ASSUME db' = db
  PROVE  \A x : Disk(x)' = Disk(x)
BY DEF Disk

\* two threads are at different blocks, if one of them puts undisturbed
LEMMA BlocksApart ==
  ASSUME ThreadsOK, Apart, NEW u \in Threads, NEW t \in Threads, t # u,
         Active(u), Active(t), req[u].op = "put", u \notin raced, NEW c \in Span(req[u])
  PROVE  Block(c) # At(t)
<1>1. Touched(req[u]) \cap Touched(req[t]) = {}
  BY DEF Apart
<1>2. Block(c) \in Touched(req[u]) /\ At(t) \in Touched(req[t])
  BY DEF Touched, At, ThreadsOK
<1> QED
  BY <1>1, <1>2

\* the block of a byte of a request exists
LEMMA SpanInBlocks ==
  ASSUME ThreadsOK, NEW t \in Threads, Active(t), NEW c \in Span(req[t])
  PROVE  Block(c) \in Blocks
<1>1. req[t] \in Requests /\ c \in Bytes
  BY RequestType DEF ThreadsOK
<1> QED
  BY <1>1, ByteInBlock

\* what a step of t leaves of the others
LEMMA OthersKept ==
  ASSUME EInv, NEW t \in Threads, Active(t), Frame(t), raced' = raced \/ raced' = raced \ {t},
         UNCHANGED <<db, tx>> \/ Writing(t),
         \A x \in Blocks : x # At(t) => Disk(x)' = Disk(x),
         NEW u \in Threads \ {t}
  PROVE  (TempOf(u) /\ TxOf(u) /\ DoneOf(u))'
<1>1. /\ pc'[u] = pc[u] /\ req'[u] = req[u] /\ pos'[u] = pos[u] /\ temp'[u] = temp[u]
      /\ At(u)' = At(u) /\ (u \in raced' <=> u \in raced)
      /\ (Writing(u)' <=> Writing(u)) /\ (Active(u)' <=> Active(u))
  BY DEF Frame, At, Writing, InTransaction, Active
<1>2. ThreadsOK /\ Apart /\ TempOf(u) /\ TxOf(u) /\ DoneOf(u) /\ At(u) \in Blocks
  BY AtType DEF EInv, DInv, ChangeOK
<1>3. Writing(u) => UNCHANGED <<db, tx>>
  BY WritesAlone DEF EInv
<1>4. ASSUME pc[u] = "put" \/ Writing(u), req[u].op = "trim" \/ u \notin raced
      PROVE  Disk(At(u))' = Disk(At(u))
  <2>1. CASE Writing(u)
    BY <1>1, <1>3, <2>1 DEF Disk
  <2>2. CASE pc[u] = "put"
    <3>1. Active(u) /\ req[u].op = "put" /\ u \notin raced /\ pos[u] \in Span(req[u])
      BY <1>2, <1>4, <2>2 DEF TempOf, Active, ThreadsOK
    <3>2. At(u) # At(t)
      BY <1>2, <3>1, BlocksApart DEF At
    <3>3. PICK x \in Blocks : x = At(u)
      BY <1>2
    <3>4. Disk(x)' = Disk(x)
      BY <3>2, <3>3
    <3> QED
      BY <1>1, <3>3, <3>4
  <2> QED
    BY <1>4, <2>1, <2>2
<1>5. TempOf(u)'
  BY <1>1, <1>2, <1>4 DEF TempOf
<1>6. TxOf(u)'
  BY <1>1, <1>2, <1>3 DEF TxOf, Writing, InTransaction
<1>7. DoneOf(u)'
  <2>1. SUFFICES ASSUME Active(u), req[u].op = "put", u \notin raced,
                        NEW c \in Span(req[u]), c < pos[u]
                 PROVE  Disk(Block(c))'[c % BlockSize] = req[u].data
    BY <1>1 DEF DoneOf
  <2>2. Block(c) # At(t) /\ Block(c) \in Blocks
    BY <1>2, <2>1, BlocksApart, SpanInBlocks
  <2>3. PICK x \in Blocks : x = Block(c)
    BY <2>2
  <2>4. Disk(x)' = Disk(x) /\ Disk(x)[c % BlockSize] = req[u].data
    BY <1>2, <2>1, <2>2, <2>3 DEF DoneOf
  <2> QED
    BY <2>3, <2>4
<1> QED
  BY <1>5, <1>6, <1>7

\* no thread begins: those at work stay apart
LEMMA ApartKept ==
  ASSUME EInv, NEW t \in Threads, Frame(t), raced' = raced \/ raced' = raced \ {t},
         pc'[t] = "idle" \/ (Active(t) /\ req'[t] = req[t] /\ raced' = raced)
  PROVE  Apart'
<1>1. SUFFICES ASSUME NEW x \in Threads, NEW y \in Threads, x # y, Active(x)', Active(y)',
                      req'[x].op = "put", x \notin raced'
               PROVE  Touched(req'[x]) \cap Touched(req'[y]) = {}
  BY DEF Apart
<1>2. /\ Active(x) /\ req'[x] = req[x] /\ x \notin raced
      /\ Active(y) /\ req'[y] = req[y]
  BY <1>1 DEF Frame, Active
<1> QED
  BY <1>1, <1>2 DEF EInv, Apart

\* every step of a thread is a frame for the others
LEMMA ThreadFrame ==
  ASSUME ThreadsOK, NEW t \in Threads, Thread(t)
  PROVE  Frame(t)
<1>1. ASSUME NEW p, NEW r, NEW o, NEW c,
             pc' = pc \/ pc' = [pc EXCEPT ![t] = p],
             req' = req \/ req' = [req EXCEPT ![t] = r],
             pos' = pos \/ pos' = [pos EXCEPT ![t] = o],
             temp' = temp \/ temp' = [temp EXCEPT ![t] = c]
      PROVE  Frame(t)
  BY <1>1 DEF Frame, ThreadsOK
<1>2. CASE Begin(t)
  BY <1>1, <1>2 DEF Begin
<1>3. CASE LockTrim(t) \/ PutBlock(t) \/ BeginTransaction(t) \/ Release(t) \/ Claim(t) \/ Map(t)
  BY <1>1, <1>3 DEF LockTrim, PutBlock, BeginTransaction, Release, Claim, Map
<1>4. CASE ReadModify(t) \/ WholeBlock(t) \/ TrimBlock(t)
  BY <1>1, <1>4 DEF ReadModify, WholeBlock, TrimBlock
<1>5. CASE TrimNewBlock(t)
  BY <1>5 DEF TrimNewBlock, tvars, Frame
<1>6. CASE Return(t)
  BY <1>1, <1>6 DEF Return
<1>7. CASE Advance(t)
  BY <1>1, <1>6, <1>7 DEF Advance
<1>8. CASE \/ GetBlockError(t) \/ BeginTransactionError(t)
           \/ Abort(t) \/ Commit(t) \/ CommitError(t)
  BY <1>6, <1>7, <1>8 DEF GetBlockError, BeginTransactionError, Abort, Commit, CommitError,
     Failed
<1> QED
  BY <1>2, <1>3, <1>4, <1>5, <1>8 DEF Thread, PutBlockInt

\* a step that is well for t is well
LEMMA StepOK ==
  ASSUME EInv, DInv', NEW t \in Threads, Active(t), Frame(t),
         raced' = raced \/ raced' = raced \ {t},
         pc'[t] = "idle" \/ (req'[t] = req[t] /\ raced' = raced),
         UNCHANGED <<db, tx>> \/ Writing(t),
         \A x \in Blocks : x # At(t) => Disk(x)' = Disk(x),
         (TempOf(t) /\ TxOf(t) /\ DoneOf(t))'
  PROVE  EInv'
<1>1. Apart'
  BY ApartKept
<1>2. \A u \in Threads \ {t} : (TempOf(u) /\ TxOf(u) /\ DoneOf(u))'
  BY OthersKept
<1> QED
  BY <1>1, <1>2 DEF EInv, ChangeOK

\* a step that leaves the thread at its block
LEMMA StayOK ==
  ASSUME EInv, DInv', NEW t \in Threads, Active(t), Frame(t), UNCHANGED <<db, raced>>,
         req'[t] = req[t], pos'[t] = pos[t], tx' = tx \/ Writing(t),
         (TempOf(t) /\ TxOf(t))'
  PROVE  EInv'
<1>1. \A x : Disk(x)' = Disk(x)
  BY Unwritten
<1>2. DoneOf(t)'
  BY <1>1 DEF EInv, ChangeOK, DoneOf, Active
<1> QED
  BY <1>1, <1>2, StepOK

\* a call that ends, or a trim that goes on after an error
LEMMA GiveUpOK ==
  ASSUME EInv, DInv', NEW t \in Threads, Active(t), Frame(t), UNCHANGED db,
         tx' = tx \/ Writing(t), Failed(t) \/ Return(t)
  PROVE  EInv'
<1>1. \A x : Disk(x)' = Disk(x)
  BY Unwritten
<1>2. /\ raced' = raced \/ raced' = raced \ {t}
      /\ pc'[t] = "idle" \/ (pc'[t] = "work" /\ req'[t] = req[t] /\ raced' = raced
                             /\ req[t].op = "trim")
  BY DEF EInv, DInv, ThreadsOK, Failed, Advance, Return
<1>3. (TempOf(t) /\ TxOf(t) /\ DoneOf(t))'
  BY <1>2 DEF TempOf, TxOf, DoneOf, Active, Writing, InTransaction
<1> QED
  BY <1>1, <1>2, <1>3, StepOK

LEMMA BeginApartOK ==
  ASSUME EInv, DInv', Covered, NEW t \in Threads, Begin(t)
  PROVE  EInv'
<1>1. PICK r \in Requests :
        /\ ~Active(t)
        /\ r.op = "put" => \A u \in Threads : req[u].op = "put" => ~Conflict(r, req[u])
        /\ pc' = [pc EXCEPT ![t] = IF r.op = "put" THEN "work" ELSE "lock"]
        /\ req' = [req EXCEPT ![t] = r]
        /\ pos' = [pos EXCEPT ![t] = r.offset]
        /\ raced' = raced \cup NowRaced(t, r)
        /\ UNCHANGED <<db, tx, open, lock, dead, temp>>
  BY DEF Begin
<1>2. /\ Frame(t) /\ pc'[t] \in {"work", "lock"} /\ Active(t)'
      /\ req'[t] = r /\ pos'[t] = r.offset
  BY <1>1, ThreadFrame DEF Thread, EInv, DInv, ThreadsOK, Active
<1>3. \A x : Disk(x)' = Disk(x)
  BY <1>1, Unwritten
<1>4. ASSUME NEW u \in Threads \ {t}, Active(u)
      PROVE  /\ r.op = "put" /\ t \notin raced' => Touched(r) \cap Touched(req[u]) = {}
             /\ req[u].op = "put" /\ u \notin raced' =>
                  Touched(req[u]) \cap Touched(r) = {}
  <2>1. req[u] \in Requests /\ req[u].op \in {"put", "trim"} /\ r.op \in {"put", "trim"}
    BY <1>4, RequestType DEF EInv, DInv, ThreadsOK
  <2>2. CASE r.op = "put" /\ req[u].op = "put"
    <3>1. Locked(r) \cap Locked(req[u]) = {}
      BY <1>1, <2>2 DEF Conflict
    <3>2. Touched(r) \subseteq Locked(r) /\ Touched(req[u]) \subseteq Locked(req[u])
      BY <2>1, <2>2 DEF Covered
    <3> QED
      BY <3>1, <3>2
  <2>3. CASE r.op = "put" /\ req[u].op = "trim"
    <3>1. Touched(r) \cap Touched(req[u]) # {} => u \in Others(r)
      BY <1>4 DEF Others
    <3>2. u \in Others(r) => t \in NowRaced(t, r)
      BY <2>3 DEF NowRaced
    <3> QED
      BY <1>1, <2>3, <3>1, <3>2
  <2>4. CASE r.op = "trim" /\ req[u].op = "put"
    <3>1. Touched(r) \cap Touched(req[u]) # {} => u \in Others(r)
      BY <1>4 DEF Others
    <3>2. u \in Others(r) => u \in NowRaced(t, r)
      BY <2>4 DEF NowRaced
    <3> QED
      BY <1>1, <2>4, <3>1, <3>2
  <2> QED
    BY <2>1, <2>2, <2>3, <2>4
<1>5. Apart'
  <2>1. SUFFICES ASSUME NEW x \in Threads, NEW y \in Threads, x # y, Active(x)', Active(y)',
                        req'[x].op = "put", x \notin raced'
                 PROVE  Touched(req'[x]) \cap Touched(req'[y]) = {}
    BY DEF Apart
  <2>2. \A u \in Threads \ {t} : (Active(u)' => Active(u)) /\ req'[u] = req[u]
    BY <1>2 DEF Frame, Active
  <2>3. CASE x = t
    BY <1>2, <1>4, <2>1, <2>2, <2>3
  <2>4. CASE y = t
    BY <1>2, <1>4, <2>1, <2>2, <2>4
  <2>5. CASE x # t /\ y # t
    BY <1>1, <2>1, <2>2, <2>5 DEF EInv, Apart
  <2> QED
    BY <2>3, <2>4, <2>5
<1>6. ASSUME NEW u \in Threads \ {t}
      PROVE  (TempOf(u) /\ TxOf(u) /\ DoneOf(u))'
  <2>1. /\ pc'[u] = pc[u] /\ req'[u] = req[u] /\ pos'[u] = pos[u] /\ temp'[u] = temp[u]
        /\ At(u)' = At(u) /\ (u \notin raced' => u \notin raced)
        /\ (Writing(u)' <=> Writing(u)) /\ (Active(u)' <=> Active(u))
    BY <1>1, <1>2 DEF Frame, At, Writing, InTransaction, Active
  <2> QED
    BY <1>1, <1>3, <2>1 DEF EInv, ChangeOK, TempOf, TxOf, DoneOf
<1>7. (TempOf(t) /\ TxOf(t))'
  BY <1>2 DEF TempOf, TxOf, Writing, InTransaction
<1>8. DoneOf(t)'
  <2>1. \A c \in Span(r) : ~(c < r.offset)
    BY RequestType DEF Span
  <2> QED
    BY <1>2, <2>1 DEF DoneOf
<1> QED
  BY <1>5, <1>6, <1>7, <1>8 DEF EInv, ChangeOK

\* ReadModify, WholeBlock and TrimBlock prepare the block
LEMMA PrepareOK ==
  ASSUME EInv, DInv', NEW t \in Threads, ReadModify(t) \/ WholeBlock(t) \/ TrimBlock(t)
  PROVE  EInv'
<1> DEFINE c == Merged(req[t], pos[t], Disk(At(t)))
           z == Merged(req[t], pos[t], Zeroes)
<1>1. /\ Active(t) /\ Frame(t) /\ UNCHANGED <<db, tx, raced, req, pos>>
      /\ req[t] \in Requests /\ pos[t] \in Span(req[t])
      /\ \/ req[t].op = "put" /\ pc'[t] = "put"
         \/ req[t].op = "trim" /\ pc'[t] = "begin"
  BY ThreadFrame DEF ReadModify, WholeBlock, TrimBlock, Active, Thread, EInv, DInv, ThreadsOK
<1>2. pos[t] \in Nat
  BY <1>1, RequestType DEF Bytes
<1>3. Disk(At(t))' = Disk(At(t))
  BY <1>1 DEF Disk, At
<1>4. temp'[t] = c
  <2>1. CASE WholeBlock(t)
    <3>1. z = c
      BY <1>2, <2>1, MergedWhole DEF WholeBlock, Whole, At
    <3> QED
      BY <2>1, <3>1 DEF WholeBlock, EInv, DInv, ThreadsOK
  <2>2. CASE ~WholeBlock(t)
    BY <2>2 DEF ReadModify, TrimBlock, EInv, DInv, ThreadsOK
  <2> QED
    BY <2>1, <2>2
<1>5. TempOf(t)'
  BY <1>1, <1>3, <1>4 DEF TempOf, Writing, InTransaction, Merged
<1>6. TxOf(t)'
  BY <1>1 DEF TxOf
<1> QED
  BY <1>1, <1>5, <1>6, StayOK

\* LockTrim, PutBlock, TrimNewBlock and the steps of a transaction before its
\* end: the block to be put stays
LEMMA CarryOK ==
  ASSUME EInv, DInv', NEW t \in Threads, Active(t), Frame(t),
         UNCHANGED <<db, raced, req, pos, temp>>, tx' = tx \/ Writing(t),
         pc'[t] \in {"work", "lock"} \/ (pc'[t] # "put" /\ (pc[t] = "put" \/ Writing(t))),
         TxOf(t)'
  PROVE  EInv'
<1>1. Disk(At(t))' = Disk(At(t))
  BY DEF Disk, At
<1>2. TempOf(t)'
  <2>1. TempOf(t)
    BY DEF EInv, ChangeOK
  <2> QED
    BY <1>1, <2>1 DEF TempOf, Writing, InTransaction, Merged
<1> QED
  BY <1>2, StayOK

LEMMA MovesOK ==
  ASSUME EInv, DInv', NEW t \in Threads,
         LockTrim(t) \/ PutBlock(t) \/ TrimNewBlock(t) \/ BeginTransaction(t)
  PROVE  EInv'
<1>1. /\ Active(t) /\ Frame(t) /\ UNCHANGED <<db, tx, raced, req, pos, temp>>
      /\ pc'[t] \in {"work", "begin", "release"}
      /\ pc'[t] = "work" \/ pc[t] = "put" \/ Writing(t)
  BY ThreadFrame DEF LockTrim, PutBlock, TrimNewBlock, BeginTransaction, tvars, Active,
     Writing, Thread, PutBlockInt, EInv, DInv, ThreadsOK
<1>2. TxOf(t)'
  BY <1>1 DEF TxOf
<1> QED
  BY <1>1, <1>2, CarryOK

\* the mappings of the other blocks stay
LEMMA RecordsChanged ==
  ASSUME NEW d \in Records, NEW b \in Blocks, NEW c
  PROVE  /\ \A x \in Blocks \ {b} : /\ Released(d, b).hash[x] = d.hash[x]
                                    /\ Mapped(d, b, c).hash[x] = d.hash[x]
         /\ Claimed(d, c).hash = d.hash
         /\ Mapped(d, b, c).hash[b] = Hash[c]
<1>1. d.hash \in [Blocks -> Hashes \cup {NoHash}]
  BY DEF Records
<1>2. \A x \in Blocks \ {b} : Released(d, b).hash[x] = d.hash[x]
  BY <1>1 DEF Released
<1> QED
  BY <1>1, <1>2 DEF Claimed, Mapped

LEMMA RecordsStepOK ==
  ASSUME EInv, DInv', NEW t \in Threads, Release(t) \/ Claim(t) \/ Map(t)
  PROVE  EInv'
<1>1. /\ Active(t) /\ Frame(t) /\ UNCHANGED <<db, raced, req, pos, temp>>
      /\ At(t)' = At(t) /\ At(t) \in Blocks /\ tx \in Records
      /\ Writing(t) /\ TxOf(t)
      /\ pc'[t] \in {"claim", "map", "commit"}
  BY ThreadFrame, AtType DEF Release, Claim, Map, Active, At, Writing, InTransaction, Thread,
     PutBlockInt, EInv, DInv, ThreadsOK, RecordsOK, ChangeOK
<1>2. CASE Release(t)
  <2>1. tx = db
    BY <1>2 DEF Release, EInv, DInv, TransactionOK, PhaseOf
  <2>2. pc'[t] = "claim"
    BY <1>2 DEF Release, EInv, DInv, ThreadsOK
  <2>3. \A x \in Blocks \ {At(t)} : tx'.hash[x] = db.hash[x]
    BY <1>1, <1>2, <2>1, RecordsChanged DEF Release
  <2>4. TxOf(t)'
    BY <1>1, <2>2, <2>3 DEF TxOf
  <2> QED
    BY <1>1, <2>4, CarryOK
<1>3. CASE Claim(t)
  <2>1. pc[t] = "claim" /\ pc'[t] = "map"
    BY <1>3 DEF Claim, EInv, DInv, ThreadsOK
  <2>2. tx'.hash = tx.hash
    BY <1>1, <1>3, RecordsChanged DEF Claim
  <2>3. TxOf(t)'
    BY <1>1, <2>1, <2>2 DEF TxOf
  <2> QED
    BY <1>1, <2>3, CarryOK
<1>4. CASE Map(t)
  <2>1. pc[t] = "map" /\ pc'[t] = "commit"
    BY <1>4 DEF Map, EInv, DInv, ThreadsOK
  <2>2. /\ \A x \in Blocks \ {At(t)} : tx'.hash[x] = tx.hash[x]
        /\ tx'.hash[At(t)] = Hash[temp[t]]
    BY <1>1, <1>4, RecordsChanged DEF Map
  <2>3. TxOf(t)'
    BY <1>1, <2>1, <2>2 DEF TxOf
  <2> QED
    BY <1>1, <2>3, CarryOK
<1> QED
  BY <1>2, <1>3, <1>4

\* the bytes of a put up to the end of the block that is committed
LEMMA StoredSoFar ==
  ASSUME EInv, NEW t \in Threads, pc[t] = "commit", db' = tx, req[t].op = "put",
         t \notin raced, NEW c \in Span(req[t]), c < PartEnd(req[t], pos[t])
  PROVE  Disk(Block(c))'[c % BlockSize] = req[t].data
<1> DEFINE r == req[t]
           o == pos[t]
<1>1. /\ ThreadsOK /\ Active(t) /\ r \in Requests /\ o \in Span(r)
      /\ At(t) \in Blocks /\ Block(c) \in Blocks
      /\ Disk(At(t)) \in Contents
      /\ temp[t] = Merged(r, o, Disk(At(t)))
  BY AtType, DiskType, SpanInBlocks DEF EInv, DInv, ThreadsOK, ChangeOK, TempOf, Active,
     Writing, InTransaction
<1>2. c \in Nat /\ o \in Nat /\ r.offset \in Nat /\ End(r) \in Nat
  BY <1>1, RequestType DEF Bytes
<1>3. c < o => Disk(Block(c))[c % BlockSize] = r.data
  BY <1>1 DEF EInv, ChangeOK, DoneOf
<1>4. PICK x \in Blocks : x = Block(c)
  BY <1>1
<1>5. Disk(x)' = IF x = At(t) THEN temp[t] ELSE Disk(x)
  BY PutChanges
<1>6. CASE x = At(t)
  <2>1. Block(c) = Block(o)
    BY <1>4, <1>6 DEF At
  <2>2. Merged(r, o, Disk(At(t)))[c % BlockSize] = r.data
    BY <1>1, <1>3, <1>4, <1>6, <2>1, MergedBytes
  <2> QED
    BY <1>1, <1>4, <1>5, <1>6, <2>2
<1>7. CASE x # At(t)
  <2>1. c < o
    <3>1. SUFFICES ASSUME ~(c < o) PROVE FALSE
      OBVIOUS
    <3>2. c \in Part(r, o)
      BY <1>1, <1>2, <3>1, PartOK DEF Part
    <3>3. Block(c) = Block(o)
      BY <1>1, <1>2, <3>2, PartOK
    <3> QED
      BY <1>4, <1>7, <3>3 DEF At
  <2> QED
    BY <1>3, <1>4, <1>5, <1>7, <2>1
<1> QED
  BY <1>6, <1>7

\* Commit and CommitError
LEMMA CommitsOK ==
  ASSUME EInv, DInv', NEW t \in Threads, Commit(t) \/ CommitError(t)
  PROVE  EInv'
<1>1. /\ pc[t] = "commit" /\ Active(t) /\ Writing(t) /\ Frame(t)
      /\ db' = db \/ db' = tx
      /\ Failed(t) \/ (Advance(t) /\ db' = tx)
  BY ThreadFrame DEF Commit, CommitError, Active, Writing, InTransaction, Thread, PutBlockInt,
     EInv, DInv
<1>2. CASE db' = tx /\ Advance(t)
  <2>1. \A x \in Blocks : x # At(t) => Disk(x)' = Disk(x)
    BY <1>1, <1>2, PutChanges
  <2>2. CASE PartEnd(req[t], pos[t]) = End(req[t])
    <3>1. pc'[t] = "idle" /\ raced' = raced \ {t}
      BY <1>2, <2>2 DEF Advance, Return, EInv, DInv, ThreadsOK
    <3>2. (TempOf(t) /\ TxOf(t) /\ DoneOf(t))'
      BY <3>1 DEF TempOf, TxOf, DoneOf, Active, Writing, InTransaction
    <3> QED
      BY <1>1, <2>1, <3>1, <3>2, StepOK
  <2>3. CASE PartEnd(req[t], pos[t]) # End(req[t])
    <3>1. /\ pc'[t] = "work" /\ raced' = raced /\ req' = req
          /\ pos'[t] = PartEnd(req[t], pos[t])
      BY <1>2, <2>3 DEF Advance, EInv, DInv, ThreadsOK
    <3>2. (TempOf(t) /\ TxOf(t))'
      BY <3>1 DEF TempOf, TxOf, Writing, InTransaction
    <3>3. DoneOf(t)'
      <4>1. SUFFICES ASSUME req[t].op = "put", t \notin raced,
                            NEW c \in Span(req[t]), c < PartEnd(req[t], pos[t])
                     PROVE  Disk(Block(c))'[c % BlockSize] = req[t].data
        BY <3>1 DEF DoneOf
      <4> QED
        BY <1>1, <1>2, <4>1, StoredSoFar
    <3> QED
      BY <1>1, <2>1, <3>1, <3>2, <3>3, StepOK
  <2> QED
    BY <2>2, <2>3
<1>3. CASE db' = tx /\ Failed(t) /\ ~Advance(t)
  <2>1. \A x \in Blocks : x # At(t) => Disk(x)' = Disk(x)
    BY <1>1, <1>3, PutChanges
  <2>2. pc'[t] = "idle" /\ raced' = raced \ {t}
    BY <1>3 DEF Failed, Return, EInv, DInv, ThreadsOK
  <2>3. (TempOf(t) /\ TxOf(t) /\ DoneOf(t))'
    BY <2>2 DEF TempOf, TxOf, DoneOf, Active, Writing, InTransaction
  <2> QED
    BY <1>1, <2>1, <2>2, <2>3, StepOK
<1>4. CASE db' = db /\ Failed(t)
  BY <1>1, <1>4, GiveUpOK
<1> QED
  BY <1>1, <1>2, <1>3, <1>4

\* GetBlockError, BeginTransactionError and Abort
LEMMA FailuresOK ==
  ASSUME EInv, DInv', NEW t \in Threads,
         GetBlockError(t) \/ BeginTransactionError(t) \/ Abort(t)
  PROVE  EInv'
<1>1. /\ Active(t) /\ Frame(t) /\ UNCHANGED db
      /\ tx' = tx \/ Writing(t)
      /\ Failed(t) \/ Return(t)
  BY ThreadFrame DEF GetBlockError, BeginTransactionError, Abort, Active, Writing,
     InTransaction, Thread, PutBlockInt, EInv, DInv
<1> QED
  BY <1>1, GiveUpOK

LEMMA RestartsOK ==
  ASSUME EInv, DInv', Restart
  PROVE  EInv'
<1>1. \A u \in Threads : pc'[u] = "idle"
  BY DEF Restart
<1> QED
  BY <1>1 DEF EInv, Apart, ChangeOK, TempOf, TxOf, DoneOf, Active, Writing, InTransaction

LEMMA InitEInv == Init => EInv
<1>1. SUFFICES ASSUME Init PROVE EInv
  OBVIOUS
<1>2. DInv /\ \A u \in Threads : pc[u] = "idle"
  BY <1>1, InitDInv DEF Init
<1> QED
  BY <1>2 DEF EInv, Apart, ChangeOK, TempOf, TxOf, DoneOf, Active, Writing, InTransaction

LEMMA NextEInv ==
  ASSUME EInv, Covered, [Next]_vars
  PROVE  EInv'
<1>1. DInv'
  BY NextDInv DEF EInv
<1>2. ASSUME NEW t \in Threads, Thread(t)
      PROVE  EInv'
  BY <1>1, <1>2, BeginApartOK, PrepareOK, MovesOK, RecordsStepOK, CommitsOK, FailuresOK
     DEF Thread, PutBlockInt
<1>3. CASE UNCHANGED vars
  <2>1. /\ db' = db /\ tx' = tx /\ pc' = pc /\ req' = req /\ pos' = pos /\ temp' = temp
        /\ raced' = raced
    BY <1>3 DEF vars, tvars
  <2>2. \A x : Disk(x)' = Disk(x)
    BY <2>1, Unwritten
  <2>3. Apart'
    BY <2>1 DEF EInv, Apart, Active
  <2>4. ASSUME NEW u \in Threads
        PROVE  (TempOf(u) /\ TxOf(u) /\ DoneOf(u))'
    <3>1. /\ TempOf(u) /\ TxOf(u) /\ DoneOf(u) /\ At(u)' = At(u)
          /\ (Active(u)' <=> Active(u)) /\ (Writing(u)' <=> Writing(u))
      BY <2>1 DEF EInv, ChangeOK, At, Active, Writing, InTransaction
    <3>2. TempOf(u)'
      BY <2>1, <2>2, <3>1 DEF TempOf
    <3>3. TxOf(u)'
      BY <2>1, <3>1 DEF TxOf
    <3>4. DoneOf(u)'
      BY <2>1, <2>2, <3>1 DEF DoneOf
    <3> QED
      BY <3>2, <3>3, <3>4
  <2> QED
    BY <1>1, <2>3, <2>4 DEF EInv, ChangeOK
<1> QED
  BY <1>1, <1>2, <1>3, RestartsOK DEF Next

(***************************************************************************)
(* The theorems.                                                           *)
(***************************************************************************)

\* Every variable has a value of its type: work_offset stays in the backend,
\* and no use count passes the number of blocks.
THEOREM DedupTypeCorrect == Spec => []TypeOK
<1>1. DInv /\ [Next]_vars => DInv'
  BY NextDInv
<1>2. DInv => TypeOK
  BY DEF DInv, ThreadsOK, RecordsOK, TypeOK
<1> QED
  BY <1>1, <1>2, InitDInv, PTL DEF Spec

\* The use counts are exact after any sequence of puts, trims, failures and
\* restarts, for every number of threads and blocks and every hash function
\* without collisions.
THEOREM CountsAlwaysExact == Spec => []CountsExact
<1>1. DInv /\ [Next]_vars => DInv'
  BY NextDInv
<1>2. DInv => CountsExact
  BY DEF DInv, RecordsOK, ExactOn, CountsExact, Users, UsersIn
<1> QED
  BY <1>1, <1>2, InitDInv, PTL DEF Spec

\* Every block that was written finds its content: none is lost because a
\* count was wrong or a transaction was ended halfway.
THEOREM ContentAlwaysFound == Spec => []MappedHasData
<1>1. DInv /\ [Next]_vars => DInv'
  BY NextDInv
<1>2. DInv => MappedHasData
  BY NoDataAssumption DEF DInv, RecordsOK, FilledOn, MappedHasData
<1> QED
  BY <1>1, <1>2, InitDInv, PTL DEF Spec

\* No error path leaves a transaction open behind it.
THEOREM TransactionsEnd == Spec => []TransactionOwned
<1>1. DInv /\ [Next]_vars => DInv'
  BY NextDInv
<1>2. DInv => TransactionOwned
  BY DEF DInv, TransactionOK, ThreadsOK, Writing, TransactionOwned
<1> QED
  BY <1>1, <1>2, InitDInv, PTL DEF Spec

\* only the end of a transaction changes the database
LEMMA WhoWrites ==
  ASSUME NEW t \in Threads, Thread(t)
  PROVE  db' = db \/ (pc[t] = "commit" /\ db' = tx)
BY DEF Thread, PutBlockInt, Begin, LockTrim, ReadModify, WholeBlock, PutBlock, TrimBlock,
   TrimNewBlock, GetBlockError, BeginTransaction, BeginTransactionError, Release, Claim, Map,
   Abort, Commit, CommitError

\* A put or a trim changes one block at a time, while it holds `lock', and in
\* it the bytes of the request only: the others are what was there when the
\* transaction was committed, although get_block and put_block take `lock'
\* one after the other. For every number of threads, blocks and failures, and
\* for requests that lock every block they change.
THEOREM OnlyThePartChanges == ASSUME Covered PROVE Spec => ExactChange
<1>1. EInv /\ [Next]_vars => EInv'
  BY NextEInv
<1>2. EInv /\ [Next]_vars =>
        [\A b \in Blocks :
           Disk(b)' # Disk(b) =>
             \E t \in lock :
               /\ At(t) = b
               /\ t \notin raced => Disk(b)' = Merged(req[t], pos[t], Disk(b))]_vars
  <2>1. SUFFICES ASSUME EInv, Next, NEW b \in Blocks, Disk(b)' # Disk(b)
                 PROVE  \E t \in lock :
                          /\ At(t) = b
                          /\ t \notin raced =>
                               Disk(b)' = Merged(req[t], pos[t], Disk(b))
    OBVIOUS
  <2>2. db' # db
    BY <2>1, Unwritten
  <2>3. PICK t \in Threads : Thread(t)
    BY <2>1, <2>2 DEF Next, Restart
  <2>4. pc[t] = "commit" /\ db' = tx
    BY <2>2, <2>3, WhoWrites
  <2>5. t \in lock /\ Active(t) /\ Writing(t) /\ req[t].op \in {"put", "trim"}
    BY <2>1, <2>4, RequestType DEF EInv, DInv, ThreadsOK, Active, Writing, InTransaction
  <2>6. b = At(t) /\ Disk(b)' = temp[t]
    BY <2>1, <2>4, PutChanges
  <2>7. t \notin raced => temp[t] = Merged(req[t], pos[t], Disk(At(t)))
    BY <2>1, <2>5 DEF EInv, ChangeOK, TempOf
  <2> QED
    BY <2>5, <2>6, <2>7
<1> QED
  BY <1>1, <1>2, InitEInv, PTL DEF Spec, ExactChange

\* A put that has returned without an error has stored all its bytes, of all
\* its blocks, whatever the other threads did in between - unless one trimmed
\* a block of it.
THEOREM PutsAreStored == ASSUME Covered PROVE Spec => PutIsStored
<1>1. EInv /\ [Next]_vars => EInv'
  BY NextEInv
<1>2. EInv /\ [Next]_vars =>
        [\A t \in Threads :
           Commit(t) /\ ~Active(t)' /\ req[t].op = "put" /\ t \notin raced =>
             \A c \in Span(req[t]) : Disk(Block(c))'[c % BlockSize] = req[t].data]_vars
  <2>1. SUFFICES ASSUME EInv, NEW t \in Threads, Commit(t), ~Active(t)', req[t].op = "put",
                        t \notin raced, NEW c \in Span(req[t])
                 PROVE  Disk(Block(c))'[c % BlockSize] = req[t].data
    OBVIOUS
  <2>2. pc[t] = "commit" /\ db' = tx
    BY <2>1 DEF Commit
  <2>3. PartEnd(req[t], pos[t]) = End(req[t])
    BY <2>1 DEF Commit, Advance, Active, EInv, DInv, ThreadsOK
  <2>4. c < End(req[t])
    <3>1. req[t] \in Requests
      BY <2>1, <2>2 DEF EInv, DInv, ThreadsOK, Active
    <3> QED
      BY <3>1, RequestType DEF Span
  <2> QED
    BY <2>1, <2>2, <2>3, <2>4, StoredSoFar
<1> QED
  BY <1>1, <1>2, InitEInv, PTL DEF Spec, PutIsStored
=============================================================================
