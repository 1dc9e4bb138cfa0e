--------------------------- MODULE TieringProofs ---------------------------
(* Theorems about Tiering, for every number of threads, blocks and bins.  *)
EXTENDS Tiering, FiniteSetTheorems, TLAPS

(***************************************************************************)
(* Only the last descriptor of a bin is ever in use: then the operators on  *)
(* bins are about that one.                                                *)
(***************************************************************************)

Last == Descriptors - 1
Entry(b) == [block |-> b, dirty |-> TRUE]
LastOnly(r) == \A i \in Slots : i # Last => r[i] = Empty

LEMMA LastSlot == Last \in Slots /\ \A i \in Slots : i # Last => i < Last
BY TieringSlotsAssumption DEF Last, Slots

LEMMA SlotIsLast ==
  ASSUME NEW r \in BinRecords, LastOnly(r), NEW b \in Blocks
  PROVE  /\ Match(r, b) <=> r[Last].block = b
         /\ SlotFor(r, b) = Last
         /\ MustEvict(r, b) <=> (r[Last].block # b /\ r[Last].dirty)
<1>1. \A i \in Slots : i # Last => r[i].block # b
  BY TieringNoBlockAssumption DEF LastOnly, Empty
<1>2. Match(r, b) <=> r[Last].block = b
  BY <1>1, LastSlot DEF Match
<1>3. SlotFor(r, b) = Last
  <2>1. CASE Match(r, b)
    <3> DEFINE P(i) == r[i].block = b /\ \A j \in 0 .. i - 1 : r[j].block # b
    <3>1. P(Last)
      <4>1. \A j \in 0 .. Last - 1 : j \in Slots /\ j # Last
        BY TieringSlotsAssumption DEF Last, Slots
      <4> QED
        BY <1>1, <1>2, <2>1, <4>1
    <3>2. \A i \in Slots : P(i) => i = Last
      BY <1>1
    <3>3. SlotFor(r, b) = CHOOSE i \in Slots : P(i)
      BY <2>1 DEF SlotFor
    <3> HIDE DEF P
    <3> QED
      BY <3>1, <3>2, <3>3, LastSlot
  <2> QED
    BY <2>1 DEF SlotFor, Last
<1> QED
  BY <1>2, <1>3 DEF MustEvict

LEMMA EntryIsLast ==
  ASSUME NEW r \in BinRecords, LastOnly(r), NEW b \in Blocks, NEW v \in BOOLEAN
  PROVE  (\E i \in Slots : r[i] = [block |-> b, dirty |-> v])
           <=> r[Last] = [block |-> b, dirty |-> v]
<1>1. Empty # [block |-> b, dirty |-> v]
  BY TieringNoBlockAssumption DEF Empty
<1> QED
  BY <1>1, LastSlot DEF LastOnly

USE DEF history

(***************************************************************************)
(* Requests and contents.                                                  *)
(***************************************************************************)

LEMMA ZeroesType == Zeroes \in Contents /\ NoDescriptors \in BinRecords /\ LastOnly(NoDescriptors)
BY TieringZeroAssumption DEF Zeroes, Contents, NoDescriptors, BinRecords, LastOnly

LEMMA RequestType ==
  ASSUME NEW r \in Requests
  PROVE  /\ r.op \in {"get", "put", "part"} /\ r.block \in Blocks /\ r.data \in Values
         /\ Bin[r.block] \in Bins
BY TieringOpsAssumption, TieringBinAssumption DEF Requests

LEMMA ChangedType ==
  ASSUME NEW r \in Requests, NEW c \in Contents
  PROVE  /\ Changed(r, c) \in Contents
         /\ Changed(r, Changed(r, c)) = Changed(r, c)
         /\ r.op = "get" => Changed(r, c) = c
         /\ r.op = "put" => \A e \in Contents : Changed(r, e) = Changed(r, c)
BY RequestType DEF Changed, Contents

(***************************************************************************)
(* The inductive invariant.                                                *)
(***************************************************************************)

Current(i) == meta[i][Last]
Mine(t) == d[t][Last]

\* a descriptor is in the bin of its block
PlacesOK ==
  \A i \in Bins : LastOnly(meta[i]) /\ \A b \in Blocks : Current(i).block = b => Bin[b] = i

RequestOf(t) ==
  /\ LastOnly(d[t])
  /\ Active(t) => /\ req[t] \in Requests /\ Intended(req[t]) \subseteq may[BlockOf(t)]
                  /\ phase[t] = "put" => req[t].op # "get"

\* one thread in a bin, and one in a block unless both only read
LocksOK ==
  \A t, u \in Threads : t # u =>
    /\ HoldsBin(t) /\ HoldsBin(u) => BinOf(t) # BinOf(u)
    /\ Active(t) /\ Active(u) /\ BlockOf(t) = BlockOf(u) => req[t].op = "get"

\* the descriptor a thread works with, next to the stored one
EvictOf(t) ==
  pc[t] = "evict" =>
    /\ Mine(t) = Current(BinOf(t))
    /\ Current(BinOf(t)).block # BlockOf(t) /\ Current(BinOf(t)).dirty

ReadyOf(t) ==
  pc[t] = "ready" =>
    /\ Mine(t).block = Current(BinOf(t)).block
    /\ Mine(t).block = BlockOf(t) => Mine(t) = Current(BinOf(t))
    /\ Mine(t).dirty => Mine(t).block = BlockOf(t)
    /\ \A b \in Blocks : ok[t] /\ b # BlockOf(t) /\ Current(BinOf(t)) = Entry(b)
         => slow[b] = fast[BinOf(t)]

StoreOf(t) ==
  pc[t] = "store" =>
    /\ Mine(t).block \in {Current(BinOf(t)).block, BlockOf(t)}
    /\ Mine(t).dirty => Mine(t) = Entry(BlockOf(t)) /\ fast[BinOf(t)] \in may[BlockOf(t)]
    /\ Current(BinOf(t)) = Entry(BlockOf(t)) => Mine(t) = Entry(BlockOf(t))
    /\ \A b \in Blocks : ok[t] /\ b # BlockOf(t) /\ Current(BinOf(t)) = Entry(b)
         => slow[b] \in may[b]
    /\ ok[t] /\ phase[t] = "put" => /\ Mine(t) = Entry(BlockOf(t))
                                    /\ fast[BinOf(t)] \in Intended(req[t])

\* what get_block has returned to put_data or trim_zero; a stale content is
\* not one of the block
OutOf(t) ==
  /\ Active(t) /\ req[t].op = "part"
  /\ phase[t] = "put" \/ (pc[t] = "store" /\ ok[t])
  => stale[t] \/ out[t] \in may[BlockOf(t)]

CallOf(t) == EvictOf(t) /\ ReadyOf(t) /\ StoreOf(t) /\ OutOf(t)

ThreadsOK == \A t \in Threads : RequestOf(t) /\ CallOf(t)
MayOK == \A b \in Blocks : may[b] # {}

\* NothingLost, for bins with one descriptor
Where(b) == IF Current(Bin[b]) = Entry(b) THEN fast[Bin[b]] ELSE slow[b]
Spared(t, b) ==
  ~ /\ pc[t] = "store" /\ phase[t] = "put"
    /\ BinOf(t) = Bin[b] /\ BlockOf(t) # b /\ Current(Bin[b]) = Entry(b)
Kept == \A b \in Blocks : (\A t \in Threads : Spared(t, b)) => Where(b) \in may[b]

TInv == TypeOK /\ PlacesOK /\ LocksOK /\ ThreadsOK /\ MayOK /\ Kept

LEMMA ActiveType ==
  ASSUME ThreadsOK, NEW t \in Threads, Active(t)
  PROVE  /\ req[t] \in Requests /\ BlockOf(t) \in Blocks /\ BinOf(t) \in Bins
         /\ Bin[BlockOf(t)] = BinOf(t)
         /\ req[t].op \in {"get", "put", "part"}
<1>1. req[t] \in Requests
  BY DEF ThreadsOK, RequestOf
<1> QED
  BY <1>1, RequestType DEF BlockOf, BinOf

LEMMA RiskIs ==
  ASSUME TypeOK, PlacesOK, ThreadsOK, NEW t \in Threads, Active(t), NEW b \in Blocks
  PROVE  /\ b \in AtRisk(t) <=> BlockOf(t) # b /\ Current(BinOf(t)) = Entry(b)
         /\ Replacing(t) <=> /\ pc[t] = "store" /\ phase[t] = "put"
                             /\ Current(BinOf(t)).block # BlockOf(t)
         /\ Current(BinOf(t)) = Entry(b) => Bin[b] = BinOf(t)
         /\ ~Spared(t, b) => Replacing(t) /\ b \in AtRisk(t)
<1>1. BlockOf(t) \in Blocks /\ BinOf(t) \in Bins
  BY ActiveType
<1>2. meta[BinOf(t)] \in BinRecords /\ LastOnly(meta[BinOf(t)])
  BY <1>1 DEF TypeOK, PlacesOK
<1>3. b \in AtRisk(t) <=> BlockOf(t) # b /\ Current(BinOf(t)) = Entry(b)
  <2>1. (\E i \in Slots : meta[BinOf(t)][i] = [block |-> b, dirty |-> TRUE])
          <=> Current(BinOf(t)) = Entry(b)
    BY <1>2, EntryIsLast DEF Current, Entry
  <2> QED
    BY <2>1 DEF AtRisk
<1>4. Replacing(t) <=> /\ pc[t] = "store" /\ phase[t] = "put"
                       /\ Current(BinOf(t)).block # BlockOf(t)
  BY <1>1, <1>2, SlotIsLast DEF Replacing, Current
<1>5. Current(BinOf(t)) = Entry(b) => Bin[b] = BinOf(t)
  BY <1>1 DEF PlacesOK, Entry
<1> QED
  BY <1>3, <1>4, <1>5 DEF Spared, Entry

LEMMA KeptIsNothingLost ==
  ASSUME TypeOK, PlacesOK, ThreadsOK, Kept
  PROVE  NothingLost
<1> SUFFICES ASSUME NEW b \in Blocks, \A t \in Threads : Replacing(t) => b \notin AtRisk(t)
             PROVE  Stored(b) \in may[b]
  BY DEF NothingLost, BeingReplaced
<1>1. Bin[b] \in Bins /\ meta[Bin[b]] \in BinRecords /\ LastOnly(meta[Bin[b]])
  BY TieringBinAssumption DEF TypeOK, PlacesOK
<1>2. (\E i \in Slots : meta[Bin[b]][i] = [block |-> b, dirty |-> TRUE])
        <=> Current(Bin[b]) = Entry(b)
  BY <1>1, EntryIsLast DEF Current, Entry
<1>3. Stored(b) = Where(b)
  BY <1>2 DEF Stored, Where
<1>4. \A t \in Threads : Spared(t, b)
  BY RiskIs DEF Spared, Active
<1> QED
  BY <1>3, <1>4 DEF Kept

(***************************************************************************)
(* A step of a thread changes storage in the bin that it holds, and of what *)
(* a block may have only what the other threads are not concerned with.     *)
(***************************************************************************)

Holds(t, b) == HoldsBin(t) /\ Bin[b] = BinOf(t)

Frame(t) ==
  /\ \A u \in Threads \ {t} :
       /\ pc'[u] = pc[u] /\ req'[u] = req[u] /\ phase'[u] = phase[u]
       /\ d'[u] = d[u] /\ ok'[u] = ok[u] /\ out'[u] = out[u] /\ stale'[u] = stale[u]
  /\ \A i \in Bins : (fast'[i] = fast[i] /\ meta'[i] = meta[i]) \/ (HoldsBin(t) /\ i = BinOf(t))
  /\ \A b \in Blocks : slow'[b] = slow[b] \/ Holds(t, b)
  /\ \A b \in Blocks : may[b] \subseteq may'[b] \/ Holds(t, b)
  /\ \A b \in Blocks : \/ may'[b] \in {may[b], Contents}
                       \/ \A u \in Threads \ {t} : Active(u) => BlockOf(u) # b

LEMMA OthersOK ==
  ASSUME TInv, NEW t \in Threads, TypeOK', Frame(t), NEW u \in Threads \ {t}
  PROVE  RequestOf(u)' /\ CallOf(u)'
<1>1. /\ pc'[u] = pc[u] /\ req'[u] = req[u] /\ phase'[u] = phase[u]
      /\ d'[u] = d[u] /\ ok'[u] = ok[u] /\ out'[u] = out[u] /\ stale'[u] = stale[u]
  BY DEF Frame
<1>2. /\ Active(u)' = Active(u) /\ HoldsBin(u)' = HoldsBin(u) /\ BlockOf(u)' = BlockOf(u)
      /\ BinOf(u)' = BinOf(u) /\ Mine(u)' = Mine(u)
  BY <1>1 DEF Active, HoldsBin, BlockOf, BinOf, Mine
<1>3. RequestOf(u) /\ CallOf(u)
  BY DEF TInv, ThreadsOK
<1>4. CASE ~Active(u)
  BY <1>1, <1>2, <1>3, <1>4 DEF RequestOf, CallOf, EvictOf, ReadyOf, StoreOf, OutOf, Active
<1>5. CASE Active(u)
  <2>1. /\ req[u] \in Requests /\ BlockOf(u) \in Blocks /\ BinOf(u) \in Bins
        /\ Bin[BlockOf(u)] = BinOf(u)
    BY <1>5, ActiveType DEF TInv
  <2>2. may'[BlockOf(u)] \in {may[BlockOf(u)], Contents} /\ may[BlockOf(u)] \in SUBSET Contents
    BY <1>5, <2>1 DEF Frame, TInv, TypeOK
  <2>3. Intended(req[u])' \subseteq may'[BlockOf(u)]
    <3>1. CASE may'[BlockOf(u)] = may[BlockOf(u)]
      BY <1>1, <1>3, <1>5, <3>1 DEF RequestOf, Intended, BlockOf
    <3>2. CASE may'[BlockOf(u)] = Contents
      BY <1>1, <2>1, <3>2, ChangedType DEF Intended, BlockOf
    <3> QED
      BY <2>2, <3>1, <3>2
  <2>4. Intended(req[u]) \subseteq Intended(req[u])' /\ may[BlockOf(u)] \subseteq may'[BlockOf(u)]
    BY <1>1, <2>2 DEF Intended, BlockOf
  <2>5. RequestOf(u)' /\ OutOf(u)'
    BY <1>1, <1>2, <1>3, <2>1, <2>3, <2>4 DEF RequestOf, CallOf, OutOf
  <2>6. CASE ~HoldsBin(u)
    BY <1>1, <1>2, <2>5, <2>6 DEF CallOf, EvictOf, ReadyOf, StoreOf, HoldsBin
  <2>7. CASE HoldsBin(u)
    <3>1. ~(HoldsBin(t) /\ BinOf(u) = BinOf(t))
      BY <2>7 DEF TInv, LocksOK
    <3>2. /\ fast'[BinOf(u)] = fast[BinOf(u)] /\ meta'[BinOf(u)] = meta[BinOf(u)]
          /\ Current(BinOf(u))' = Current(BinOf(u))
      BY <1>2, <2>1, <3>1 DEF Frame, Current
    <3>3. \A b \in Blocks : Current(BinOf(u)) = Entry(b) =>
            slow'[b] = slow[b] /\ may[b] \subseteq may'[b]
      BY <2>1, <3>1 DEF Frame, TInv, PlacesOK, Entry, Holds
    <3>4. EvictOf(u)'
      BY <1>1, <1>2, <1>3, <3>2 DEF CallOf, EvictOf
    <3>5. ReadyOf(u)'
      BY <1>1, <1>2, <1>3, <3>2, <3>3 DEF CallOf, ReadyOf
    <3>6. StoreOf(u)'
      BY <1>1, <1>2, <1>3, <2>4, <3>2, <3>3 DEF CallOf, StoreOf
    <3> QED
      BY <2>5, <3>4, <3>5, <3>6 DEF CallOf
  <2> QED
    BY <2>6, <2>7
<1> QED
  BY <1>4, <1>5

LEMMA ElsewhereKept ==
  ASSUME TInv, NEW t \in Threads, Frame(t), NEW b \in Blocks, ~Holds(t, b),
         \A u \in Threads : Spared(u, b)'
  PROVE  Where(b)' \in may'[b]
<1>1. Bin[b] \in Bins /\ ~(HoldsBin(t) /\ Bin[b] = BinOf(t))
  BY TieringBinAssumption DEF Holds
<1>2. /\ fast'[Bin[b]] = fast[Bin[b]] /\ meta'[Bin[b]] = meta[Bin[b]]
      /\ slow'[b] = slow[b] /\ may[b] \subseteq may'[b]
  BY <1>1 DEF Frame, Holds
<1>3. Current(Bin[b])' = Current(Bin[b]) /\ Where(b)' = Where(b)
  BY <1>2 DEF Current, Where
<1>4. ASSUME NEW u \in Threads PROVE Spared(u, b)
  <2>1. CASE u = t
    BY <1>1, <2>1 DEF Spared, HoldsBin
  <2>2. CASE u # t
    <3>1. pc'[u] = pc[u] /\ phase'[u] = phase[u] /\ req'[u] = req[u]
      BY <2>2 DEF Frame
    <3>2. Spared(u, b)'
      OBVIOUS
    <3> QED
      BY <1>3, <3>1, <3>2 DEF Spared, BinOf, BlockOf
  <2> QED
    BY <2>1, <2>2
<1> QED
  BY <1>2, <1>3, <1>4 DEF TInv, Kept

LEMMA OthersSpared ==
  ASSUME TInv, NEW t \in Threads, NEW b \in Blocks, Holds(t, b), Spared(t, b)
  PROVE  Where(b) \in may[b]
<1>1. \A u \in Threads : Spared(u, b)
  BY DEF TInv, LocksOK, Spared, Holds, HoldsBin
<1> QED
  BY <1>1 DEF TInv, Kept

LEMMA StepOK ==
  ASSUME TInv, NEW t \in Threads, TypeOK', PlacesOK', LocksOK', MayOK', Frame(t),
         RequestOf(t)', CallOf(t)',
         \A b \in Blocks : Holds(t, b) /\ Spared(t, b)' => Where(b)' \in may'[b]
  PROVE  TInv'
<1>1. ThreadsOK'
  BY OthersOK DEF ThreadsOK
<1>2. Kept'
  BY ElsewhereKept DEF Kept
<1> QED
  BY <1>1, <1>2 DEF TInv

LEMMA LocksKept ==
  ASSUME TInv, NEW t \in Threads, Frame(t),
         Active(t)' => Active(t) /\ req'[t] = req[t],
         HoldsBin(t)' => HoldsBin(t) \/ \A u \in Threads : HoldsBin(u) => BinOf(u) # BinOf(t)
  PROVE  LocksOK'
<1>1. ASSUME NEW u \in Threads, Active(u)'
      PROVE  Active(u) /\ BlockOf(u)' = BlockOf(u) /\ BinOf(u)' = BinOf(u) /\ req'[u] = req[u]
  <2>1. CASE u = t
    BY <1>1, <2>1 DEF BlockOf, BinOf
  <2>2. CASE u # t
    BY <1>1, <2>2 DEF Frame, Active, BlockOf, BinOf
  <2> QED
    BY <2>1, <2>2
<1>2. \A u \in Threads : HoldsBin(u)' => Active(u)'
  BY DEF HoldsBin, Active
<1>3. \A u \in Threads \ {t} : HoldsBin(u)' => HoldsBin(u)
  BY DEF Frame, HoldsBin
<1>4. ASSUME NEW u \in Threads, NEW v \in Threads, u # v, HoldsBin(u)', HoldsBin(v)'
      PROVE  BinOf(u) # BinOf(v)
  BY <1>3, <1>4 DEF TInv, LocksOK
<1>5. ASSUME NEW u \in Threads, NEW v \in Threads, u # v,
             Active(u)', Active(v)', BlockOf(u)' = BlockOf(v)'
      PROVE  req'[u].op = "get"
  BY <1>1, <1>5 DEF TInv, LocksOK
<1> QED
  BY <1>1, <1>2, <1>4, <1>5 DEF LocksOK

\* a thread that has returned has nothing more to keep
LEMMA IdleOK ==
  ASSUME NEW t \in Threads, TInv, Return(t)
  PROVE  RequestOf(t)' /\ CallOf(t)' /\ ~Active(t)' /\ ~HoldsBin(t)'
<1>1. pc'[t] = "idle" /\ d'[t] = NoDescriptors
  BY DEF Return, TInv, TypeOK
<1> QED
  BY <1>1, ZeroesType DEF RequestOf, CallOf, EvictOf, ReadyOf, StoreOf, OutOf, Active, HoldsBin

LEMMA InBin ==
  ASSUME TInv, NEW t \in Threads, Active(t)
  PROVE  /\ req[t] \in Requests /\ BlockOf(t) \in Blocks /\ BinOf(t) \in Bins
         /\ Bin[BlockOf(t)] = BinOf(t)
         /\ d[t] \in BinRecords /\ LastOnly(d[t])
         /\ meta[BinOf(t)] \in BinRecords /\ LastOnly(meta[BinOf(t)])
         /\ Match(d[t], BlockOf(t)) <=> Mine(t).block = BlockOf(t)
         /\ Slot(t) = Last
         /\ Current(BinOf(t)) \in [block : Blocks, dirty : BOOLEAN] \cup {Empty}
         /\ Mine(t) \in [block : Blocks, dirty : BOOLEAN] \cup {Empty}
<1>1. /\ req[t] \in Requests /\ BlockOf(t) \in Blocks /\ BinOf(t) \in Bins
      /\ Bin[BlockOf(t)] = BinOf(t)
  BY ActiveType DEF TInv
<1>2. d[t] \in BinRecords /\ LastOnly(d[t])
  BY DEF TInv, TypeOK, ThreadsOK, RequestOf
<1>3. meta[BinOf(t)] \in BinRecords /\ LastOnly(meta[BinOf(t)])
  BY <1>1 DEF TInv, TypeOK, PlacesOK
<1>4. /\ Match(d[t], BlockOf(t)) <=> Mine(t).block = BlockOf(t)
      /\ Slot(t) = Last
  BY <1>1, <1>2, SlotIsLast DEF Mine, Slot
<1>5. /\ Current(BinOf(t)) \in [block : Blocks, dirty : BOOLEAN] \cup {Empty}
      /\ Mine(t) \in [block : Blocks, dirty : BOOLEAN] \cup {Empty}
  BY <1>2, <1>3, LastSlot DEF Current, Mine, BinRecords
<1> QED
  BY <1>1, <1>2, <1>3, <1>4, <1>5

LEMMA IntendedType ==
  ASSUME NEW r \in Requests, TypeOK
  PROVE  /\ Intended(r) \subseteq Contents
         /\ r.op = "get" => Intended(r) = may[r.block]
         /\ may[r.block] \subseteq Contents
<1>1. may[r.block] \subseteq Contents
  BY RequestType DEF TypeOK
<1> QED
  BY <1>1, ChangedType DEF Intended

LEMMA RequestKept ==
  ASSUME TInv, NEW t \in Threads, Active(t), req'[t] = req[t], LastOnly(d'[t]),
         phase'[t] = phase[t], may'[BlockOf(t)] \in {may[BlockOf(t)], Contents}
  PROVE  RequestOf(t)'
<1>1. /\ req[t] \in Requests /\ Intended(req[t]) \subseteq may[BlockOf(t)]
      /\ phase[t] = "put" => req[t].op # "get"
  BY DEF TInv, ThreadsOK, RequestOf
<1>2. Intended(req[t])' \subseteq may'[BlockOf(t)]
  <2>1. CASE may'[BlockOf(t)] = may[BlockOf(t)]
    BY <1>1, <2>1 DEF Intended, BlockOf
  <2>2. CASE may'[BlockOf(t)] = Contents
    BY <1>1, <2>2, ChangedType DEF Intended, BlockOf
  <2> QED
    BY <2>1, <2>2
<1> QED
  BY <1>1, <1>2 DEF RequestOf, BlockOf

(***************************************************************************)
(* The steps.                                                              *)
(***************************************************************************)

LEMMA BeginOK ==
  ASSUME TInv, NEW t \in Threads, Begin(t)
  PROVE  TInv'
<1>1. PICK r \in Requests :
        /\ ~Active(t) /\ ~SharesBlock(t, r)
        /\ pc' = [pc EXCEPT ![t] = "lock"]
        /\ req' = [req EXCEPT ![t] = r]
        /\ phase' = [phase EXCEPT ![t] = IF r.op = "put" THEN "put" ELSE "get"]
        /\ may' = [may EXCEPT ![r.block] = @ \cup Intended(r)]
        /\ UNCHANGED <<fast, slow, meta, d, ok, out, stale, lost>>
  BY DEF Begin
<1>2. TypeOK
  BY DEF TInv
<1>3. /\ r.block \in Blocks /\ may[r.block] \subseteq Contents /\ Intended(r) \subseteq Contents
      /\ r.op = "get" => Intended(r) = may[r.block]
  BY <1>2, RequestType, IntendedType
<1>4. /\ pc'[t] = "lock" /\ req'[t] = r /\ phase'[t] = IF r.op = "put" THEN "put" ELSE "get"
      /\ d'[t] = d[t] /\ may'[r.block] = may[r.block] \cup Intended(r)
      /\ \A b \in Blocks \ {r.block} : may'[b] = may[b]
  BY <1>1, <1>2, <1>3 DEF TypeOK
<1>5. TypeOK'
  BY <1>1, <1>2, <1>3 DEF TypeOK
<1>6. \A b \in Blocks : \/ may'[b] \in {may[b], Contents}
                         \/ \A u \in Threads \ {t} : Active(u) => BlockOf(u) # b
  BY <1>1, <1>3, <1>4 DEF SharesBlock
<1>7. Frame(t)
  BY <1>1, <1>2, <1>4, <1>6 DEF Frame, TypeOK
<1>8. PlacesOK' /\ MayOK'
  BY <1>1, <1>4 DEF TInv, PlacesOK, MayOK, Current
<1>9. LocksOK'
  <2>1. \A u \in Threads \ {t} :
          /\ Active(u)' = Active(u) /\ HoldsBin(u)' = HoldsBin(u)
          /\ BlockOf(u)' = BlockOf(u) /\ BinOf(u)' = BinOf(u) /\ req'[u] = req[u]
    BY <1>7 DEF Frame, Active, HoldsBin, BlockOf, BinOf
  <2>2. ~HoldsBin(t)' /\ BlockOf(t)' = r.block /\ req'[t] = r
    BY <1>4 DEF HoldsBin, BlockOf
  <2>3. \A u \in Threads \ {t} :
          Active(u) /\ BlockOf(u) = r.block => r.op = "get" /\ req[u].op = "get"
    BY <1>1 DEF SharesBlock
  <2>4. LocksOK
    BY DEF TInv
  <2> QED
    BY <2>1, <2>2, <2>3, <2>4 DEF LocksOK
<1>10. RequestOf(t)'
  <2>1. Intended(r)' \subseteq may'[r.block]
    BY <1>3, <1>4, ChangedType DEF Intended
  <2> QED
    BY <1>4, <2>1 DEF TInv, ThreadsOK, RequestOf, BlockOf
<1>11. CallOf(t)'
  BY <1>4 DEF CallOf, EvictOf, ReadyOf, StoreOf, OutOf
<1>12. ~HoldsBin(t)
  BY <1>1 DEF Active, HoldsBin
<1> QED
  BY <1>5, <1>7, <1>8, <1>9, <1>10, <1>11, <1>12, StepOK DEF Holds

LEMMA LockOK ==
  ASSUME TInv, NEW t \in Threads, Lock(t)
  PROVE  TInv'
<1>1. Active(t) /\ ~HoldsBin(t)
  BY DEF Lock, Active, HoldsBin
<1>2. /\ req[t] \in Requests /\ BlockOf(t) \in Blocks /\ BinOf(t) \in Bins
      /\ meta[BinOf(t)] \in BinRecords /\ LastOnly(meta[BinOf(t)])
  BY <1>1, InBin
<1>3. TypeOK'
  BY <1>2 DEF Lock, TInv, TypeOK
<1>4. Frame(t)
  BY DEF Lock, TInv, TypeOK, Frame
<1>5. PlacesOK' /\ MayOK'
  BY DEF Lock, TInv, PlacesOK, MayOK, Current
<1>6. /\ req'[t] = req[t] /\ BinOf(t)' = BinOf(t) /\ BlockOf(t)' = BlockOf(t)
      /\ d'[t] = meta[BinOf(t)] /\ Mine(t)' = Current(BinOf(t))
      /\ Current(BinOf(t))' = Current(BinOf(t))
      /\ pc'[t] = IF MustEvict(meta[BinOf(t)], BlockOf(t)) THEN "evict" ELSE "ready"
  BY DEF Lock, TInv, TypeOK, BinOf, BlockOf, Mine, Current
<1>7. MustEvict(meta[BinOf(t)], BlockOf(t))
        <=> Current(BinOf(t)).block # BlockOf(t) /\ Current(BinOf(t)).dirty
  BY <1>2, SlotIsLast DEF Current
<1>8. LocksOK'
  BY <1>1, <1>4, <1>6, LocksKept DEF Lock
<1>9. RequestOf(t)'
  <2>1. phase'[t] = phase[t] /\ may' = may
    BY DEF Lock
  <2> QED
    BY <1>1, <1>2, <1>6, <2>1, RequestKept
<1>10. EvictOf(t)'
  BY <1>6, <1>7 DEF EvictOf
<1>11. ReadyOf(t)'
  BY <1>6, <1>7 DEF ReadyOf, Entry
<1>12. StoreOf(t)' /\ OutOf(t)'
  <2>1. pc'[t] # "store"
    BY <1>6
  <2>2. OutOf(t) /\ phase' = phase /\ out' = out /\ stale' = stale /\ may' = may
    BY DEF TInv, ThreadsOK, CallOf, Lock
  <2> QED
    BY <1>1, <1>6, <2>1, <2>2 DEF StoreOf, OutOf
<1> QED
  BY <1>1, <1>3, <1>4, <1>5, <1>8, <1>9, <1>10, <1>11, <1>12, StepOK DEF CallOf, Holds

LEMMA LockErrorOK ==
  ASSUME TInv, NEW t \in Threads, LockError(t)
  PROVE  TInv'
<1>1. Active(t) /\ ~HoldsBin(t) /\ Return(t)
  BY DEF LockError, Active, HoldsBin
<1>2. TypeOK'
  BY ZeroesType DEF LockError, Return, TInv, TypeOK
<1>3. Frame(t)
  BY DEF LockError, Return, TInv, TypeOK, Frame
<1>4. PlacesOK' /\ MayOK'
  BY DEF LockError, TInv, PlacesOK, MayOK, Current
<1>5. RequestOf(t)' /\ CallOf(t)' /\ ~Active(t)' /\ ~HoldsBin(t)'
  BY <1>1, IdleOK
<1>6. LocksOK'
  BY <1>3, <1>5, LocksKept
<1> QED
  BY <1>1, <1>2, <1>3, <1>4, <1>5, <1>6, StepOK DEF Holds

\* what holds in a bin that no call is changing
LEMMA ReadyBin ==
  ASSUME TInv, NEW t \in Threads, HoldsBin(t), pc[t] # "store", NEW b \in Blocks, Bin[b] = BinOf(t)
  PROVE  /\ Current(BinOf(t)) = Entry(b) => fast[BinOf(t)] \in may[b]
         /\ Current(BinOf(t)) # Entry(b) => slow[b] \in may[b]
<1>1. Holds(t, b) /\ Spared(t, b)
  BY DEF Holds, Spared
<1> QED
  BY <1>1, OthersSpared DEF Where

\* the descriptor of a dirty block that is no longer marked dirty
LEMMA NotDirtyIs ==
  ASSUME TInv, NEW t \in Threads, pc[t] = "evict", d' = NotDirty(t)
  PROVE  /\ d' \in [Threads -> BinRecords] /\ LastOnly(d'[t])
         /\ \A u \in Threads \ {t} : d'[u] = d[u]
         /\ Mine(t) = Entry(Mine(t).block) /\ Mine(t).block \in Blocks
         /\ Mine(t)' = [block |-> Mine(t).block, dirty |-> FALSE]
<1>1. Active(t)
  BY DEF Active
<1>2. /\ d[t] \in BinRecords /\ LastOnly(d[t]) /\ Slot(t) = Last
      /\ Mine(t) \in [block : Blocks, dirty : BOOLEAN] \cup {Empty}
  BY <1>1, InBin
<1>3. Mine(t).dirty
  BY DEF TInv, ThreadsOK, CallOf, EvictOf
<1>4. Mine(t) = Entry(Mine(t).block) /\ Mine(t).block \in Blocks
  BY <1>2, <1>3 DEF Empty, Entry
<1> DEFINE n == [block |-> Mine(t).block, dirty |-> FALSE]
<1>5. n \in [block : Blocks, dirty : BOOLEAN]
  BY <1>4
<1>6. d' = [d EXCEPT ![t] = [d[t] EXCEPT ![Last] = n]]
  BY <1>2 DEF NotDirty, Mine
<1> HIDE DEF n
<1>7. d \in [Threads -> BinRecords]
  BY DEF TInv, TypeOK
<1>8. d'[t] = [d[t] EXCEPT ![Last] = n] /\ \A u \in Threads \ {t} : d'[u] = d[u]
  BY <1>6, <1>7
<1>9. [d[t] EXCEPT ![Last] = n] \in BinRecords
  BY <1>2, <1>5 DEF BinRecords
<1>10. LastOnly(d'[t]) /\ d'[t][Last] = n
  BY <1>2, <1>8, LastSlot DEF LastOnly, BinRecords
<1> QED
  BY <1>4, <1>6, <1>7, <1>8, <1>9, <1>10 DEF n, Mine

LEMMA EvictOK ==
  ASSUME TInv, NEW t \in Threads, Evict(t)
  PROVE  TInv'
<1> DEFINE e == Mine(t).block
<1>1. Active(t) /\ HoldsBin(t) /\ pc[t] = "evict"
  BY DEF Evict, Active, HoldsBin
<1>2. BlockOf(t) \in Blocks /\ BinOf(t) \in Bins /\ Slot(t) = Last
  BY <1>1, InBin
<1>3. /\ Mine(t) = Current(BinOf(t)) /\ Current(BinOf(t)).block # BlockOf(t)
      /\ Current(BinOf(t)).dirty
  BY <1>1 DEF TInv, ThreadsOK, CallOf, EvictOf
<1>4. /\ d' \in [Threads -> BinRecords] /\ LastOnly(d'[t])
      /\ \A u \in Threads \ {t} : d'[u] = d[u]
      /\ Mine(t) = Entry(e) /\ e \in Blocks /\ Mine(t)' = [block |-> e, dirty |-> FALSE]
  BY <1>1, NotDirtyIs DEF Evict
<1>5. Current(BinOf(t)) = Entry(e) /\ Bin[e] = BinOf(t) /\ e # BlockOf(t)
  BY <1>2, <1>3, <1>4 DEF Entry, TInv, PlacesOK
<1>6. slow' = [slow EXCEPT ![e] = fast[BinOf(t)]]
  BY <1>2 DEF Evict, Mine
<1> HIDE DEF e
<1>7. TypeOK'
  BY <1>2, <1>4, <1>6 DEF TInv, TypeOK, Evict
<1>8. Frame(t)
  BY <1>1, <1>4, <1>5, <1>6 DEF Evict, TInv, TypeOK, Frame, Holds
<1>9. PlacesOK' /\ MayOK'
  BY DEF Evict, TInv, PlacesOK, MayOK, Current
<1>10. /\ pc'[t] = "ready" /\ req'[t] = req[t] /\ phase'[t] = phase[t] /\ ok'[t] = ok[t]
       /\ out'[t] = out[t] /\ stale' = stale /\ fast' = fast /\ meta' = meta /\ may' = may
       /\ slow'[e] = fast[BinOf(t)] /\ \A b \in Blocks \ {e} : slow'[b] = slow[b]
       /\ BinOf(t)' = BinOf(t) /\ BlockOf(t)' = BlockOf(t)
       /\ Current(BinOf(t))' = Current(BinOf(t))
  BY <1>4, <1>6 DEF Evict, TInv, TypeOK, BinOf, BlockOf, Current
<1>11. LocksOK'
  BY <1>1, <1>8, <1>10, LocksKept
<1>12. RequestOf(t)'
  BY <1>1, <1>4, <1>10, RequestKept
<1>13. CallOf(t)'
  <2>1. ReadyOf(t)'
    BY <1>3, <1>4, <1>5, <1>10 DEF ReadyOf, Entry
  <2>2. OutOf(t)
    BY DEF TInv, ThreadsOK, CallOf
  <2> QED
    BY <1>1, <1>10, <2>1, <2>2 DEF CallOf, EvictOf, StoreOf, OutOf
<1>14. ASSUME NEW b \in Blocks, Holds(t, b) PROVE Where(b)' \in may'[b]
  <2>1. /\ Current(BinOf(t)) = Entry(b) => fast[BinOf(t)] \in may[b]
        /\ Current(BinOf(t)) # Entry(b) => slow[b] \in may[b]
        /\ Bin[b] = BinOf(t)
    BY <1>1, <1>14, ReadyBin DEF Holds
  <2> QED
    BY <1>5, <1>10, <2>1 DEF Where, Entry
<1> QED
  BY <1>7, <1>8, <1>9, <1>11, <1>12, <1>13, <1>14, StepOK

LEMMA EvictErrorOK ==
  ASSUME TInv, NEW t \in Threads, EvictError(t)
  PROVE  TInv'
<1> DEFINE e == Mine(t).block
<1>1. Active(t) /\ HoldsBin(t) /\ pc[t] = "evict"
  BY DEF EvictError, Active, HoldsBin
<1>3. /\ Mine(t) = Current(BinOf(t)) /\ Current(BinOf(t)).block # BlockOf(t)
      /\ Current(BinOf(t)).dirty
  BY <1>1 DEF TInv, ThreadsOK, CallOf, EvictOf
<1>4. /\ d' \in [Threads -> BinRecords] /\ LastOnly(d'[t])
      /\ \A u \in Threads \ {t} : d'[u] = d[u]
      /\ Mine(t) = Entry(e) /\ e \in Blocks /\ Mine(t)' = [block |-> e, dirty |-> FALSE]
  BY <1>1, NotDirtyIs DEF EvictError
<1>5. Current(BinOf(t)) = Entry(e) /\ e # BlockOf(t)
  BY <1>3, <1>4
<1> HIDE DEF e
<1>7. TypeOK'
  BY <1>4 DEF TInv, TypeOK, EvictError
<1>8. Frame(t)
  BY <1>4 DEF EvictError, TInv, TypeOK, Frame
<1>9. PlacesOK' /\ MayOK'
  BY DEF EvictError, TInv, PlacesOK, MayOK, Current
<1>10. /\ pc'[t] = "ready" /\ req'[t] = req[t] /\ phase'[t] = phase[t] /\ ok'[t] = FALSE
       /\ out'[t] = out[t] /\ stale' = stale /\ fast' = fast /\ meta' = meta
       /\ may' = may /\ slow' = slow
       /\ BinOf(t)' = BinOf(t) /\ BlockOf(t)' = BlockOf(t)
       /\ Current(BinOf(t))' = Current(BinOf(t))
  BY DEF EvictError, TInv, TypeOK, BinOf, BlockOf, Current
<1>11. LocksOK'
  BY <1>1, <1>8, <1>10, LocksKept
<1>12. RequestOf(t)'
  BY <1>1, <1>4, <1>10, RequestKept
<1>13. CallOf(t)'
  <2>1. ReadyOf(t)'
    BY <1>3, <1>4, <1>5, <1>10 DEF ReadyOf, Entry
  <2>2. OutOf(t)
    BY DEF TInv, ThreadsOK, CallOf
  <2> QED
    BY <1>1, <1>10, <2>1, <2>2 DEF CallOf, EvictOf, StoreOf, OutOf
<1>14. ASSUME NEW b \in Blocks, Holds(t, b) PROVE Where(b)' \in may'[b]
  <2>1. Where(b)' = Where(b)
    BY <1>10 DEF Where, Current
  <2> QED
    BY <1>1, <1>10, <1>14, <2>1, OthersSpared DEF Spared
<1> QED
  BY <1>7, <1>8, <1>9, <1>11, <1>12, <1>13, <1>14, StepOK

LEMMA GetFastOK ==
  ASSUME TInv, NEW t \in Threads, GetFast(t)
  PROVE  TInv'
<1>1. Active(t) /\ HoldsBin(t) /\ pc[t] = "ready" /\ phase[t] = "get"
  BY DEF GetFast, Active, HoldsBin
<1>2. /\ BlockOf(t) \in Blocks /\ BinOf(t) \in Bins /\ Bin[BlockOf(t)] = BinOf(t)
      /\ LastOnly(d[t]) /\ meta[BinOf(t)] \in BinRecords /\ LastOnly(meta[BinOf(t)])
      /\ Mine(t).block = BlockOf(t)
      /\ Mine(t) \in [block : Blocks, dirty : BOOLEAN] \cup {Empty}
  BY <1>1, InBin DEF GetFast
<1>3. Mine(t) = Current(BinOf(t))
  BY <1>1, <1>2 DEF TInv, ThreadsOK, CallOf, ReadyOf
<1>4. Mine(t) = [block |-> BlockOf(t), dirty |-> FALSE] \/ Mine(t) = Entry(BlockOf(t))
  BY <1>2, TieringNoBlockAssumption DEF Empty, Entry
<1>5. /\ pc'[t] = "store" /\ req'[t] = req[t] /\ phase'[t] = phase[t] /\ ok'[t] = ok[t]
      /\ out'[t] = fast[BinOf(t)] /\ d' = d /\ fast' = fast /\ meta' = meta /\ slow' = slow
      /\ may' = may /\ stale'[t] = (req[t].op = "part" /\ Unfilled(BlockOf(t)))
      /\ BinOf(t)' = BinOf(t) /\ BlockOf(t)' = BlockOf(t) /\ Mine(t)' = Mine(t)
      /\ Current(BinOf(t))' = Current(BinOf(t))
  BY DEF GetFast, TInv, TypeOK, BinOf, BlockOf, Current, Mine
<1>6. \A b \in Blocks : may'[b] \in {may[b], Contents} /\ may[b] \subseteq Contents
  BY <1>5 DEF TInv, TypeOK
<1>7. TypeOK'
  <2>1. stale' \in [Threads -> BOOLEAN]
    BY DEF GetFast, TInv, TypeOK
  <2> QED
    BY <1>1, <1>2, <2>1 DEF GetFast, TInv, TypeOK
<1>8. Frame(t)
  BY <1>6 DEF GetFast, TInv, TypeOK, Frame
<1>9. PlacesOK' /\ MayOK'
  BY <1>5, <1>6 DEF TInv, PlacesOK, MayOK, Current
<1>10. LocksOK'
  BY <1>1, <1>5, <1>8, LocksKept
<1>11. RequestOf(t)'
  BY <1>1, <1>2, <1>5, <1>6, RequestKept
<1>12. /\ Mine(t) = Entry(BlockOf(t)) => fast[BinOf(t)] \in may[BlockOf(t)]
       /\ Mine(t) # Entry(BlockOf(t)) => slow[BlockOf(t)] \in may[BlockOf(t)]
  BY <1>1, <1>2, <1>3, ReadyBin
<1>13. StoreOf(t)'
  <2>1. fast[BinOf(t)] \in may'[BlockOf(t)] \/ Mine(t) # Entry(BlockOf(t))
    BY <1>2, <1>6, <1>12
  <2> QED
    BY <1>1, <1>2, <1>3, <1>4, <1>5, <2>1 DEF StoreOf, Entry
<1>14. req[t].op = "part" => stale'[t] \/ fast[BinOf(t)] \in may'[BlockOf(t)]
  <2> SUFFICES ASSUME req[t].op = "part"
               PROVE  stale'[t] \/ fast[BinOf(t)] \in may'[BlockOf(t)]
    OBVIOUS
  <2>1. CASE Mine(t) = Entry(BlockOf(t))
    BY <1>2, <1>6, <1>12, <2>1
  <2>2. CASE Mine(t) = [block |-> BlockOf(t), dirty |-> FALSE]
    <3>0. Mine(t) \in {meta[BinOf(t)][i] : i \in Slots}
      BY <1>3, LastSlot DEF Current
    <3>1. Mine(t) # Entry(BlockOf(t)) /\ Mine(t) \in {meta[BinOf(t)][i] : i \in Slots}
      <4>1. [block |-> BlockOf(t), dirty |-> FALSE] # [block |-> BlockOf(t), dirty |-> TRUE]
        OBVIOUS
      <4> QED
        BY <2>2, <3>0, <4>1 DEF Entry
    <3>2. CASE fast[BinOf(t)] = slow[BlockOf(t)]
      BY <1>2, <1>6, <1>12, <3>1, <3>2
    <3>3. CASE fast[BinOf(t)] # slow[BlockOf(t)]
      <4>1. Unfilled(BlockOf(t))
        BY <1>2, <2>2, <3>1, <3>3 DEF Unfilled
      <4> QED
        BY <1>5, <4>1
    <3> QED
      BY <3>2, <3>3
  <2> QED
    BY <1>4, <2>1, <2>2
<1>15. CallOf(t)'
  BY <1>1, <1>5, <1>13, <1>14 DEF CallOf, EvictOf, ReadyOf, OutOf
<1>16. ASSUME NEW b \in Blocks, Holds(t, b) PROVE Where(b)' \in may'[b]
  <2>1. Where(b)' = Where(b)
    BY <1>5 DEF Where, Current
  <2>2. Where(b) \in may[b]
    BY <1>1, <1>16, OthersSpared DEF Spared
  <2> QED
    BY <1>6, <2>1, <2>2
<1> QED
  BY <1>7, <1>8, <1>9, <1>10, <1>11, <1>15, <1>16, StepOK

\* a new descriptor in the place of the old one
LEMMA NewDescriptorIs ==
  ASSUME TInv, NEW t \in Threads, Active(t), NEW v \in BOOLEAN, d' = NewDescriptor(t, v)
  PROVE  /\ d' \in [Threads -> BinRecords] /\ LastOnly(d'[t])
         /\ \A u \in Threads \ {t} : d'[u] = d[u]
         /\ Mine(t)' = [block |-> BlockOf(t), dirty |-> v]
<1>1. /\ d[t] \in BinRecords /\ LastOnly(d[t]) /\ Slot(t) = Last /\ BlockOf(t) \in Blocks
  BY InBin
<1> DEFINE n == [block |-> BlockOf(t), dirty |-> v]
<1>2. n \in [block : Blocks, dirty : BOOLEAN]
  BY <1>1
<1>3. d' = [d EXCEPT ![t] = [d[t] EXCEPT ![Last] = n]]
  BY <1>1 DEF NewDescriptor
<1> HIDE DEF n
<1>4. d \in [Threads -> BinRecords]
  BY DEF TInv, TypeOK
<1>5. d'[t] = [d[t] EXCEPT ![Last] = n] /\ \A u \in Threads \ {t} : d'[u] = d[u]
  BY <1>3, <1>4
<1>6. [d[t] EXCEPT ![Last] = n] \in BinRecords
  BY <1>1, <1>2 DEF BinRecords
<1>7. LastOnly(d'[t]) /\ d'[t][Last] = n
  BY <1>1, <1>5, LastSlot DEF LastOnly, BinRecords
<1> QED
  BY <1>3, <1>4, <1>5, <1>6, <1>7 DEF n, Mine

\* before fast storage is overwritten, other blocks of the bin are in slow storage
LEMMA OthersEvicted ==
  ASSUME TInv, NEW t \in Threads, pc[t] = "ready", ok[t],
         NEW b \in Blocks, b # BlockOf(t), Current(BinOf(t)) = Entry(b)
  PROVE  slow[b] \in may[b]
<1>1. slow[b] = fast[BinOf(t)]
  BY DEF TInv, ThreadsOK, CallOf, ReadyOf
<1>2. HoldsBin(t) /\ Bin[b] = BinOf(t)
  BY InBin DEF TInv, PlacesOK, HoldsBin, Active, Entry
<1> QED
  BY <1>1, <1>2, ReadyBin

LEMMA GetSlowOK ==
  ASSUME TInv, NEW t \in Threads, GetSlow(t)
  PROVE  TInv'
<1>1. Active(t) /\ HoldsBin(t) /\ pc[t] = "ready" /\ phase[t] = "get"
  BY DEF GetSlow, Active, HoldsBin
<1>2. /\ BlockOf(t) \in Blocks /\ BinOf(t) \in Bins /\ Bin[BlockOf(t)] = BinOf(t)
      /\ Mine(t).block # BlockOf(t)
  BY <1>1, InBin DEF GetSlow
<1>3. Current(BinOf(t)).block # BlockOf(t)
  BY <1>1, <1>2 DEF TInv, ThreadsOK, CallOf, ReadyOf
<1>4. /\ d' \in [Threads -> BinRecords] /\ LastOnly(d'[t])
      /\ \A u \in Threads \ {t} : d'[u] = d[u]
      /\ Mine(t)' = [block |-> BlockOf(t), dirty |-> FALSE]
  BY <1>1, NewDescriptorIs DEF GetSlow
<1>5. /\ pc'[t] = "store" /\ req'[t] = req[t] /\ phase'[t] = phase[t] /\ ok'[t] = ok[t]
      /\ out'[t] = slow[BlockOf(t)] /\ fast' = fast /\ meta' = meta /\ slow' = slow
      /\ may' = may /\ BinOf(t)' = BinOf(t) /\ BlockOf(t)' = BlockOf(t)
      /\ Current(BinOf(t))' = Current(BinOf(t))
  BY DEF GetSlow, TInv, TypeOK, BinOf, BlockOf, Current
<1>6. TypeOK'
  BY <1>2, <1>4 DEF GetSlow, TInv, TypeOK
<1>7. Frame(t)
  BY <1>4 DEF GetSlow, TInv, TypeOK, Frame
<1>8. PlacesOK' /\ MayOK'
  BY <1>5 DEF TInv, PlacesOK, MayOK, Current
<1>9. LocksOK'
  BY <1>1, <1>5, <1>7, LocksKept
<1>10. RequestOf(t)'
  BY <1>1, <1>4, <1>5, RequestKept
<1>11. StoreOf(t)'
  <2>1. \A b \in Blocks : ok[t] /\ b # BlockOf(t) /\ Current(BinOf(t)) = Entry(b) => slow[b] \in may[b]
    BY <1>1, OthersEvicted
  <2> QED
    BY <1>1, <1>3, <1>4, <1>5, <2>1 DEF StoreOf, Entry
<1>12. slow[BlockOf(t)] \in may[BlockOf(t)]
  BY <1>1, <1>2, <1>3, ReadyBin DEF Entry
<1>13. CallOf(t)'
  BY <1>1, <1>5, <1>11, <1>12 DEF CallOf, EvictOf, ReadyOf, OutOf
<1>14. ASSUME NEW b \in Blocks, Holds(t, b) PROVE Where(b)' \in may'[b]
  <2>1. Where(b)' = Where(b)
    BY <1>5 DEF Where, Current
  <2> QED
    BY <1>1, <1>5, <1>14, <2>1, OthersSpared DEF Spared
<1> QED
  BY <1>6, <1>7, <1>8, <1>9, <1>10, <1>13, <1>14, StepOK

LEMMA PutFastOK ==
  ASSUME TInv, NEW t \in Threads, PutFast(t)
  PROVE  TInv'
<1> DEFINE c == Changed(req[t], out[t])
<1>1. Active(t) /\ HoldsBin(t) /\ pc[t] = "ready" /\ phase[t] = "put"
  BY DEF PutFast, Active, HoldsBin
<1>2. /\ req[t] \in Requests /\ BlockOf(t) \in Blocks /\ BinOf(t) \in Bins
      /\ Bin[BlockOf(t)] = BinOf(t) /\ out[t] \in Contents
  BY <1>1, InBin DEF TInv, TypeOK
<1>3. /\ d' \in [Threads -> BinRecords] /\ LastOnly(d'[t])
      /\ \A u \in Threads \ {t} : d'[u] = d[u]
      /\ Mine(t)' = Entry(BlockOf(t))
  BY <1>1, NewDescriptorIs DEF PutFast, Entry
<1>4. c \in Contents /\ (stale[t] \/ (c \in Intended(req[t]) /\ c \in may[BlockOf(t)]))
  <2>1. /\ req[t].op \in {"put", "part"}
        /\ Intended(req[t]) \subseteq may[BlockOf(t)]
        /\ req[t].op = "part" => stale[t] \/ out[t] \in may[BlockOf(t)]
        /\ may[BlockOf(t)] # {} /\ may[BlockOf(t)] \subseteq Contents
    BY <1>1, <1>2, RequestType DEF TInv, ThreadsOK, RequestOf, CallOf, OutOf, MayOK, TypeOK
  <2>2. c \in Contents
    BY <1>2, ChangedType
  <2>3. CASE req[t].op = "part"
    BY <2>1, <2>2, <2>3 DEF Intended, BlockOf
  <2>4. CASE req[t].op = "put"
    <3>1. PICK e \in may[BlockOf(t)] : TRUE
      BY <2>1
    <3>2. c = Changed(req[t], e)
      BY <1>2, <2>1, <2>4, <3>1, ChangedType
    <3> QED
      BY <2>1, <2>2, <3>1, <3>2 DEF Intended, BlockOf
  <2> QED
    BY <2>1, <2>3, <2>4
<1> DEFINE B == {x \in {BlockOf(t)} : stale[t]}
<1>5. /\ fast' = [fast EXCEPT ![BinOf(t)] = c]
      /\ pc'[t] = "store" /\ req'[t] = req[t] /\ phase'[t] = phase[t] /\ ok'[t] = ok[t]
      /\ out'[t] = out[t] /\ fast'[BinOf(t)] = c /\ meta' = meta /\ slow' = slow
      /\ BinOf(t)' = BinOf(t) /\ BlockOf(t)' = BlockOf(t)
      /\ Current(BinOf(t))' = Current(BinOf(t))
      /\ Lose(B)
  BY <1>2 DEF PutFast, TInv, TypeOK, BinOf, BlockOf, Current
<1>6. /\ may' \in [Blocks -> SUBSET Contents] /\ lost' \in SUBSET Blocks
      /\ \A b \in Blocks : /\ may'[b] \in {may[b], Contents} /\ may[b] \subseteq may'[b]
                           /\ may'[b] # {}
      /\ stale[t] => may'[BlockOf(t)] = Contents
      /\ ~stale[t] => may' = may
  BY <1>2, <1>5, ZeroesType DEF Lose, TInv, TypeOK, MayOK
<1>15. c \in Intended(req[t])' /\ c \in may'[BlockOf(t)]
  <2>1. CASE stale[t]
    <3>1. Intended(req[t])' = {Changed(req[t], e) : e \in Contents}
      BY <1>5, <1>6, <2>1 DEF Intended, BlockOf
    <3>2. c \in Intended(req[t])'
      BY <1>2, <3>1
    <3> QED
      BY <1>4, <1>6, <2>1, <3>2
  <2>2. CASE ~stale[t]
    BY <1>4, <1>5, <1>6, <2>2 DEF Intended
  <2> QED
    BY <2>1, <2>2
<1> HIDE DEF B, c
<1>16. TypeOK'
  <2>1. fast' \in [Bins -> Contents] /\ stale' \in [Threads -> BOOLEAN]
    BY <1>2, <1>4, <1>5 DEF PutFast, TInv, TypeOK
  <2> QED
    BY <1>2, <1>3, <1>6, <2>1 DEF PutFast, TInv, TypeOK
<1>7. Frame(t)
  BY <1>1, <1>3, <1>5, <1>6 DEF PutFast, TInv, TypeOK, Frame
<1>8. PlacesOK' /\ MayOK'
  BY <1>5, <1>6 DEF TInv, PlacesOK, MayOK, Current
<1>9. LocksOK'
  BY <1>1, <1>5, <1>7, LocksKept
<1>10. RequestOf(t)'
  BY <1>1, <1>2, <1>3, <1>5, <1>6, RequestKept
<1>11. StoreOf(t)'
  <2>1. \A b \in Blocks : ok[t] /\ b # BlockOf(t) /\ Current(BinOf(t)) = Entry(b) => slow[b] \in may[b]
    BY <1>1, OthersEvicted
  <2> QED
    BY <1>1, <1>3, <1>5, <1>6, <1>15, <2>1 DEF StoreOf, Entry
<1>12. OutOf(t)'
  BY <1>1, <1>2, <1>5, <1>6 DEF TInv, ThreadsOK, CallOf, OutOf, Active
<1>13. CallOf(t)'
  BY <1>5, <1>11, <1>12 DEF CallOf, EvictOf, ReadyOf
<1>14. ASSUME NEW b \in Blocks, Holds(t, b), Spared(t, b)' PROVE Where(b)' \in may'[b]
  <2>1. /\ Current(BinOf(t)) = Entry(b) => fast[BinOf(t)] \in may[b]
        /\ Current(BinOf(t)) # Entry(b) => slow[b] \in may[b]
        /\ Bin[b] = BinOf(t)
    BY <1>1, <1>14, ReadyBin DEF Holds
  <2>2. BlockOf(t) = b \/ Current(BinOf(t)) # Entry(b)
    BY <1>1, <1>5, <1>14, <2>1 DEF Spared
  <2> QED
    BY <1>5, <1>6, <1>15, <2>1, <2>2 DEF Where, Entry
<1> QED
  BY <1>7, <1>8, <1>9, <1>10, <1>13, <1>14, <1>16, StepOK

LEMMA AccessErrorOK ==
  ASSUME TInv, NEW t \in Threads, AccessError(t)
  PROVE  TInv'
<1>1. Active(t) /\ HoldsBin(t) /\ pc[t] = "ready"
  BY DEF AccessError, Active, HoldsBin
<1>2. /\ BlockOf(t) \in Blocks /\ BinOf(t) \in Bins /\ Bin[BlockOf(t)] = BinOf(t)
      /\ LastOnly(d[t]) /\ Mine(t) \in [block : Blocks, dirty : BOOLEAN] \cup {Empty}
  BY <1>1, InBin
<1>3. /\ Mine(t).block = Current(BinOf(t)).block
      /\ Mine(t).block = BlockOf(t) => Mine(t) = Current(BinOf(t))
      /\ Mine(t).dirty => Mine(t).block = BlockOf(t)
  BY <1>1 DEF TInv, ThreadsOK, CallOf, ReadyOf
<1>4. /\ pc'[t] = "store" /\ req'[t] = req[t] /\ phase'[t] = phase[t] /\ ok'[t] = FALSE
      /\ out'[t] = out[t] /\ d' = d /\ fast' = fast /\ meta' = meta /\ slow' = slow
      /\ stale' = stale /\ may' = may /\ BinOf(t)' = BinOf(t) /\ BlockOf(t)' = BlockOf(t)
      /\ Current(BinOf(t))' = Current(BinOf(t)) /\ Mine(t)' = Mine(t)
  BY DEF AccessError, TInv, TypeOK, BinOf, BlockOf, Current, Mine
<1>5. TypeOK'
  BY DEF AccessError, TInv, TypeOK
<1>6. Frame(t)
  BY DEF AccessError, TInv, TypeOK, Frame
<1>7. PlacesOK' /\ MayOK'
  BY <1>4 DEF TInv, PlacesOK, MayOK, Current
<1>8. LocksOK'
  BY <1>1, <1>4, <1>6, LocksKept
<1>9. RequestOf(t)'
  BY <1>1, <1>2, <1>4, RequestKept
<1>10. StoreOf(t)'
  <2>1. Mine(t).dirty => Mine(t) = Entry(BlockOf(t)) /\ Current(BinOf(t)) = Entry(BlockOf(t))
    BY <1>2, <1>3 DEF Empty, Entry
  <2>2. Mine(t).dirty => fast[BinOf(t)] \in may[BlockOf(t)]
    BY <1>1, <1>2, <2>1, ReadyBin
  <2> QED
    BY <1>3, <1>4, <2>1, <2>2 DEF StoreOf, Entry
<1>11. CallOf(t)'
  BY <1>1, <1>4, <1>10 DEF TInv, ThreadsOK, CallOf, EvictOf, ReadyOf, OutOf, Active
<1>12. ASSUME NEW b \in Blocks, Holds(t, b) PROVE Where(b)' \in may'[b]
  <2>1. Where(b)' = Where(b)
    BY <1>4 DEF Where, Current
  <2> QED
    BY <1>1, <1>4, <1>12, <2>1, OthersSpared DEF Spared
<1> QED
  BY <1>5, <1>6, <1>7, <1>8, <1>9, <1>11, <1>12, StepOK

\* the end of get_block or put_block, for whatever it has stored
LEMMA FinishOK ==
  ASSUME TInv, NEW t \in Threads, pc[t] = "store", NEW good \in BOOLEAN, good => ok[t],
         Finish(t, good), fast' = fast, slow' = slow, meta' \in [Bins -> BinRecords],
         \A i \in Bins : i # BinOf(t) => meta'[i] = meta[i]
  PROVE  /\ TypeOK' /\ LocksOK' /\ MayOK' /\ Frame(t) /\ RequestOf(t)' /\ CallOf(t)'
         /\ \A b \in Blocks :
              \/ ~good /\ b \in AtRisk(t) /\ may'[b] = Contents
              \/ (~good => b \notin AtRisk(t)) /\ may'[b] = may[b]
              \/ good /\ phase[t] = "put" /\ b = BlockOf(t) /\ may'[b] = Intended(req[t])
<1>1. Active(t) /\ HoldsBin(t)
  BY DEF Active, HoldsBin
<1>2. /\ req[t] \in Requests /\ BlockOf(t) \in Blocks /\ BinOf(t) \in Bins
      /\ Bin[BlockOf(t)] = BinOf(t)
  BY <1>1, InBin
<1>3. /\ TypeOK /\ MayOK /\ LocksOK /\ RequestOf(t) /\ CallOf(t)
  BY DEF TInv, ThreadsOK
<1>4. Intended(req[t]) \subseteq Contents /\ Intended(req[t]) # {} /\ BlockOf(t) = req[t].block
  BY <1>2, <1>3, IntendedType DEF Intended, MayOK, BlockOf
<1>5. CASE good /\ phase[t] = "get" /\ req[t].op = "part"
  <2>1. PutNext(t)
    BY <1>5 DEF Finish
  <2>2. /\ pc'[t] = "lock" /\ phase'[t] = "put" /\ d'[t] = NoDescriptors /\ req'[t] = req[t]
        /\ out'[t] = out[t] /\ stale' = stale /\ may' = may
    BY <1>3, <2>1 DEF PutNext, TypeOK
  <2>3. TypeOK'
    BY <1>3, <2>1, ZeroesType DEF PutNext, TypeOK
  <2>4. Frame(t)
    BY <1>1, <1>3, <2>1 DEF PutNext, TypeOK, Frame
  <2>5. MayOK'
    BY <1>3, <2>2 DEF MayOK
  <2>6. LocksOK'
    BY <1>1, <2>2, <2>4, LocksKept DEF HoldsBin
  <2>7. RequestOf(t)'
    BY <1>1, <1>3, <1>5, <2>2, ZeroesType DEF RequestOf, Intended, BlockOf
  <2>8. CallOf(t)'
    BY <1>1, <1>3, <1>5, <2>2 DEF CallOf, EvictOf, ReadyOf, StoreOf, OutOf, BlockOf
  <2> QED
    BY <1>5, <2>2, <2>3, <2>4, <2>5, <2>6, <2>7, <2>8
<1>6. CASE ~(good /\ phase[t] = "get" /\ req[t].op = "part")
  <2>1. Return(t)
    BY <1>6 DEF Finish
  <2>10. \/ ~good /\ Lose(AtRisk(t))
         \/ good /\ phase[t] = "put" /\ Acknowledge(t)
         \/ good /\ phase[t] = "get" /\ UNCHANGED history
    BY <1>3, <1>6 DEF Finish, TypeOK
  <2>2. RequestOf(t)' /\ CallOf(t)' /\ ~Active(t)' /\ ~HoldsBin(t)'
    BY <2>1, IdleOK
  <2>3. \A b \in Blocks :
          \/ ~good /\ b \in AtRisk(t) /\ may'[b] = Contents
          \/ (~good => b \notin AtRisk(t)) /\ may'[b] = may[b]
          \/ good /\ phase[t] = "put" /\ b = BlockOf(t) /\ may'[b] = Intended(req[t])
    BY <1>2, <1>3, <2>10 DEF Lose, Acknowledge, TypeOK
  <2>4. may' \in [Blocks -> SUBSET Contents] /\ lost' \in SUBSET Blocks
    <3>1. AtRisk(t) \subseteq Blocks
      BY DEF AtRisk
    <3> QED
      BY <1>2, <1>3, <1>4, <2>10, <3>1 DEF Lose, Acknowledge, TypeOK
  <2>5. TypeOK'
    BY <1>3, <2>1, <2>4, ZeroesType DEF Return, TypeOK
  <2>6. MayOK'
    BY <1>3, <1>4, <2>3, ZeroesType DEF MayOK
  <2>7. ASSUME NEW u \in Threads \ {t}, Active(u), good, phase[t] = "put"
        PROVE  BlockOf(u) # BlockOf(t)
    BY <1>1, <1>3, <2>7 DEF LocksOK, RequestOf
  <2>8. Frame(t)
    <3>1. \A u \in Threads \ {t} :
             /\ pc'[u] = pc[u] /\ req'[u] = req[u] /\ phase'[u] = phase[u]
             /\ d'[u] = d[u] /\ ok'[u] = ok[u] /\ out'[u] = out[u] /\ stale'[u] = stale[u]
      BY <1>3, <2>1 DEF Return, TypeOK
    <3>2. \A b \in Blocks : may[b] \subseteq may'[b] \/ Holds(t, b)
      BY <1>1, <1>2, <1>3, <2>3 DEF Holds, TypeOK
    <3>3. \A b \in Blocks : \/ may'[b] \in {may[b], Contents}
                            \/ \A u \in Threads \ {t} : Active(u) => BlockOf(u) # b
      BY <2>3, <2>7
    <3> QED
      BY <1>1, <3>1, <3>2, <3>3 DEF Frame
  <2>9. LocksOK'
    BY <2>2, <2>8, LocksKept
  <2> QED
    BY <2>2, <2>3, <2>5, <2>6, <2>8, <2>9
<1> QED
  BY <1>5, <1>6

LEMMA StoreOK ==
  ASSUME TInv, NEW t \in Threads, Store(t)
  PROVE  TInv'
<1>1. Active(t) /\ HoldsBin(t) /\ pc[t] = "store" /\ fast' = fast /\ slow' = slow
  BY DEF Store, Active, HoldsBin
<1>2. /\ BlockOf(t) \in Blocks /\ BinOf(t) \in Bins /\ Bin[BlockOf(t)] = BinOf(t)
      /\ d[t] \in BinRecords /\ LastOnly(d[t])
  BY <1>1, InBin
<1>3. TypeOK /\ PlacesOK /\ ThreadsOK /\ StoreOf(t) /\ ok[t] \in BOOLEAN
  BY DEF TInv, ThreadsOK, CallOf, TypeOK
<1>4. /\ meta' \in [Bins -> BinRecords] /\ meta'[BinOf(t)] = d[t]
      /\ \A i \in Bins : i # BinOf(t) => meta'[i] = meta[i]
  BY <1>2, <1>3 DEF Store, TypeOK
<1>5. /\ TypeOK' /\ LocksOK' /\ MayOK' /\ Frame(t) /\ RequestOf(t)' /\ CallOf(t)'
      /\ \A b \in Blocks :
           \/ ~ok[t] /\ b \in AtRisk(t) /\ may'[b] = Contents
           \/ (~ok[t] => b \notin AtRisk(t)) /\ may'[b] = may[b]
           \/ ok[t] /\ phase[t] = "put" /\ b = BlockOf(t) /\ may'[b] = Intended(req[t])
  BY <1>1, <1>3, <1>4, FinishOK DEF Store
<1>6. Mine(t).block \in {Current(BinOf(t)).block, BlockOf(t)}
  BY <1>1, <1>3 DEF StoreOf
<1>7. PlacesOK'
  <2>1. ASSUME NEW i \in Bins
        PROVE  LastOnly(meta'[i]) /\ \A b \in Blocks : meta'[i][Last].block = b => Bin[b] = i
    <3>1. CASE i = BinOf(t)
      BY <1>2, <1>3, <1>4, <1>6, <3>1 DEF PlacesOK, Mine, Current
    <3>2. CASE i # BinOf(t)
      BY <1>3, <1>4, <3>2 DEF PlacesOK, Current
    <3> QED
      BY <3>1, <3>2
  <2> QED
    BY <2>1 DEF PlacesOK, Current
<1>8. ASSUME NEW b \in Blocks, Holds(t, b) PROVE Where(b)' \in may'[b]
  <2>1. Bin[b] = BinOf(t)
    BY <1>8 DEF Holds
  <2>2. Where(b)' = IF Mine(t) = Entry(b) THEN fast[BinOf(t)] ELSE slow[b]
    BY <1>1, <1>4, <2>1 DEF Where, Current, Mine
  <2>3. slow[b] \in Contents /\ may[b] \subseteq Contents
    BY <1>3 DEF TypeOK
  <2>4. /\ Mine(t) = Entry(b) => b = BlockOf(t)
        /\ Mine(t) = Entry(b) => fast[BinOf(t)] \in may[b]
        /\ Current(BinOf(t)) = Entry(b) /\ b = BlockOf(t) => Mine(t) = Entry(b)
        /\ ok[t] /\ b # BlockOf(t) /\ Current(BinOf(t)) = Entry(b) => slow[b] \in may[b]
        /\ ok[t] /\ phase[t] = "put" => /\ Mine(t) = Entry(BlockOf(t))
                                         /\ fast[BinOf(t)] \in Intended(req[t])
    BY <1>1, <1>3 DEF StoreOf, Entry
  <2>5. Current(BinOf(t)) # Entry(b) => slow[b] \in may[b]
    <3> SUFFICES ASSUME Current(BinOf(t)) # Entry(b) PROVE slow[b] \in may[b]
      OBVIOUS
    <3>1. Spared(t, b)
      BY <2>1 DEF Spared
    <3> QED
      BY <1>8, <2>1, <3>1, OthersSpared DEF Where
  <2>6. b \in AtRisk(t) <=> BlockOf(t) # b /\ Current(BinOf(t)) = Entry(b)
    BY <1>1, <1>3, RiskIs
  <2>7. CASE Mine(t) = Entry(b)
    BY <1>5, <2>2, <2>4, <2>6, <2>7
  <2>8. CASE Mine(t) # Entry(b)
    BY <1>5, <2>2, <2>3, <2>4, <2>5, <2>6, <2>8
  <2> QED
    BY <2>7, <2>8
<1> QED
  BY <1>5, <1>7, <1>8, StepOK

LEMMA StoreErrorOK ==
  ASSUME TInv, NEW t \in Threads, StoreError(t)
  PROVE  TInv'
<1>1. Active(t) /\ HoldsBin(t) /\ pc[t] = "store"
  BY DEF StoreError, Active, HoldsBin
<1>2. TypeOK /\ PlacesOK /\ ThreadsOK
  BY DEF TInv
<1>3. /\ fast' = fast /\ slow' = slow /\ meta' = meta /\ meta' \in [Bins -> BinRecords]
      /\ \A i \in Bins : i # BinOf(t) => meta'[i] = meta[i]
  BY <1>2 DEF StoreError, TypeOK
<1>4. /\ TypeOK' /\ LocksOK' /\ MayOK' /\ Frame(t) /\ RequestOf(t)' /\ CallOf(t)'
      /\ \A b \in Blocks : IF b \in AtRisk(t) THEN may'[b] = Contents ELSE may'[b] = may[b]
  <2>1. Finish(t, FALSE)
    BY DEF StoreError
  <2> QED
    BY <1>1, <1>3, <2>1, FinishOK
<1>5. PlacesOK'
  BY <1>2, <1>3 DEF PlacesOK, Current
<1>6. ASSUME NEW b \in Blocks, Holds(t, b) PROVE Where(b)' \in may'[b]
  <2>1. Where(b)' = Where(b)
    BY <1>3 DEF Where, Current
  <2>2. Where(b) \in Contents
    BY <1>2, TieringBinAssumption DEF Where, TypeOK
  <2>3. b \notin AtRisk(t) => Spared(t, b)
    BY <1>1, <1>2, RiskIs
  <2> QED
    BY <1>4, <1>6, <2>1, <2>2, <2>3, OthersSpared
<1> QED
  BY <1>4, <1>5, <1>6, StepOK

LEMMA CrashOK ==
  ASSUME TInv, Crash
  PROVE  TInv'
<1> DEFINE B == UNION {AtRisk(t) : t \in {u \in Threads : Replacing(u)}}
<1>1. TypeOK /\ PlacesOK /\ ThreadsOK /\ MayOK /\ Kept
  BY DEF TInv
<1>2. /\ \A t \in Threads : pc'[t] = "idle" /\ d'[t] = NoDescriptors
      /\ fast' = fast /\ slow' = slow /\ meta' = meta
      /\ may' = [b \in Blocks |-> IF b \in B THEN Contents ELSE may[b]]
      /\ lost' = lost \cup B
  BY DEF Crash, Lose, BeingReplaced
<1>3. TypeOK'
  <2>1. B \subseteq Blocks
    BY DEF AtRisk
  <2> HIDE DEF B
  <2>2. may' \in [Blocks -> SUBSET Contents] /\ lost' \in SUBSET Blocks
    BY <1>1, <1>2, <2>1 DEF TypeOK
  <2> QED
    BY <1>1, <2>2, ZeroesType DEF Crash, TypeOK
<1>4. PlacesOK'
  BY <1>1, <1>2 DEF PlacesOK, Current
<1>5. MayOK'
  BY <1>1, <1>2, ZeroesType DEF MayOK
<1>6. LocksOK' /\ ThreadsOK'
  BY <1>2, ZeroesType
  DEF LocksOK, ThreadsOK, RequestOf, CallOf, EvictOf, ReadyOf, StoreOf, OutOf, Active, HoldsBin
<1>7. Kept'
  <2> SUFFICES ASSUME NEW b \in Blocks PROVE Where(b)' \in may'[b]
    BY DEF Kept
  <2>1. Where(b)' = Where(b) /\ Where(b) \in Contents
    BY <1>1, <1>2, TieringBinAssumption DEF Where, Current, TypeOK
  <2>2. ASSUME NEW t \in Threads, ~Spared(t, b) PROVE b \in B
    <3>1. Active(t)
      BY <2>2 DEF Spared, Active
    <3> QED
      BY <1>1, <2>2, <3>1, RiskIs
  <2>3. CASE b \in B
    BY <1>2, <2>1, <2>3
  <2>4. CASE b \notin B
    BY <1>1, <1>2, <2>1, <2>2, <2>4 DEF Kept
  <2> QED
    BY <2>3, <2>4
<1> QED
  BY <1>3, <1>4, <1>5, <1>6, <1>7 DEF TInv

LEMMA InitTInv == Init => TInv
<1> SUFFICES ASSUME Init PROVE TInv
  OBVIOUS
<1>1. TypeOK
  BY ZeroesType DEF Init, TypeOK
<1>2. PlacesOK
  BY ZeroesType, LastSlot, TieringNoBlockAssumption
  DEF Init, PlacesOK, Current, NoDescriptors, Empty
<1>3. LocksOK /\ ThreadsOK
  BY ZeroesType
  DEF Init, LocksOK, ThreadsOK, RequestOf, CallOf, EvictOf, ReadyOf, StoreOf, OutOf, Active, HoldsBin
<1>4. MayOK /\ Kept
  BY TieringBinAssumption DEF Init, MayOK, Kept, Where
<1> QED
  BY <1>1, <1>2, <1>3, <1>4 DEF TInv

LEMMA NextTInv == TInv /\ [Next]_vars => TInv'
<1> SUFFICES ASSUME TInv, [Next]_vars PROVE TInv'
  OBVIOUS
<1>1. ASSUME NEW t \in Threads, Thread(t) PROVE TInv'
  BY <1>1, BeginOK, LockOK, LockErrorOK, EvictOK, EvictErrorOK, GetFastOK, GetSlowOK,
     PutFastOK, AccessErrorOK, StoreOK, StoreErrorOK DEF Thread
<1>2. CASE Crash
  BY <1>2, CrashOK
<1>3. CASE UNCHANGED vars
  <2>1. /\ fast' = fast /\ slow' = slow /\ meta' = meta /\ pc' = pc /\ req' = req
        /\ phase' = phase /\ d' = d /\ ok' = ok /\ out' = out /\ stale' = stale
        /\ may' = may /\ lost' = lost
    BY <1>3 DEF vars, tvars
  <2>2. TypeOK' /\ MayOK'
    BY <2>1 DEF TInv, TypeOK, MayOK
  <2>3. PlacesOK'
    BY <2>1 DEF TInv, PlacesOK, Current
  <2>4. LocksOK'
    BY <2>1 DEF TInv, LocksOK, HoldsBin, BinOf, BlockOf, Active
  <2>5. ThreadsOK'
    BY <2>1 DEF TInv, ThreadsOK, RequestOf, CallOf, EvictOf, ReadyOf, StoreOf, OutOf, Active,
                Mine, Current, BinOf, BlockOf, Intended
  <2>6. Kept'
    BY <2>1 DEF TInv, Kept, Where, Spared, Current, BinOf, BlockOf
  <2> QED
    BY <2>2, <2>3, <2>4, <2>5, <2>6 DEF TInv
<1> QED
  BY <1>1, <1>2, <1>3 DEF Next

(***************************************************************************)
(* The theorems.                                                           *)
(***************************************************************************)

\* Whatever the threads do, in whatever order and whatever fails, the
\* inductive invariant holds.
THEOREM TieringInvariant == Spec => []TInv
BY InitTInv, NextTInv, PTL DEF Spec

\* Every variable keeps a value the code's types allow.
THEOREM TieringTypeCorrect == Spec => []TypeOK
<1>1. TInv => TypeOK
  BY DEF TInv
<1> QED
  BY <1>1, TieringInvariant, PTL

\* A bin has one descriptor in use at the most, for any DESCRIPTORS_PER_BIN:
\* none claims the content that another block has on the fast storage.
THEOREM OneDescriptorOnly == Spec => []OneDescriptor
<1>1. TInv => OneDescriptor
  <2> SUFFICES ASSUME TInv, NEW i \in Bins
               PROVE  Cardinality({k \in Slots : meta[i][k] # Empty}) <= 1
    BY DEF OneDescriptor
  <2>1. {k \in Slots : meta[i][k] # Empty} \subseteq {Last}
    BY DEF TInv, PlacesOK, LastOnly
  <2>2. IsFiniteSet({Last}) /\ Cardinality({Last}) = 1
    BY FS_Singleton
  <2> QED
    BY <2>1, <2>2, FS_Subset
<1> QED
  BY <1>1, TieringInvariant, PTL

\* No interleaving of calls, failed access or crash makes a block lose what
\* an acknowledged put gave it, outside the three cases in which the code does
\* lose it and that are recorded in `lost': the block that a failing call
\* replaces, the one that is BeingReplaced when the process dies, and the rest
\* of a block of which a part is put after get_block missed it.
THEOREM NothingIsLost == Spec => []NothingLost
<1>1. TInv => NothingLost
  BY KeptIsNothingLost DEF TInv
<1> QED
  BY <1>1, TieringInvariant, PTL

\* put_block overwrites another block's dirty content only when that is on
\* the slow storage, or when it will report an error.
THEOREM EvictedBeforeOverwritten == Spec => EvictedFirst
<1>1. TInv =>
        \A t \in Threads, b \in Blocks :
          /\ PutFast(t) /\ b # BlockOf(t)
          /\ [block |-> b, dirty |-> TRUE] \in {meta[BinOf(t)][i] : i \in Slots}
          => ~ok[t] \/ slow[b] = fast[BinOf(t)]
  <2> SUFFICES ASSUME TInv, NEW t \in Threads, NEW b \in Blocks, PutFast(t), b # BlockOf(t),
                      [block |-> b, dirty |-> TRUE] \in {meta[BinOf(t)][i] : i \in Slots}, ok[t]
               PROVE  slow[b] = fast[BinOf(t)]
    OBVIOUS
  <2>1. pc[t] = "ready" /\ Active(t)
    BY DEF PutFast, Active
  <2>2. meta[BinOf(t)] \in BinRecords /\ LastOnly(meta[BinOf(t)])
    BY <2>1, InBin
  <2>3. Current(BinOf(t)) = Entry(b)
    BY <2>2, EntryIsLast DEF Current, Entry
  <2> QED
    BY <2>1, <2>3 DEF TInv, ThreadsOK, CallOf, ReadyOf
<1> QED
  BY <1>1, TieringInvariant, PTL DEF EvictedFirst
=============================================================================
