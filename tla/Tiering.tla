------------------------------ MODULE Tiering ------------------------------
(***************************************************************************)
(* src/storage_backend_tiering.cpp: the blocks of a slow backend with a     *)
(* write-back cache on a fast one.  Each block belongs to one bin, a bin    *)
(* has one block of the fast backend, and a bin of descriptors on a third   *)
(* backend says whose content that block has and if it is newer ("dirty").  *)
(*                                                                          *)
(* A thread holds the lock of the bin (lgt) for all of get_block or         *)
(* put_block, in which each change of a backend is a step; between the two  *)
(* calls of a request that changes a part of a block it holds only the lock *)
(* of the block (lg), which Volume models one by one.                       *)
(***************************************************************************)
EXTENDS Integers, FiniteSets

CONSTANTS Threads,    \* the threads that call get_data, put_data, trim_zero
          Blocks,     \* the blocks of the slow backend
          Bins,       \* 0 .. map_n_entries - 1
          Bin,        \* Bin[b]: map_index, the hash of b modulo map_n_entries
          NoBlock,    \* an empty descriptor
          Descriptors,\* DESCRIPTORS_PER_BIN
          Values,     \* what one half of a block can be
          Zero,       \* what a new block contains, and a trimmed one
          Ops,        \* what the threads call
          Faults      \* which accesses may fail, and "crash"

Slots == 0 .. Descriptors - 1
\* a block has a part that a "part" request changes, and the rest of it
Contents == [head : Values, tail : Values]
Zeroes == [head |-> Zero, tail |-> Zero]

ASSUME TieringBinAssumption == Bin \in [Blocks -> Bins]
ASSUME TieringNoBlockAssumption == NoBlock \notin Blocks
ASSUME TieringSlotsAssumption == Descriptors \in Nat \ {0}
ASSUME TieringZeroAssumption == Zero \in Values
ASSUME TieringOpsAssumption == Ops \subseteq {"get", "put", "part"}
ASSUME TieringFaultsAssumption == Faults \subseteq {"meta_get", "get", "evict", "put", "store", "crash"}

Requests == [op : Ops, block : Blocks, data : Values]

\* descriptor_t without the age, of which every value is below UINT64_MAX and
\* which therefore decides nothing; the hash of a block number, a bijection
\* on 64 bits, stands for the number
Empty == [block |-> NoBlock, dirty |-> FALSE]
BinRecords == [Slots -> [block : Blocks, dirty : BOOLEAN] \cup {Empty}]

VARIABLES
  fast,    \* fast[i]: the block of bin i on the fast backend
  slow,    \* the blocks on the slow backend
  meta,    \* the descriptors as they are stored
  pc, req, \* where a thread is in its request, and the request
  phase,   \* whether it is in get_block or in put_block
  d,       \* the descriptors of the bin as get_block or put_block has them
  ok,      \* what get_block or put_block will return
  out,     \* the content that get_block has got
  \* history
  stale,   \* whether a partial put works on a content that get_block found
           \* in the fast block without its ever having been put there
  may,     \* the contents each block may have, given the puts that were asked
           \* for and those that were acknowledged
  lost     \* the blocks of which a step of the code has lost what was put,
           \* and which nobody has put as a whole since

tvars == <<pc, req, phase, d, ok, out, stale>>
history == <<may, lost>>
vars == <<fast, slow, meta, tvars, history>>

-----------------------------------------------------------------------------
Active(t) == pc[t] # "idle"
BlockOf(t) == req[t].block
BinOf(t) == Bin[BlockOf(t)]
HoldsBin(t) == pc[t] \in {"evict", "ready", "store"}

Match(r, b) == \E i \in Slots : r[i].block = b

\* slip: an empty descriptor is preferred, and shares the block of the bin
SlotFor_Oldest(r, b) ==
  CHOOSE i \in Slots :
    IF Match(r, b) THEN r[i].block = b
                   ELSE Empty \in {r[j] : j \in Slots} => r[i] = Empty
\* replace_slot: the first descriptor of b; without one the last of the bin,
\* as `oldest' stays at UINT64_MAX
SlotFor(r, b) ==
  IF Match(r, b)
    THEN CHOOSE i \in Slots : r[i].block = b /\ \A j \in 0 .. i - 1 : r[j].block # b
    ELSE Descriptors - 1

\* slip: the flag of the first descriptor is looked at
MustEvict_First(r, b) == ~Match(r, b) /\ r[0].dirty
MustEvict(r, b) == ~Match(r, b) /\ r[SlotFor(r, b)].dirty

\* where the newest content of b is, going by the stored descriptors
Stored(b) ==
  IF \E i \in Slots : meta[Bin[b]][i] = [block |-> b, dirty |-> TRUE]
    THEN fast[Bin[b]] ELSE slow[b]

\* get_block has made a descriptor for b without a copy of b in fast storage
Unfilled(b) ==
  /\ [block |-> b, dirty |-> FALSE] \in {meta[Bin[b]][i] : i \in Slots}
  /\ fast[Bin[b]] # slow[b]

\* the dirty block that the thread has found in its bin, if it is another one
AtRisk(t) ==
  {b \in Blocks \ {BlockOf(t)} :
     [block |-> b, dirty |-> TRUE] \in {meta[BinOf(t)][i] : i \in Slots}}
\* what was put to the blocks of B is lost: they may have any content
Lose(B) ==
  /\ lost' = lost \cup B
  /\ may' = [b \in Blocks |-> IF b \in B THEN Contents ELSE may[b]]

\* content c after request r
Changed(r, c) ==
  [head |-> IF r.op = "get" THEN c.head ELSE r.data,
   tail |-> IF r.op = "put" THEN r.data ELSE c.tail]
Intended(r) == {Changed(r, c) : c \in may[r.block]}

NoRequest == [op |-> "none", block |-> NoBlock, data |-> Zero]
NoDescriptors == [i \in Slots |-> Empty]

Init ==
  /\ fast = [i \in Bins |-> Zeroes]
  /\ slow = [b \in Blocks |-> Zeroes]
  /\ meta = [i \in Bins |-> NoDescriptors]
  /\ pc = [t \in Threads |-> "idle"]
  /\ req = [t \in Threads |-> NoRequest]
  /\ phase = [t \in Threads |-> "get"]
  /\ d = [t \in Threads |-> NoDescriptors]
  /\ ok = [t \in Threads |-> TRUE]
  /\ out = [t \in Threads |-> Zeroes]
  /\ stale = [t \in Threads |-> FALSE]
  /\ may = [b \in Blocks |-> {Zeroes}]
  /\ lost = {}

-----------------------------------------------------------------------------
(* A request, under the lock of its block in lg.                            *)

SharesBlock(t, r) ==
  \E u \in Threads \ {t} :
    Active(u) /\ BlockOf(u) = r.block /\ ~(r.op = "get" /\ req[u].op = "get")

Begin(t) ==
  \E r \in Requests :
    /\ ~Active(t) /\ ~SharesBlock(t, r)
    /\ pc' = [pc EXCEPT ![t] = "lock"]
    /\ req' = [req EXCEPT ![t] = r]
    /\ phase' = [phase EXCEPT ![t] = IF r.op = "put" THEN "put" ELSE "get"]
    /\ may' = [may EXCEPT ![r.block] = @ \cup Intended(r)]
    /\ UNCHANGED <<fast, slow, meta, d, ok, out, stale, lost>>

Return(t) ==
  /\ pc' = [pc EXCEPT ![t] = "idle"]
  /\ req' = [req EXCEPT ![t] = NoRequest]
  /\ phase' = [phase EXCEPT ![t] = "get"]
  /\ d' = [d EXCEPT ![t] = NoDescriptors]
  /\ ok' = [ok EXCEPT ![t] = TRUE]
  /\ out' = [out EXCEPT ![t] = Zeroes]
  /\ stale' = [stale EXCEPT ![t] = FALSE]

\* put_block follows get_block
PutNext(t) ==
  /\ pc' = [pc EXCEPT ![t] = "lock"]
  /\ phase' = [phase EXCEPT ![t] = "put"]
  /\ d' = [d EXCEPT ![t] = NoDescriptors]
  /\ UNCHANGED <<req, ok, out, stale, history>>

\* a put is acknowledged: its block has the content that it was given; if the
\* block was lost, only the put of all of it gives it one
Acknowledge(t) ==
  IF req[t].op = "part" /\ BlockOf(t) \in lost
    THEN UNCHANGED history
    ELSE /\ may' = [may EXCEPT ![BlockOf(t)] = Intended(req[t])]
         /\ lost' = lost \ {BlockOf(t)}

\* get_block or put_block has returned good
Finish(t, good) ==
  IF good /\ phase[t] = "get" /\ req[t].op = "part"
    THEN PutNext(t)
    ELSE /\ Return(t)
         /\ CASE ~good -> Lose(AtRisk(t))
              [] good /\ phase[t] = "put" -> Acknowledge(t)
              [] good /\ phase[t] = "get" -> UNCHANGED history

-----------------------------------------------------------------------------
(* get_block and put_block.                                                 *)

\* the lock of the bin, and the descriptors from the meta storage
Lock(t) ==
  /\ pc[t] = "lock"
  /\ \A u \in Threads : HoldsBin(u) => BinOf(u) # BinOf(t)
  /\ d' = [d EXCEPT ![t] = meta[BinOf(t)]]
  /\ pc' = [pc EXCEPT ![t] =
              IF MustEvict(meta[BinOf(t)], BlockOf(t)) THEN "evict" ELSE "ready"]
  /\ UNCHANGED <<fast, slow, meta, req, phase, ok, out, stale, history>>

\* nothing has been changed
LockError(t) ==
  /\ "meta_get" \in Faults
  /\ pc[t] = "lock"
  /\ \A u \in Threads : HoldsBin(u) => BinOf(u) # BinOf(t)
  /\ Return(t)
  /\ UNCHANGED <<fast, slow, meta, history>>

Slot(t) == SlotFor(d[t], BlockOf(t))
NotDirty(t) == [d EXCEPT ![t][Slot(t)] = [block |-> @.block, dirty |-> FALSE]]

\* a dirty block goes to the slow storage
Evict(t) ==
  /\ pc[t] = "evict"
  /\ slow' = [slow EXCEPT ![d[t][Slot(t)].block] = fast[BinOf(t)]]
  /\ d' = NotDirty(t)
  /\ pc' = [pc EXCEPT ![t] = "ready"]
  /\ UNCHANGED <<fast, meta, req, phase, ok, out, stale, history>>

\* slip: the failure is not reported
EvictError_Silent(t) ==
  /\ "evict" \in Faults
  /\ pc[t] = "evict"
  /\ d' = NotDirty(t)
  /\ pc' = [pc EXCEPT ![t] = "ready"]
  /\ UNCHANGED <<fast, slow, meta, req, phase, ok, out, stale, history>>

\* its read or its write fails: "dirty" is reset and the call goes on
EvictError(t) ==
  /\ "evict" \in Faults
  /\ pc[t] = "evict"
  /\ d' = NotDirty(t)
  /\ ok' = [ok EXCEPT ![t] = FALSE]
  /\ pc' = [pc EXCEPT ![t] = "ready"]
  /\ UNCHANGED <<fast, slow, meta, req, phase, out, stale, history>>

\* get_block finds a descriptor
GetFast(t) ==
  /\ pc[t] = "ready" /\ phase[t] = "get" /\ Match(d[t], BlockOf(t))
  /\ out' = [out EXCEPT ![t] = fast[BinOf(t)]]
  /\ pc' = [pc EXCEPT ![t] = "store"]
  /\ stale' = [stale EXCEPT ![t] = req[t].op = "part" /\ Unfilled(BlockOf(t))]
  /\ UNCHANGED <<fast, slow, meta, req, phase, d, ok, history>>

\* slip: the flag is set, the block is not
NewDescriptor_FlagOnly(t, isDirty) ==
  [d EXCEPT ![t][Slot(t)].dirty = isDirty]
NewDescriptor(t, isDirty) ==
  [d EXCEPT ![t][Slot(t)] = [block |-> BlockOf(t), dirty |-> isDirty]]

\* get_block does not, and makes one; the fast storage keeps what it had
GetSlow(t) ==
  /\ pc[t] = "ready" /\ phase[t] = "get" /\ ~Match(d[t], BlockOf(t))
  /\ out' = [out EXCEPT ![t] = slow[BlockOf(t)]]
  /\ d' = NewDescriptor(t, FALSE)
  /\ pc' = [pc EXCEPT ![t] = "store"]
  /\ UNCHANGED <<fast, slow, meta, req, phase, ok, stale, history>>

\* put_block, with a descriptor or in the place of another block
PutFast(t) ==
  /\ pc[t] = "ready" /\ phase[t] = "put"
  /\ fast' = [fast EXCEPT ![BinOf(t)] = Changed(req[t], out[t])]
  /\ d' = NewDescriptor(t, TRUE)
  /\ pc' = [pc EXCEPT ![t] = "store"]
  /\ Lose({b \in {BlockOf(t)} : stale[t]})
  /\ stale' = [stale EXCEPT ![t] = FALSE]
  /\ UNCHANGED <<slow, meta, req, phase, ok, out>>

\* an access of the fast or, for a block without a descriptor, of the slow
\* storage fails, and the descriptors are stored all the same
AccessError(t) ==
  /\ phase[t] \in Faults
  /\ pc[t] = "ready"
  /\ ok' = [ok EXCEPT ![t] = FALSE]
  /\ pc' = [pc EXCEPT ![t] = "store"]
  /\ UNCHANGED <<fast, slow, meta, req, phase, d, out, stale, history>>

\* the descriptors go to the meta storage, the lock of the bin is released
Store(t) ==
  /\ pc[t] = "store"
  /\ meta' = [meta EXCEPT ![BinOf(t)] = d[t]]
  /\ Finish(t, ok[t])
  /\ UNCHANGED <<fast, slow>>

StoreError(t) ==
  /\ "store" \in Faults
  /\ pc[t] = "store"
  /\ Finish(t, FALSE)
  /\ UNCHANGED <<fast, slow, meta>>

\* put_block has overwritten another block's place on the fast storage, and
\* the stored descriptors still say it is the other block's
Replacing(t) ==
  pc[t] = "store" /\ phase[t] = "put" /\ ~Match(meta[BinOf(t)], BlockOf(t))
\* the dirty blocks that are in such a place
BeingReplaced == UNION {AtRisk(t) : t \in {u \in Threads : Replacing(u)}}

\* the process dies and starts again
Crash ==
  /\ "crash" \in Faults
  /\ Lose(BeingReplaced)
  /\ pc' = [t \in Threads |-> "idle"]
  /\ req' = [t \in Threads |-> NoRequest]
  /\ phase' = [t \in Threads |-> "get"]
  /\ d' = [t \in Threads |-> NoDescriptors]
  /\ ok' = [t \in Threads |-> TRUE]
  /\ out' = [t \in Threads |-> Zeroes]
  /\ stale' = [t \in Threads |-> FALSE]
  /\ UNCHANGED <<fast, slow, meta>>

Thread(t) ==
  \/ Begin(t) \/ Lock(t) \/ LockError(t)
  \/ Evict(t) \/ EvictError(t)
  \/ GetFast(t) \/ GetSlow(t) \/ PutFast(t) \/ AccessError(t)
  \/ Store(t) \/ StoreError(t)

Next == (\E t \in Threads : Thread(t)) \/ Crash

Spec == Init /\ [][Next]_vars

-----------------------------------------------------------------------------
\* Every variable has a value the code's types allow; only a descriptor of a
\* block is dirty.
TypeOK ==
  /\ fast \in [Bins -> Contents] /\ slow \in [Blocks -> Contents]
  /\ meta \in [Bins -> BinRecords]
  /\ pc \in [Threads -> {"idle", "lock", "evict", "ready", "store"}]
  /\ req \in [Threads -> Requests \cup {NoRequest}]
  /\ phase \in [Threads -> {"get", "put"}]
  /\ d \in [Threads -> BinRecords]
  /\ ok \in [Threads -> BOOLEAN]
  /\ out \in [Threads -> Contents]
  /\ stale \in [Threads -> BOOLEAN]
  /\ may \in [Blocks -> SUBSET Contents]
  /\ lost \in SUBSET Blocks

\* A bin has two descriptors and one block on the fast storage: no two of the
\* descriptors are ever in use, so none claims what another block has put
\* there (the choice of replace_slot).
OneDescriptor ==
  \A i \in Bins : Cardinality({k \in Slots : meta[i][k] # Empty}) <= 1

\* Whatever is read, written, evicted, refused or cut off, a block keeps a
\* content that it was given and that no later acknowledged put replaced: on
\* the fast storage if its descriptor is dirty, else on the slow one.  The code
\* does lose what was acknowledged in three cases, and `lost' has the blocks:
\* - a call that replaces the dirty block of its bin fails: it has reported an
\*   error, for another block (Finish);
\* - the process dies between the two stores of a put that replaces the dirty
\*   block of its bin (Crash; during the put the block is BeingReplaced);
\* - put b, evict b, get b (a miss, that does not fill the fast block), put a
\*   part of b: the rest of b becomes what the fast block had of the other
\*   block, with no failure and no error (PutFast of what was read `stale').
\* A block is lost until a put of all of it is acknowledged; for every other
\* block, and at every other step, nothing is lost.
NothingLost ==
  \A b \in Blocks \ (lost \cup BeingReplaced) : Stored(b) \in may[b]

\* A block that is dirty is overwritten on the fast storage only when the slow
\* one has it, or by a call that will report an error.
EvictedFirst ==
  [][\A t \in Threads, b \in Blocks :
       /\ PutFast(t) /\ b # BlockOf(t)
       /\ [block |-> b, dirty |-> TRUE] \in {meta[BinOf(t)][i] : i \in Slots}
       => ~ok[t] \/ slow[b] = fast[BinOf(t)]]_vars

\* "data written again is the same when read" (test.cpp:187): when nothing has
\* failed, a read returns what was written last.
ReadsWhatWasWritten ==
  \A t \in Threads :
    pc[t] = "store" /\ req[t].op = "get" /\ ok[t] => out[t] \in may[BlockOf(t)]
=============================================================================
