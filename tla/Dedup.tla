------------------------------- MODULE Dedup -------------------------------
(***************************************************************************)
(* src/storage_backend_dedup.cpp: a backend that stores equal blocks once.  *)
(* A key-value database maps a block number to a hash, a hash to its use    *)
(* count and a hash to the content.  Threads write ranges of bytes          *)
(* (storage_backend::put_data, block by block under the lock group lg, each *)
(* block in two steps, get_block and put_block, that take the mutex `lock'  *)
(* on their own) and trim ranges (trim_zero, all of it under `lock').       *)
(*                                                                          *)
(* put_block_int is one step per record or pair of records it changes,      *)
(* inside a transaction of the database, which a crash rolls back.          *)
(***************************************************************************)
EXTENDS ByteRanges, FiniteSets

CONSTANTS Threads,   \* the threads that call put_data and trim_zero
          Values,    \* what a byte can be
          Zero,      \* a zeroed byte, and what a block that is new contains
          Hash,      \* the hash of each content of a block
          NoHash,    \* no block-to-hash record
          NoData,    \* no data-block record
          Requests,  \* what the threads may ask for
          Faults     \* which calls of the database may fail, and "crash"

Blocks == 0 .. NumBlocks - 1
Offsets == 0 .. BlockSize - 1
Contents == [Offsets -> Values]
Hashes == {Hash[c] : c \in Contents}
Zeroes == [o \in Offsets |-> Zero]

AllRequests ==
  {r \in [op : {"put", "trim"}, offset : Bytes, size : 1 .. Size, data : Values] :
     /\ r.offset + r.size <= Size
     /\ r.op = "trim" => r.data = Zero}

ASSUME DedupZeroAssumption == Zero \in Values
\* no two contents have the same hash
ASSUME HashAssumption == \A c, d \in Contents : Hash[c] = Hash[d] => c = d
ASSUME NoHashAssumption == NoHash \notin Hashes
ASSUME NoDataAssumption == NoData \notin Contents
ASSUME DedupRequestsAssumption == Requests \subseteq AllRequests
ASSUME DedupFaultsAssumption == Faults \subseteq {"get", "begin", "db", "commit", "crash"}

NoRequest == [op |-> "none", offset |-> 0, size |-> 1, data |-> Zero]

\* the records of the database; a use count of 0 is one without a record
Records == [hash : [Blocks -> Hashes \cup {NoHash}],
            uses : [Hashes -> 0 .. NumBlocks],
            data : [Hashes -> Contents \cup {NoData}]]

VARIABLES
  db,       \* the records that are committed
  tx, open, \* the records as an open transaction has them; whether one is open
  lock,     \* the thread that holds `lock', as a set
  dead,     \* the process has used a null pointer
  pc, req,  \* where a thread is in its request, and the request
  pos,      \* work_offset
  temp,     \* the block that put_block or put_block_int is called with
  raced     \* history: the puts that had a trim of the same block beside them

tvars == <<pc, req, pos, temp>>
vars == <<db, tx, open, lock, dead, tvars, raced>>

-----------------------------------------------------------------------------
\* what get_block finds: a block that was never written reads as zeroes
Disk(b) == IF db.hash[b] = NoHash THEN Zeroes ELSE db.data[db.hash[b]]

Users(d, h) == {b \in Blocks : d.hash[b] = h}

Active(t) == pc[t] # "idle"
At(t) == Block(pos[t])
Whole(t) == Part(req[t], pos[t]) = BlockBytes(At(t))

\* content c of the block of byte o, with the bytes of r
Merged(r, o, c) ==
  [i \in Offsets |-> IF Block(o) * BlockSize + i \in Part(r, o) THEN r.data ELSE c[i]]

Init ==
  /\ db = [hash |-> [b \in Blocks |-> NoHash],
           uses |-> [h \in Hashes |-> 0],
           data |-> [h \in Hashes |-> NoData]]
  /\ tx = db /\ open = FALSE
  /\ lock = {} /\ dead = FALSE
  /\ pc = [t \in Threads |-> "idle"]
  /\ req = [t \in Threads |-> NoRequest]
  /\ pos = [t \in Threads |-> 0]
  /\ temp = [t \in Threads |-> Zeroes]
  /\ raced = {}

-----------------------------------------------------------------------------
(* A request from its start to its return.                                  *)

\* slip: the lock group is asked for bytes, not for blocks
Conflict_Bytes(r1, r2) == Span(r1) \cap Span(r2) # {}
\* the lock group: two requests for the same block
Conflict(r1, r2) == Locked(r1) \cap Locked(r2) # {}

\* the threads that work on a block of r
Others(r) == {u \in Threads : Active(u) /\ Touched(r) \cap Touched(req[u]) # {}}

\* the puts that are now beside a trim of the same block
NowRaced(t, r) ==
  IF r.op = "trim" THEN {u \in Others(r) : req[u].op = "put"}
                   ELSE {u \in {t} : \E v \in Others(r) : req[v].op = "trim"}

\* put_data takes the locks of its blocks in lg, trim_zero takes none of lg
Begin(t) ==
  \E r \in Requests :
    /\ ~Active(t)
    /\ r.op = "put" => \A u \in Threads : req[u].op = "put" => ~Conflict(r, req[u])
    /\ pc' = [pc EXCEPT ![t] = IF r.op = "put" THEN "work" ELSE "lock"]
    /\ req' = [req EXCEPT ![t] = r]
    /\ pos' = [pos EXCEPT ![t] = r.offset]
    /\ raced' = raced \cup NowRaced(t, r)
    /\ UNCHANGED <<db, tx, open, lock, dead, temp>>

\* trim_zero takes `lock' for all its blocks
LockTrim(t) ==
  /\ pc[t] = "lock" /\ lock = {}
  /\ lock' = {t}
  /\ pc' = [pc EXCEPT ![t] = "work"]
  /\ UNCHANGED <<db, tx, open, dead, req, pos, temp, raced>>

\* the call returns, with or without an error
Return(t) ==
  /\ pc' = [pc EXCEPT ![t] = "idle"]
  /\ req' = [req EXCEPT ![t] = NoRequest]
  /\ pos' = [pos EXCEPT ![t] = 0]
  /\ temp' = [temp EXCEPT ![t] = Zeroes]
  /\ lock' = lock \ {t}
  /\ raced' = raced \ {t}

\* on to the next block, if there is one; put_block gives `lock' back
Advance(t) ==
  IF PartEnd(req[t], pos[t]) = End(req[t])
    THEN Return(t)
    ELSE /\ pos' = [pos EXCEPT ![t] = PartEnd(req[t], pos[t])]
         /\ pc' = [pc EXCEPT ![t] = "work"]
         /\ lock' = IF req[t].op = "put" THEN lock \ {t} ELSE lock
         /\ UNCHANGED <<req, temp, raced>>

\* slip: the result of put_block is not looked at
Failed_Ignored(t) == Advance(t)

\* put_block_int has failed: put_data returns an error; trim_zero does if it
\* was about a part of the block, and goes on if it was about all of it
Failed(t) ==
  IF req[t].op = "trim" /\ Whole(t) THEN Advance(t) ELSE Return(t)

-----------------------------------------------------------------------------
(* One block: read it if a part of it changes, then put it.                 *)

\* put_data, part of a block: get_block, under `lock'
ReadModify(t) ==
  /\ pc[t] = "work" /\ req[t].op = "put" /\ ~Whole(t) /\ lock = {}
  /\ temp' = [temp EXCEPT ![t] = Merged(req[t], pos[t], Disk(At(t)))]
  /\ pc' = [pc EXCEPT ![t] = "put"]
  /\ UNCHANGED <<db, tx, open, lock, dead, req, pos, raced>>

\* put_data, a whole block
WholeBlock(t) ==
  /\ pc[t] = "work" /\ req[t].op = "put" /\ Whole(t)
  /\ temp' = [temp EXCEPT ![t] = Merged(req[t], pos[t], Zeroes)]
  /\ pc' = [pc EXCEPT ![t] = "put"]
  /\ UNCHANGED <<db, tx, open, lock, dead, req, pos, raced>>

\* put_block
PutBlock(t) ==
  /\ pc[t] = "put" /\ lock = {}
  /\ lock' = {t}
  /\ pc' = [pc EXCEPT ![t] = "begin"]
  /\ UNCHANGED <<db, tx, open, dead, req, pos, temp, raced>>

\* get_block_int gives trim_zero no buffer for a block that is new
NoBuffer(t) == ~Whole(t) /\ db.hash[At(t)] = NoHash

\* trim_zero
TrimBlock(t) ==
  /\ pc[t] = "work" /\ req[t].op = "trim" /\ ~NoBuffer(t)
  /\ temp' = [temp EXCEPT ![t] = Merged(req[t], pos[t], Disk(At(t)))]
  /\ pc' = [pc EXCEPT ![t] = "begin"]
  /\ UNCHANGED <<db, tx, open, lock, dead, req, pos, raced>>

\* memset through the null pointer
TrimNewBlock(t) ==
  /\ pc[t] = "work" /\ req[t].op = "trim" /\ NoBuffer(t)
  /\ dead' = TRUE
  /\ UNCHANGED <<db, tx, open, lock, tvars, raced>>

\* get_block, get_block_int
GetBlockError(t) ==
  /\ "get" \in Faults
  /\ pc[t] = "work" /\ ~Whole(t)
  /\ req[t].op = "put" => lock = {}
  /\ Return(t)
  /\ UNCHANGED <<db, tx, open, dead>>

-----------------------------------------------------------------------------
(* put_block_int: one transaction.                                          *)

BeginTransaction(t) ==
  /\ pc[t] = "begin" /\ ~open
  /\ open' = TRUE
  /\ pc' = [pc EXCEPT ![t] = "release"]
  /\ UNCHANGED <<db, tx, lock, dead, req, pos, temp, raced>>

BeginTransactionError(t) ==
  /\ "begin" \in Faults
  /\ pc[t] = "begin"
  /\ Failed(t)
  /\ UNCHANGED <<db, tx, open, dead>>

\* slip: the decreased count is not stored
Released_NotStored(d, b) ==
  IF d.uses[d.hash[b]] = 1
    THEN [d EXCEPT !.hash[b] = NoHash, !.uses[d.hash[b]] = 0]
    ELSE d

\* slip: the content goes although other blocks use it
Released_DeletesData(d, b) ==
  [d EXCEPT !.uses[d.hash[b]] = @ - 1, !.hash[b] = NoHash, !.data[d.hash[b]] = NoData]

\* decrease_use_count; at 0 the records that go are the use count
\* (delete_block_by_hash) and the mapping (delete_block_counter_by_hash)
Released(d, b) ==
  LET h == d.hash[b]
  IN  [hash |-> IF d.uses[h] = 1 THEN [d.hash EXCEPT ![b] = NoHash] ELSE d.hash,
       uses |-> [d.uses EXCEPT ![h] = @ - 1],
       data |-> d.data]

\* the block has a hash without a use count: an error
Corrupt(t) == tx.hash[At(t)] # NoHash /\ tx.uses[tx.hash[At(t)]] = 0

Release(t) ==
  /\ pc[t] = "release" /\ ~Corrupt(t)
  /\ tx' = IF tx.hash[At(t)] = NoHash THEN tx ELSE Released(tx, At(t))
  /\ pc' = [pc EXCEPT ![t] = "claim"]
  /\ UNCHANGED <<db, open, lock, dead, req, pos, temp, raced>>

\* slip: the count is set without a look at it
Claimed_AlwaysNew(d, c) == [d EXCEPT !.uses[Hash[c]] = 1, !.data[Hash[c]] = c]

\* increase_use_count, or a new count and the content
Claimed(d, c) ==
  LET h == Hash[c]
  IN  [hash |-> d.hash,
       uses |-> [d.uses EXCEPT ![h] = IF @ > 0 THEN @ + 1 ELSE 1],
       data |-> IF d.uses[h] > 0 THEN d.data ELSE [d.data EXCEPT ![h] = c]]

Claim(t) ==
  /\ pc[t] = "claim"
  /\ tx' = Claimed(tx, temp[t])
  /\ pc' = [pc EXCEPT ![t] = "map"]
  /\ UNCHANGED <<db, open, lock, dead, req, pos, temp, raced>>

\* map_blocknr_to_hash
Mapped(d, b, c) ==
  [hash |-> [d.hash EXCEPT ![b] = Hash[c]], uses |-> d.uses, data |-> d.data]

Map(t) ==
  /\ pc[t] = "map"
  /\ tx' = Mapped(tx, At(t), temp[t])
  /\ pc' = [pc EXCEPT ![t] = "commit"]
  /\ UNCHANGED <<db, open, lock, dead, req, pos, temp, raced>>

\* slip: a return without ABORT_TRANSACTION
Abort_NotCalled(t) ==
  /\ pc[t] \in {"release", "claim", "map"}
  /\ "db" \in Faults
  /\ Failed(t)
  /\ UNCHANGED <<db, tx, open, dead>>

\* any access to a record, the hash or the compression fails
Abort(t) ==
  /\ pc[t] \in {"release", "claim", "map"}
  /\ "db" \in Faults \/ (pc[t] = "release" /\ Corrupt(t))
  /\ tx' = db /\ open' = FALSE
  /\ Failed(t)
  /\ UNCHANGED <<db, dead>>

Commit(t) ==
  /\ pc[t] = "commit"
  /\ db' = tx /\ open' = FALSE
  /\ Advance(t)
  /\ UNCHANGED <<tx, dead>>

\* the database may have got that far or not
CommitError(t) ==
  /\ "commit" \in Faults
  /\ pc[t] = "commit"
  /\ db' \in {db, tx}
  /\ tx' = db' /\ open' = FALSE
  /\ Failed(t)
  /\ UNCHANGED dead

\* the process dies and starts again: the database rolls back
Restart ==
  /\ dead \/ "crash" \in Faults
  /\ tx' = db /\ open' = FALSE
  /\ lock' = {} /\ dead' = FALSE
  /\ pc' = [t \in Threads |-> "idle"]
  /\ req' = [t \in Threads |-> NoRequest]
  /\ pos' = [t \in Threads |-> 0]
  /\ temp' = [t \in Threads |-> Zeroes]
  /\ raced' = {}
  /\ UNCHANGED db

PutBlockInt(t) ==
  \/ BeginTransaction(t) \/ BeginTransactionError(t)
  \/ Release(t) \/ Claim(t) \/ Map(t) \/ Abort(t)
  \/ Commit(t) \/ CommitError(t)

Thread(t) ==
  \/ Begin(t) \/ LockTrim(t)
  \/ ReadModify(t) \/ WholeBlock(t) \/ PutBlock(t)
  \/ TrimBlock(t) \/ TrimNewBlock(t) \/ GetBlockError(t)
  \/ PutBlockInt(t)

Next == (~dead /\ \E t \in Threads : Thread(t)) \/ Restart

Spec == Init /\ [][Next]_vars

-----------------------------------------------------------------------------
InTransaction(t) == pc[t] \in {"release", "claim", "map", "commit"}

\* Every variable has a value the code's types allow; no count is above the
\* number of blocks.
TypeOK ==
  /\ db \in Records /\ tx \in Records
  /\ open \in BOOLEAN /\ dead \in BOOLEAN
  /\ lock \in SUBSET Threads
  /\ pc \in [Threads -> {"idle", "lock", "work", "put", "begin", "release", "claim",
                         "map", "commit"}]
  /\ req \in [Threads -> Requests \cup {NoRequest}]
  /\ pos \in [Threads -> Bytes]
  /\ temp \in [Threads -> Contents]
  /\ raced \in SUBSET Threads

\* The use count of a hash is the number of blocks that map to it, whatever
\* failed and was aborted: no content goes while a block still needs it
\* (put_block_int).
CountsExact == \A h \in Hashes : db.uses[h] = Cardinality(Users(db, h))

\* A block that maps to a hash finds the content that has this hash
\* (get_block_int never fails with "failed to retrieve block data").
MappedHasData ==
  \A b \in Blocks : LET h == db.hash[b]
                    IN  h # NoHash => db.data[h] # NoData /\ Hash[db.data[h]] = h

\* A transaction is open only while the thread that opened it is in
\* put_block_int: every error path ends it (ABORT_TRANSACTION).
TransactionOwned == open => \E t \in lock : InTransaction(t)

\* A step changes one block at most, a block of the request of the thread that
\* holds `lock', and to what it was with the bytes of the request put in -
\* unless the put had a trim beside it, which takes no lock of lg.
ExactChange ==
  [][\A b \in Blocks :
       Disk(b)' # Disk(b) =>
         \E t \in lock :
           /\ At(t) = b
           /\ t \notin raced => Disk(b)' = Merged(req[t], pos[t], Disk(b))]_vars

\* When a put returns without an error its bytes are in the database, of all
\* its blocks, unless a trim came in between.
PutIsStored ==
  [][\A t \in Threads :
       Commit(t) /\ ~Active(t)' /\ req[t].op = "put" /\ t \notin raced =>
         \A c \in Span(req[t]) : Disk(Block(c))'[c % BlockSize] = req[t].data]_vars
=============================================================================
