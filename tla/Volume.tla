------------------------------- MODULE Volume -------------------------------
(***************************************************************************)
(* src/storage_backend.cpp and src/lock_group.cpp: reads and writes of any  *)
(* range of bytes on top of whole blocks, by several threads, with a group  *)
(* of reader-writer locks in between and copies to mirrors afterwards;      *)
(* trim_zero as in src/storage_backend_file.cpp and                         *)
(* src/storage_backend_compressed_dir.cpp.                                  *)
(*                                                                          *)
(* One step is one lock, one block read or written, or one call of a        *)
(* mirror.  A request of no bytes does nothing and is left out.             *)
(***************************************************************************)
EXTENDS ByteRanges, FiniteSets

CONSTANTS Threads,    \* the threads that call
          NumLocks,   \* locks.size() of the lock group
          NumMirrors, \* mirrors.size()
          Values,     \* what a byte can be
          Zero,       \* a trimmed or zeroed byte
          Requests,   \* what the threads may ask for
          Backend,    \* "file" or "compressed-dir"
          Faults      \* which accesses may fail

Locks == 0 .. NumLocks - 1

AllRequests ==
  {r \in [op : {"get", "put", "trim"}, offset : Bytes, size : 1 .. Size, data : Values] :
     /\ r.offset + r.size <= Size
     /\ r.op # "put" => r.data = Zero}

ASSUME NumLocksAssumption == NumLocks \in Nat \ {0}
ASSUME NumMirrorsAssumption == NumMirrors \in Nat
ASSUME VolumeZeroAssumption == Zero \in Values
ASSUME RequestsAssumption == Requests \subseteq AllRequests
ASSUME BackendAssumption == Backend \in {"file", "compressed-dir"}
ASSUME VolumeFaultsAssumption == Faults \subseteq {"get_block", "put_block", "trim", "mirror"}

NoRequest == [op |-> "none", offset |-> 0, size |-> 1, data |-> Zero]

VARIABLES
  store,   \* the bytes of this backend
  mirror,  \* mirror[k]: the bytes of mirror k
  holds,   \* holds[t]: the locks of the group that thread t holds
  pc, req, \* where a thread is in its request, and the request
  pos,     \* work_offset
  copy,    \* what the thread has read: `temp' of put_data, `out' of get_data
  next,    \* the number of mirrors that are done
  err,     \* *err
  clean    \* history: nothing failed, no byte was changed by two at once

tvars == <<pc, req, pos, copy, next, err>>
vars == <<store, mirror, holds, tvars, clean>>

-----------------------------------------------------------------------------
\* slip: a lock for every block
NrsToLocks_NoModulo(r) == Locked(r)
NrsToLocks(r) == {b % NumLocks : b \in Locked(r)}

\* every block that the request touches is locked: so if it starts on a block
\* boundary; an unaligned one that ends early in its last block leaves that
\* block out
Covered(r) == Touched(r) \subseteq Locked(r)

Active(t) == pc[t] # "idle"
Changes(r) == r.op # "get"

\* slip: put_data takes the locks shared
Exclusive_PutShared(r) == r.op = "trim"
Exclusive(r) == Changes(r)

\* the part of the request in the block that work_offset is in
ChunkEnd(t) == PartEnd(req[t], pos[t])
Chunk(t) == Part(req[t], pos[t])
WholeBlock(t) == Chunk(t) = BlockBytes(Block(pos[t]))

-----------------------------------------------------------------------------
Init ==
  /\ store = [c \in Bytes |-> Zero]
  /\ mirror = [k \in 1 .. NumMirrors |-> store]
  /\ holds = [t \in Threads |-> {}]
  /\ pc = [t \in Threads |-> "idle"]
  /\ req = [t \in Threads |-> NoRequest]
  /\ pos = [t \in Threads |-> 0]
  /\ copy = [t \in Threads |-> [c \in Bytes |-> Zero]]
  /\ next = [t \in Threads |-> 0]
  /\ err = [t \in Threads |-> FALSE]
  /\ clean = TRUE

\* another thread is changing some of the bytes that r changes
Collides(r) ==
  \E u \in Threads : /\ Active(u) /\ Changes(r) /\ Changes(req[u])
                     /\ Span(r) \cap Span(req[u]) # {}

\* the file backend's trim_zero takes no lock
LocksFor(r) == Backend = "compressed-dir" \/ r.op # "trim"

Begin(t) ==
  \E r \in Requests :
    /\ ~Active(t)
    /\ pc' = [pc EXCEPT ![t] = IF LocksFor(r) THEN "lock" ELSE "fallocate"]
    /\ req' = [req EXCEPT ![t] = r]
    /\ pos' = [pos EXCEPT ![t] = r.offset]
    /\ clean' = (clean /\ ~Collides(r))
    /\ UNCHANGED <<store, mirror, holds, copy, next, err>>

\* slip: the locks are taken in the order of the blocks
NextLock_BlockOrder(t) ==
  Min({b \in Locked(req[t]) : b % NumLocks \notin holds[t]}) % NumLocks

\* lock_shared, lock_private: a std::set is traversed from low to high
NextLock(t) == Min(NrsToLocks(req[t]) \ holds[t])

Available(t, l) ==
  \A u \in Threads \ {t} :
    l \in holds[u] => ~Exclusive(req[t]) /\ ~Exclusive(req[u])

Lock(t) ==
  /\ pc[t] = "lock"
  /\ Available(t, NextLock(t))
  /\ holds' = [holds EXCEPT ![t] = @ \cup {NextLock(t)}]
  /\ pc' = [pc EXCEPT ![t] = IF holds'[t] = NrsToLocks(req[t]) THEN "work" ELSE "lock"]
  /\ UNCHANGED <<store, mirror, req, pos, copy, next, err, clean>>

\* the call returns
Return(t) ==
  /\ pc' = [pc EXCEPT ![t] = "idle"]
  /\ req' = [req EXCEPT ![t] = NoRequest]
  /\ pos' = [pos EXCEPT ![t] = 0]
  /\ copy' = [copy EXCEPT ![t] = [c \in Bytes |-> Zero]]
  /\ next' = [next EXCEPT ![t] = 0]
  /\ err' = [err EXCEPT ![t] = FALSE]

\* the loop of get_data, put_data and trim_zero goes to its next block
Advance(t) ==
  /\ pos' = [pos EXCEPT ![t] = ChunkEnd(t)]
  /\ pc' = [pc EXCEPT ![t] = IF ChunkEnd(t) = End(req[t]) THEN "unlock" ELSE "work"]

Break(t) ==
  /\ err' = [err EXCEPT ![t] = TRUE]
  /\ pc' = [pc EXCEPT ![t] = "unlock"]
  /\ clean' = FALSE
  /\ UNCHANGED <<store, mirror, holds, req, pos, copy, next>>

\* get_data: a block, or several at once (get_multiple_blocks)
GetBlock(t) ==
  /\ pc[t] = "work" /\ req[t].op = "get"
  /\ copy' = [copy EXCEPT ![t] =
                [c \in Bytes |-> IF c \in Chunk(t) THEN store[c] ELSE copy[t][c]]]
  /\ Advance(t)
  /\ UNCHANGED <<store, mirror, holds, req, next, err, clean>>

\* put_data, trim_zero: a block that is changed in part is read first
ReadModify(t) ==
  /\ pc[t] = "work" /\ Changes(req[t]) /\ ~WholeBlock(t)
  /\ copy' = [copy EXCEPT ![t] = store]
  /\ pc' = [pc EXCEPT ![t] = "modified"]
  /\ UNCHANGED <<store, mirror, holds, req, pos, next, err, clean>>

GetBlockError(t) ==
  /\ "get_block" \in Faults
  /\ pc[t] = "work" /\ (req[t].op = "get" \/ ~WholeBlock(t))
  /\ Break(t)

\* put_block of the whole block (or the removal of its file)
PutBlock(t) ==
  /\ \/ pc[t] = "work" /\ Changes(req[t]) /\ WholeBlock(t)
     \/ pc[t] = "modified"
  /\ store' = [c \in Bytes |->
                 IF c \in Chunk(t) THEN req[t].data
                 ELSE IF c \in BlockBytes(Block(pos[t])) THEN copy[t][c]
                 ELSE store[c]]
  /\ Advance(t)
  /\ UNCHANGED <<mirror, holds, req, copy, next, err, clean>>

PutBlockError(t) ==
  /\ "put_block" \in Faults
  /\ \/ pc[t] = "work" /\ Changes(req[t]) /\ WholeBlock(t)
     \/ pc[t] = "modified"
  /\ Break(t)

\* slip: trims are not sent to the mirrors
Mirrored_PutsOnly(t) == req[t].op = "put" /\ ~err[t] /\ NumMirrors > 0

\* a put_data that failed is not sent to the mirrors, a trim_zero is
Mirrored(t) ==
  /\ Changes(req[t])
  /\ err[t] => req[t].op = "trim"
  /\ NumMirrors > 0

Unlock(t) ==
  /\ pc[t] = "unlock"
  /\ holds' = [holds EXCEPT ![t] = {}]
  /\ IF Mirrored(t)
       THEN /\ pc' = [pc EXCEPT ![t] = "mirror"]
            /\ UNCHANGED <<req, pos, copy, next, err>>
       ELSE Return(t)
  /\ UNCHANGED <<store, mirror, clean>>

\* storage_backend_file::trim_zero, one call of the kernel; the mirrors get it
\* in any case
Fallocate(t) ==
  /\ pc[t] = "fallocate"
  /\ \/ /\ store' = [c \in Bytes |-> IF c \in Span(req[t]) THEN Zero ELSE store[c]]
        /\ UNCHANGED clean
     \/ /\ "trim" \in Faults
        /\ clean' = FALSE
        /\ UNCHANGED store
  /\ IF NumMirrors > 0
       THEN /\ pc' = [pc EXCEPT ![t] = "mirror"]
            /\ UNCHANGED <<req, pos, copy, next, err>>
       ELSE Return(t)
  /\ UNCHANGED <<mirror, holds>>

\* do_mirror, do_mirror_trim_zero: the locks are not held any more
Sent(t) ==
  [c \in Bytes |-> IF c \in Span(req[t]) THEN req[t].data ELSE mirror[next[t] + 1][c]]

\* slip: it returns after the first mirror
NextMirror_FirstOnly(t) == Return(t)

\* one mirror after the other, also when one fails
NextMirror(t) ==
  IF next[t] + 1 = NumMirrors
    THEN Return(t)
    ELSE /\ next' = [next EXCEPT ![t] = @ + 1]
         /\ UNCHANGED <<pc, req, pos, copy, err>>

Mirror(t) ==
  /\ pc[t] = "mirror"
  /\ mirror' = [mirror EXCEPT ![next[t] + 1] = Sent(t)]
  /\ NextMirror(t)
  /\ UNCHANGED <<store, holds, clean>>

MirrorError(t) ==
  /\ pc[t] = "mirror" /\ "mirror" \in Faults
  /\ clean' = FALSE
  /\ NextMirror(t)
  /\ UNCHANGED <<store, mirror, holds>>

Step(t) ==
  \/ Lock(t)
  \/ GetBlock(t) \/ GetBlockError(t)
  \/ ReadModify(t) \/ PutBlock(t) \/ PutBlockError(t)
  \/ Unlock(t) \/ Fallocate(t) \/ Mirror(t) \/ MirrorError(t)

Next == \E t \in Threads : Begin(t) \/ Step(t)

Spec == Init /\ [][Next]_vars

-----------------------------------------------------------------------------
\* Every variable has a value the code's types allow.
TypeOK ==
  /\ store \in [Bytes -> Values]
  /\ mirror \in [1 .. NumMirrors -> [Bytes -> Values]]
  /\ holds \in [Threads -> SUBSET Locks]
  /\ pc \in [Threads -> {"idle", "lock", "work", "modified", "unlock", "fallocate", "mirror"}]
  /\ req \in [Threads -> Requests \cup {NoRequest}]
  /\ pos \in [Threads -> 0 .. Size]
  /\ copy \in [Threads -> [Bytes -> Values]]
  /\ next \in [Threads -> 0 .. NumMirrors]
  /\ err \in [Threads -> BOOLEAN] /\ clean \in BOOLEAN

\* The threads never wait for each other in a circle, or a thread for itself:
\* two blocks may share a lock, and the locks are taken in one order
\* (nrs_to_locks).
NoCircularWait ==
  (\E t \in Threads : Active(t)) => \E t \in Threads : ENABLED Step(t)

\* A step changes no byte outside the request it serves: the read, modify and
\* write of a block in put_data and trim_zero does not undo what other threads
\* write to other bytes of that block.
Serves(t, c) == Active(t) /\ Changes(req[t]) /\ c \in Span(req[t])
OnlyRequestedBytesChange ==
  [][\A c \in Bytes : store'[c] # store[c] =>
        \E t \in Threads : Serves(t, c) /\ store'[c] = req[t].data]_vars

\* While get_data is under way the bytes it has read do not change: what it
\* returns is the content of the volume at one moment, in all its blocks.
ReadsOneMoment ==
  \A t \in Threads : req[t].op = "get" /\ pc[t] \in {"work", "unlock"} =>
     \A c \in req[t].offset .. pos[t] - 1 : copy[t][c] = store[c]

\* When nothing is under way, nothing has failed and no two threads changed the
\* same byte at the same time, every mirror has the content of this backend.
MirrorsAgree ==
  clean /\ (\A t \in Threads : ~Active(t)) =>
     \A k \in 1 .. NumMirrors : mirror[k] = store
=============================================================================
