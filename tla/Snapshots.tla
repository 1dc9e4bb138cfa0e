----------------------------- MODULE Snapshots -----------------------------
(***************************************************************************)
(* src/snapshots.cpp: copies of a volume, each made by a thread of its own  *)
(* that goes through the blocks one by one, while writers have every block  *)
(* that they are about to change copied first.                              *)
(*                                                                          *)
(* A block is copied in two steps: get_set_block_state marks it and reads   *)
(* the source (with the locks of Volume held), then writes what it read to  *)
(* the file, with the mutex of the snapshot held from the one to the other. *)
(* The other steps are one write of the volume, or one of the life of a     *)
(* snapshot.                                                                *)
(***************************************************************************)
EXTENDS ByteRanges

CONSTANTS Writers,      \* the threads that call put_data and trim_zero
          MaxSnapshots, \* bound: how often a snapshot is triggered
          MaxRequests,  \* bound: how many requests there are
          Values, Zero, \* what a byte can be; a trimmed byte
          Requests,     \* what the writers may ask for
          SparseFiles,  \* sparse_files: blocks of zeros are not written
          BadCopies,    \* <<s, b>>: block b may fail to be copied to snapshot s
          PutFails      \* whether put_data of the volume may fail

AllRequests ==
  {r \in [op : {"put", "trim"}, offset : Bytes, size : 1 .. Size, data : Values] :
     /\ r.offset + r.size <= Size
     /\ r.op = "trim" => r.data = Zero}

ASSUME MaxSnapshotsAssumption == MaxSnapshots \in Nat
ASSUME MaxRequestsAssumption == MaxRequests \in Nat
ASSUME SnapshotsZeroAssumption == Zero \in Values
ASSUME SnapshotsRequestsAssumption == Requests \subseteq AllRequests
ASSUME SnapshotsSparseAssumption == SparseFiles \in BOOLEAN
ASSUME BadCopiesAssumption == BadCopies \subseteq (1 .. MaxSnapshots) \X (0 .. NumBlocks - 1)
ASSUME PutFailsAssumption == PutFails \in BOOLEAN

\* a writer looks at the blocks of every block_size-th byte: an unaligned range
\* that ends early in its last block leaves that one uncopied, as it leaves it
\* unlocked in Volume
ASSUME CoveredAssumption == \A r \in Requests : Touched(r) \subseteq Locked(r)

Blocks == 0 .. NumBlocks - 1
Ids == 1 .. MaxSnapshots  \* snapshots, in the order in which they are made
Outcomes == {"copied", "read", "failed"}  \* of a step of copy_block
NoRequest == [op |-> "none", offset |-> 0, size |-> 1, data |-> Zero]

VARIABLES
  store,      \* the bytes of sb
  made,       \* the number of snapshots constructed
  listed,     \* running_snapshots is the sequence 1 .. listed
  life,       \* "none", "copying", "writing" (has read a block), "closing"
              \* (out of its loop), "finished"
  fd,         \* fd[s]: the number of the file descriptor of s
  file,       \* file[s]: the bytes of the file of s
  bitmap,     \* bitmap[s]: the blocks that are marked as copied
  working,    \* working[s]: block_working_on
  buffer,     \* buffer[s]: what was read of the block that is under way to s
  stopped,    \* the snapshots of which stop_flag is set
  pc, req,    \* "idle", "trigger" (in trigger_range), "writing" (has read a
              \* block there); the request of a writer
  end, at,    \* running_snapshots.end() when it began; the snapshot it is at
  pos,        \* the offset it is at
  ok,         \* no copy failed for it
  begun,      \* the number of requests so far
  image,      \* history: the values a byte of snapshot s may have
  lost,       \* history: the blocks that are marked, but not in the file of s
  stray       \* history: the blocks that were under way from another snapshot
              \* to the descriptor number of s when s was given it

wvars == <<pc, req, end, at, pos, ok, begun>>
copies == <<file, bitmap, buffer, lost>>
svars == <<made, listed, life, fd, copies, working, stopped, stray>>
vars == <<store, svars, wvars, image>>

-----------------------------------------------------------------------------
IsOpen(s) == life[s] \in {"copying", "writing", "closing"}

\* what a write to descriptor number n reaches: a snapshot writes to its number
\* also after it has closed it, when a later one may have been given it
Reached(n) == {u \in 1 .. made : IsOpen(u) /\ fd[u] = n}

\* the kernel gives the lowest number that is free
FreeNumber == Min(Ids \ {fd[s] : s \in {u \in 1 .. made : IsOpen(u)}})

\* the blocks of s that are read and not yet written
UnderWay(s) ==
  {b \in Blocks : \/ life[s] = "writing" /\ b = working[s]
                  \/ \E w \in Writers : pc[w] = "writing" /\ at[w] = s /\ b = Block(pos[w])}

\* slip: the mutex is not held while a block is copied
MutexFree_Always(s) == TRUE
MutexFree(s) == UnderWay(s) = {}

IsSkipped(b) == SparseFiles /\ \A c \in BlockBytes(b) : store[c] = Zero

\* get_set_block_state, and copy_block up to the read: a block is marked before
\* it is copied, and stays marked when the copy fails
GetSetBlockState(s, b, outcome) ==
  /\ MutexFree(s)
  /\ UNCHANGED file
  /\ IF b \in bitmap[s]
     THEN outcome = "copied" /\ UNCHANGED <<bitmap, buffer, lost>>
     ELSE /\ bitmap' = [bitmap EXCEPT ![s] = @ \cup {b}]
          /\ \/ /\ outcome = "failed" /\ <<s, b>> \in BadCopies
                /\ lost' = [lost EXCEPT ![s] = @ \cup {b}]
                /\ UNCHANGED buffer
             \/ /\ outcome = "copied" /\ IsSkipped(b)
                /\ UNCHANGED <<buffer, lost>>
             \/ /\ outcome = "read" /\ ~IsSkipped(b)
                /\ buffer' = [buffer EXCEPT ![s] =
                     [c \in Bytes |-> IF c \in BlockBytes(b) THEN store[c] ELSE Zero]]
                /\ UNCHANGED lost

\* the rest of copy_block: PWRITE of what was read, to whoever has the number now
CopyBlock(s, b, outcome) ==
  /\ buffer' = [buffer EXCEPT ![s] = [c \in Bytes |-> Zero]]
  /\ UNCHANGED bitmap
  /\ \/ /\ outcome = "failed"
        /\ <<s, b>> \in BadCopies \/ Reached(fd[s]) = {}
        /\ lost' = [lost EXCEPT ![s] = @ \cup {b}]
        /\ UNCHANGED file
     \/ /\ outcome = "copied" /\ Reached(fd[s]) # {}
        /\ file' = [u \in Ids |->
             IF u \in Reached(fd[s])
             THEN [c \in Bytes |-> IF c \in BlockBytes(b) THEN buffer[s][c] ELSE file[u][c]]
             ELSE file[u]]
        /\ lost' = IF IsOpen(s) THEN lost ELSE [lost EXCEPT ![s] = @ \cup {b}]

-----------------------------------------------------------------------------
Init ==
  /\ store \in [Bytes -> Values]
  /\ made = 0 /\ listed = 0
  /\ life = [s \in Ids |-> "none"]
  /\ fd = [s \in Ids |-> 1]
  /\ file = [s \in Ids |-> [c \in Bytes |-> Zero]]
  /\ bitmap = [s \in Ids |-> {}]
  /\ working = [s \in Ids |-> 0]
  /\ buffer = [s \in Ids |-> [c \in Bytes |-> Zero]]
  /\ stopped = {}
  /\ pc = [w \in Writers |-> "idle"]
  /\ req = [w \in Writers |-> NoRequest]
  /\ end = [w \in Writers |-> 0]
  /\ at = [w \in Writers |-> 1]
  /\ pos = [w \in Writers |-> 0]
  /\ ok = [w \in Writers |-> TRUE]
  /\ begun = 0
  /\ image = [s \in Ids |-> [c \in Bytes |-> {}]]
  /\ lost = [s \in Ids |-> {}]
  /\ stray = [s \in Ids |-> {}]

\* trigger_snapshot: the constructor opens the file and starts the copying
\* thread, push_back makes it known to the writers. One thread triggers.
Construct ==
  /\ made = listed /\ made < MaxSnapshots /\ stopped = {}
  /\ made' = made + 1
  /\ life' = [life EXCEPT ![made + 1] = "copying"]
  /\ fd' = [fd EXCEPT ![made + 1] = FreeNumber]
  /\ image' = [image EXCEPT ![made + 1] = [c \in Bytes |-> {store[c]}]]
  /\ stray' = [stray EXCEPT ![made + 1] =
                 UNION {UnderWay(s) : s \in {u \in 1 .. made : fd[u] = FreeNumber}}]
  /\ UNCHANGED <<store, listed, copies, working, stopped, wvars>>

PushBack ==
  /\ listed < made
  /\ listed' = made
  /\ UNCHANGED <<store, made, life, fd, copies, working, stopped, stray, wvars, image>>

\* snapshot_state::operator(): how its loop goes on after a step of a copy
Copying(s, outcome) ==
  /\ working' = IF outcome = "copied" THEN [working EXCEPT ![s] = @ + 1] ELSE working
  /\ life' = [life EXCEPT ![s] = CASE outcome = "copied" -> "copying"
                                   [] outcome = "read" -> "writing"
                                   [] outcome = "failed" -> "closing"]
  /\ UNCHANGED <<store, made, listed, fd, stopped, stray, wvars, image>>

CopyNext(s) ==
  \E outcome \in Outcomes :
    /\ life[s] = "copying" /\ s \notin stopped /\ working[s] < NumBlocks
    /\ GetSetBlockState(s, working[s], outcome)
    /\ Copying(s, outcome)

CopyWrite(s) ==
  \E outcome \in Outcomes :
    /\ life[s] = "writing"
    /\ CopyBlock(s, working[s], outcome)
    /\ Copying(s, outcome)

\* slip: the copying ends one block early
AllDone_OffByOne(s) == working[s] >= NumBlocks - 1
AllDone(s) == working[s] = NumBlocks

\* fsync, close, copy_finished
Close(s) ==
  /\ \/ life[s] = "closing"
     \/ life[s] = "copying" /\ (s \in stopped \/ AllDone(s))
  /\ life' = [life EXCEPT ![s] = "finished"]
  /\ UNCHANGED <<store, made, listed, fd, copies, working, stopped, stray, wvars, image>>

-----------------------------------------------------------------------------
\* slip: a snapshot is known as soon as it is constructed
ListEnd_Made == made
ListEnd == listed

\* put_data, trim_zero: `for(auto ss : running_snapshots)' looks up its end once
Begin(w) ==
  \E r \in Requests :
    /\ pc[w] = "idle" /\ stopped = {} /\ begun < MaxRequests
    /\ begun' = begun + 1
    /\ pc' = [pc EXCEPT ![w] = "trigger"]
    /\ req' = [req EXCEPT ![w] = r]
    /\ end' = [end EXCEPT ![w] = ListEnd]
    /\ at' = [at EXCEPT ![w] = 1]
    /\ pos' = [pos EXCEPT ![w] = r.offset]
    /\ ok' = [ok EXCEPT ![w] = TRUE]
    /\ UNCHANGED <<store, svars, image>>

\* slip: the step is twice the block size
NextOffset_Double(w) == pos[w] + 2 * BlockSize
NextOffset(w) == pos[w] + BlockSize

\* trigger_range: how it goes on after a step of a copy. The loop over the blocks
\* of one snapshot ends at a failure.
Triggering(w, outcome) ==
  /\ pc' = [pc EXCEPT ![w] = IF outcome = "read" THEN "writing" ELSE "trigger"]
  /\ ok' = [ok EXCEPT ![w] = @ /\ outcome # "failed"]
  /\ \/ outcome = "read" /\ UNCHANGED <<pos, at>>
     \/ /\ outcome = "copied" /\ NextOffset(w) < End(req[w])
        /\ pos' = [pos EXCEPT ![w] = NextOffset(w)]
        /\ UNCHANGED at
     \/ /\ outcome = "failed" \/ (outcome = "copied" /\ NextOffset(w) >= End(req[w]))
        /\ pos' = [pos EXCEPT ![w] = req[w].offset]
        /\ at' = [at EXCEPT ![w] = @ + 1]
  /\ UNCHANGED <<store, made, listed, life, fd, working, stopped, stray, req, end, begun, image>>

Trigger(w) ==
  \E outcome \in Outcomes :
    /\ pc[w] = "trigger" /\ at[w] <= end[w]
    /\ GetSetBlockState(at[w], Block(pos[w]), outcome)
    /\ Triggering(w, outcome)

TriggerWrite(w) ==
  \E outcome \in Outcomes :
    /\ pc[w] = "writing"
    /\ CopyBlock(at[w], Block(pos[w]), outcome)
    /\ Triggering(w, outcome)

Triggered(w) == pc[w] = "trigger" /\ at[w] > end[w]

Done(w) ==
  /\ pc' = [pc EXCEPT ![w] = "idle"]
  /\ req' = [req EXCEPT ![w] = NoRequest]
  /\ end' = [end EXCEPT ![w] = 0]
  /\ at' = [at EXCEPT ![w] = 1]
  /\ pos' = [pos EXCEPT ![w] = 0]
  /\ ok' = [ok EXCEPT ![w] = TRUE]
  /\ UNCHANGED begun

\* sb->put_data or sb->trim_zero: of the blocks below k only, when it fails.
\* The write may show up in the snapshots that w did not know of.
Put(w) ==
  \E k \in Blocks \cup {NumBlocks} :
    /\ Triggered(w) /\ ok[w]
    /\ k < NumBlocks => PutFails
    /\ store' = [c \in Bytes |->
                   IF c \in Span(req[w]) /\ Block(c) < k THEN req[w].data ELSE store[c]]
    /\ image' = [s \in Ids |-> [c \in Bytes |->
                   IF end[w] < s /\ s <= made THEN image[s][c] \cup {store'[c]} ELSE image[s][c]]]
    /\ Done(w)
    /\ UNCHANGED svars

\* EIO
Refuse(w) ==
  /\ Triggered(w) /\ ~ok[w]
  /\ Done(w)
  /\ UNCHANGED <<store, svars, image>>

\* ~snapshots, when the servers are gone: each snapshot is stopped and joined
Delete(s) ==
  /\ s \in 1 .. listed /\ made = listed
  /\ \A w \in Writers : pc[w] = "idle"
  /\ stopped = 1 .. s - 1
  /\ \A u \in stopped : life[u] = "finished"
  /\ stopped' = stopped \cup {s}
  /\ UNCHANGED <<store, made, listed, life, fd, copies, working, stray, wvars, image>>

Next ==
  \/ Construct \/ PushBack
  \/ \E s \in Ids : CopyNext(s) \/ CopyWrite(s) \/ Close(s) \/ Delete(s)
  \/ \E w \in Writers : Begin(w) \/ Trigger(w) \/ TriggerWrite(w) \/ Put(w) \/ Refuse(w)

Spec == Init /\ [][Next]_vars

-----------------------------------------------------------------------------
\* Every variable has its type; a writer is at most one past the end of the
\* list that it looks at, and the list is never ahead of what was constructed.
TypeOK ==
  /\ store \in [Bytes -> Values]
  /\ made \in 0 .. MaxSnapshots /\ listed \in 0 .. made
  /\ life \in [Ids -> {"none", "copying", "writing", "closing", "finished"}]
  /\ fd \in [Ids -> Ids]
  /\ file \in [Ids -> [Bytes -> Values]]
  /\ bitmap \in [Ids -> SUBSET Blocks]
  /\ working \in [Ids -> 0 .. NumBlocks]
  /\ buffer \in [Ids -> [Bytes -> Values]]
  /\ stopped \subseteq 1 .. listed
  /\ pc \in [Writers -> {"idle", "trigger", "writing"}]
  /\ req \in [Writers -> Requests \cup {NoRequest}]
  /\ end \in [Writers -> 0 .. listed]
  /\ at \in [Writers -> 1 .. MaxSnapshots + 1]
  /\ \A w \in Writers : at[w] <= end[w] + 1
  /\ pos \in [Writers -> Bytes]
  /\ ok \in [Writers -> BOOLEAN]
  /\ begun \in 0 .. MaxRequests
  /\ image \in [Ids -> [Bytes -> SUBSET Values]]
  /\ lost \in [Ids -> SUBSET Blocks]
  /\ stray \in [Ids -> SUBSET Blocks]

\* the blocks that nobody copies for s any more, and those that it has
Settled(s) == bitmap[s] \ UnderWay(s)
Copied(s) == Settled(s) \ lost[s]

\* A snapshot is a picture of the moment it was triggered: each byte of a block
\* that it has copied is what the volume had when trigger_snapshot was called, or
\* what a request wrote that was already under way before it returned. This also
\* when copying fails, a snapshot gives up, or puts fail halfway (trigger_range
\* before sb->put_data). One case is excepted, in which the code does write
\* something else: copy_block has read a block for a snapshot that gave up and
\* closed its file, and before it writes the block, a new snapshot gets the same
\* descriptor number. The block, older than the new snapshot, goes to its file.
PictureOfItsMoment ==
  \A s \in 1 .. made : \A c \in Bytes :
    Block(c) \in Copied(s) \ stray[s] => file[s][c] \in image[s][c]

\* No byte of the volume changes in a block that is not marked, or is just being
\* copied by another thread, in a snapshot that was listed when the request began.
CopiedBeforeChanged ==
  [][\A c \in Bytes : store'[c] # store[c] =>
       \E w \in Writers :
         /\ pc[w] = "trigger" /\ pc'[w] = "idle"
         /\ \A s \in 1 .. end[w] : Block(c) \in Settled(s)]_vars

\* A snapshot that has finished has copied every block, unless a copy of one
\* failed or the object was destroyed before (operator(), get_set_block_state).
FinishedIsComplete ==
  \A s \in Ids :
    life[s] = "finished" /\ lost[s] = {} /\ s \notin stopped => Copied(s) = Blocks
=============================================================================
