# A formal model of MyStorage

MyStorage is a storage server: it exports block devices over NBD and ATA-over-Ethernet,
and builds them from layers of *storage backends* — a file, a directory of compressed
blocks, a remote device, deduplication, tiering, a journal, snapshots — that are stacked
by a YAML file. This directory holds TLA+ models of those layers, TLC configurations that
check them on small instances, and proofs, checked by TLAPS, of what holds for every size.

Run everything from this directory:

    tlc -workers 2 -config MCJournalCrash.cfg MCJournal.tla     # model checking
    tlapm JournalProofs.tla                                     # proofs

`PROJECT.json` lists the runs, maps every definition to the lines of source it models, and
lists the hazards of the code with the properties that watch over them.

## 1. The system

### 1.1 Components

| component | state it keeps | operations | talks to |
|---|---|---|---|
| `journal` | ring of slots on a storage backend, its meta data (read and write pointer, `full`, `cur_n`) in memory and stored, a cache by block number, `stop_flag`, `journal_commit_fatal_error` | constructor with replay, `get_block`, `put_block`, `trim_zero`, `transaction_end`, the flusher thread, `flush_journal`, destructor | a *data* backend and a *journal* backend; called by the servers' threads |
| `storage_backend` + `lock_group` | none of its own but a group of reader-writer locks and the list of mirrors | `get_data`, `put_data` on byte ranges, `fsync`, sending to mirrors | the backend's own `get_block`, `put_block`; the mirrors |
| `mirror_storage_backend` | none | `put_block`, `trim_zero`, `sync` | the backend behind the mirror |
| `storage_backend_file` | one file | block reads and writes, `fallocate` | kernel |
| `storage_backend_compressed_dir` | one file per block | block reads and writes, `trim_zero` that removes files | kernel, a compresser |
| `storage_backend_dedup` | key-value records: block → hash, hash → use count, hash → data | `get_block`, `put_block`, `trim_zero` in database transactions | Kyoto Cabinet, a hash |
| `storage_backend_tiering` | a table of descriptors (slow block number, age, dirty), stored on a third backend | `get_block`, `put_block`, `fsync`, `trim_zero` | a fast, a slow and a meta backend |
| `snapshots`, `snapshot_state` | list of running snapshots, for each a bitmap of copied blocks and a copying thread | all block operations with copy-on-write, `trigger_snapshot` | a backend, snapshot files |
| NBD server / client backend | connections; for the client one socket and a sequence number | option negotiation, READ, WRITE, FLUSH, TRIM; reconnect and retry | each other over TCP; a backend |
| AoE server / client backend | one packet socket; the client a tag | config, identify, read, write, flush, trim; resend after 500 ms | each other over Ethernet; a backend |
| `base`, `server` | who uses which object | `acquire`, `release`, `stop` | main |
| main, YAML | the list of objects | load, wait for a signal, delete | everything |
| compression, hashing, sockets, utilities | none that matters here | | |

### 1.2 How they interact

A server thread per connection (NBD) or per device (AoE) turns a request into
`put_data`, `get_data`, `trim_zero` or `fsync` of a backend. `storage_backend::put_data`
takes the locks of all blocks of the range, shared for reads and exclusive for writes,
works block by block (reading a block first that it changes in part), releases the locks,
and then sends the range to every mirror. Layers call the layers below with the same
functions. The only threads a backend has of its own are the journal's flusher and a
snapshot's copier; what they share with the callers is behind the journal's mutex `lock`
with two condition variables, and behind the lock group of the backend a snapshot is made
of. What survives a restart is what the file, directory and key-value backends hold; the
journal and the tiering backend put their own meta data on another backend.

### 1.3 What is hard, and what makes each part correct

* **journal** — Clients push while the flusher pops; pointers wrap; the ring gets full;
  every storage access may fail; the process may die between any two of them and starts
  again from the stored meta data. Correct: whatever happens, a read returns what was
  written last, nothing that was acknowledged is lost by a restart, a slot is never reused
  while the stored meta data needs it, waiting clients are woken, the ring drains.
* **ranges of bytes on blocks** — Two writers of different bytes of one block, readers of
  several blocks next to writers, locks shared by several blocks, mirrors that are written
  after the locks are gone. Correct: no lost update, a read of one moment, no circular
  wait, mirrors with the same content.
* **dedup** — A put changes up to four records and may fail at each. Correct: the use
  count of a hash is the number of blocks that map to it, a mapped hash has its data, the
  whole is an array of blocks; an aborted put changes nothing.
* **tiering** — A block is at two places, one of them newer; eviction moves it, descriptor
  and data are stored one after the other. Correct: a read returns the last write, also
  after a restart; no acknowledged put is lost by what other blocks do.
* **snapshots** — Writers next to the copier. Correct: the snapshot is the content of the
  backend at the moment it was made.
* **NBD, AoE** — Requests are sent again after a lost connection or a timeout, answers come
  late, two threads share a socket. Correct: a read returns the last acknowledged write; an
  answer belongs to the request; a command of the client is one the server answers.

## 2. Plan

Modules in the order in which they are written, the core of the data path first:

| # | module | models | state |
|---|---|---|---|
| 1 | `Journal`, `CrashSafeDevice` | the journal, and what it promises | done: checked, safety and refinement proved |
| 2 | `ByteRanges`, `Volume`, `VolumeAtomic`, `AtomicVolume` | ranges on blocks, lock group, mirrors, file and directory backend, and what they promise | done: checked, safety and refinement proved |
| 3 | `Dedup` | the deduplicating backend | done: checked, safety proved |
| 4 | `Tiering` | cache of slow blocks on a fast backend, accesses of three backends, crashes | done: checked, safety proved |
| 5 | `Snapshots` | copy-on-write next to writers and the copier threads, descriptors that are used again | done: checked, safety proved |
| 6 | `Nbd` | client backend with reconnect and retry, server with connections, another client, and a network that breaks | done: checked, safety proved |
| 7 | `Aoe` | client backend, targets, and a network that loses frames | done: checked, safety proved |

*Compositions.* `ByteRanges` is shared by `Volume`, `Dedup` and `Snapshots`; `Nbd` and `Aoe` are
compositions of a client, servers and a network. Not built: a journal with a partial trim
(`lgj`) beside a partial put (`lg`); a journal on a backend that reports a failed trim as done
(file); two threads on one connection of the NBD backend.

*Abstract specifications.* `CrashSafeDevice` (reads, writes, sync, restart) for the journal;
`AtomicVolume` (calls that each happen at one moment) for byte ranges on blocks. The
client and server pairs have no abstract device, since neither is one: a copy of an old write
may come late (section 7), and what is promised instead is stated by `CallsTakeEffect`,
`FlushCovers` and `SectorsAsWritten`.

*Theorems.* For each stateful module its type invariant, the safety invariants and the action
properties that the runs check, and the refinements of `CrashSafeDevice` by `Journal` and of
`AtomicVolume` by `Volume`. All are proved but `NoCircularWait`, of which the part without
`ENABLED` is (section 5).

## 3. The modules

Names are the source's names where they can be. Operators named `X_Something` after a
comment "slip" are variants of the operator `X` with a plausible programming error; no
specification uses them, they serve to show that a property notices.

### 3.1 Journal (`src/journal.cpp`)

`jm` and `meta` are the meta data in memory and in storage, `slots` and `data` the two
backends, `cache` the map by block number with its counter, `fatal` and `stop` the two flags
(`journal_commit_fatal_error`, `stop_flag`).

| step | code |
|---|---|
| `Begin`, `Check`, `Wait`, `SpuriousWake`, `Terminated`, `Push`, `PushIOError`, `TransactionEnd`, `TransactionEndIOError` | a client: `put_data` or `trim_zero`, one `push_action` per block. `journal_commit_fatal_error` and `stop_flag` are looked at before the mutex is taken (`Check`), room for the element after (`Wait`) |
| `FlusherChecks`, `FlusherSleeps`, `FlusherWakes`, `FlusherStopped` | the top of `operator()`: an empty ring, the wait on `cond_push`, the end |
| `FlusherTakes`, `FlusherApplies`, `FlusherCommits`, `FlusherClears` and their `...IOError` | one iteration: read a run of connecting elements, apply it, store the meta data, clear the slots, notify |
| `FlushJournal`, `Destroy`, `DestroyNotifies`, `Destroyed` | `flush_journal`, the destructor, and the constructor of the next instance |
| `Crash` | the process dies and starts again, at any moment |

The mutex `lock` is held for a whole push and a whole iteration, so a push is one step, and
the iteration is one step per storage access with `LockFree` false between them: every
interleaving that the code allows at its storage accesses is there, among them a death in
the middle. An iteration that `flush_interval` skips is stuttering. `meta_dirty` is a
Boolean. `may` is a history variable: what each block may contain after a restart.

A failure is a step of its own and is allowed if its name is in `Faults`: `slot` (the write
of a slot fails and changes nothing), `torn` (it leaves a bad CRC), `data`, `meta`, `clear`,
`fetch` (the flusher's read of a slot), `replay` (the constructor's), `crash`.

### 3.2 CrashSafeDevice

A block device with `Write`, `Sync` and `Restart`: after a restart a block has its value at
the last sync, or one that was written since. `Journal` refines it with `mem` the view that
`get_block` gives (cache over data) and `may` the history variable; `Sync` is the
`transaction_end` of any client, which stores the pointers for all.

### 3.3 ByteRanges and Volume (`src/storage_backend.cpp`, `lock_group.cpp`, mirrors, file, directory)

`ByteRanges` cuts a range into parts of blocks as the three loops of the code do, and says
which blocks `un_lock_block_group` looks at (`Locked`). In `Volume` a thread takes the locks
of its range one by one (`Lock`), works block by block (`GetBlock`, `ReadModify`,
`PutBlock`), releases them (`Unlock`), and calls the mirrors (`Mirror`). Each access of a
block or of a mirror is a step and may fail. `Backend` chooses the trim: that of the file
backend is one `fallocate` without a lock (`Fallocate`), that of the directory of compressed
blocks locks and treats partial blocks like `put_data`. A read of several blocks at once
(`can_do_multiple_blocks`) is the same as block by block, under the same locks. Requests of
no bytes are left out.

`AtomicVolume` is what callers see: an array of bytes, and calls that happen at one moment
between `Invoke` and `Return` (`Get`, `Put`, or `Fail`, which may leave a first part of the range
changed). `VolumeAtomic` adds one history variable to `Volume`: `mem` takes the bytes of a put
or trim from `store` when the loop of the call ends, its locks still held (`Settles`). That is
the moment at which the call happens; a read happens when its last block has been read. The refinement
takes `req` for the call and for the answer what the call will return once its loop has ended
(`Answers`): whether its blocks were all read or written, and the bytes read. An error of a
mirror comes after that moment and changes no byte of the volume; it belongs to `MirrorsAgree`
and not to the answer here. `Linearizable` also says that `mem` is what is stored when no call is in
its loop (`SettledIsStored`). Run `volume` checks it in place of `ReadsOneMoment` and
`OnlyRequestedBytesChange`, which say of single steps what it says of calls, and which are
proved (section 5).

### 3.4 Dedup (`src/storage_backend_dedup.cpp`)

`db` has the committed records as three functions (block to hash, hash to count, hash to
content), `tx` what an open transaction sees. The mutex `lock` is explicit. `put_block_int`
is `BeginTransaction`, `Release` (the old hash), `Claim` (the new one), `Map`, `Commit`, and
each may fail instead (`Abort`, `BeginTransactionError`, `CommitError`: after a failed commit
the records are the old or the new ones). `lg` is taken in one step in `Begin`, because
`Volume` has it lock by lock. `trim_zero` takes `lock` for all its blocks (`LockTrim`) and
nothing of `lg`. `raced` remembers the puts that had a trim of one of their blocks beside
them. Assumed: no two contents have the same hash; the database rolls back a
transaction that is open when the process dies (`Restart`). A count of 0 stands for no record.

### 3.5 Tiering (`src/storage_backend_tiering.cpp`)

`fast`, `slow` and `meta` are the three backends: a block of the fast storage per bin, the
blocks of the slow one, and the descriptors of the bins. `d` is the copy of the descriptors of
its bin that a call of `get_block` or `put_block` works on.

| step | code |
|---|---|
| `Begin` | a request that reads a block (`get`), puts a whole one (`put`) or a part of one (`part`: `get_block`, then `put_block`), under the lock of the block in `lg` |
| `Lock`, `LockError` | the lock of the bin in `lgt`, and the descriptors from the meta storage |
| `Evict`, `EvictError` | a dirty block that is in the way goes to the slow storage; after a failure of its read or its write `dirty` is reset all the same |
| `GetFast`, `GetSlow`, `PutFast`, `AccessError` | the content, and what becomes of the descriptor |
| `Store`, `StoreError` | the descriptors go to the meta storage; the call ends (`Finish`) |
| `Crash` | the process dies and starts again |

`may[b]` is a history variable: what `b` may contain, going by the requests and what they
reported. A put adds its result when it begins and removes everything else when it succeeds
(`Acknowledge`). The code loses acknowledged content in three cases, each of which is one step
of the model that says so (`Lose`) and puts the block in `lost`:

* a call that replaces the dirty block of its bin reports a failure (`Finish`); the block that
  is lost (`AtRisk`) is not the one that the call was for;
* the process dies between the two stores of a put that replaces the dirty block of its bin
  (`Crash`; until the second store the block is in `BeingReplaced`);
* put `b`, evict `b`, get `b`, put a part of `b`: the get misses and makes a descriptor without
  filling the fast block, so that the partial put reads what the fast block has of another block
  (`stale`) and writes that back as the rest of `b` (`PutFast`). Nothing fails and nothing dies.

A block leaves `lost` when a put of all of it is acknowledged. `NothingLost` is about all other
blocks, and about every step that is not one of the three. Two things of the code are not in the
model because nothing depends on them: the age, since `oldest` stays at `UINT64_MAX` and the last
descriptor is always the one that is replaced; and the hash of a block number, which is a
bijection on 64 bits and is taken not to be 0, the hash in an empty descriptor. Two bins that
share a lock of `lgt` exclude each other in the code and not in the model, which has more
interleavings. A failed access changes nothing.

### 3.6 Snapshots (`src/snapshots.cpp`)

`store` is the volume, `made` and `listed` count the snapshots that were constructed and that
are in `running_snapshots`; `life`, `fd`, `file`, `bitmap`, `buffer` and `working` are those of one
`snapshot_state` each. A writer is in `trigger_range` at a snapshot (`at`) and an offset
(`pos`), with the end of the list as it was when it began (`end`).

| step | code |
|---|---|
| `Construct`, `PushBack` | `trigger_snapshot`: the constructor opens the file, which gets the lowest free number (`FreeNumber`), and starts the thread; `push_back` |
| `CopyNext`, `CopyWrite`, `Close` | the thread: one call of `get_set_block_state` per block; the end of the loop, after the last block, a failure or `stop_flag` |
| `Begin`, `Trigger`, `TriggerWrite`, `Put`, `Refuse` | `put_data`, `put_block` or `trim_zero`: one `get_set_block_state` for each snapshot and block of the range, then the call of the volume, or EIO when a copy failed |
| `Delete` | the destructors |

A copy is two steps, with the mutex of the snapshot (`MutexFree`) held in between.
`GetSetBlockState` marks the block and reads the volume into `buffer`, skips a block of zeros in
a sparse file, or fails; `CopyBlock` is the write to the descriptor number, which may fail. What
the copying thread (`Copying`) and a writer (`Triggering`) do after either is one operator each.
A snapshot that is out of its loop has closed its descriptor and its writers still write to that
number (`Reached`): nothing, or the file of a later snapshot that was given it, and that also when
they had read the block before the later snapshot was made. `image` is a history variable: what a
byte of a snapshot may be, which is what the volume had at `Construct` and what requests put that
did not know of the snapshot. `lost` has the blocks that are marked and not in the file. `stray`
has the blocks of a snapshot that were read, for one that had given up, before it was made, and
not yet written to the number it was given: what is written to its file then is older than the
snapshot, and `PictureOfItsMoment` excepts these blocks and no others. A block that was read
after the new snapshot was made is not excepted; its content is right for the new one too.

### 3.7 Nbd (`src/storage_backend_nbd.cpp`, `src/server_nbd.cpp`)

Processes: the backend (one thread), a server thread for each connection (`handle_client`),
guests (other NBD clients), and the connections, a queue of messages in each direction.

| step | code |
|---|---|
| `ReceiveFlags`, `ReceiveOption`, `ReceiveCommand`, `SyncFua`, `ReceiveFails` | `handle_client` in its states; a command is executed and answered, or fails; `NBD_CMD_FLAG_FUA` is synced after the answer |
| `Connect`, `ReceiveHello`, `ReceiveExport`, `HandshakeFails` | `reconnect`, whose result nobody looks at |
| `Call`, `Send`, `ReceiveHeader`, `ReceiveData`, `AnswerFails` | `get_multiple_blocks`, `put_block`, `fsync`, `trim_zero` with the loop that connects again and sends again |
| `GuestNegotiates`, `GuestSends`, `GuestReceives`, `GuestLeaves` | external: what a client by the protocol does, with FUA and with options the server refuses |
| `Break`, `Die` | a connection of the backend loses what was under way from some point on; the server dies and is there again |

`Connect` closes the previous connection, as `socket_client_ipv4::connect` does, and gives a new
one, or one that was refused and is not connected (the error is read once, and is 0 when it is
read again). A server thread still handles what it had received on a connection that was closed.
WRITE is `write()`, and `main` does not ignore SIGPIPE: a write to a connection that is gone
succeeds (the kernel takes it), fails, or ends the process: the backend's (`pc` is "dead") or the
server's with all its connections (`Killed`, in `Answered`).

`server_nbd.cpp` answers `NBD_OPT_EXPORT_NAME` by an option reply of 20 bytes; the protocol has,
and the backend expects, 10 bytes. With `StandardReply` each connection may have either answer
(`Acknowledgements`), so that the run and the theorems are about the repository's server as well
as about one by the protocol. With the former the backend takes the rest of the reply for the start
of an answer (`rest`), gives the connection up, and makes another: no call ever returns.

`Progress` says what is left of "calls return": a guest that waits is answered or sees its
connection end, and the backend's call returns, or its process ends, or it has made all the
connections that the bound allows (`Exhausted`). It may not be stuck anywhere else.

`written`, `synced`, `acked`, `promised`, `before` and `seen` are history variables.

### 3.8 Aoe (`src/storage_backend_aoe.cpp`, `src/server_aoe.cpp`)

| step | code |
|---|---|
| `Discover`, `Discovered`, `Identify`, `Identified`, `ConnectFails` | `connect`, which the constructor calls once |
| `Call`, `Send`, `Ignore`, `Receive`, `TimeOut`, `Fails` | a call, one request per sector, and `do_ata_command`: frames that are no answer are dropped, after 500 ms without a frame the request is sent again |
| `Serve`, `Announce` | `worker_thread` of the target, the announcer |
| `ServeOther` | other targets: their answers come at any time, what they store is not followed |

A frame may be lost when it is sent (`Broadcast`, `Answer`), which is also what happens to one
that another thread of the client takes. `possible` is a history variable: what a sector may be
after the writes that were answered and with those that were not. The number of a block is used
as that of its first sector, as the code does (`SectorsOf`).

## 4. The runs

| run | bounds | states | what it shows |
|---|---|---|---|
| `journal_crash` | 2 clients, 2 blocks, 2 slots, 2 contents; crash, torn writes | 1.4 million | two pushers and the flusher with a full and a wrapped ring, in every interleaving: the journal implements `CrashSafeDevice`; the cache is always the newest of the ring; a slot is not reused while it is needed |
| `journal_faults` | 1 client, 2 blocks, 2 slots; every access may fail; `flush_journal`, destructor | 1.6 million | the ring stays consistent, the stored window readable, `CrashSafe` holds with failures, `flush_journal` leaves an empty ring and all data behind; no wait without somebody to end it but the two of `NoWakeupLost` |
| `journal_replay` | 1 client; an element cannot be read by the constructor | 304 thousand | nothing acknowledged is lost |
| `journal_live` | 2 clients, 2 slots, no faults, fair | 92 thousand | waiting clients are woken; a quiet journal drains |
| `volume` | 2 threads, 3 blocks of 2 bytes, 2 locks, 1 mirror; block accesses fail | about a million | each call happens at one moment, which excludes lost updates and reads of two moments; between calls nothing is half done; no circular wait; mirrors agree |
| `volume_file` | 2 threads, 2 blocks of 2 bytes, 2 locks, 2 mirrors; trims and mirrors fail too | about 1.4 million | mirrors agree for a backend without locks in its trim, with puts of parts of blocks beside trims of whole ones |
| `dedup` | 2 threads, 2 blocks of 2 bytes, 2 byte values; every call fails, crash | 64 thousand | counts, mappings and contents agree; transactions end; puts are exact and stored |
| `tiering` | 2 threads, 2 blocks in 1 bin of 2 descriptors, 2 values for each half of a block; every access fails, crash | 3.7 million | one descriptor at most is used, nothing acknowledged is lost but in the three cases of section 3.5, eviction before overwriting |
| `snapshots` | 2 writers, 2 requests, 2 snapshots, 2 blocks of 2 bytes; copies of one block of the first snapshot fail, puts fail halfway | 1.04 million | a snapshot is the picture of its moment but for stray blocks (section 3.6), is complete if nothing failed, and nothing changes before it is copied |
| `nbd` | 2 connections of the backend, 1 guest, 3 commands in all, 1 block, both answers to `NBD_OPT_EXPORT_NAME`; connections break or are refused, the storage fails, either process dies; fair | 571 thousand | answers are true, a flush covers the acknowledged writes of all connections, FUA is kept before the next answer, nobody is stuck |
| `aoe` | 2 targets, 2 blocks of 2 sectors that overlap, 2 calls, 2 faults, 2 frames in each direction; fair | 304 thousand | no answered write is undone by a copy of a request, reads are of the target, gets and puts return |
| `tiering_read` | as `tiering`, small | | the finding of section 6 |

*Why the bounds are enough.* Two slots make the ring empty, half full and full, wrap both
pointers, let two elements of one block and of two blocks be in it, and let a run of
connecting elements wrap. (One slot would not have a half-full ring; three add longer runs,
nothing of another kind.) Two blocks make elements that connect and that do not. Two clients
are one that pushes while the other waits, has passed a check or holds a lock. Three blocks
on two locks give two blocks that share a lock, ranges that need both, and a range that
starts and ends inside a block. The three ranges of `volume` are a part of
one block, one that begins inside a block, and one of whole blocks; each shares a block with
another. Two blocks of two bytes in `Dedup` have a shared content, a
content used once, and a partial put. Two blocks in one bin of `Tiering` replace each other,
with one thread in the bin and another between the two calls of a partial put; a block in
another bin shares nothing with them (the theorems have any number of both). There are two contents, the zeroes of a trim and one
other; no code depends on more. Two snapshots of which the first gives up at its first block are
enough for a descriptor to be used again while a writer still copies for the first, before and
after it has read the block; the put of the run touches a part of the first block and all of the
second. Two connections are one that
is given up with a write under way and one that works. Two frames are an answer and one that
nobody waits for; two faults a lost request and a lost answer, or either with an error. In the
first four modules nothing is counted beyond what the code bounds: `cur_n` is bounded by the
ring, requests come one per thread, so the state spaces are finite without a constraint.
`Snapshots`, `Nbd` and `Aoe` bound the snapshots, connections, requests, faults and frames by
constants of that name in the guards (`MayAsk` and `Spare` are such bounds too, and so are the
guards of `Connect`, `Break` and `Die`: a connection that is refused or breaks, and a death of the
server that no SIGPIPE causes, leave one for the backend to make, and a frame that nobody waits
for leaves room for an answer). `journal_crash` and `journal_faults` together would be too large; a torn write
*and* a failed meta write in one run are excluded on purpose (section 7).

*Fairness.* `journal_live` assumes weak fairness of the flusher's own steps, of the steps of a
client inside a call, and of the destructor's; `nbd` of the backend, of each server thread and of
a guest that waits; `aoe` of `connect`, of the target and of the client's reading. Each is a
thread of a process that the operating system schedules, and `flush_interval` passes. `aoe` also
assumes strong fairness of sending, of the time-out and of the announcements: announcements are
seconds apart and the time-out half a second, so that a moment without a frame, and room for a
request, comes again and again. Failures, spurious wake-ups, new calls, lost frames, broken
connections and crashes are never assumed to happen, and nothing is assumed of who gets a
contended mutex.

*Deadlock* is checked in the runs of `Journal`, `Volume`, `Dedup` and `Tiering`. It is off in
`snapshots`, `nbd` and `aoe`, which stop when the requests that the bounds allow are done.

## 5. The proofs

Checked by `tlapm`, for all values of the constants that satisfy the named assumptions.

* `JournalProofs`, the ring: `TypeCorrect`, `RingAlwaysConsistent`, `LiveSlotsAreKept`. Neither
  type correctness nor consistency is inductive: `Consumed` subtracts the length of the flusher's
  run from `cur_n`, which stays a natural number only if the run is still a part of the ring
  when it is committed, although clients pushed in between. `IInv` adds `RunOK` (the run is
  the oldest part of the ring while it is applied, and the slots being cleared lie just before
  the window) and `StoredPrefix` (the stored window begins where the one in memory does,
  until the flusher's write of the meta data has failed). The arithmetic of wrapping is in
  three lemmas (`Wrap`, `WrapOn`, `WrapInjective`); `LiveSlotsAreKept` follows from
  `PushedSlotIsFree` and `ClearedSlotIsFree`, which use that at most `N` slots are in use.
* `JournalProofs`, what is in the ring: `StoredWindowIsReadable`, `RecoveryAlwaysSafe`,
  `CacheAlwaysMatchesRing`, `FlushReachesData` and `ImplementsCrashSafeDevice`. All assume
  `SlotsWhole` (slot writes that tear and meta writes that fail are not both in `Faults`), the
  last three also `AllReplayed` (the constructor's reads do not fail): the first two corners of
  section 7, in which the code breaks the promises. `JInv` compares three places that may hold
  an element's value, the stored window, the window in memory and the data backend: the window
  in memory is `n` slots ahead of the stored one (`Aligned`; `n` is above 0 only when the flusher
  died of a failed meta write), and what a restart would take from the stored window, what is
  pushed and not stored, and what the data backend has, is each either a value that the device
  may have after a restart or hidden by a later element of the stored window that no push can
  overwrite (`StoredOK`, `PushedOK`, `DataOK`). `CacheMatchesRing` compares the cache with what
  the constructor would make of the ring (`Load`): lemmas say what one element more at the end
  (`LoadInMore`) and a run fewer at the front (`ConsumedHits`, `CacheCommits`) does to it. The
  refinement has one lemma for each kind of step (`StepKinds`): a push is a `Write`, a
  `transaction_end` without an error is a `Sync`, the constructor is a `Restart`, and the flusher
  stutters, since it moves elements from the ring to the data backend and `get_block` returns the
  same before and after (`MemApplies`, `MemCommits`).
* `JournalProofs`, the two condition variables: `WakeupsAreNotLost`, for every set of faults.
  `WaitInv` adds to `IInv` and `NoWakeupLost` that the ring is empty from the moment at which the
  flusher decides to wait (`SleepOK`), and that it ends only after `stop` or an error. A client
  decides to wait when the ring is full (`WaitsBecauseFull`); a full ring is not empty
  (`FullHasSome`), so the flusher is not asleep, and its iteration ends with `ClientsWoken`; a
  push wakes the flusher in the step that makes the ring not empty. There is one lemma for the
  client's steps, one for the flusher's, and one for all others (`ClientWaits`, `FlusherWaits`,
  `OthersWait`).
* `ByteRangesProofs`: lemmas on blocks and parts of ranges for the other two.
* `VolumeProofs`: `VolumeTypeCorrect`, `ReadsAreOneMoment`, `NoLostUpdate`, `MirrorsFollow` and
  `LocksInOrder`, for any number of threads, blocks, locks and mirrors. `VInv` says which locks
  a thread holds at each point (`LocksHeld`), that a lock with two holders is shared
  (`Exclusion`), where `work_offset` is (`PositionOK`), and, under `Disciplined`, that what was
  read of a block is what the block still contains (`CopyOK`), which is what makes the
  read-modify-write safe. `Disciplined` says of every request that it takes its locks and that
  every block of it is locked: a backend that locks in its trim, or one that nobody trims.
  `ReadsAreOneMoment` and `NoLostUpdate` assume it, since the code violates both properties
  without either half (section 7). `MirrorsFollow` needs less (`TrimsWhole`):
  `un_lock_block_group` misses no block of a request, and a trim that takes no locks is of whole
  blocks; so it covers both runs. Its invariant is about requests that do not overlap and have
  not failed, as `MirrorsAgree` is: no byte is being changed by two (`OneChanger`), what a
  request has passed is stored and is at the mirrors it has called (`SentOf`), and the bytes
  that nobody changes are the same everywhere (`SameElsewhere`); and what was read of a block to
  change a part of it is what it contains (`CopiesOK`), since puts are locked out and a trim
  without locks would overlap with the part (`BlockKept`). `LocksInOrder` assumes nothing: locks
  are taken in rising order (`InOrder`), so that if all threads waited, the one that holds the
  highest lock waited for would wait for a higher one; some thread can always go on
  (`SomeoneGoesOn`).
* `VolumeProofs`, atomic calls: `CallsAreAtomic` (`LSpec => Linearizable`), which assumes
  `Disciplined` too. `LInv` adds to `VInv` that the bytes a call under way has written so far
  (`Written`) are in the backend (`WrittenOK`), and that all other bytes are the same in `mem`
  and in `store` (`SettledOK`). Exclusive locks give that a byte has at most one call under way
  that changes it, so the end of a loop moves just the bytes of its own request into `mem`: all
  of them after a success (`Put`), those before the block that failed otherwise (`Fail`). A read
  holds its locks shared to the end, so that its copy is `mem` at that moment (`Get`). All other
  steps are `Invoke`, `Return` or stutters (`AtomicStep`).
* `DedupProofs`: `DedupTypeCorrect`, `CountsAlwaysExact`, `ContentAlwaysFound`,
  `TransactionsEnd`. `DInv` follows the records through a transaction: after `Release` the
  counts are exact for all blocks but the one that is put, after `Claim` the new hash has one
  user too many, after `Map` they are exact again; and `tx = db` when no transaction is open.
  The counting is by lemmas on the cardinality of the users of a hash with and without a block.
  `OnlyThePartChanges` and `PutsAreStored` are about the bytes, for puts of which every block is
  locked (`Covered`, section 7). `EInv` adds that nobody works on the blocks of a put that is not
  `raced` (`Apart`), that the content to be put is the stored block with the bytes of the request in it,
  from its read to its commit (`TempOf`), that a transaction has changed one mapping only, to
  the hash of that content (`TxOf`), and that the bytes a put has passed are still stored (`DoneOf`).
* `TieringProofs`: `TieringTypeCorrect`, `OneDescriptorOnly`, `NothingIsLost`,
  `EvictedBeforeOverwritten`. `TInv` says that only the last descriptor of a bin is in use, of a
  block of this bin (`PlacesOK`), that one thread is in a bin (`LocksOK`), and how the thread's
  copy of the descriptor relates to the stored one at each point of a call (`EvictOf`, `ReadyOf`,
  `StoreOf`): until the descriptors are stored, the stored one still describes what was there,
  and the content it loses must by then be in the slow storage, or the call must have failed (and
  the block is lost from then on). What a partial put has read is one of the contents its block may
  have unless it is `stale` (`OutOf`).
  A step of a thread changes storage in the bin that it holds only (`Frame`), so what the others
  rely on is kept by one lemma (`OthersOK`), and a block in another bin by another
  (`ElsewhereKept`).

* `SnapshotsProofs`: `SnapshotsTypeCorrect`, `SnapshotsPicture`, `SnapshotsComplete` and
  `SnapshotsCopiedFirst`, for any number of snapshots, writers, requests and blocks, whatever
  fails, under `CoveredAssumption`: every block that a request changes is one that
  `trigger_range` looks at (an unaligned range that ends early in its last block is not, section
  7). `SInv` says that no snapshot has the descriptor number of an earlier one that is open
  (`OwnDescriptor`, which needs that a number is free, by the pigeonhole principle), that a file
  that was not begun is all zeros (`Fresh`), that one thread at most copies a block for a snapshot
  (`Alone`: it has the mutex) and has marked it (`Marked`), that a block still to be copied for a
  snapshot is as it was for it and for every later one (`Sources`), that what was read of a block is
  so too, for every later snapshot that has the number and of which the block is not stray
  (`Buffered`: this is why a write to a number that was used again does harm only to those), what a
  writer has done so far, counting a block as copied when it is marked and nobody is between its
  read and its write (`Told`, `Settled`), and where the copying thread is (`Progress`).
* `NbdProofs`: `NbdTypeCorrect`, `NbdCallsTakeEffect`, `NbdFlushCovers`,
  `NbdFuaBeforeNextAnswer`, for any number of connections, guests, calls and blocks, for every set
  of faults and with both answers to `NBD_OPT_EXPORT_NAME`. The assumptions are those of `Nbd.tla`: there is
  a block, and `Backend`, `Guests` and the numbers of connections differ. None of the three is
  inductive, since what makes an answer true is in the queues. `NInv` says what the queue to the
  server may hold in each state of its thread (`Shape`), that the handles on the connection in use
  are at most the current one and what a reply with the current one says (`Exchange`; a handle
  counts up and is never used for another call, so that a late reply to an older call is not taken
  for an answer), that a reply to a read is followed by its data or the connection is gone
  (`Brings`), that a guest has a command or an answer under way and never both (`Alone`, `Awaits`),
  and that the thread of a FUA write that is not synced has not read again (`FuaOf`). Queues are
  handled by a few relations between an old and a new one (`Rest`, `Adds`, `Begins`, `Follows`);
  what a step leaves alone is one frame lemma for each part of the invariant.
  A step that writes to a connection that is gone has three outcomes (`Answered`), of which the death
  of the process (`KilledStep`) only takes away what is under way. A connection that was refused has
  no thread and nothing in its queues, and one that is closed keeps what the server had received.
* `AoeProofs`: `AoeTypeCorrect`, `AoeSectorsAsWritten`, for any number of targets, blocks, calls,
  faults and frames. The argument is that the network keeps the order in each direction and tags
  rise: when an answer with the current tag arrives, every older request has been served, so that
  no copy of an answered write is left that could undo a later one. `AInv` says that tags do not
  fall along the queue to the server (`Ordered`) and none is above the last one drawn (`RequestsOK`),
  that no request still to be served is older than an answer on its way (`RepliesOK`), and what a
  request and an answer with the current tag say (`CallOK`).

*Only model-checked*: the liveness properties `WaitersWoken`, `DrainsWhenQuiet`, `Progress` and
`CallsReturn`, since the prover has no rules for fairness (`NoWakeupLost`, which is
proved, is their safety core: nobody waits for a notification that has been given); and `NoCircularWait`, which is stated with
`ENABLED`. `LocksInOrder` is the argument behind the last one: what it leaves to TLC is that
`CanGoOn` is when a step of the thread is enabled.

## 6. What the models found

1. **A read returns another block** (`tiering_read`). A miss in `get_block` of the tiering backend
   makes a descriptor for the block and does not put the block in the fast storage; the second
   read finds the descriptor and returns what the fast storage has: the content of the block
   that was there before. A partial put makes that content permanent: the acknowledged rest of the
   block is lost, with no failure, which is the third exception of `NothingLost` (section 3.5).

Other behaviours met while modelling, which no run is kept for:

* *A trim is forgotten.* `journal::trim_zero` ends without `transaction_end`, and the destructor
  does not store the meta data: delete the journal, construct it again, and the trimmed blocks
  have their old content. `CrashSafe` allows it.
* *A put on a failed journal hangs.* The flusher leaves its loop after an error of the data
  backend without waking the clients that wait for room, and their wait does not look at
  `journal_commit_fatal_error`. `WaitersWoken` is about a journal that did not fail,
  and `NoWakeupLost` excepts this wait.
* *The destructor of a journal may hang.* It sets `stop_flag` and notifies without the mutex, so
  the notification can be lost: the other exception of `NoWakeupLost`.
* *The repository's NBD client does not understand its NBD server* (section 3.7): with the server's
  own answer to `NBD_OPT_EXPORT_NAME` no call returns, and the client connects again for ever.
  Its trim asks for offset 0 and length 0, and its calls of the mirrors in `fsync` and `trim_zero`
  come after a return.
* *A snapshot may get an older block.* `copy_block` reads a block for a snapshot that then gives up
  and closes its file, and writes it to the number that a new snapshot has been given (`stray`).
* *A broken NBD connection may end the process*: nothing ignores SIGPIPE.
* *The repository's AoE client never returns from `fsync` and `trim_zero`* on its own server, which
  does not answer those commands; and an announcement, or the answer of another shelf, that comes
  while `connect` waits for the identification makes it fail or gives it a wrong size.

## 7. What is not promised, and what is not modelled

Where the code does not keep a promise in a corner, the property says so in its hypothesis
and the corner is listed as a hazard in `PROJECT.json`:

* A torn slot write after the flusher's write of the meta data has failed (two failures): a
  client that passed the check of `journal_commit_fatal_error` may destroy a slot that the
  stored meta data covers.
* After a restart in which an element could not be read, `get_block` answers from the data
  backend although the ring has a newer element, until the ring has drained.
* A range that starts inside a block and ends early in a later one leaves its last block
  unlocked (`un_lock_block_group` steps by `block_size` from the offset).
* The file backend trims without locks; the trim of `Dedup` does not respect `lg`. A partial
  put next to such a trim may bring the trimmed bytes back.
* Mirrors are written without locks: overlapping writes may reach them in another order.
* `Dedup`'s trim of a whole block ignores a failed put. Its trim of a part of a block that was
  never written uses a null pointer, which ends the process (`TrimNewBlock`). The contents of
  hashes without users are never removed (`delete_block_by_hash` removes the use count).
* Tiering: a call that reports a failure may have lost the dirty block that was in its way, and
  so may a put that is cut off after it has overwritten the fast block and before it has stored
  the descriptors. A put of a part of a block, of which a read has missed before, loses the rest
  of the block without a failure.

* Snapshots: a writer that was in `trigger_range` when a snapshot was made writes into its
  picture; a block whose copy failed stays marked and is missing from the file, and the snapshot calls itself
  finished; a block that is under way to a closed file's number when a new snapshot is given the
  number goes into the new file, older than it should be; unaligned ranges as above.
* Nbd: a write that the backend sent on a connection it has given up may be executed after newer
  writes that were acknowledged, and undo them. The sync of a FUA write comes after its answer, and
  if it fails, or the process dies before, the write was answered and is not on stable storage. A
  call need not return: with the repository's own server it does not, and SIGPIPE may end its process.
* Aoe: blocks of more than one sector overlap; every server of the network executes what is
  meant for one of them.

Not modelled:

* the loss of written but unsynced data (power failure: the journal never syncs its data backend
  before it clears the slots), the geometry of a new journal, partial trims of a journal;
* file descriptors outside `Snapshots` (`get_block` of the directory backend closes one twice),
  memory, compression; a storage whose fsync does not sync everything (that of the directory backend
  syncs the directory only), which `FlushCovers` assumes away;
* snapshots: a list that is moved while a writer walks it, a bitmap whose size is rounded down, the
  number of a closed snapshot file that is given to a socket or another file of the process;
* NBD: threads that share the connection of one backend (`seq_nr` and `fd` have no lock, so that
  there is no defined behaviour to model), malformed messages, the destructor of the server, which
  waits for clients that are idle, and the list of threads it shares with them;
* AoE: a second client (tags are drawn with an unseeded `rand`, so that two processes use the same
  ones), a target with two paths, answers that are longer or shorter than they should be, the
  configuration string;
* configuration and utilities, and of the sockets all but what `Nbd` has of them, which keep no
  state that the data depends on (`components` in `PROJECT.json`).
