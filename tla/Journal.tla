------------------------------ MODULE Journal ------------------------------
(***************************************************************************)
(* src/journal.cpp: a write-back journal.  Blocks that are written, trimmed *)
(* or zeroed are appended to a ring of slots on one storage backend (and    *)
(* to a cache in memory); a thread takes them from the ring and applies     *)
(* them to the other backend.  The callers are the threads of the servers   *)
(* (storage_backend::put_data, journal::trim_zero); the process may die     *)
(* between any two storage accesses and start again.                        *)
(*                                                                          *)
(* The mutex `lock' is held for a whole iteration of the flusher and for a  *)
(* whole push, so a push is one step, and an iteration is one step for each *)
(* storage access, with LockFree false in between.                          *)
(***************************************************************************)
EXTENDS Integers, FiniteSets, FiniteSetsExt

CONSTANTS Clients,    \* the threads that call put_data and trim_zero
          NumBlocks,  \* number of blocks of the data backend
          Values,     \* what a block can contain
          Zero,       \* the content of a trimmed or zeroed block
          N,          \* jm.n_elements, the slots of the ring
          Ops,        \* the kinds of requests the clients make
          Faults,     \* which storage accesses may fail, and "crash"
          Shutdown    \* what the owner of the journal may call

Actions == {"write", "trim", "zero"}
AllFaults == {"slot", "torn", "data", "meta", "clear", "fetch", "replay", "crash"}

ASSUME NAssumption == N \in Nat \ {0}
ASSUME NumBlocksAssumption == NumBlocks \in Nat \ {0}
ASSUME ZeroAssumption == Zero \in Values
ASSUME OpsAssumption == Ops \subseteq Actions
ASSUME FaultsAssumption == Faults \subseteq AllFaults
ASSUME ShutdownAssumption == Shutdown \subseteq {"flush_journal", "delete"}

Blocks == 0 .. NumBlocks - 1
Slots == 0 .. N - 1

\* journal_meta_t without signature, CRC and the constant geometry
Meta == [read_pointer : Slots, write_pointer : Slots, full : BOOLEAN, cur_n : Nat]

\* journal_element_t; "invalid" is JA_invalid or a CRC that does not match
Elements == [a : Actions \cup {"invalid"}, target_block : Blocks, data : Values]
Invalid == [a |-> "invalid", target_block |-> 0, data |-> Zero]

Requests == [a : Ops, first : Blocks, last : Blocks, data : Values]
NoRequest == [a |-> "invalid", first |-> 0, last |-> 0, data |-> Zero]
NoRun == [base |-> 0, n |-> 0, i |-> 0]

VARIABLES
  jm,         \* the meta data in memory
  meta,       \* the meta data in the journal's storage
  slots,      \* the elements in the journal's storage
  data,       \* the blocks of the data backend
  meta_dirty, \* meta_dirty # 0: jm changed since it was last stored
  cache,      \* cache[b]: how many elements of the ring are for b (0: not
              \* cached) and the content of the last of them
  fatal,      \* journal_commit_fatal_error
  stop,       \* stop_flag
  fpc, run,   \* the flusher: where it is, and the elements it works on
  owner,      \* the thread that calls flush_journal and the destructor
  pc, req, at, err,  \* the clients: where, what, which block, *err
  may         \* history: values each block may have after a restart, given
              \* what put_data has acknowledged

jvars == <<jm, meta, slots, data, meta_dirty, cache, fatal>>
cvars == <<pc, req, at, err>>
vars == <<jvars, stop, fpc, run, owner, cvars, may>>

-----------------------------------------------------------------------------
(* The ring.                                                                *)

\* the slot of the i-th element of the window that m describes
SlotOf(m, i) == (m.read_pointer + i) % N
Element(m, i) == slots[SlotOf(m, i)]
Window(m) == 0 .. m.cur_n - 1
IsEmpty(m) == m.read_pointer = m.write_pointer /\ ~m.full

\* slip: full is derived from the write pointer before it moved
Advanced_FullTooEarly(m) ==
  [m EXCEPT !.write_pointer = (@ + 1) % N,
            !.full = (m.cur_n > 0 /\ m.write_pointer = m.read_pointer), !.cur_n = @ + 1]

\* push_action: the ring after one more element
Advanced(m) ==
  LET wp == (m.write_pointer + 1) % N
  IN  [read_pointer |-> m.read_pointer, write_pointer |-> wp,
       full |-> (wp = m.read_pointer), cur_n |-> m.cur_n + 1]

\* slips: the read pointer is not wrapped; full is not reset
Consumed_NotWrapped(m, n) ==
  [m EXCEPT !.read_pointer = @ + n, !.full = FALSE, !.cur_n = @ - n]
Consumed_StaysFull(m, n) ==
  [m EXCEPT !.read_pointer = (@ + n) % N, !.cur_n = @ - n]

\* operator(): the ring without its n oldest elements
Consumed(m, n) ==
  [read_pointer |-> (m.read_pointer + n) % N, write_pointer |-> m.write_pointer,
   full |-> FALSE, cur_n |-> m.cur_n - n]

\* what replaying the first k elements of the window leaves in the cache
Load(m, k) ==
  [b \in Blocks |->
     LET hits == {i \in 0 .. k - 1 : Element(m, i).target_block = b}
     IN  [n |-> Cardinality(hits),
          data |-> IF hits = {} THEN Zero ELSE Element(m, Max(hits)).data]]

\* the elements the constructor can replay: it stops at the first bad one
Replayable(m) ==
  Cardinality({i \in Window(m) : \A j \in 0 .. i : Element(m, j).a # "invalid"})

\* get_block: the cache if the block is there, the data backend if not
View(b) == IF cache[b].n > 0 THEN cache[b].data ELSE data[b]

\* block b according to the first k elements of the window m describes
Replayed(m, k, b) ==
  LET c == Load(m, k)[b] IN IF c.n > 0 THEN c.data ELSE data[b]

\* what get_block would return if the process died now and was restarted
Recovered(b) == Replayed(meta, Replayable(meta), b)

-----------------------------------------------------------------------------
NewMeta == [read_pointer |-> 0, write_pointer |-> 0, full |-> FALSE, cur_n |-> 0]

\* a new journal: the storage reads as zeroes
Init ==
  /\ jm = NewMeta /\ meta = NewMeta
  /\ slots = [s \in Slots |-> Invalid]
  /\ data = [b \in Blocks |-> Zero]
  /\ meta_dirty = FALSE
  /\ cache = [b \in Blocks |-> [n |-> 0, data |-> Zero]]
  /\ fatal = FALSE /\ stop = FALSE
  /\ fpc = "top" /\ run = NoRun /\ owner = "run"
  /\ pc = [c \in Clients |-> "idle"]
  /\ req = [c \in Clients |-> NoRequest]
  /\ at = [c \in Clients |-> 0]
  /\ err = [c \in Clients |-> FALSE]
  /\ may = [b \in Blocks |-> {Zero}]

\* nobody but the flusher holds `lock' from one step to the next
LockFree == fpc \notin {"checked", "data", "meta", "clear"}

\* slips: the flusher is not notified; one waiting client is, not all
FlusherWoken_NoNotify == fpc
ClientsWoken_NotifyOne ==
  IF \E c \in Clients : pc[c] = "wait"
    THEN [pc EXCEPT ![CHOOSE c \in Clients : pc[c] = "wait"] = "lock"]
    ELSE pc

\* cond_push.notify_all and cond_pull.notify_all
FlusherWoken == IF fpc = "sleep" THEN "top" ELSE fpc
ClientsWoken == [c \in Clients |-> IF pc[c] = "wait" THEN "lock" ELSE pc[c]]

-----------------------------------------------------------------------------
(* The clients: put_data (lock group lg, transaction_end at the end) and    *)
(* trim_zero (lock group lgj, no transaction), block by block.              *)

Active(c) == pc[c] # "idle"

\* put_data uses lg, trim_zero uses lgj
SameLockGroup(a1, a2) == (a1 = "write") = (a2 = "write")
Overlap(r1, r2) == r1.first <= r2.last /\ r2.first <= r1.last

Begin(c) ==
  \E r \in Requests :
    /\ ~Active(c)
    /\ owner \notin {"stopping", "join"}
    /\ r.first <= r.last
    /\ r.a # "write" => r.data = Zero
    /\ \A d \in Clients \ {c} :
          Active(d) /\ SameLockGroup(r.a, req[d].a) => ~Overlap(r, req[d])
    /\ pc' = [pc EXCEPT ![c] = "check"]
    /\ req' = [req EXCEPT ![c] = r]
    /\ at' = [at EXCEPT ![c] = r.first]
    /\ err' = [err EXCEPT ![c] = FALSE]
    /\ UNCHANGED <<jvars, stop, fpc, run, owner, may>>

\* the call returns; the caller may make another one
Finish(c) ==
  /\ pc' = [pc EXCEPT ![c] = "idle"]
  /\ req' = [req EXCEPT ![c] = NoRequest]
  /\ at' = [at EXCEPT ![c] = 0]
  /\ err' = [err EXCEPT ![c] = FALSE]

\* push_action returned false: put_data still ends its transaction
PushFailed(c) ==
  IF req[c].a = "write"
    THEN /\ pc' = [pc EXCEPT ![c] = "end"]
         /\ err' = [err EXCEPT ![c] = TRUE]
         /\ UNCHANGED <<req, at>>
    ELSE Finish(c)

\* push_action looks at both flags before it takes the lock
Check(c) ==
  /\ pc[c] = "check"
  /\ IF fatal \/ stop
       THEN PushFailed(c)
       ELSE /\ pc' = [pc EXCEPT ![c] = "lock"]
            /\ UNCHANGED <<req, at, err>>
  /\ UNCHANGED <<jvars, stop, fpc, run, owner, may>>

Wait(c) ==
  /\ pc[c] = "lock" /\ LockFree
  /\ jm.full /\ ~stop
  /\ pc' = [pc EXCEPT ![c] = "wait"]
  /\ UNCHANGED <<jvars, stop, fpc, run, owner, req, at, err, may>>

\* a condition variable may also wake without a notify
SpuriousWake(c) ==
  /\ pc[c] = "wait"
  /\ pc' = [pc EXCEPT ![c] = "lock"]
  /\ UNCHANGED <<jvars, stop, fpc, run, owner, req, at, err, may>>

Terminated(c) ==
  /\ pc[c] = "lock" /\ LockFree
  /\ stop
  /\ PushFailed(c)
  /\ UNCHANGED <<jvars, stop, fpc, run, owner, may>>

\* The element is stored, the meta data in memory and the cache follow.
\* cur_n > n_elements (journal.cpp:267) cannot be: see RingConsistent.
Push(c) ==
  /\ pc[c] = "lock" /\ LockFree
  /\ ~jm.full /\ ~stop
  /\ slots' = [slots EXCEPT ![jm.write_pointer] =
                 [a |-> req[c].a, target_block |-> at[c], data |-> req[c].data]]
  /\ jm' = Advanced(jm)
  /\ meta_dirty' = TRUE
  /\ cache' = [cache EXCEPT ![at[c]] = [n |-> @.n + 1, data |-> req[c].data]]
  /\ fpc' = FlusherWoken
  /\ may' = [may EXCEPT ![at[c]] = @ \cup {req[c].data}]
  /\ IF at[c] < req[c].last
       THEN /\ pc' = [pc EXCEPT ![c] = "check"]
            /\ at' = [at EXCEPT ![c] = @ + 1]
            /\ UNCHANGED <<req, err>>
       ELSE IF req[c].a = "write"
              THEN /\ pc' = [pc EXCEPT ![c] = "end"]
                   /\ UNCHANGED <<req, at, err>>
              ELSE Finish(c)
  /\ UNCHANGED <<meta, data, fatal, stop, run, owner>>

\* the slot is not written, or written in part ("torn")
PushIOError(c) ==
  /\ pc[c] = "lock" /\ LockFree
  /\ ~jm.full /\ ~stop
  /\ \/ "slot" \in Faults /\ UNCHANGED slots
     \/ "torn" \in Faults /\ slots' = [slots EXCEPT ![jm.write_pointer] = Invalid]
  /\ PushFailed(c)
  /\ UNCHANGED <<jm, meta, data, meta_dirty, cache, fatal, stop, fpc, run, owner, may>>

\* transaction_end: the meta data is stored, and put_data returns to its
\* caller; what is pushed by now has to survive a restart if there was no error
TransactionEnd(c) ==
  /\ pc[c] = "end" /\ LockFree
  /\ meta' = IF meta_dirty THEN jm ELSE meta
  /\ meta_dirty' = FALSE
  /\ Finish(c)
  /\ may' = IF err[c] THEN may ELSE [b \in Blocks |-> {Replayed(jm, jm.cur_n, b)}]
  /\ UNCHANGED <<jm, slots, data, cache, fatal, stop, fpc, run, owner>>

\* the write of the meta data fails, or the fsync after it does
TransactionEndIOError(c) ==
  /\ pc[c] = "end" /\ LockFree
  /\ "meta" \in Faults /\ meta_dirty
  /\ meta' \in {meta, jm}
  /\ Finish(c)
  /\ UNCHANGED <<jm, slots, data, meta_dirty, cache, fatal, stop, fpc, run, owner, may>>

-----------------------------------------------------------------------------
(* The flusher, operator().  It may also go round without doing anything    *)
(* while flush_interval has not passed (journal.cpp:303): a stuttering step.*)

FlusherStopped ==
  /\ fpc = "top" /\ (stop \/ fatal)
  /\ fpc' = "dead"
  /\ UNCHANGED <<jvars, stop, run, owner, cvars, may>>

\* a condition variable may wake without a notify
FlusherWakes ==
  /\ fpc = "sleep"
  /\ fpc' = "top"
  /\ UNCHANGED <<jvars, stop, run, owner, cvars, may>>

\* nothing to do and stop_flag is not set: it is about to wait, and does
FlusherChecks ==
  /\ fpc = "top" /\ ~stop /\ ~fatal
  /\ IsEmpty(jm)
  /\ fpc' = "checked"
  /\ UNCHANGED <<jvars, stop, run, owner, cvars, may>>

FlusherSleeps ==
  /\ fpc = "checked"
  /\ fpc' = "sleep"
  /\ UNCHANGED <<jvars, stop, run, owner, cvars, may>>

\* slip: only the action is compared
Connects_AnyBlock(i) == Element(jm, i).a = Element(jm, 0).a

\* element i of the window continues the run of the elements before it
Connects(i) ==
  /\ Element(jm, i).a = Element(jm, 0).a
  /\ Element(jm, i).target_block = Element(jm, i - 1).target_block + 1

\* the first k elements are one run: same action, consecutive blocks
IsRun(k) == \A i \in 1 .. k - 1 : Connects(i)
RunLength == Max({k \in 1 .. jm.cur_n : IsRun(k)})

\* it reads one element more than the run has, if there is one
ReadsInvalid ==
  \E i \in Window(jm) : Element(jm, i).a = "invalid" /\ IsRun(i)

Dies(p) == fpc = p /\ fatal' = TRUE /\ fpc' = "dead"

FlusherTakes ==
  /\ fpc = "top" /\ ~stop /\ ~fatal
  /\ ~IsEmpty(jm) /\ ~ReadsInvalid
  /\ run' = [base |-> jm.read_pointer, n |-> RunLength, i |-> 0]
  /\ fpc' = "data"
  /\ UNCHANGED <<jvars, stop, owner, cvars, may>>

FlusherTakesIOError ==
  /\ ~stop /\ ~fatal
  /\ ~IsEmpty(jm)
  /\ ReadsInvalid \/ "fetch" \in Faults
  /\ Dies("top")
  /\ UNCHANGED <<jm, meta, slots, data, meta_dirty, cache, stop, run, owner, cvars, may>>

\* data->put_data or data->trim_zero on the blocks from FirstBlock on, which
\* go block by block
FirstBlock == Element(jm, 0).target_block

FlusherApplies ==
  /\ fpc = "data"
  /\ LET e == Element(jm, run.i)
     IN  data' = [data EXCEPT ![FirstBlock + run.i] = e.data]
  /\ run' = [run EXCEPT !.i = @ + 1]
  /\ fpc' = IF run.i + 1 = run.n THEN "meta" ELSE "data"
  /\ UNCHANGED <<jm, meta, slots, meta_dirty, cache, fatal, stop, owner, cvars, may>>

\* slip: *err is not looked at, the iteration goes on
FlusherAppliesIOError_Ignored ==
  /\ "data" \in Faults /\ fpc = "data"
  /\ fpc' = "meta"
  /\ UNCHANGED <<jvars, stop, run, owner, cvars, may>>

FlusherAppliesIOError ==
  /\ "data" \in Faults
  /\ Dies("data")
  /\ run' = NoRun
  /\ UNCHANGED <<jm, meta, slots, data, meta_dirty, cache, stop, owner, cvars, may>>

RunBlocks == FirstBlock .. FirstBlock + run.n - 1

\* slip: a block leaves the cache although the ring has more elements for it
CacheWithoutRun_Erase ==
  [b \in Blocks |-> IF b \in RunBlocks THEN [n |-> 0, data |-> Zero] ELSE cache[b]]

\* the cache without one element of each block of the run
CacheWithoutRun ==
  [b \in Blocks |->
     IF b \notin RunBlocks \/ cache[b].n = 0 THEN cache[b]
     ELSE IF cache[b].n = 1 THEN [n |-> 0, data |-> Zero]
     ELSE [cache[b] EXCEPT !.n = @ - 1]]

\* a block of the run that is not cached is a fatal error, but the iteration
\* goes on; the blocks after it keep their counts
FirstUncached == {b \in RunBlocks : cache[b].n = 0}
CacheAfterRun ==
  [b \in Blocks |->
     IF \E u \in FirstUncached : u <= b THEN cache[b] ELSE CacheWithoutRun[b]]

FlusherCommits ==
  /\ fpc = "meta"
  /\ jm' = Consumed(jm, run.n)
  /\ cache' = CacheAfterRun
  /\ fatal' = (FirstUncached # {})
  /\ meta' = jm'
  /\ meta_dirty' = FALSE
  /\ run' = [run EXCEPT !.i = 0]
  /\ fpc' = "clear"
  /\ UNCHANGED <<slots, data, stop, owner, cvars, may>>

FlusherCommitsIOError ==
  /\ "meta" \in Faults
  /\ Dies("meta")
  /\ jm' = Consumed(jm, run.n)
  /\ cache' = CacheAfterRun
  /\ meta' \in {meta, jm'}
  /\ meta_dirty' = TRUE
  /\ run' = NoRun
  /\ UNCHANGED <<slots, data, stop, owner, cvars, may>>

\* trim_zero on the journal's storage, up to the end of the ring; a second
\* one starts at slot 0
Chunk == Min({run.n - run.i, N - ((run.base + run.i) % N)})
\* slip: counts slots like offsets, of which the first is the meta data's
Cleared_OffByOne == {(run.base + i + 1) % N : i \in run.i .. run.i + Chunk - 1}
Cleared == {(run.base + i) % N : i \in run.i .. run.i + Chunk - 1}
ClearSlots == slots' = [s \in Slots |-> IF s \in Cleared THEN Invalid ELSE slots[s]]

FlusherClears ==
  /\ fpc = "clear"
  /\ ClearSlots
  /\ IF run.i + Chunk < run.n
       THEN /\ run' = [run EXCEPT !.i = @ + Chunk]
            /\ UNCHANGED <<fpc, pc>>
       ELSE /\ run' = NoRun
            /\ fpc' = "top"
            /\ pc' = ClientsWoken
  /\ UNCHANGED <<jm, meta, data, meta_dirty, cache, fatal, stop, owner, req, at, err, may>>

\* the only failure after which the waiting threads are still notified
FlusherClearsIOError ==
  /\ fpc = "clear" /\ "clear" \in Faults
  /\ ClearSlots \/ UNCHANGED slots
  /\ fatal' = TRUE
  /\ run' = NoRun
  /\ fpc' = "top"
  /\ pc' = ClientsWoken
  /\ UNCHANGED <<jm, meta, data, meta_dirty, cache, stop, owner, req, at, err, may>>

-----------------------------------------------------------------------------
(* The owner: flush_journal, the destructor, and the end of the process.    *)

\* slip: it waits once, not until the ring is empty
FlushJournal_WaitsOnce ==
  /\ "flush_journal" \in Shutdown
  /\ owner \in {"run", "drain"} /\ LockFree
  /\ IF jm.cur_n > 0 /\ ~stop /\ owner = "run"
       THEN /\ owner' = "drain"
            /\ UNCHANGED <<stop, fpc, pc>>
       ELSE /\ stop' = TRUE
            /\ owner' = "stopped"
            /\ fpc' = FlusherWoken
            /\ pc' = ClientsWoken
  /\ UNCHANGED <<jvars, run, req, at, err, may>>

\* a wait in it ends with a notify, or without one; it looks again each time
FlushJournal ==
  /\ "flush_journal" \in Shutdown
  /\ owner \in {"run", "drain"} /\ LockFree
  /\ IF jm.cur_n > 0 /\ ~stop
       THEN /\ owner' = "drain"
            /\ UNCHANGED <<stop, fpc, pc>>
       ELSE /\ stop' = TRUE
            /\ owner' = "stopped"
            /\ fpc' = FlusherWoken
            /\ pc' = ClientsWoken
  /\ UNCHANGED <<jvars, run, req, at, err, may>>

\* the destructor sets stop_flag without the lock, when no call is under way
Destroy ==
  /\ "delete" \in Shutdown
  /\ owner \in {"run", "stopped"}
  /\ \A c \in Clients : ~Active(c)
  /\ stop' = TRUE
  /\ owner' = "stopping"
  /\ UNCHANGED <<jvars, fpc, run, cvars, may>>

DestroyNotifies ==
  /\ owner = "stopping"
  /\ fpc' = FlusherWoken
  /\ owner' = "join"
  /\ UNCHANGED <<jvars, stop, run, cvars, may>>

\* slip: the elements from the first unreadable one on are given up
Boot_Truncates(k) ==
  /\ jm' = [meta EXCEPT !.cur_n = k, !.write_pointer = SlotOf(meta, k), !.full = (k = N)]
  /\ cache' = Load(meta, k)
  /\ meta_dirty' = FALSE /\ fatal' = FALSE /\ stop' = FALSE
  /\ fpc' = "top" /\ run' = NoRun /\ owner' = "run"
  /\ pc' = [c \in Clients |-> "idle"]
  /\ req' = [c \in Clients |-> NoRequest]
  /\ at' = [c \in Clients |-> 0]
  /\ err' = [c \in Clients |-> FALSE]
  /\ may' = [b \in Blocks |-> {Recovered(b)}]
  /\ UNCHANGED <<meta, slots, data>>

\* the constructor, on what the storage holds; k elements reach the cache
Boot(k) ==
  /\ jm' = meta
  /\ cache' = Load(meta, k)
  /\ meta_dirty' = FALSE /\ fatal' = FALSE /\ stop' = FALSE
  /\ fpc' = "top" /\ run' = NoRun /\ owner' = "run"
  /\ pc' = [c \in Clients |-> "idle"]
  /\ req' = [c \in Clients |-> NoRequest]
  /\ at' = [c \in Clients |-> 0]
  /\ err' = [c \in Clients |-> FALSE]
  /\ may' = [b \in Blocks |-> {Recovered(b)}]
  /\ UNCHANGED <<meta, slots, data>>

\* the read of an element can fail as well, and the constructor goes on
Construct ==
  \/ Boot(Replayable(meta))
  \/ "replay" \in Faults /\ \E k \in 0 .. Replayable(meta) - 1 : Boot(k)

Destroyed == owner = "join" /\ fpc = "dead" /\ Construct

Crash == "crash" \in Faults /\ Construct

-----------------------------------------------------------------------------
ClientStep(c) ==
  \/ Check(c) \/ Wait(c) \/ Terminated(c) \/ Push(c) \/ TransactionEnd(c)

Client(c) ==
  \/ Begin(c)
  \/ ClientStep(c)
  \/ SpuriousWake(c) \/ PushIOError(c) \/ TransactionEndIOError(c)

FlusherStep ==
  \/ FlusherStopped \/ FlusherChecks \/ FlusherSleeps
  \/ FlusherTakes \/ FlusherApplies \/ FlusherCommits \/ FlusherClears

Flusher ==
  \/ FlusherStep \/ FlusherWakes
  \/ FlusherTakesIOError \/ FlusherAppliesIOError
  \/ FlusherCommitsIOError \/ FlusherClearsIOError

Owner == FlushJournal \/ Destroy \/ DestroyNotifies \/ Destroyed

Next == (\E c \in Clients : Client(c)) \/ Flusher \/ Owner \/ Crash

Spec == Init /\ [][Next]_vars

\* Every thread is scheduled again and again; the flusher's flush_interval
\* passes.  Nothing is assumed of who gets a contended mutex.
Fairness ==
  /\ WF_vars(FlusherStep)
  /\ \A c \in Clients : WF_vars(ClientStep(c))
  /\ WF_vars(DestroyNotifies) /\ WF_vars(Destroyed)

FairSpec == Spec /\ Fairness

-----------------------------------------------------------------------------
(* What the journal promises.                                               *)

RunType == [base : Slots, n : 0 .. N, i : 0 .. N]

ClientsTypeOK ==
  /\ pc \in [Clients -> {"idle", "check", "lock", "wait", "end"}]
  /\ req \in [Clients -> Requests \cup {NoRequest}]
  /\ at \in [Clients -> Blocks]
  /\ err \in [Clients -> BOOLEAN]

JournalTypeOK ==
  /\ jm \in Meta /\ meta \in Meta
  /\ slots \in [Slots -> Elements]
  /\ data \in [Blocks -> Values]
  /\ meta_dirty \in BOOLEAN /\ fatal \in BOOLEAN /\ stop \in BOOLEAN
  /\ cache \in [Blocks -> [n : Nat, data : Values]]
  /\ fpc \in {"top", "checked", "sleep", "data", "meta", "clear", "dead"}
  /\ run \in RunType
  /\ owner \in {"run", "drain", "stopped", "stopping", "join"}
  /\ may \in [Blocks -> SUBSET Values]

\* Every variable has a value the code's types allow.
TypeOK == JournalTypeOK /\ ClientsTypeOK

\* read_pointer, write_pointer, full and cur_n describe the same window, in
\* memory and in storage: a full ring is never taken for an empty one, cur_n
\* does not pass n_elements or wrap below 0 (push_action and operator()).
WindowOK(m) ==
  /\ m.cur_n \in 0 .. N
  /\ m.full <=> m.cur_n = N
  /\ m.write_pointer = SlotOf(m, m.cur_n)

RingConsistent == WindowOK(jm) /\ WindowOK(meta)

\* The cache holds, for every block, the newest of its elements still in the
\* ring and their number: get_block never returns a value that a later
\* element replaces, and no block leaves the cache before its last element is
\* on the data backend (put_in_cache, the clean-up in operator(), and the
\* constructor).
CacheMatchesRing == cache = Load(jm, jm.cur_n)

\* A restart at any moment finds every element that the stored meta data
\* promises, readable and with a good CRC: elements are stored before the
\* meta data that covers them and cleared after the meta data that drops them.
StoredWindowReadable == \A i \in Window(meta) : Element(meta, i).a # "invalid"

\* When flush_journal has returned the data backend has, for every block, the
\* value that was last pushed, and nobody can push any more (test.cpp:364-382).
FlushedToData ==
  owner = "stopped" => stop /\ jm.cur_n = 0 /\ \A b \in Blocks : data[b] = View(b)

\* No wake-up is lost: a client that waits for room (cond_pull) waits for a
\* flusher that is not asleep and has a full ring before it, or is about to
\* notify; and the flusher waits for elements (cond_push) only while the ring
\* is empty.  Two waits are left that nobody need end (journal.cpp): that of a
\* client in the error state, since only one kind of failure notifies, and that
\* of a flusher which decided to wait just before the destructor, which does
\* not take the mutex, set stop_flag and notified.
HasRoomMaker(c) ==
  pc[c] = "wait" =>
    /\ ~stop
    /\ fatal \/ fpc = "clear" \/ (jm.full /\ fpc \in {"top", "data", "meta"})

NoWakeupLost ==
  /\ \A c \in Clients : HasRoomMaker(c)
  /\ fpc = "sleep" =>
       /\ jm.cur_n = 0
       /\ stop => owner \in {"stopping", "join"}

\* As long as the journal is not in its error state no step changes a slot in
\* the window of the stored meta data: a slot is used again only after the
\* meta data that frees it has been stored.
LiveSlotsKept ==
  [][~fatal => \A i \in Window(meta) :
        SlotOf(meta, i) \in {SlotOf(meta', j) : j \in Window(meta')}
          => slots'[SlotOf(meta, i)] = slots[SlotOf(meta, i)]]_vars

\* The journal is a block device whose acknowledged writes survive a restart
\* and whose reads return the last value pushed, whatever the flusher is
\* doing; after a restart no block goes back behind what put_data acknowledged.
Device == INSTANCE CrashSafeDevice WITH
            mem <- [b \in Blocks |-> View(b)],
            may <- may
CrashSafe == Device!Spec

\* Whatever fails while it starts, the journal loses nothing that it has
\* acknowledged: an element the constructor could not read stays in the ring
\* or reaches the data backend.
RecoverySafe == \A b \in Blocks : Recovered(b) \in may[b]

\* A client that waits for room in the ring is woken: an iteration of the
\* flusher that succeeds makes room and notifies (cond_pull).
WaitersWoken ==
  \A c \in Clients : pc[c] = "wait" ~> pc[c] # "wait"

\* If from some time on nobody calls, everything in the ring reaches the data
\* backend and the stored meta data says so.
DrainsWhenQuiet ==
  (<>[](\A c \in Clients : ~Active(c))) => <>[](jm.cur_n = 0 /\ meta.cur_n = 0)
=============================================================================
