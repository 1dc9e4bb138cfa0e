--------------------------- MODULE JournalProofs ---------------------------
(* Theorems about Journal, for every number of clients, blocks and slots. *)
EXTENDS Journal, FiniteSetTheorems, WellFoundedInduction, TLAPS

(***************************************************************************)
(* Arithmetic of the ring.                                                 *)
(***************************************************************************)

\* going round the ring at most once
LEMMA Wrap ==
  ASSUME NEW p \in Slots, NEW i \in 0 .. N
  PROVE  /\ (p + i) % N \in Slots
         /\ p + i < N => (p + i) % N = p + i
         /\ p + i >= N => (p + i) % N = p + i - N
<1> USE NAssumption DEF Slots
<1>1. CASE p + i < N
  <2>1. p + i \in 0 .. N - 1
    BY <1>1
  <2>2. (p + i) % N = p + i
    BY <2>1, SMT
  <2> QED
    BY <2>1, <2>2
<1>2. CASE p + i >= N
  <2>1. p + i \in N .. 2 * N - 1
    BY <1>2
  <2>2. (p + i) % N = p + i - N
    BY <2>1, SMT
  <2> QED
    BY <2>1, <2>2
<1> QED
  BY <1>1, <1>2

\* going on from where one has arrived
LEMMA WrapOn ==
  ASSUME NEW p \in Slots, NEW i \in 0 .. N, NEW k \in 0 .. N, i + k <= N
  PROVE  (((p + i) % N) + k) % N = (p + (i + k)) % N
<1> DEFINE q == (p + i) % N
<1>1. /\ q \in Slots
      /\ p + i < N => q = p + i
      /\ p + i >= N => q = p + i - N
  BY Wrap
<1>2. i + k \in 0 .. N
  BY NAssumption
<1>3. /\ p + (i + k) < N => (p + (i + k)) % N = p + (i + k)
      /\ p + (i + k) >= N => (p + (i + k)) % N = p + (i + k) - N
  BY <1>2, Wrap
<1> HIDE DEF q
<1>4. /\ q + k < N => (q + k) % N = q + k
      /\ q + k >= N => (q + k) % N = q + k - N
  BY <1>1, Wrap
<1>5. p \in 0 .. N - 1 /\ q \in 0 .. N - 1
  BY <1>1 DEF Slots
<1>6. (q + k) % N = (p + (i + k)) % N
  BY <1>1, <1>3, <1>4, <1>5, NAssumption
<1> QED
  BY <1>6 DEF q

\* different steps from the same slot lead to different slots
LEMMA WrapInjective ==
  ASSUME NEW p \in Slots, NEW i \in 0 .. N, NEW k \in 0 .. N, i < k, k - i < N
  PROVE  (p + i) % N # (p + k) % N
<1>1. /\ p + i < N => (p + i) % N = p + i
      /\ p + i >= N => (p + i) % N = p + i - N
  BY Wrap
<1>2. /\ p + k < N => (p + k) % N = p + k
      /\ p + k >= N => (p + k) % N = p + k - N
  BY Wrap
<1>3. p \in 0 .. N - 1
  BY DEF Slots
<1> QED
  BY <1>1, <1>2, <1>3, NAssumption

\* a nonempty set of numbers up to n has a greatest element, and Max is it
LEMMA MaxOfSet ==
  ASSUME NEW n \in Nat, NEW S, S \subseteq 0 .. n, S # {}
  PROVE  Max(S) \in S /\ \A y \in S : Max(S) >= y
<1> DEFINE T == {n - x : x \in S}
           R == OpToRel(<, Nat)
<1>1. \A x \in S : x \in Int /\ 0 <= x /\ x <= n
  OBVIOUS
<1>2. \A x \in S : n - x \in Nat
  BY <1>1
<1>3. T \subseteq Nat
  BY <1>2
<1>4. T # {}
  <2>1. PICK x \in S : TRUE
    OBVIOUS
  <2>2. n - x \in T
    BY <2>1
  <2> QED
    BY <2>2
<1>5. PICK t \in T : \A u \in T : ~(<<u, t>> \in R)
  <2> HIDE DEF T
  <2> QED
    BY <1>3, <1>4, NatLessThanWellFounded, WFMin, Zenon
<1>6. \A u, v \in Nat : u < v => <<u, v>> \in R
  BY DEF OpToRel
<1>7. \A u \in T : u >= t
  <2> HIDE DEF T, R
  <2>1. TAKE u \in T
  <2>2. u \in Nat /\ t \in Nat
    BY <1>3
  <2>3. ~(u < t)
    BY <2>2, <1>5, <1>6, Zenon
  <2> QED
    BY <2>2, <2>3
<1>8. PICK m \in S : t = n - m
  BY <1>5
<1>9. \A y \in S : m >= y
  <2>1. TAKE y \in S
  <2>2. n - y \in T
    OBVIOUS
  <2>3. n - y >= n - m
    BY <2>2, <1>7, <1>8
  <2> QED
    BY <2>3, <1>1
<1> QED
  BY <1>9 DEF Max

(***************************************************************************)
(* The inductive invariant.  Type correctness needs to know that the       *)
(* flusher never takes more than the ring holds, and that needs the ring   *)
(* to be consistent.                                                       *)
(***************************************************************************)

\* the elements the flusher works on are the oldest of the ring, and the
\* slots it clears are the ones just before the window
RunOK ==
  /\ fpc \in {"data", "meta"} => /\ run.n \in 1 .. jm.cur_n
                                 /\ run.base = jm.read_pointer
  /\ fpc = "data" => run.i < run.n
  /\ fpc = "clear" => /\ run.n \in 1 .. N
                      /\ run.i < run.n
                      /\ meta = jm
                      /\ jm.cur_n + run.n <= N
                      /\ jm.read_pointer = (run.base + run.n) % N

\* Until a write of the meta data has failed in the flusher, the stored meta
\* data describes a prefix of the ring in memory.
StoredPrefix ==
  ~fatal \/ "meta" \notin Faults =>
     /\ meta.read_pointer = jm.read_pointer
     /\ meta.cur_n <= jm.cur_n

IInv == TypeOK /\ RingConsistent /\ RunOK /\ StoredPrefix

LEMMA RunLengthType ==
  ASSUME TypeOK, jm.cur_n > 0
  PROVE  RunLength \in 1 .. jm.cur_n
<1> DEFINE S == {k \in 1 .. jm.cur_n : IsRun(k)}
<1>1. jm.cur_n \in Nat
  BY DEF TypeOK, JournalTypeOK, Meta
<1>2. IsRun(1)
  BY DEF IsRun
<1>3. S \subseteq 0 .. jm.cur_n /\ S # {}
  BY <1>1, <1>2
<1>4. Max(S) \in S
  <2> HIDE DEF S
  <2> QED
    BY <1>1, <1>3, MaxOfSet
<1> QED
  BY <1>4 DEF RunLength

\* Advanced and Consumed keep the ring consistent
LEMMA AdvancedOK ==
  ASSUME NEW m \in Meta, WindowOK(m), ~m.full
  PROVE  /\ Advanced(m) \in Meta /\ WindowOK(Advanced(m))
         /\ Advanced(m).read_pointer = m.read_pointer
         /\ Advanced(m).cur_n = m.cur_n + 1
<1> DEFINE rp == m.read_pointer
           wp == m.write_pointer
           c  == m.cur_n
           nwp == (wp + 1) % N
<1>1. rp \in Slots /\ wp \in Slots /\ c \in 0 .. N /\ c # N
  BY DEF Meta, WindowOK
<1>2. wp = (rp + c) % N
  BY DEF WindowOK, SlotOf
<1>3. /\ Advanced(m) = [read_pointer |-> rp, write_pointer |-> nwp,
                        full |-> (nwp = rp), cur_n |-> c + 1]
      /\ Advanced(m).full <=> (nwp = rp)
      /\ Advanced(m).read_pointer = rp
      /\ Advanced(m).write_pointer = nwp
      /\ Advanced(m).cur_n = c + 1
  BY DEF Advanced
<1> HIDE DEF rp, wp, c
<1>4. c + 1 \in 1 .. N /\ 1 \in 0 .. N /\ c + 1 <= N
  BY <1>1, NAssumption
<1>5. nwp = (rp + (c + 1)) % N
  BY <1>1, <1>2, <1>4, WrapOn
<1>6. nwp \in Slots
  BY <1>1, <1>4, Wrap
<1>7. (nwp = rp) <=> (c + 1 = N)
  <2>1. /\ rp + (c + 1) < N => nwp = rp + (c + 1)
        /\ rp + (c + 1) >= N => nwp = rp + (c + 1) - N
    <3> HIDE DEF nwp
    <3>1. c + 1 \in 0 .. N
      BY <1>1, <1>4
    <3> QED
      BY <1>1, <3>1, <1>5, Wrap
  <2>2. rp \in 0 .. N - 1
    BY <1>1 DEF Slots
  <2> HIDE DEF nwp
  <2> QED
    BY <2>1, <2>2, <1>4, <1>1, NAssumption
<1> HIDE DEF nwp
<1>8. Advanced(m) \in Meta
  BY <1>1, <1>3, <1>4, <1>6 DEF Meta
<1>9. WindowOK(Advanced(m))
  <2>1. c + 1 \in 0 .. N
    BY <1>1, <1>4
  <2>2. Advanced(m).full <=> c + 1 = N
    BY <1>3, <1>7
  <2> QED
    BY <1>3, <1>5, <2>1, <2>2 DEF WindowOK, SlotOf
<1> QED
  BY <1>3, <1>8, <1>9 DEF rp, c

LEMMA ConsumedOK ==
  ASSUME NEW m \in Meta, WindowOK(m), NEW n \in 1 .. m.cur_n
  PROVE  /\ Consumed(m, n) \in Meta /\ WindowOK(Consumed(m, n))
         /\ Consumed(m, n).read_pointer = (m.read_pointer + n) % N
         /\ Consumed(m, n).cur_n = m.cur_n - n
<1> DEFINE rp == m.read_pointer
           wp == m.write_pointer
           c  == m.cur_n
           nrp == (rp + n) % N
<1>1. rp \in Slots /\ wp \in Slots /\ c \in 0 .. N
  BY DEF Meta, WindowOK
<1>2. wp = (rp + c) % N
  BY DEF WindowOK, SlotOf
<1>3. Consumed(m, n) = [read_pointer |-> nrp, write_pointer |-> wp,
                        full |-> FALSE, cur_n |-> c - n]
  BY DEF Consumed
<1>4. n \in 1 .. c
  OBVIOUS
<1> HIDE DEF rp, wp, c
<1>5. n \in 0 .. N /\ c - n \in 0 .. N /\ n + (c - n) = c /\ c - n < N
  BY <1>1, <1>4, NAssumption
<1>6. nrp \in Slots
  BY <1>1, <1>5, Wrap
<1>7. (nrp + (c - n)) % N = wp
  <2>1. n + (c - n) <= N
    BY <1>1, <1>5
  <2> QED
    BY <1>1, <1>2, <1>5, <2>1, WrapOn
<1> HIDE DEF nrp
<1>8. Consumed(m, n) \in Meta
  BY <1>1, <1>3, <1>5, <1>6 DEF Meta
<1>9. WindowOK(Consumed(m, n))
  BY <1>1, <1>3, <1>5, <1>7, NAssumption DEF WindowOK, SlotOf
<1> QED
  BY <1>3, <1>8, <1>9 DEF rp, c, nrp

(***************************************************************************)
(* Types of what the actions assign.                                       *)
(***************************************************************************)

LEMMA ElementType ==
  ASSUME JournalTypeOK, NEW m \in Meta, NEW i \in 0 .. N
  PROVE  SlotOf(m, i) \in Slots /\ Element(m, i) \in Elements
<1>1. SlotOf(m, i) \in Slots
  BY Wrap DEF SlotOf, Meta
<1> QED
  BY <1>1 DEF Element, JournalTypeOK

LEMMA LoadType ==
  ASSUME JournalTypeOK, NEW m \in Meta, NEW k \in 0 .. N
  PROVE  Load(m, k) \in [Blocks -> [n : Nat, data : Values]]
<1> SUFFICES ASSUME NEW b \in Blocks
             PROVE  Load(m, k)[b] \in [n : Nat, data : Values]
  BY DEF Load
<1> DEFINE hits == {i \in 0 .. k - 1 : Element(m, i).target_block = b}
<1>1. Cardinality(hits) \in Nat
  <2>1. IsFiniteSet(0 .. k - 1)
    BY FS_Interval, NAssumption
  <2>2. IsFiniteSet(hits)
    BY <2>1, FS_Subset, Zenon
  <2> QED
    BY <2>2, FS_CardinalityType
<1>2. hits # {} => Element(m, Max(hits)).data \in Values
  <2>1. SUFFICES ASSUME hits # {} PROVE Element(m, Max(hits)).data \in Values
    OBVIOUS
  <2>2. hits \subseteq 0 .. N /\ N \in Nat
    BY NAssumption
  <2>3. Max(hits) \in hits
    <3> HIDE DEF hits
    <3> QED
      BY <2>1, <2>2, MaxOfSet
  <2>4. Max(hits) \in 0 .. N
    BY <2>2, <2>3
  <2> HIDE DEF hits
  <2> QED
    BY <2>4, ElementType DEF Elements
<1>3. Load(m, k)[b] = [n |-> Cardinality(hits),
                       data |-> IF hits = {} THEN Zero ELSE Element(m, Max(hits)).data]
  BY DEF Load
<1> HIDE DEF hits
<1> QED
  BY <1>1, <1>2, <1>3, ZeroAssumption

LEMMA ReplayedType ==
  ASSUME JournalTypeOK, NEW m \in Meta, NEW k \in 0 .. N, NEW b \in Blocks
  PROVE  Replayed(m, k, b) \in Values
BY LoadType DEF Replayed, JournalTypeOK

LEMMA ReplayableType ==
  ASSUME NEW m \in Meta, m.cur_n \in 0 .. N
  PROVE  Replayable(m) \in 0 .. m.cur_n
<1> DEFINE G == {i \in Window(m) : \A j \in 0 .. i : Element(m, j).a # "invalid"}
<1>1. IsFiniteSet(Window(m)) /\ Cardinality(Window(m)) = m.cur_n
  <2> DEFINE n == m.cur_n
  <2>1. n \in Nat
    BY DEF Meta
  <2> HIDE DEF n
  <2>2. IsFiniteSet(0 .. n - 1) /\ Cardinality(0 .. n - 1) = n
    <3>1. 0 \in Int /\ n - 1 \in Int
      BY <2>1
    <3>2. /\ IsFiniteSet(0 .. n - 1)
          /\ Cardinality(0 .. n - 1) = IF 0 > n - 1 THEN 0 ELSE n - 1 - 0 + 1
      BY <3>1, FS_Interval, Zenon
    <3>3. (IF 0 > n - 1 THEN 0 ELSE n - 1 - 0 + 1) = n
      BY <2>1
    <3> QED
      BY <3>2, <3>3
  <2> QED
    BY <2>2 DEF Window, n
<1>2. G \subseteq Window(m)
  OBVIOUS
<1>3. IsFiniteSet(G) /\ Cardinality(G) <= m.cur_n
  <2> HIDE DEF G
  <2> QED
    BY <1>1, <1>2, FS_Subset
<1>4. Cardinality(G) \in Nat
  BY <1>3, FS_CardinalityType
<1> QED
  BY <1>3, <1>4 DEF Replayable

LEMMA FinishType ==
  ASSUME ClientsTypeOK, NEW c \in Clients, Finish(c)
  PROVE  ClientsTypeOK'
BY NumBlocksAssumption DEF ClientsTypeOK, Finish, Blocks

LEMMA PushFailedType ==
  ASSUME ClientsTypeOK, NEW c \in Clients, PushFailed(c)
  PROVE  ClientsTypeOK'
BY FinishType DEF PushFailed, ClientsTypeOK

(***************************************************************************)
(* The inductive step, action by action.                                   *)
(***************************************************************************)

\* steps that leave the ring alone and do not enter an iteration
LEMMA RingUnchanged ==
  ASSUME RingConsistent, RunOK, StoredPrefix,
         UNCHANGED <<jm, meta, fatal, run>>,
         fpc' = fpc \/ fpc' \notin {"data", "meta", "clear"}
  PROVE  RingConsistent' /\ RunOK' /\ StoredPrefix'
<1>1. RingConsistent'
  BY DEF RingConsistent, WindowOK, SlotOf
<1>2. RunOK'
  BY DEF RunOK
<1>3. StoredPrefix'
  BY DEF StoredPrefix
<1> QED
  BY <1>1, <1>2, <1>3

\* the actions of the clients that leave the journal alone
LEMMA ClientQuiet ==
  ASSUME IInv, NEW c \in Clients,
         \/ Begin(c) \/ Check(c) \/ Wait(c) \/ SpuriousWake(c) \/ Terminated(c)
  PROVE  IInv'
<1>1. UNCHANGED <<jvars, stop, fpc, run, owner, may>>
  BY DEF Begin, Check, Wait, SpuriousWake, Terminated
<1>2. JournalTypeOK'
  BY <1>1 DEF IInv, TypeOK, JournalTypeOK, jvars
<1>3. RingConsistent' /\ RunOK' /\ StoredPrefix'
  BY <1>1, RingUnchanged DEF IInv, jvars
<1>4. ClientsTypeOK'
  <2> USE DEF IInv, TypeOK
  <2>1. CASE Begin(c)
    BY <2>1 DEF Begin, ClientsTypeOK, Requests
  <2>2. CASE Check(c)
    BY <2>2, PushFailedType DEF Check, ClientsTypeOK
  <2>3. CASE Wait(c) \/ SpuriousWake(c)
    BY <2>3 DEF Wait, SpuriousWake, ClientsTypeOK
  <2>4. CASE Terminated(c)
    BY <2>4, PushFailedType DEF Terminated
  <2> QED
    BY <2>1, <2>2, <2>3, <2>4
<1> QED
  BY <1>2, <1>3, <1>4 DEF IInv, TypeOK

LEMMA PushOK ==
  ASSUME IInv, NEW c \in Clients, Push(c)
  PROVE  IInv'
<1> USE DEF IInv, TypeOK
<1>1. jm \in Meta /\ WindowOK(jm) /\ ~jm.full /\ jm' = Advanced(jm)
  BY DEF JournalTypeOK, RingConsistent, Push
<1>2. /\ jm' \in Meta /\ WindowOK(jm')
      /\ jm'.read_pointer = jm.read_pointer
      /\ jm'.cur_n = jm.cur_n + 1
  BY <1>1, AdvancedOK
<1>3. fpc \notin {"checked", "data", "meta", "clear"} /\ fpc' = FlusherWoken
  BY DEF Push, LockFree
<1>4. ClientsTypeOK'
  <2>1. CASE at[c] < req[c].last
    <3>1. at[c] + 1 \in Blocks
      <4>1. at[c] \in Blocks /\ req[c] \in Requests \cup {NoRequest}
        BY DEF ClientsTypeOK
      <4>2. req[c].last \in Blocks
        BY <4>1, NumBlocksAssumption DEF Requests, NoRequest, Blocks
      <4> QED
        BY <2>1, <4>1, <4>2, NumBlocksAssumption DEF Blocks
    <3> QED
      BY <2>1, <3>1 DEF Push, ClientsTypeOK
  <2>2. CASE ~(at[c] < req[c].last) /\ req[c].a = "write"
    BY <2>2 DEF Push, ClientsTypeOK
  <2>3. CASE ~(at[c] < req[c].last) /\ req[c].a # "write"
    BY <2>3, FinishType DEF Push
  <2> QED
    BY <2>1, <2>2, <2>3
<1>5. req[c].data \in Values /\ at[c] \in Blocks
  BY ZeroAssumption DEF ClientsTypeOK, Requests, NoRequest
<1>6. req[c].a \in Actions \cup {"invalid"}
  BY OpsAssumption DEF ClientsTypeOK, Requests, NoRequest
<1>7. JournalTypeOK'
  <2>1. slots' \in [Slots -> Elements]
    BY <1>5, <1>6 DEF Push, JournalTypeOK, Elements
  <2>2. cache' \in [Blocks -> [n : Nat, data : Values]]
    BY <1>5 DEF Push, JournalTypeOK
  <2>3. may' \in [Blocks -> SUBSET Values]
    BY <1>5 DEF Push, JournalTypeOK
  <2> QED
    BY <1>2, <1>3, <2>1, <2>2, <2>3 DEF Push, JournalTypeOK, FlusherWoken
<1>8. RingConsistent'
  BY <1>2 DEF Push, RingConsistent, WindowOK, SlotOf
<1>9. RunOK'
  BY <1>3 DEF RunOK, FlusherWoken
<1>10. StoredPrefix'
  <2>1. jm.cur_n \in Int /\ meta.cur_n \in Int
    BY DEF JournalTypeOK, Meta
  <2> QED
    BY <1>2, <2>1 DEF Push, StoredPrefix
<1> QED
  BY <1>4, <1>7, <1>8, <1>9, <1>10

LEMMA PushIOErrorOK ==
  ASSUME IInv, NEW c \in Clients, PushIOError(c)
  PROVE  IInv'
<1> USE DEF IInv, TypeOK
<1>1. UNCHANGED <<jm, meta, data, meta_dirty, cache, fatal, stop, fpc, run, owner, may>>
  BY DEF PushIOError
<1>2. ClientsTypeOK'
  BY PushFailedType DEF PushIOError
<1>3. slots' \in [Slots -> Elements]
  <2>1. Invalid \in Elements
    BY ZeroAssumption, NumBlocksAssumption DEF Invalid, Elements, Blocks
  <2>2. slots \in [Slots -> Elements]
    BY DEF JournalTypeOK
  <2>3. slots' = slots \/ slots' = [slots EXCEPT ![jm.write_pointer] = Invalid]
    BY DEF PushIOError
  <2> QED
    BY <2>1, <2>2, <2>3
<1>4. JournalTypeOK'
  BY <1>1, <1>3 DEF JournalTypeOK
<1>5. RingConsistent' /\ RunOK' /\ StoredPrefix'
  BY <1>1, RingUnchanged
<1> QED
  BY <1>2, <1>4, <1>5

LEMMA TransactionEndOK ==
  ASSUME IInv, NEW c \in Clients, TransactionEnd(c) \/ TransactionEndIOError(c)
  PROVE  IInv'
<1> USE DEF IInv, TypeOK
<1>1. /\ UNCHANGED <<jm, slots, data, cache, fatal, stop, fpc, run, owner>>
      /\ meta' \in {meta, jm} /\ meta_dirty' \in BOOLEAN
      /\ fpc \notin {"data", "meta", "clear"}
  BY DEF TransactionEnd, TransactionEndIOError, JournalTypeOK, LockFree
<1>2. ClientsTypeOK'
  BY FinishType DEF TransactionEnd, TransactionEndIOError
<1>3. may' \in [Blocks -> SUBSET Values]
  <2>1. jm \in Meta /\ jm.cur_n \in 0 .. N
    BY DEF JournalTypeOK, RingConsistent, WindowOK
  <2>2. \A b \in Blocks : Replayed(jm, jm.cur_n, b) \in Values
    BY <2>1, ReplayedType
  <2>3. CASE TransactionEnd(c)
    BY <2>2, <2>3 DEF TransactionEnd, JournalTypeOK
  <2>4. CASE TransactionEndIOError(c)
    BY <2>4 DEF TransactionEndIOError, JournalTypeOK
  <2> QED
    BY <2>3, <2>4
<1>4. JournalTypeOK'
  BY <1>1, <1>3 DEF JournalTypeOK
<1>5. RingConsistent'
  BY <1>1 DEF RingConsistent, WindowOK, SlotOf
<1>6. RunOK'
  BY <1>1 DEF RunOK
<1>7. StoredPrefix'
  <2>1. jm.cur_n \in Int
    BY DEF JournalTypeOK, Meta
  <2> QED
    BY <1>1, <2>1 DEF StoredPrefix
<1> QED
  BY <1>2, <1>4, <1>5, <1>6, <1>7

\* the steps of the flusher outside an iteration, and those of the owner
LEMMA OutsideOK ==
  ASSUME IInv,
         \/ FlusherStopped \/ FlusherChecks \/ FlusherSleeps \/ FlusherWakes
         \/ FlushJournal \/ Destroy \/ DestroyNotifies
  PROVE  IInv'
<1> USE DEF IInv, TypeOK
<1>1. /\ UNCHANGED <<jvars, run, req, at, err, may>>
      /\ fpc' = fpc \/ fpc' \in {"dead", "checked", "sleep", "top"}
      /\ stop' \in BOOLEAN
      /\ owner' \in {"run", "drain", "stopped", "stopping", "join"}
      /\ pc' = pc \/ pc' = ClientsWoken
  BY DEF FlusherStopped, FlusherChecks, FlusherSleeps, FlusherWakes, FlushJournal,
         Destroy, DestroyNotifies, FlusherWoken, cvars, JournalTypeOK
<1>2. JournalTypeOK'
  BY <1>1 DEF JournalTypeOK, jvars
<1>3. ClientsTypeOK'
  BY <1>1 DEF ClientsTypeOK, ClientsWoken
<1>4. RingConsistent' /\ RunOK' /\ StoredPrefix'
  BY <1>1, RingUnchanged DEF jvars
<1> QED
  BY <1>2, <1>3, <1>4

\* a ring that is not empty has elements
LEMMA NotEmpty ==
  ASSUME NEW m \in Meta, WindowOK(m), ~IsEmpty(m)
  PROVE  m.cur_n \in 1 .. N
<1>1. m.cur_n \in 0 .. N /\ m.read_pointer \in Slots
  BY DEF WindowOK, Meta
<1>2. ASSUME m.cur_n = 0 PROVE FALSE
  <2>1. 0 \in 0 .. N /\ m.read_pointer + 0 < N
    BY <1>1, NAssumption DEF Slots
  <2>2. m.write_pointer = m.read_pointer
    BY <1>1, <1>2, <2>1, Wrap DEF WindowOK, SlotOf, Slots
  <2>3. ~m.full
    BY <1>2, NAssumption DEF WindowOK
  <2> QED
    BY <2>2, <2>3 DEF IsEmpty
<1> QED
  BY <1>1, <1>2

LEMMA FlusherTakesOK ==
  ASSUME IInv, FlusherTakes
  PROVE  IInv'
<1> USE DEF IInv, TypeOK
<1>1. jm \in Meta /\ WindowOK(jm) /\ ~IsEmpty(jm)
  BY DEF FlusherTakes, JournalTypeOK, RingConsistent
<1>2. jm.cur_n \in 1 .. N
  BY <1>1, NotEmpty
<1>3. RunLength \in 1 .. jm.cur_n
  BY <1>2, RunLengthType, NAssumption
<1>4. /\ UNCHANGED <<jvars, stop, owner, cvars, may>>
      /\ run' = [base |-> jm.read_pointer, n |-> RunLength, i |-> 0]
      /\ fpc' = "data"
  BY DEF FlusherTakes
<1>5. JournalTypeOK'
  <2>1. run' \in RunType
    BY <1>1, <1>2, <1>3, <1>4, NAssumption DEF RunType, Meta
  <2> QED
    BY <1>4, <2>1 DEF JournalTypeOK, jvars
<1>6. ClientsTypeOK'
  BY <1>4 DEF ClientsTypeOK, cvars
<1>7. RunOK'
  BY <1>2, <1>3, <1>4 DEF RunOK, jvars
<1>8. RingConsistent' /\ StoredPrefix'
  BY <1>4 DEF RingConsistent, WindowOK, SlotOf, StoredPrefix, jvars
<1> QED
  BY <1>5, <1>6, <1>7, <1>8

\* the iteration ends because of an error before the ring has changed
LEMMA FlusherDiesOK ==
  ASSUME IInv, FlusherTakesIOError \/ FlusherAppliesIOError
  PROVE  IInv'
<1> USE DEF IInv, TypeOK
<1>1. /\ UNCHANGED <<jm, meta, slots, data, meta_dirty, cache, stop, owner, cvars, may>>
      /\ fatal' = TRUE /\ fpc' = "dead"
      /\ run' = run \/ run' = NoRun
  BY DEF FlusherTakesIOError, FlusherAppliesIOError, Dies
<1>2. run' \in RunType
  BY <1>1, NAssumption DEF JournalTypeOK, NoRun, RunType, Slots
<1>3. JournalTypeOK'
  BY <1>1, <1>2 DEF JournalTypeOK
<1>4. ClientsTypeOK'
  BY <1>1 DEF ClientsTypeOK, cvars
<1>5. RunOK'
  BY <1>1 DEF RunOK
<1>6. RingConsistent' /\ StoredPrefix'
  BY <1>1 DEF RingConsistent, WindowOK, SlotOf, StoredPrefix
<1> QED
  BY <1>3, <1>4, <1>5, <1>6

LEMMA FlusherAppliesOK ==
  ASSUME IInv, FlusherApplies
  PROVE  IInv'
<1> USE DEF IInv, TypeOK
<1>1. /\ UNCHANGED <<jm, meta, slots, meta_dirty, cache, fatal, stop, owner, cvars, may>>
      /\ run' = [run EXCEPT !.i = @ + 1]
      /\ data' = [data EXCEPT ![FirstBlock + run.i] = Element(jm, run.i).data]
      /\ fpc = "data"
      /\ fpc' = IF run.i + 1 = run.n THEN "meta" ELSE "data"
  BY DEF FlusherApplies
<1>2. /\ run.n \in 1 .. jm.cur_n /\ run.i < run.n /\ run.base = jm.read_pointer
      /\ jm.cur_n \in 0 .. N /\ run \in RunType
  BY <1>1 DEF RunOK, RingConsistent, WindowOK, JournalTypeOK
<1>3. run.i + 1 \in 0 .. N /\ run.i + 1 <= run.n
  BY <1>2, NAssumption DEF RunType
<1>4. /\ run' \in RunType /\ run'.n = run.n /\ run'.base = run.base
      /\ run'.i = run.i + 1
  BY <1>1, <1>2, <1>3 DEF RunType
<1>5. Element(jm, run.i).data \in Values
  <2>1. run.i \in 0 .. N /\ jm \in Meta
    BY <1>2 DEF RunType, JournalTypeOK
  <2> QED
    BY <2>1, ElementType DEF Elements
<1>6. JournalTypeOK'
  BY <1>1, <1>4, <1>5 DEF JournalTypeOK
<1>7. ClientsTypeOK'
  BY <1>1 DEF ClientsTypeOK, cvars
<1>8. RunOK'
  BY <1>1, <1>2, <1>3, <1>4 DEF RunOK, RunType
<1>9. RingConsistent' /\ StoredPrefix'
  BY <1>1 DEF RingConsistent, WindowOK, SlotOf, StoredPrefix
<1> QED
  BY <1>6, <1>7, <1>8, <1>9

LEMMA FlusherCommitsOK ==
  ASSUME IInv, FlusherCommits \/ FlusherCommitsIOError
  PROVE  IInv'
<1> USE DEF IInv, TypeOK
<1>1. /\ fpc = "meta"
      /\ jm' = Consumed(jm, run.n)
      /\ cache' = CacheAfterRun
      /\ UNCHANGED <<slots, data, stop, owner, cvars, may>>
      /\ meta_dirty' \in BOOLEAN /\ fatal' \in BOOLEAN
  BY DEF FlusherCommits, FlusherCommitsIOError, Dies
<1>2. jm \in Meta /\ WindowOK(jm) /\ run \in RunType /\ run.n \in 1 .. jm.cur_n
  BY <1>1 DEF RunOK, RingConsistent, JournalTypeOK
<1>3. /\ jm' \in Meta /\ WindowOK(jm')
      /\ jm'.read_pointer = (jm.read_pointer + run.n) % N
      /\ jm'.cur_n = jm.cur_n - run.n
  BY <1>1, <1>2, ConsumedOK
<1>4. cache' \in [Blocks -> [n : Nat, data : Values]]
  <2>1. cache \in [Blocks -> [n : Nat, data : Values]]
    BY DEF JournalTypeOK
  <2>2. CacheWithoutRun \in [Blocks -> [n : Nat, data : Values]]
    <3> SUFFICES ASSUME NEW b \in Blocks
                 PROVE  CacheWithoutRun[b] \in [n : Nat, data : Values]
      BY DEF CacheWithoutRun
    <3>1. CASE b \notin RunBlocks \/ cache[b].n = 0
      BY <2>1, <3>1 DEF CacheWithoutRun
    <3>2. CASE b \in RunBlocks /\ cache[b].n = 1
      BY <3>2, ZeroAssumption DEF CacheWithoutRun
    <3>3. CASE b \in RunBlocks /\ cache[b].n # 0 /\ cache[b].n # 1
      <4>1. CacheWithoutRun[b] = [cache[b] EXCEPT !.n = @ - 1]
        BY <3>3 DEF CacheWithoutRun
      <4>2. cache[b] \in [n : Nat, data : Values] /\ cache[b].n - 1 \in Nat
        BY <2>1, <3>3
      <4> QED
        BY <4>1, <4>2
    <3> QED
      BY <3>1, <3>2, <3>3
  <2> QED
    BY <1>1, <2>1, <2>2 DEF CacheAfterRun
<1>5. ClientsTypeOK'
  BY <1>1 DEF ClientsTypeOK, cvars
<1>6. CASE FlusherCommits
  <2>1. /\ meta' = jm' /\ fpc' = "clear"
        /\ run' = [run EXCEPT !.i = 0]
    BY <1>6 DEF FlusherCommits
  <2>2. run' \in RunType /\ run'.n = run.n /\ run'.base = run.base /\ run'.i = 0
    BY <1>2, <2>1, NAssumption DEF RunType
  <2>3. JournalTypeOK'
    BY <1>1, <1>3, <1>4, <2>1, <2>2 DEF JournalTypeOK
  <2>4. RingConsistent'
    BY <1>3, <2>1 DEF RingConsistent, WindowOK, SlotOf
  <2>5. jm.cur_n \in 0 .. N /\ run.base = jm.read_pointer
    BY <1>1, <1>2 DEF WindowOK, RunOK
  <2>6. RunOK'
    BY <1>2, <1>3, <2>1, <2>2, <2>5, NAssumption DEF RunOK
  <2>7. StoredPrefix'
    BY <1>3, <2>1 DEF StoredPrefix, Meta
  <2> QED
    BY <1>5, <2>3, <2>4, <2>6, <2>7
<1>7. CASE FlusherCommitsIOError
  <2>1. /\ meta' \in {meta, jm'} /\ fpc' = "dead" /\ run' = NoRun
        /\ fatal' = TRUE /\ "meta" \in Faults
    BY <1>7 DEF FlusherCommitsIOError, Dies
  <2>2. run' \in RunType
    BY <2>1, NAssumption DEF NoRun, RunType, Slots
  <2>3. JournalTypeOK'
    BY <1>1, <1>3, <1>4, <2>1, <2>2 DEF JournalTypeOK
  <2>4. RingConsistent'
    BY <1>3, <2>1 DEF RingConsistent, WindowOK, SlotOf
  <2>5. RunOK' /\ StoredPrefix'
    BY <2>1 DEF RunOK, StoredPrefix
  <2> QED
    BY <1>5, <2>3, <2>4, <2>5
<1> QED
  BY <1>6, <1>7

LEMMA MinOfTwo ==
  ASSUME NEW a \in Int, NEW b \in Int
  PROVE  Min({a, b}) = IF a <= b THEN a ELSE b
<1> DEFINE m == IF a <= b THEN a ELSE b
<1>1. m \in {a, b} /\ \A y \in {a, b} : m =< y
  OBVIOUS
<1>2. ASSUME NEW x \in {a, b}, \A y \in {a, b} : x =< y
      PROVE  x = m
  BY <1>2
<1> QED
  BY <1>1, <1>2 DEF Min

LEMMA ChunkType ==
  ASSUME run \in RunType, run.i < run.n
  PROVE  Chunk \in 1 .. run.n - run.i
<1>1. (run.base + run.i) % N \in 0 .. N - 1
  BY Wrap DEF RunType, Slots
<1>2. run.n - run.i \in Nat \ {0} /\ N - ((run.base + run.i) % N) \in Nat \ {0}
  BY <1>1, NAssumption DEF RunType
<1> DEFINE x == run.n - run.i
           y == N - ((run.base + run.i) % N)
<1>3. Chunk = IF x <= y THEN x ELSE y
  <2>1. x \in Int /\ y \in Int
    BY <1>2
  <2> HIDE DEF x, y
  <2>2. Min({x, y}) = IF x <= y THEN x ELSE y
    BY <2>1, MinOfTwo
  <2> QED
    BY <2>2 DEF Chunk, x, y
<1> HIDE DEF y
<1> QED
  BY <1>2, <1>3 DEF y

LEMMA FlusherClearsOK ==
  ASSUME IInv, FlusherClears \/ FlusherClearsIOError
  PROVE  IInv'
<1> USE DEF IInv, TypeOK
<1>1. /\ UNCHANGED <<jm, meta, data, meta_dirty, cache, stop, owner, req, at, err, may>>
      /\ fpc = "clear" /\ fatal' \in BOOLEAN
      /\ fpc' \in {"clear", "top"}
      /\ pc' \in {pc, ClientsWoken}
      /\ ClearSlots \/ UNCHANGED slots
  BY DEF FlusherClears, FlusherClearsIOError, JournalTypeOK
<1>2. run \in RunType /\ run.n \in 1 .. N /\ run.i < run.n
  BY <1>1 DEF RunOK, JournalTypeOK
<1>3. Chunk \in 1 .. run.n - run.i
  BY <1>2, ChunkType
<1>4. slots' \in [Slots -> Elements]
  <2>1. Invalid \in Elements
    BY ZeroAssumption, NumBlocksAssumption DEF Invalid, Elements, Blocks
  <2>2. slots \in [Slots -> Elements]
    BY DEF JournalTypeOK
  <2>3. CASE ClearSlots
    BY <2>1, <2>2, <2>3 DEF ClearSlots
  <2>4. CASE UNCHANGED slots
    BY <2>2, <2>4
  <2> QED
    BY <1>1, <2>3, <2>4
<1>5. ClientsTypeOK'
  BY <1>1 DEF ClientsTypeOK, ClientsWoken
<1>6. owner' \in {"run", "drain", "stopped", "stopping", "join"}
  BY <1>1 DEF JournalTypeOK
<1>7. RingConsistent' /\ StoredPrefix'
  <2>1. fatal' = fatal \/ fatal' = TRUE
    BY DEF FlusherClears, FlusherClearsIOError
  <2> QED
    BY <1>1, <2>1 DEF RingConsistent, WindowOK, SlotOf, StoredPrefix
<1>8. run' \in RunType /\ RunOK'
  <2>1. CASE fpc' = "top" /\ run' = NoRun
    BY <2>1, NAssumption DEF NoRun, RunType, Slots, RunOK
  <2>2. CASE /\ fpc' = "clear" /\ run.i + Chunk < run.n
             /\ run' = [run EXCEPT !.i = @ + Chunk]
    <3>1. run.i + Chunk \in 0 .. N
      BY <1>2, <1>3, <2>2, NAssumption DEF RunType
    <3>2. /\ run' \in RunType /\ run'.n = run.n /\ run'.base = run.base
          /\ run'.i = run.i + Chunk
      BY <1>2, <2>2, <3>1 DEF RunType
    <3> QED
      BY <1>1, <1>2, <2>2, <3>2 DEF RunOK
  <2>3. (fpc' = "top" /\ run' = NoRun)
        \/ (fpc' = "clear" /\ run.i + Chunk < run.n
            /\ run' = [run EXCEPT !.i = @ + Chunk])
    BY <1>1 DEF FlusherClears, FlusherClearsIOError
  <2> QED
    BY <2>1, <2>2, <2>3
<1>9. JournalTypeOK'
  BY <1>1, <1>4, <1>6, <1>8 DEF JournalTypeOK
<1> QED
  BY <1>5, <1>7, <1>8, <1>9

LEMMA ConstructOK ==
  ASSUME IInv, Construct
  PROVE  IInv'
<1> USE DEF IInv, TypeOK
<1>1. meta \in Meta /\ WindowOK(meta) /\ meta.cur_n \in 0 .. N
  BY DEF JournalTypeOK, RingConsistent, WindowOK
<1>2. Replayable(meta) \in 0 .. N
  <2>1. Replayable(meta) \in 0 .. meta.cur_n
    BY <1>1, ReplayableType
  <2> QED
    BY <1>1, <2>1, NAssumption
<1>3. PICK k \in 0 .. N : Boot(k)
  BY <1>2, NAssumption DEF Construct
<1>4. run' \in RunType
  BY <1>3, NAssumption DEF Boot, NoRun, RunType, Slots
<1>5. cache' \in [Blocks -> [n : Nat, data : Values]]
  BY <1>1, <1>3, LoadType DEF Boot
<1>6. may' \in [Blocks -> SUBSET Values]
  BY <1>1, <1>2, <1>3, ReplayedType DEF Boot, Recovered
<1>7. JournalTypeOK'
  BY <1>1, <1>3, <1>4, <1>5, <1>6 DEF Boot, JournalTypeOK
<1>8. ClientsTypeOK'
  BY <1>3, NumBlocksAssumption DEF Boot, ClientsTypeOK, Blocks
<1>9. RingConsistent'
  BY <1>1, <1>3 DEF Boot, RingConsistent, WindowOK, SlotOf
<1>10. RunOK' /\ StoredPrefix'
  BY <1>1, <1>3 DEF Boot, RunOK, StoredPrefix, Meta
<1> QED
  BY <1>7, <1>8, <1>9, <1>10

LEMMA InitOK == Init => IInv
<1> SUFFICES ASSUME Init PROVE IInv
  OBVIOUS
<1> USE NAssumption, NumBlocksAssumption, ZeroAssumption DEF Init
<1>1. NewMeta \in Meta /\ WindowOK(NewMeta)
  <2>1. 0 \in Slots /\ 0 \in 0 .. N /\ 0 + 0 < N
    BY DEF Slots
  <2>2. (0 + 0) % N = 0
    BY <2>1, Wrap
  <2> QED
    BY <2>1, <2>2 DEF NewMeta, Meta, WindowOK, SlotOf
<1>2. Invalid \in Elements
  BY DEF Invalid, Elements, Blocks
<1>3. JournalTypeOK
  <2>1. run \in RunType
    BY DEF NoRun, RunType, Slots
  <2>2. slots \in [Slots -> Elements]
    BY <1>2
  <2>3. cache \in [Blocks -> [n : Nat, data : Values]]
    OBVIOUS
  <2>4. data \in [Blocks -> Values] /\ may \in [Blocks -> SUBSET Values]
    OBVIOUS
  <2> QED
    BY <1>1, <2>1, <2>2, <2>3, <2>4 DEF JournalTypeOK
<1>4. ClientsTypeOK
  BY DEF ClientsTypeOK, Blocks
<1>5. RingConsistent /\ RunOK /\ StoredPrefix
  BY <1>1 DEF RingConsistent, RunOK, StoredPrefix, NewMeta
<1> QED
  BY <1>3, <1>4, <1>5 DEF IInv, TypeOK

LEMMA NextOK == IInv /\ [Next]_vars => IInv'
<1> SUFFICES ASSUME IInv, [Next]_vars PROVE IInv'
  OBVIOUS
<1>1. ASSUME NEW c \in Clients, Client(c) PROVE IInv'
  BY <1>1, ClientQuiet, PushOK, PushIOErrorOK, TransactionEndOK DEF Client, ClientStep
<1>2. CASE Flusher
  BY <1>2, OutsideOK, FlusherTakesOK, FlusherDiesOK, FlusherAppliesOK,
     FlusherCommitsOK, FlusherClearsOK DEF Flusher, FlusherStep
<1>3. CASE Owner
  BY <1>3, OutsideOK, ConstructOK DEF Owner, Destroyed
<1>4. CASE Crash
  BY <1>4, ConstructOK DEF Crash
<1>5. CASE UNCHANGED vars
  BY <1>5 DEF vars, jvars, cvars, IInv, TypeOK, JournalTypeOK, ClientsTypeOK,
     RingConsistent, WindowOK, SlotOf, RunOK, StoredPrefix
<1> QED
  BY <1>1, <1>2, <1>3, <1>4, <1>5 DEF Next

\* Every variable of the journal has a value of its type in every reachable
\* state, whatever fails and whenever the process is killed.
THEOREM TypeCorrect == Spec => []TypeOK
<1>1. IInv => TypeOK
  BY DEF IInv
<1> QED
  BY <1>1, InitOK, NextOK, PTL DEF Spec

\* The counters of the ring agree in memory and in storage for every number
\* of slots: push_action and operator() never lose count of the elements.
THEOREM RingAlwaysConsistent == Spec => []RingConsistent
<1>1. IInv => RingConsistent
  BY DEF IInv
<1> QED
  BY <1>1, InitOK, NextOK, PTL DEF Spec

(***************************************************************************)
(* Slots in use are not written.                                           *)
(***************************************************************************)

\* the slot a push writes is outside the window of the stored meta data
LEMMA PushedSlotIsFree ==
  ASSUME IInv, ~fatal, ~jm.full, NEW i \in Window(meta)
  PROVE  SlotOf(meta, i) # jm.write_pointer
<1> USE DEF IInv, TypeOK
<1>1. /\ jm \in Meta /\ meta \in Meta
      /\ jm.cur_n \in 0 .. N /\ jm.cur_n # N /\ meta.cur_n \in 0 .. N
      /\ jm.write_pointer = (jm.read_pointer + jm.cur_n) % N
  BY DEF JournalTypeOK, RingConsistent, WindowOK, SlotOf
<1>2. meta.read_pointer = jm.read_pointer /\ meta.cur_n <= jm.cur_n
  BY DEF StoredPrefix
<1>3. i \in 0 .. N /\ i < jm.cur_n /\ jm.cur_n - i < N
  BY <1>1, <1>2, NAssumption DEF Window
<1>4. jm.read_pointer \in Slots
  BY <1>1 DEF Meta
<1> QED
  BY <1>1, <1>2, <1>3, <1>4, WrapInjective DEF SlotOf

\* the slots that are cleared come before the window
LEMMA ClearedSlotIsFree ==
  ASSUME IInv, fpc = "clear", NEW i \in Window(meta)
  PROVE  SlotOf(meta, i) \notin Cleared
<1> USE DEF IInv, TypeOK
<1>1. /\ run \in RunType /\ run.n \in 1 .. N /\ run.i < run.n
      /\ meta = jm /\ jm.cur_n + run.n <= N
      /\ jm.read_pointer = (run.base + run.n) % N
      /\ jm \in Meta /\ jm.cur_n \in 0 .. N
  BY DEF RunOK, JournalTypeOK, RingConsistent, WindowOK
<1>2. Chunk \in 1 .. run.n - run.i
  BY <1>1, ChunkType
<1>3. run.base \in Slots /\ run.n \in 0 .. N /\ run.i \in 0 .. N
  BY <1>1 DEF RunType
<1>4. i \in 0 .. N /\ run.n + i <= N - 1 /\ run.n + i \in 0 .. N
  BY <1>1, <1>3, NAssumption DEF Window
<1>5. SlotOf(meta, i) = (run.base + (run.n + i)) % N
  BY <1>1, <1>3, <1>4, WrapOn, NAssumption DEF SlotOf
<1>6. ASSUME NEW k \in run.i .. run.i + Chunk - 1
      PROVE  (run.base + k) % N # (run.base + (run.n + i)) % N
  <2>1. k \in 0 .. N /\ k < run.n + i /\ run.n + i - k < N
    BY <1>2, <1>3, <1>4, NAssumption DEF Window
  <2> QED
    BY <1>3, <1>4, <2>1, WrapInjective
<1> QED
  BY <1>5, <1>6 DEF Cleared

LEMMA LiveSlotStep ==
  ASSUME IInv, [Next]_vars, ~fatal, NEW i \in Window(meta)
  PROVE  slots'[SlotOf(meta, i)] = slots[SlotOf(meta, i)]
<1> USE DEF IInv, TypeOK
<1> DEFINE live == SlotOf(meta, i)
<1>1. live \in Slots /\ slots \in [Slots -> Elements]
  <2>1. meta \in Meta /\ i \in 0 .. N
    BY NAssumption DEF JournalTypeOK, RingConsistent, WindowOK, Window
  <2> QED
    BY <2>1, ElementType DEF JournalTypeOK
<1> SUFFICES slots'[live] = slots[live]
  OBVIOUS
<1> HIDE DEF live
<1>2. ASSUME NEW c \in Clients, Push(c) \/ PushIOError(c)
      PROVE  slots'[live] = slots[live]
  <2>1. live # jm.write_pointer
    BY <1>2, PushedSlotIsFree DEF Push, PushIOError, live
  <2>2. \/ slots' = slots
        \/ \E e : slots' = [slots EXCEPT ![jm.write_pointer] = e]
    BY <1>2 DEF Push, PushIOError
  <2> QED
    BY <1>1, <2>1, <2>2
<1>3. CASE FlusherClears \/ FlusherClearsIOError
  <2>1. live \notin Cleared
    BY <1>3, ClearedSlotIsFree DEF FlusherClears, FlusherClearsIOError, live
  <2>2. slots' = slots \/ ClearSlots
    BY <1>3 DEF FlusherClears, FlusherClearsIOError
  <2> QED
    BY <1>1, <2>1, <2>2 DEF ClearSlots
<1>4. ASSUME NEW c \in Clients,
             \/ Begin(c) \/ Check(c) \/ Wait(c) \/ SpuriousWake(c) \/ Terminated(c)
             \/ TransactionEnd(c) \/ TransactionEndIOError(c)
      PROVE  slots' = slots
  BY <1>4 DEF Begin, Check, Wait, SpuriousWake, Terminated, TransactionEnd,
     TransactionEndIOError, jvars
<1>5. CASE \/ FlusherStopped \/ FlusherChecks \/ FlusherSleeps \/ FlusherWakes
           \/ FlusherTakes \/ FlusherTakesIOError
           \/ FlusherApplies \/ FlusherAppliesIOError
           \/ FlusherCommits \/ FlusherCommitsIOError
  BY <1>5 DEF FlusherStopped, FlusherChecks, FlusherSleeps, FlusherWakes,
     FlusherTakes, FlusherTakesIOError, FlusherApplies, FlusherAppliesIOError,
     FlusherCommits, FlusherCommitsIOError, jvars
<1>6. CASE Owner \/ Crash
  BY <1>6 DEF Owner, FlushJournal, Destroy, DestroyNotifies, Destroyed, Crash,
     Construct, Boot, jvars
<1>7. CASE UNCHANGED vars
  BY <1>7 DEF vars, jvars
<1>8. ASSUME NEW c \in Clients, Client(c)
      PROVE  slots'[live] = slots[live]
  BY <1>8, <1>2, <1>4 DEF Client, ClientStep
<1>9. CASE Flusher
  BY <1>9, <1>3, <1>5 DEF Flusher, FlusherStep
<1> QED
  BY <1>6, <1>7, <1>8, <1>9 DEF Next

\* No step overwrites or clears a slot that the stored meta data still needs,
\* for every size of the ring and however pushes, flushes and restarts mix.
THEOREM LiveSlotsAreKept == Spec => LiveSlotsKept
<1>1. IInv /\ [Next]_vars =>
        [~fatal => \A i \in Window(meta) :
           SlotOf(meta, i) \in {SlotOf(meta', j) : j \in Window(meta')}
             => slots'[SlotOf(meta, i)] = slots[SlotOf(meta, i)]]_vars
  BY LiveSlotStep
<1> QED
  BY <1>1, InitOK, NextOK, PTL DEF Spec, LiveSlotsKept

(***************************************************************************)
(* The elements of a window, as slots and meta data have them.             *)
(***************************************************************************)

\* the i-th element of the window that m describes, when the slots hold s
ElementIn(s, m, i) == s[SlotOf(m, i)]

\* no element of the window is unreadable
ReadableIn(s, m) == \A i \in Window(m) : ElementIn(s, m, i).a # "invalid"

LEMMA WindowType ==
  ASSUME NEW m \in Meta, WindowOK(m)
  PROVE  /\ m.cur_n \in 0 .. N /\ m.read_pointer \in Slots
         /\ Window(m) \subseteq 0 .. N - 1
         /\ \A i \in 0 .. N : SlotOf(m, i) \in Slots
         /\ \A i : i \in Window(m) <=> i \in Int /\ 0 <= i /\ i < m.cur_n
<1>1. m.cur_n \in 0 .. N /\ m.read_pointer \in Slots
  BY DEF WindowOK, Meta
<1>2. \A i : i \in Window(m) <=> i \in Int /\ 0 <= i /\ i < m.cur_n
  BY <1>1, NAssumption DEF Window
<1>3. \A i \in 0 .. N : SlotOf(m, i) \in Slots
  BY <1>1, Wrap DEF SlotOf
<1> QED
  BY <1>1, <1>2, <1>3, NAssumption

\* different elements of a window, and the slot after the last, are different slots
LEMMA WindowDistinct ==
  ASSUME NEW m \in Meta, WindowOK(m), NEW i \in 0 .. N - 1, NEW k \in 0 .. N - 1, i # k
  PROVE  SlotOf(m, i) # SlotOf(m, k)
<1>1. m.read_pointer \in Slots /\ i \in 0 .. N /\ k \in 0 .. N
  BY NAssumption DEF Meta
<1>2. CASE i < k
  BY <1>1, <1>2, WrapInjective, NAssumption DEF SlotOf
<1>3. CASE k < i
  BY <1>1, <1>3, WrapInjective, NAssumption DEF SlotOf
<1> QED
  BY <1>2, <1>3, NAssumption

\* a window that begins n elements later
LEMMA WindowShifted ==
  ASSUME NEW m \in Meta, NEW l \in Meta, NEW n \in 0 .. N,
         l.read_pointer = (m.read_pointer + n) % N,
         NEW i \in 0 .. N, n + i <= N
  PROVE  SlotOf(l, i) = SlotOf(m, n + i)
BY WrapOn DEF SlotOf, Meta

\* the ring after a push
LEMMA AdvancedWindow ==
  ASSUME NEW m \in Meta, WindowOK(m), ~m.full
  PROVE  /\ m.cur_n \in 0 .. N - 1 /\ m.write_pointer \in Slots
         /\ \A i : SlotOf(Advanced(m), i) = SlotOf(m, i)
         /\ SlotOf(m, m.cur_n) = m.write_pointer
         /\ \A i \in Window(Advanced(m)) : i \in Window(m) \/ i = m.cur_n
         /\ \A i \in Window(m) : /\ i \in Window(Advanced(m))
                                 /\ SlotOf(m, i) \in Slots
                                 /\ SlotOf(m, i) # m.write_pointer
<1> DEFINE a == Advanced(m)
<1>1. /\ a \in Meta /\ WindowOK(a) /\ a.read_pointer = m.read_pointer
      /\ a.cur_n = m.cur_n + 1
  BY AdvancedOK
<1>2. /\ m.cur_n \in 0 .. N - 1 /\ m.write_pointer = SlotOf(m, m.cur_n)
      /\ m.write_pointer \in Slots
  BY NAssumption DEF WindowOK, Meta
<1>3. \A i : SlotOf(a, i) = SlotOf(m, i)
  BY <1>1 DEF SlotOf
<1> HIDE DEF a
<1>4. \A i \in Window(a) : i \in Window(m) \/ i = m.cur_n
  BY <1>1, <1>2, WindowType
<1>5. \A i \in Window(m) : i \in Window(a) /\ i \in 0 .. N - 1 /\ i # m.cur_n
  BY <1>1, <1>2, WindowType, NAssumption
<1>6. \A i \in Window(m) : SlotOf(m, i) # m.write_pointer
  BY <1>2, <1>5, WindowDistinct
<1>7. \A i \in Window(m) : SlotOf(m, i) \in Slots
  BY <1>5, WindowType, NAssumption
<1> QED
  BY <1>2, <1>3, <1>4, <1>5, <1>6, <1>7 DEF a

\* the ring without its n oldest elements
LEMMA ConsumedWindow ==
  ASSUME NEW m \in Meta, WindowOK(m), NEW n \in 1 .. m.cur_n, NEW s
  PROVE  /\ \A i \in Window(Consumed(m, n)) :
              /\ n + i \in Window(m)
              /\ ElementIn(s, Consumed(m, n), i) = ElementIn(s, m, n + i)
         /\ \A j \in Window(m) : n <= j => /\ j - n \in Window(Consumed(m, n))
                                           /\ n + (j - n) = j
<1> DEFINE c == Consumed(m, n)
<1>1. /\ c \in Meta /\ WindowOK(c) /\ c.cur_n = m.cur_n - n
      /\ c.read_pointer = (m.read_pointer + n) % N
  BY ConsumedOK
<1>2. m.cur_n \in 0 .. N /\ n \in 0 .. N
  BY WindowType, NAssumption
<1> HIDE DEF c
<1>3. ASSUME NEW i \in Window(c)
      PROVE  n + i \in Window(m) /\ ElementIn(s, c, i) = ElementIn(s, m, n + i)
  <2>1. i \in Int /\ 0 <= i /\ i < m.cur_n - n
    BY <1>1, WindowType
  <2>2. i \in 0 .. N /\ n + i <= N /\ n + i \in Int /\ 0 <= n + i /\ n + i < m.cur_n
    BY <1>2, <2>1, NAssumption
  <2>3. n + i \in Window(m)
    BY <2>2, WindowType
  <2>4. SlotOf(c, i) = SlotOf(m, n + i)
    BY <1>1, <1>2, <2>2, WindowShifted
  <2> QED
    BY <2>3, <2>4 DEF ElementIn
<1>4. ASSUME NEW j \in Window(m), n <= j
      PROVE  j - n \in Window(c) /\ n + (j - n) = j
  <2>1. j \in Int /\ 0 <= j /\ j < m.cur_n
    BY WindowType
  <2>2. j - n \in Int /\ 0 <= j - n /\ j - n < m.cur_n - n /\ n + (j - n) = j
    BY <1>2, <1>4, <2>1, NAssumption
  <2> QED
    BY <1>1, <2>2, WindowType
<1> QED
  BY <1>3, <1>4 DEF c

(***************************************************************************)
(* The invariant about the data.                                           *)
(***************************************************************************)

\* what the theorems on data assume of the failures: a slot is not destroyed by
\* a failed write, or the meta data can always be stored (README, section 7)
SlotsWhole == ~({"torn", "meta"} \subseteq Faults)

\* the constructor can read every element that is there
AllReplayed == "replay" \notin Faults

\* a client in a call has a request
ClientsOK == \A c \in Clients : Active(c) => req[c] \in Requests

\* meta data that is not dirty is stored
DirtyOK == meta_dirty \/ meta = jm

\* the flusher's run is for consecutive blocks, and what it has applied of it
\* is in the data backend
AppliedOK ==
  fpc \in {"data", "meta"} =>
    /\ fpc = "meta" => run.i = run.n
    /\ \A i \in 0 .. run.n - 1 :
         ElementIn(slots, jm, i).target_block = FirstBlock + i
    /\ \A i \in 0 .. run.i - 1 :
         data[ElementIn(slots, jm, i).target_block] = ElementIn(slots, jm, i).data

\* element i of the window of m has a value that its block may have after a restart
Allowed(m, i) ==
  ElementIn(slots, m, i).data \in may[ElementIn(slots, m, i).target_block]

\* The window in memory begins n slots after the stored one, which is more
\* than 0 when the flusher died of a failed write of the meta data.
Aligned(n) ==
  /\ jm.read_pointer = (meta.read_pointer + n) % N
  /\ meta.cur_n <= n + jm.cur_n
  /\ n > 0 => meta_dirty /\ fpc = "dead" /\ "meta" \in Faults

\* An element of the stored window is allowed or hidden by a later one.  Only
\* the elements from n on hide, which are those of the window in memory: the
\* ones before may be overwritten by pushes.
StoredOK(n) ==
  \A i \in Window(meta) :
    \/ Allowed(meta, i)
    \/ \E r \in Window(meta) :
         /\ n <= r /\ i < r
         /\ ElementIn(slots, meta, r).target_block = ElementIn(slots, meta, i).target_block

\* an element that is not in the stored window is allowed
PushedOK(n) == \A i \in Window(jm) : meta.cur_n <= n + i => Allowed(jm, i)

\* what the data backend has is allowed or hidden
DataOK(n) ==
  \A b \in Blocks :
    \/ data[b] \in may[b]
    \/ \E r \in Window(meta) : n <= r /\ ElementIn(slots, meta, r).target_block = b

Behind(n) == Aligned(n) /\ StoredOK(n) /\ PushedOK(n) /\ DataOK(n)

JInv ==
  /\ IInv /\ ClientsOK /\ DirtyOK /\ AppliedOK
  /\ ReadableIn(slots, jm) /\ ReadableIn(slots, meta)
  /\ \E n \in 0 .. N : Behind(n)

\* a step that leaves ring, storage and promises alone and does not go on
\* with an iteration
Quiet ==
  /\ UNCHANGED <<jm, meta, slots, data, meta_dirty, cache, may>>
  /\ (fpc' = fpc /\ run' = run) \/ fpc' \notin {"data", "meta"}
  /\ fpc = "dead" => fpc' = "dead"

\* the steps by what they do to the ring and the storage
LEMMA StepKinds ==
  ASSUME [Next]_vars
  PROVE  \/ Quiet
         \/ \E c \in Clients :
              Push(c) \/ PushIOError(c) \/ TransactionEnd(c) \/ TransactionEndIOError(c)
         \/ FlusherTakes \/ FlusherApplies
         \/ FlusherCommits \/ FlusherCommitsIOError
         \/ FlusherClears \/ FlusherClearsIOError
         \/ Construct
<1>1. ASSUME NEW c \in Clients,
             Begin(c) \/ Check(c) \/ Wait(c) \/ SpuriousWake(c) \/ Terminated(c)
      PROVE  Quiet
  BY <1>1 DEF Begin, Check, Wait, SpuriousWake, Terminated, jvars, Quiet
<1>2. CASE FlusherStopped \/ FlusherChecks \/ FlusherSleeps \/ FlusherWakes
  BY <1>2 DEF FlusherStopped, FlusherChecks, FlusherSleeps, FlusherWakes, jvars, Quiet
<1>3. CASE FlusherTakesIOError \/ FlusherAppliesIOError
  BY <1>3 DEF FlusherTakesIOError, FlusherAppliesIOError, Dies, Quiet
<1>4. CASE FlushJournal \/ Destroy \/ DestroyNotifies
  BY <1>4 DEF FlushJournal, Destroy, DestroyNotifies, FlusherWoken, jvars, Quiet
<1>5. CASE UNCHANGED vars
  BY <1>5 DEF vars, jvars, Quiet
<1> QED
  BY <1>1, <1>2, <1>3, <1>4, <1>5 DEF Next, Client, ClientStep, Flusher, FlusherStep, Owner,
     Destroyed, Crash

LEMMA ClientsStep ==
  ASSUME IInv, ClientsOK, [Next]_vars
  PROVE  ClientsOK'
<1> USE DEF ClientsOK, Active
<1>0. ClientsTypeOK
  BY DEF IInv, TypeOK
<1>1. ASSUME NEW c \in Clients, Finish(c)
      PROVE  ClientsOK'
  BY <1>0, <1>1 DEF Finish, ClientsTypeOK
<1>2. ASSUME NEW c \in Clients, PushFailed(c), Active(c)
      PROVE  ClientsOK'
  BY <1>0, <1>1, <1>2 DEF PushFailed, ClientsTypeOK
<1>3. ASSUME NEW c \in Clients, Begin(c)
      PROVE  ClientsOK'
  BY <1>0, <1>3 DEF Begin, ClientsTypeOK
<1>4. ASSUME NEW c \in Clients, Check(c) \/ Terminated(c) \/ PushIOError(c)
      PROVE  ClientsOK'
  BY <1>0, <1>2, <1>4 DEF Check, Terminated, PushIOError, ClientsTypeOK
<1>5. ASSUME NEW c \in Clients, Wait(c) \/ SpuriousWake(c)
      PROVE  ClientsOK'
  BY <1>0, <1>5 DEF Wait, SpuriousWake, ClientsTypeOK
<1>6. ASSUME NEW c \in Clients, Push(c)
      PROVE  ClientsOK'
  BY <1>0, <1>1, <1>6 DEF Push, ClientsTypeOK
<1>7. ASSUME NEW c \in Clients, TransactionEnd(c) \/ TransactionEndIOError(c)
      PROVE  ClientsOK'
  BY <1>1, <1>7 DEF TransactionEnd, TransactionEndIOError
<1>8. CASE Construct
  BY <1>8 DEF Construct, Boot
<1>9. CASE Flusher \/ FlushJournal \/ Destroy \/ DestroyNotifies \/ UNCHANGED vars
  <2>1. req' = req /\ (pc' = pc \/ pc' = ClientsWoken)
    BY <1>9 DEF Flusher, FlusherStep, FlusherStopped, FlusherChecks, FlusherSleeps,
       FlusherTakes, FlusherApplies, FlusherCommits, FlusherClears, FlusherWakes,
       FlusherTakesIOError, FlusherAppliesIOError, FlusherCommitsIOError,
       FlusherClearsIOError, FlushJournal, Destroy, DestroyNotifies, vars, cvars
  <2> QED
    BY <1>0, <2>1 DEF ClientsWoken, ClientsTypeOK
<1> QED
  BY <1>3, <1>4, <1>5, <1>6, <1>7, <1>8, <1>9 DEF Next, Client, ClientStep, Owner,
     Destroyed, Crash

(***************************************************************************)
(* What the steps that change the ring do to the windows.                  *)
(***************************************************************************)

LEMMA JTypes ==
  ASSUME IInv
  PROVE  /\ jm \in Meta /\ WindowOK(jm) /\ meta \in Meta /\ WindowOK(meta)
         /\ slots \in [Slots -> Elements] /\ run \in RunType
BY DEF IInv, TypeOK, JournalTypeOK, RingConsistent

\* the element a client pushes
LEMMA PushedElement ==
  ASSUME JInv, NEW c \in Clients, Active(c)
  PROVE  req[c] \in Requests /\ req[c].a \in Ops /\ req[c].a # "invalid"
         /\ req[c].data \in Values /\ at[c] \in Blocks
<1>1. req[c] \in Requests /\ at[c] \in Blocks
  BY DEF JInv, ClientsOK, IInv, TypeOK, ClientsTypeOK
<1>2. req[c].a \in Ops /\ req[c].data \in Values
  BY <1>1 DEF Requests
<1> QED
  BY <1>1, <1>2, OpsAssumption DEF Actions

\* As long as meta data can be stored, the stored window is a prefix of the
\* one in memory.
LEMMA PrefixOfBehind ==
  ASSUME IInv, Behind(0)
  PROVE  /\ meta.read_pointer = jm.read_pointer
         /\ meta.cur_n <= jm.cur_n
         /\ Window(meta) \subseteq Window(jm)
         /\ \A i : SlotOf(meta, i) = SlotOf(jm, i)
<1>1. meta.read_pointer = jm.read_pointer
  <2>1. meta.read_pointer \in Slots /\ jm.read_pointer = (meta.read_pointer + 0) % N
    BY JTypes DEF Behind, Aligned, Meta
  <2> QED
    BY <2>1, Wrap, NAssumption DEF Slots
<1>2. meta.cur_n \in 0 .. N /\ jm.cur_n \in 0 .. N /\ meta.cur_n <= 0 + jm.cur_n
  BY JTypes DEF Behind, Aligned, WindowOK
<1>3. meta.cur_n <= jm.cur_n
  BY <1>2, NAssumption
<1>4. Window(meta) \subseteq Window(jm)
  BY <1>2, <1>3, NAssumption DEF Window
<1> QED
  BY <1>1, <1>3, <1>4 DEF SlotOf

\* while the flusher lives nothing is behind
LEMMA NotBehind ==
  ASSUME JInv, fpc # "dead" \/ "meta" \notin Faults \/ ~meta_dirty
  PROVE  Behind(0)
<1>1. PICK n \in 0 .. N : Behind(n)
  BY DEF JInv
<1>2. ~(n > 0)
  BY <1>1 DEF Behind, Aligned
<1>3. n = 0
  BY <1>2, NAssumption
<1> QED
  BY <1>1, <1>3

\* The elements of the stored window from n on are those of the window in
\* memory.
LEMMA BehindSame ==
  ASSUME IInv, NEW n \in 0 .. N, Behind(n)
  PROVE  /\ \A r \in Window(meta) : n <= r =>
              /\ r - n \in Window(jm) /\ n + (r - n) = r
              /\ SlotOf(meta, r) = SlotOf(jm, r - n)
         /\ \A i \in Window(jm) : n + i < meta.cur_n =>
              /\ n + i \in Window(meta)
              /\ SlotOf(meta, n + i) = SlotOf(jm, i)
<1>1. /\ meta.cur_n \in 0 .. N /\ jm.cur_n \in 0 .. N /\ meta.cur_n <= n + jm.cur_n
      /\ jm.read_pointer = (meta.read_pointer + n) % N
  BY JTypes DEF Behind, Aligned, WindowOK
<1>2. ASSUME NEW r \in Window(meta), n <= r
      PROVE  /\ r - n \in Window(jm) /\ n + (r - n) = r
             /\ SlotOf(meta, r) = SlotOf(jm, r - n)
  <2>1. r \in Int /\ 0 <= r /\ r < meta.cur_n
    BY JTypes, WindowType
  <2>2. /\ r - n \in Int /\ 0 <= r - n /\ r - n < jm.cur_n /\ n + (r - n) = r
        /\ r - n \in 0 .. N /\ n + (r - n) <= N
    BY <1>1, <1>2, <2>1, NAssumption
  <2>3. r - n \in Window(jm)
    BY <2>2, JTypes, WindowType
  <2>4. SlotOf(jm, r - n) = SlotOf(meta, n + (r - n))
    BY <1>1, <2>2, JTypes, WindowShifted
  <2> QED
    BY <2>2, <2>3, <2>4
<1>3. ASSUME NEW i \in Window(jm), n + i < meta.cur_n
      PROVE  n + i \in Window(meta) /\ SlotOf(meta, n + i) = SlotOf(jm, i)
  <2>1. i \in Int /\ 0 <= i /\ i < jm.cur_n
    BY JTypes, WindowType
  <2>2. n + i \in Int /\ 0 <= n + i /\ i \in 0 .. N /\ n + i <= N
    BY <1>1, <1>3, <2>1, NAssumption
  <2>3. n + i \in Window(meta)
    BY <1>3, <2>2, JTypes, WindowType
  <2>4. SlotOf(jm, i) = SlotOf(meta, n + i)
    BY <1>1, <2>2, JTypes, WindowShifted
  <2> QED
    BY <2>3, <2>4
<1> QED
  BY <1>2, <1>3

\* one slot is written, the one after the window
LEMMA PushedWindow ==
  ASSUME IInv, ~jm.full, NEW e, slots' = [slots EXCEPT ![jm.write_pointer] = e]
  PROVE  /\ \A i \in Window(Advanced(jm)) : i \in Window(jm) \/ i = jm.cur_n
         /\ \A i \in Window(jm) : /\ i \in Window(Advanced(jm))
                                  /\ ElementIn(slots', Advanced(jm), i) = ElementIn(slots, jm, i)
                                  /\ ElementIn(slots', jm, i) = ElementIn(slots, jm, i)
         /\ ElementIn(slots', Advanced(jm), jm.cur_n) = e
         /\ jm.cur_n \in 0 .. N - 1
         /\ \A i \in Window(meta) : \/ ElementIn(slots', meta, i) = ElementIn(slots, meta, i)
                                    \/ ElementIn(slots', meta, i) = e
<1>1. jm \in Meta /\ WindowOK(jm) /\ slots \in [Slots -> Elements]
  BY JTypes
<1>2. \A i \in Window(meta) : SlotOf(meta, i) \in Slots
  BY JTypes, WindowType, NAssumption
<1>3. \A i \in Window(meta) : \/ ElementIn(slots', meta, i) = ElementIn(slots, meta, i)
                              \/ ElementIn(slots', meta, i) = e
  BY <1>1, <1>2 DEF ElementIn
<1>4. /\ \A i \in Window(jm) : /\ i \in Window(Advanced(jm))
                               /\ ElementIn(slots', jm, i) = ElementIn(slots, jm, i)
                               /\ ElementIn(slots', Advanced(jm), i) = ElementIn(slots, jm, i)
      /\ ElementIn(slots', Advanced(jm), jm.cur_n) = e
  BY <1>1, AdvancedWindow DEF ElementIn
<1> QED
  BY <1>1, <1>3, <1>4, AdvancedWindow

\* clearing leaves both windows alone
LEMMA ClearedWindow ==
  ASSUME JInv, FlusherClears \/ FlusherClearsIOError
  PROVE  /\ jm = meta /\ jm' = jm /\ meta' = meta
         /\ \A i \in Window(meta) : ElementIn(slots', meta, i) = ElementIn(slots, meta, i)
<1>1. fpc = "clear" /\ jm' = jm /\ meta' = meta /\ (ClearSlots \/ slots' = slots)
  BY DEF FlusherClears, FlusherClearsIOError
<1>2. IInv /\ jm = meta
  BY <1>1 DEF JInv, IInv, RunOK
<1>3. ASSUME NEW i \in Window(meta)
      PROVE  ElementIn(slots', meta, i) = ElementIn(slots, meta, i)
  <2>1. SlotOf(meta, i) \notin Cleared
    BY <1>1, <1>2, ClearedSlotIsFree
  <2>2. SlotOf(meta, i) \in Slots
    BY <1>2, JTypes, WindowType, NAssumption
  <2> QED
    BY <1>1, <2>1, <2>2 DEF ClearSlots, ElementIn
<1> QED
  BY <1>1, <1>2, <1>3

(***************************************************************************)
(* Every window stays readable.                                            *)
(***************************************************************************)

LEMMA ReadableStep ==
  ASSUME JInv, IInv', SlotsWhole, [Next]_vars
  PROVE  ReadableIn(slots, jm)' /\ ReadableIn(slots, meta)'
<1> DEFINE Good(s, m) == \A i \in Window(m) : ElementIn(s, m, i).a # "invalid"
<1>1. IInv /\ Good(slots, jm) /\ Good(slots, meta)
  BY DEF JInv, ReadableIn
<1>2. SUFFICES Good(slots', jm') /\ Good(slots', meta')
  BY DEF ReadableIn
<1>3. ASSUME NEW c \in Clients, Push(c)
      PROVE  Good(slots', jm') /\ Good(slots', meta')
  <2> DEFINE e == [a |-> req[c].a, target_block |-> at[c], data |-> req[c].data]
  <2>1. /\ ~jm.full /\ jm' = Advanced(jm) /\ meta' = meta
        /\ slots' = [slots EXCEPT ![jm.write_pointer] = e]
    BY <1>3 DEF Push
  <2>2. e.a # "invalid"
    BY <1>3, PushedElement DEF Push, Active
  <2> HIDE DEF e
  <2> QED
    BY <1>1, <2>1, <2>2, PushedWindow
<1>4. ASSUME NEW c \in Clients, PushIOError(c)
      PROVE  Good(slots', jm') /\ Good(slots', meta')
  <2>1. ~jm.full /\ jm' = jm /\ meta' = meta
    BY <1>4 DEF PushIOError
  <2>2. CASE slots' = slots
    BY <1>1, <2>1, <2>2
  <2>3. CASE "torn" \in Faults /\ slots' = [slots EXCEPT ![jm.write_pointer] = Invalid]
    <3>1. Behind(0)
      BY <2>3, NotBehind DEF SlotsWhole
    <3>2. \A i \in Window(jm) : ElementIn(slots', jm, i) = ElementIn(slots, jm, i)
      BY <1>1, <2>1, <2>3, PushedWindow
    <3> QED
      BY <1>1, <2>1, <3>1, <3>2, PrefixOfBehind DEF ElementIn
  <2> QED
    BY <1>4, <2>2, <2>3 DEF PushIOError
<1>5. ASSUME NEW c \in Clients, TransactionEnd(c) \/ TransactionEndIOError(c)
      PROVE  Good(slots', jm') /\ Good(slots', meta')
  BY <1>1, <1>5 DEF TransactionEnd, TransactionEndIOError
<1>6. CASE FlusherCommits \/ FlusherCommitsIOError
  <2>1. jm' = Consumed(jm, run.n) /\ meta' \in {meta, jm'} /\ slots' = slots /\ fpc = "meta"
    BY <1>6 DEF FlusherCommits, FlusherCommitsIOError, Dies
  <2>2. run.n \in 1 .. jm.cur_n
    BY <1>1, <2>1 DEF IInv, RunOK
  <2>3. \A i \in Window(jm') : /\ run.n + i \in Window(jm)
                               /\ ElementIn(slots, jm', i) = ElementIn(slots, jm, run.n + i)
    BY <1>1, <2>1, <2>2, JTypes, ConsumedWindow
  <2> QED
    BY <1>1, <2>1, <2>3
<1>7. CASE FlusherClears \/ FlusherClearsIOError
  BY <1>1, <1>7, ClearedWindow
<1>8. CASE Construct
  BY <1>1, <1>8 DEF Construct, Boot
<1>9. CASE Quiet \/ FlusherTakes \/ FlusherApplies
  BY <1>1, <1>9 DEF Quiet, FlusherTakes, FlusherApplies, jvars
<1> QED
  BY <1>3, <1>4, <1>5, <1>6, <1>7, <1>8, <1>9, StepKinds

LEMMA DirtyStep ==
  ASSUME JInv, [Next]_vars
  PROVE  DirtyOK'
<1>1. meta_dirty \/ meta = jm
  BY DEF JInv, DirtyOK
<1>2. CASE FlusherClears \/ FlusherClearsIOError \/ FlusherTakes \/ FlusherApplies \/ Quiet
  BY <1>1, <1>2 DEF FlusherClears, FlusherClearsIOError, FlusherTakes, FlusherApplies, Quiet,
     jvars, DirtyOK
<1>3. ASSUME NEW c \in Clients,
             Push(c) \/ PushIOError(c) \/ TransactionEnd(c) \/ TransactionEndIOError(c)
      PROVE  DirtyOK'
  BY <1>1, <1>3 DEF Push, PushIOError, TransactionEnd, TransactionEndIOError, DirtyOK
<1>4. CASE FlusherCommits \/ FlusherCommitsIOError
  BY <1>4 DEF FlusherCommits, FlusherCommitsIOError, DirtyOK
<1>5. CASE Construct
  BY <1>5 DEF Construct, Boot, DirtyOK
<1> QED
  BY <1>2, <1>3, <1>4, <1>5, StepKinds

(***************************************************************************)
(* The flusher's run.                                                      *)
(***************************************************************************)

LEMMA LeastOfSet ==
  ASSUME NEW S, S \subseteq Nat, S # {}
  PROVE  \E m \in S : \A y \in S : m <= y
<1> DEFINE R == OpToRel(<, Nat)
<1>1. PICK m \in S : \A u \in S : ~(<<u, m>> \in R)
  BY NatLessThanWellFounded, WFMin, Zenon
<1>2. \A u, v \in Nat : u < v => <<u, v>> \in R
  BY DEF OpToRel
<1> HIDE DEF R
<1>3. ASSUME NEW y \in S
      PROVE  m <= y
  <2>1. y \in Nat /\ m \in Nat
    OBVIOUS
  <2>2. ~(y < m)
    BY <2>1, <1>1, <1>2, Zenon
  <2> QED
    BY <2>1, <2>2
<1> QED
  BY <1>3

\* the blocks of a run are consecutive
LEMMA RunTargets ==
  ASSUME IInv, jm.cur_n > 0
  PROVE  \A i \in 0 .. RunLength - 1 :
           ElementIn(slots, jm, i).target_block = FirstBlock + i
<1> DEFINE target(i) == ElementIn(slots, jm, i).target_block
           S == {k \in 1 .. jm.cur_n : IsRun(k)}
           Bad == {i \in 0 .. RunLength - 1 : target(i) # FirstBlock + i}
<1>1. TypeOK /\ jm.cur_n \in 0 .. N /\ RunLength \in 1 .. jm.cur_n
  BY RunLengthType, JTypes DEF IInv, WindowOK
<1>2. IsRun(RunLength)
  <2>1. S \subseteq 0 .. jm.cur_n /\ S # {} /\ jm.cur_n \in Nat
    <3>1. IsRun(1)
      BY DEF IsRun
    <3> QED
      BY <1>1, <3>1, NAssumption
  <2>2. Max(S) \in S
    <3> HIDE DEF S
    <3> QED
      BY <2>1, MaxOfSet
  <2> QED
    BY <2>2 DEF RunLength
<1>3. \A i \in 1 .. RunLength - 1 : target(i) = target(i - 1) + 1
  BY <1>2 DEF IsRun, Connects, Element, ElementIn
<1>4. target(0) = FirstBlock /\ FirstBlock \in Blocks
  <2>1. 0 \in 0 .. N
    BY NAssumption
  <2>2. Element(jm, 0) \in Elements
    BY <1>1, <2>1, JTypes, ElementType DEF TypeOK
  <2> QED
    BY <2>2 DEF FirstBlock, Element, ElementIn, Elements
<1>5. FirstBlock \in Int
  BY <1>4, NumBlocksAssumption DEF Blocks
<1>6. ASSUME Bad # {}
      PROVE  FALSE
  <2>1. Bad \subseteq Nat
    BY <1>1, NAssumption
  <2>2. PICK m \in Bad : \A y \in Bad : m <= y
    <3> HIDE DEF Bad
    <3> QED
      BY <1>6, <2>1, LeastOfSet
  <2>3. m \in 0 .. RunLength - 1 /\ target(m) # FirstBlock + m
    BY <2>2
  <2> HIDE DEF target
  <2>4. m # 0
    BY <1>4, <1>5, <2>3
  <2>5. m \in 1 .. RunLength - 1 /\ m - 1 \in 0 .. RunLength - 1 /\ ~(m <= m - 1)
    BY <1>1, <2>3, <2>4, NAssumption
  <2>6. target(m - 1) = FirstBlock + (m - 1)
    BY <2>2, <2>5
  <2>7. target(m) = target(m - 1) + 1
    BY <1>3, <2>5
  <2> QED
    BY <1>5, <2>3, <2>5, <2>6, <2>7
<1> QED
  BY <1>6

\* the blocks of a run are different ones
LEMMA RunDistinct ==
  ASSUME JInv, fpc \in {"data", "meta"}, NEW i \in 0 .. run.n - 1, NEW k \in 0 .. run.n - 1,
         ElementIn(slots, jm, i).target_block = ElementIn(slots, jm, k).target_block
  PROVE  i = k
<1>1. IInv /\ run.n \in 1 .. jm.cur_n /\ jm.cur_n \in 0 .. N
  BY JTypes DEF JInv, IInv, RunOK, WindowOK
<1>2. FirstBlock \in Int
  <2>1. 0 \in 0 .. N /\ jm \in Meta
    BY <1>1, NAssumption, JTypes
  <2>2. Element(jm, 0) \in Elements
    BY <1>1, <2>1, ElementType DEF IInv, TypeOK
  <2> QED
    BY <2>2, NumBlocksAssumption DEF FirstBlock, Elements, Blocks
<1>3. FirstBlock + i = FirstBlock + k
  BY DEF JInv, AppliedOK
<1>4. i \in Int /\ k \in Int
  BY <1>1, NAssumption
<1> QED
  BY <1>2, <1>3, <1>4

LEMMA AppliedStep ==
  ASSUME JInv, IInv', [Next]_vars
  PROVE  AppliedOK'
<1>0. IInv /\ AppliedOK
  BY DEF JInv
<1>1. CASE Quiet
  <2>1. jm' = jm /\ slots' = slots /\ data' = data
    BY <1>1 DEF Quiet
  <2>2. FirstBlock' = FirstBlock
    BY <2>1 DEF FirstBlock, Element
  <2> QED
    BY <1>0, <1>1, <2>1, <2>2 DEF Quiet, AppliedOK
<1>2. ASSUME NEW c \in Clients,
             Push(c) \/ PushIOError(c) \/ TransactionEnd(c) \/ TransactionEndIOError(c)
      PROVE  AppliedOK'
  <2>1. fpc \notin {"data", "meta"} /\ fpc' \in {fpc, FlusherWoken}
    BY <1>2 DEF Push, PushIOError, TransactionEnd, TransactionEndIOError, LockFree
  <2>2. fpc' \notin {"data", "meta"}
    BY <2>1 DEF FlusherWoken
  <2> QED
    BY <2>2 DEF AppliedOK
<1>3. CASE FlusherTakes
  <2>1. /\ jm' = jm /\ slots' = slots /\ data' = data /\ ~IsEmpty(jm) /\ fpc' = "data"
        /\ run'.n = RunLength /\ run'.i = 0
    BY <1>3 DEF FlusherTakes, jvars
  <2>2. jm.cur_n \in 1 .. N
    BY <1>0, <2>1, JTypes, NotEmpty
  <2>3. \A i \in 0 .. RunLength - 1 : ElementIn(slots, jm, i).target_block = FirstBlock + i
    BY <1>0, <2>2, RunTargets, NAssumption
  <2>4. FirstBlock' = FirstBlock
    BY <2>1 DEF FirstBlock, Element
  <2> QED
    BY <2>1, <2>3, <2>4 DEF AppliedOK
<1>4. CASE FlusherApplies
  <2>1. /\ jm' = jm /\ slots' = slots /\ fpc = "data"
        /\ fpc' = IF run.i + 1 = run.n THEN "meta" ELSE "data"
        /\ data' = [data EXCEPT ![FirstBlock + run.i] = ElementIn(slots, jm, run.i).data]
        /\ run' = [run EXCEPT !.i = @ + 1]
    BY <1>4 DEF FlusherApplies, Element, ElementIn
  <2>2. /\ run \in RunType /\ run.n \in 1 .. jm.cur_n /\ run.i < run.n /\ jm.cur_n \in 0 .. N
        /\ data \in [Blocks -> Values]
    BY <1>0, <2>1, JTypes DEF IInv, RunOK, WindowOK, TypeOK, JournalTypeOK
  <2>3. run'.n = run.n /\ run'.i = run.i + 1
    BY <2>1, <2>2 DEF RunType
  <2>4. run.i \in 0 .. run.n - 1 /\ run.n \in Nat /\ run.i \in Nat
    BY <2>2, NAssumption DEF RunType
  <2>5. FirstBlock' = FirstBlock
    BY <2>1 DEF FirstBlock, Element
  <2>6. \A i \in 0 .. run.n - 1 : ElementIn(slots, jm, i).target_block = FirstBlock + i
    BY <1>0, <2>1 DEF AppliedOK
  <2>7. ASSUME NEW i \in 0 .. run.i
        PROVE  data'[ElementIn(slots, jm, i).target_block] = ElementIn(slots, jm, i).data
    <3>1. i \in 0 .. run.n - 1 /\ i \in 0 .. N
      BY <2>2, <2>4, NAssumption
    <3>2. ElementIn(slots, jm, i).target_block \in Blocks
      BY <1>0, <3>1, JTypes, ElementType DEF IInv, TypeOK, Element, ElementIn, Elements
    <3>3. CASE i = run.i
      BY <2>1, <2>2, <2>4, <2>6, <3>2, <3>3
    <3>4. CASE i # run.i
      <4>1. i \in 0 .. run.i - 1
        BY <2>4, <3>4
      <4>2. ElementIn(slots, jm, i).target_block # ElementIn(slots, jm, run.i).target_block
        BY <2>1, <2>4, <3>1, <3>4, RunDistinct
      <4>3. ElementIn(slots, jm, i).target_block # FirstBlock + run.i
        BY <2>4, <2>6, <4>2
      <4>4. data[ElementIn(slots, jm, i).target_block] = ElementIn(slots, jm, i).data
        BY <1>0, <2>1, <4>1 DEF AppliedOK
      <4> QED
        BY <2>1, <2>2, <3>2, <4>3, <4>4
    <3> QED
      BY <3>3, <3>4
  <2>8. run.i + 1 - 1 = run.i /\ (fpc' = "meta" => run.i + 1 = run.n)
    BY <2>1, <2>4
  <2>9. /\ fpc' = "meta" => run'.i = run'.n
        /\ \A i \in 0 .. run'.n - 1 : ElementIn(slots', jm', i).target_block = FirstBlock' + i
    BY <2>1, <2>3, <2>5, <2>6, <2>8
  <2>10. run'.i - 1 = run.i
    BY <2>3, <2>4
  <2>11. \A i \in 0 .. run'.i - 1 :
           data'[ElementIn(slots', jm', i).target_block] = ElementIn(slots', jm', i).data
    BY <2>1, <2>7, <2>10
  <2> QED
    BY <2>9, <2>11 DEF AppliedOK
<1>5. CASE \/ FlusherCommits \/ FlusherCommitsIOError
           \/ FlusherClears \/ FlusherClearsIOError \/ Construct
  <2>1. fpc' \notin {"data", "meta"}
    BY <1>5 DEF FlusherCommits, FlusherCommitsIOError, FlusherClears, FlusherClearsIOError,
       Construct, Boot, Dies
  <2> QED
    BY <2>1 DEF AppliedOK
<1> QED
  BY <1>1, <1>2, <1>3, <1>4, <1>5, StepKinds

(***************************************************************************)
(* What a replay of a window gives.                                        *)
(***************************************************************************)

\* the elements before the k-th that are for block b
HitsIn(s, m, k, b) == {i \in 0 .. k - 1 : ElementIn(s, m, i).target_block = b}

\* Max is the only greatest element
LEMMA MaxIs ==
  ASSUME NEW n \in Nat, NEW S, S \subseteq 0 .. n, NEW x \in S, \A y \in S : y <= x
  PROVE  Max(S) = x
<1>1. Max(S) \in S /\ \A y \in S : Max(S) >= y
  BY MaxOfSet
<1> DEFINE z == Max(S)
<1>2. z \in S /\ z >= x
  BY <1>1
<1> HIDE DEF z
<1>3. z \in 0 .. n /\ x \in 0 .. n /\ z <= x
  BY <1>2
<1>4. z = x
  BY <1>2, <1>3
<1> QED
  BY <1>4 DEF z

LEMMA HitsFinite ==
  ASSUME NEW s, NEW m, NEW k \in Nat, NEW b
  PROVE  /\ IsFiniteSet(HitsIn(s, m, k, b))
         /\ Cardinality(HitsIn(s, m, k, b)) \in Nat
         /\ HitsIn(s, m, k, b) # {} <=> Cardinality(HitsIn(s, m, k, b)) > 0
<1> DEFINE H == HitsIn(s, m, k, b)
<1>1. IsFiniteSet(0 .. k - 1)
  BY FS_Interval
<1>2. H \in SUBSET (0 .. k - 1)
  BY DEF HitsIn
<1> HIDE DEF H
<1>3. IsFiniteSet(H)
  BY <1>1, <1>2, FS_Subset
<1>4. Cardinality(H) \in Nat /\ (Cardinality(H) = 0 <=> H = {})
  BY <1>3, FS_CardinalityType, FS_EmptySet
<1>5. H # {} <=> Cardinality(H) > 0
  BY <1>4
<1> QED
  BY <1>3, <1>4, <1>5 DEF H

\* a block that is hit has a last hit
LEMMA LastHit ==
  ASSUME NEW s, NEW m, NEW k \in Nat, NEW b, HitsIn(s, m, k, b) # {}
  PROVE  /\ Max(HitsIn(s, m, k, b)) \in HitsIn(s, m, k, b)
         /\ \A j \in HitsIn(s, m, k, b) : j <= Max(HitsIn(s, m, k, b))
<1> DEFINE H == HitsIn(s, m, k, b)
<1>1. H \subseteq 0 .. k /\ H # {}
  BY DEF HitsIn
<1> HIDE DEF H
<1>2. Max(H) \in H /\ \A y \in H : Max(H) >= y
  BY <1>1, MaxOfSet
<1>3. \A y \in H : y <= Max(H)
  BY <1>1, <1>2
<1> QED
  BY <1>2, <1>3 DEF H

LEMMA LoadIs ==
  ASSUME NEW m, NEW k, NEW b \in Blocks
  PROVE  Load(m, k)[b] =
           [n |-> Cardinality(HitsIn(slots, m, k, b)),
            data |-> IF HitsIn(slots, m, k, b) = {} THEN Zero
                     ELSE ElementIn(slots, m, Max(HitsIn(slots, m, k, b))).data]
<1>1. {i \in 0 .. k - 1 : Element(m, i).target_block = b} = HitsIn(slots, m, k, b)
  BY DEF HitsIn, Element, ElementIn
<1> QED
  BY <1>1 DEF Load, Element, ElementIn

\* the last element of the window for b is what a replay leaves in b
LEMMA ReplayedIs ==
  ASSUME NEW m, m.cur_n \in Nat, NEW b \in Blocks
  PROVE  \/ /\ \A i \in Window(m) : ElementIn(slots, m, i).target_block # b
            /\ Replayed(m, m.cur_n, b) = data[b]
         \/ \E i \in Window(m) :
              /\ ElementIn(slots, m, i).target_block = b
              /\ \A j \in Window(m) : ElementIn(slots, m, j).target_block = b => j <= i
              /\ Replayed(m, m.cur_n, b) = ElementIn(slots, m, i).data
<1> DEFINE H == HitsIn(slots, m, m.cur_n, b)
           l == Load(m, m.cur_n)[b]
<1>0. l = [n |-> Cardinality(H),
           data |-> IF H = {} THEN Zero ELSE ElementIn(slots, m, Max(H)).data]
  BY LoadIs
<1>2. H # {} <=> Cardinality(H) > 0
  BY HitsFinite
<1>6. Replayed(m, m.cur_n, b) = IF l.n > 0 THEN l.data ELSE data[b]
  BY DEF Replayed
<1>3. \A i : i \in H <=> i \in Window(m) /\ ElementIn(slots, m, i).target_block = b
  BY DEF HitsIn, Window
<1> HIDE DEF H, l
<1>1. l.n = Cardinality(H) /\ (H # {} => l.data = ElementIn(slots, m, Max(H)).data)
  BY <1>0
<1>4. CASE H = {}
  <2>1. Replayed(m, m.cur_n, b) = data[b]
    BY <1>1, <1>2, <1>4, <1>6
  <2> QED
    BY <1>3, <1>4, <2>1
<1>5. CASE H # {}
  <2>1. Max(H) \in H /\ \A j \in H : j <= Max(H)
    BY <1>5, LastHit DEF H
  <2>2. Replayed(m, m.cur_n, b) = ElementIn(slots, m, Max(H)).data
    BY <1>1, <1>2, <1>5, <1>6
  <2> QED
    BY <1>3, <2>1, <2>2
<1> QED
  BY <1>4, <1>5

\* a window without an unreadable element is replayed as a whole
LEMMA AllReplayable ==
  ASSUME IInv, ReadableIn(slots, meta)
  PROVE  Replayable(meta) = meta.cur_n
<1>1. meta.cur_n \in 0 .. N
  BY JTypes, WindowType
<1>2. {i \in Window(meta) : \A j \in 0 .. i : Element(meta, j).a # "invalid"} = Window(meta)
  <2>1. ASSUME NEW i \in Window(meta), NEW j \in 0 .. i
        PROVE  j \in Window(meta)
    BY <1>1, NAssumption DEF Window
  <2> QED
    BY <2>1 DEF ReadableIn, Element, ElementIn
<1>3. Cardinality(Window(meta)) = meta.cur_n
  <2> DEFINE n == meta.cur_n
  <2>1. n \in Nat
    BY <1>1, NAssumption
  <2> HIDE DEF n
  <2>2. Cardinality(0 .. n - 1) = IF 0 > n - 1 THEN 0 ELSE n - 1 - 0 + 1
    BY <2>1, FS_Interval
  <2>3. Cardinality(0 .. n - 1) = n
    BY <2>1, <2>2
  <2> QED
    BY <2>3 DEF Window, n
<1> QED
  BY <1>2, <1>3 DEF Replayable

(***************************************************************************)
(* What a restart may find.                                                *)
(***************************************************************************)

LEMMA TargetType ==
  ASSUME IInv, NEW m \in {jm, meta}, NEW i \in Window(m)
  PROVE  ElementIn(slots, m, i) \in Elements /\ ElementIn(slots, m, i).target_block \in Blocks
<1>1. i \in 0 .. N /\ m \in Meta
  BY JTypes, WindowType, NAssumption
<1>2. ElementIn(slots, m, i) \in Elements
  BY <1>1, ElementType DEF IInv, TypeOK, Element, ElementIn
<1> QED
  BY <1>2 DEF Elements

\* both windows are the same
LEMMA AlignedAtZero ==
  ASSUME IInv', meta' = jm'
  PROVE  Aligned(0)' /\ PushedOK(0)'
<1>1. jm' \in Meta /\ WindowOK(jm')
  BY DEF IInv, TypeOK, JournalTypeOK, RingConsistent
<1> DEFINE m == jm'
<1>2. m \in Meta /\ WindowOK(m)
  BY <1>1
<1> HIDE DEF m
<1>3. m.read_pointer = (m.read_pointer + 0) % N
  BY <1>2, Wrap, NAssumption DEF Meta, Slots
<1>4. m.cur_n \in Nat /\ m.cur_n <= 0 + m.cur_n /\ ~(0 > 0)
  BY <1>2 DEF Meta
<1>5. \A i \in Window(m) : ~(m.cur_n <= 0 + i)
  BY <1>2, <1>4, WindowType
<1>6. Aligned(0)'
  BY <1>3, <1>4 DEF Aligned, m
<1>7. PushedOK(0)'
  BY <1>5 DEF PushedOK, m
<1> QED
  BY <1>6, <1>7

\* every block is promised the value that a replay of m gives
LEMMA SettledOK ==
  ASSUME IInv, IInv', NEW m \in Meta, WindowOK(m), m \in {jm, meta},
         meta' = m, jm' = m, slots' = slots, data' = data,
         may' = [b \in Blocks |-> {Replayed(m, m.cur_n, b)}]
  PROVE  Behind(0)'
<1>1. Aligned(0)' /\ PushedOK(0)'
  BY AlignedAtZero
<1>2. m.cur_n \in Nat /\ \A i \in Window(m) : i \in Int /\ 0 <= i
  BY WindowType DEF Meta
<1>3. ASSUME NEW i \in Window(m)
      PROVE  \/ ElementIn(slots, m, i).data \in may'[ElementIn(slots, m, i).target_block]
             \/ \E r \in Window(m) :
                  /\ 0 <= r /\ i < r
                  /\ ElementIn(slots, m, r).target_block = ElementIn(slots, m, i).target_block
  <2> DEFINE b == ElementIn(slots, m, i).target_block
  <2>1. b \in Blocks
    BY TargetType
  <2>2. PICK r \in Window(m) :
          /\ ElementIn(slots, m, r).target_block = b
          /\ \A j \in Window(m) : ElementIn(slots, m, j).target_block = b => j <= r
          /\ Replayed(m, m.cur_n, b) = ElementIn(slots, m, r).data
    BY <1>2, <2>1, ReplayedIs
  <2>3. i <= r /\ 0 <= r
    BY <1>2, <2>2
  <2>4. CASE r = i
    BY <2>1, <2>2, <2>4
  <2>5. CASE r # i
    <3>1. i < r
      BY <1>2, <2>3, <2>5
    <3> QED
      BY <2>2, <2>3, <3>1
  <2> QED
    BY <2>4, <2>5
<1>4. ASSUME NEW b \in Blocks
      PROVE  \/ data[b] \in may'[b]
             \/ \E r \in Window(m) : 0 <= r /\ ElementIn(slots, m, r).target_block = b
  BY <1>2, ReplayedIs
<1>5. StoredOK(0)'
  BY <1>3 DEF StoredOK, Allowed
<1>6. DataOK(0)'
  BY <1>4 DEF DataOK
<1> QED
  BY <1>1, <1>5, <1>6 DEF Behind

\* the meta data in memory is stored, without a new promise
LEMMA StoredNow ==
  ASSUME JInv, IInv', meta' = jm, UNCHANGED <<jm, slots, data, may>>
  PROVE  Behind(0)'
<1>1. Aligned(0)' /\ PushedOK(0)'
  BY AlignedAtZero
<1>2. IInv /\ \A i \in Window(jm) : i \in Int /\ 0 <= i
  BY JTypes, WindowType DEF JInv
<1>3. PICK n \in 0 .. N : Behind(n)
  BY DEF JInv
<1>4. meta.cur_n \in 0 .. N
  BY <1>2, JTypes, WindowType
<1>5. ASSUME NEW r \in Window(meta), n <= r
      PROVE  /\ r - n \in Window(jm) /\ n + (r - n) = r
             /\ ElementIn(slots, meta, r) = ElementIn(slots, jm, r - n)
  BY <1>2, <1>3, <1>5, BehindSame DEF ElementIn
<1>6. ASSUME NEW i \in Window(jm)
      PROVE  \/ Allowed(jm, i)
             \/ \E r \in Window(jm) :
                  /\ 0 <= r /\ i < r
                  /\ ElementIn(slots, jm, r).target_block = ElementIn(slots, jm, i).target_block
  <2>1. CASE meta.cur_n <= n + i
    BY <1>3, <2>1 DEF Behind, PushedOK
  <2>2. CASE ~(meta.cur_n <= n + i)
    <3>1. n + i < meta.cur_n
      BY <1>2, <1>4, <2>2, NAssumption
    <3>2. n + i \in Window(meta) /\ ElementIn(slots, meta, n + i) = ElementIn(slots, jm, i)
      BY <1>2, <1>3, <3>1, BehindSame DEF ElementIn
    <3>3. CASE Allowed(meta, n + i)
      BY <3>2, <3>3 DEF Allowed
    <3>4. CASE ~Allowed(meta, n + i)
      <4>1. PICK r \in Window(meta) :
              /\ n <= r /\ n + i < r
              /\ ElementIn(slots, meta, r).target_block
                   = ElementIn(slots, meta, n + i).target_block
        BY <1>3, <3>2, <3>4 DEF Behind, StoredOK
      <4>2. /\ r - n \in Window(jm)
            /\ ElementIn(slots, meta, r) = ElementIn(slots, jm, r - n)
        BY <1>5, <4>1
      <4>3. i < r - n /\ 0 <= r - n
        <5>1. r \in Int
          BY <1>2, JTypes, WindowType
        <5> QED
          BY <1>2, <4>1, <5>1, NAssumption
      <4> QED
        BY <3>2, <4>1, <4>2, <4>3
    <3> QED
      BY <3>3, <3>4
  <2> QED
    BY <2>1, <2>2
<1>7. ASSUME NEW b \in Blocks
      PROVE  \/ data[b] \in may[b]
             \/ \E r \in Window(jm) : 0 <= r /\ ElementIn(slots, jm, r).target_block = b
  <2>1. CASE data[b] \in may[b]
    BY <2>1
  <2>2. CASE data[b] \notin may[b]
    <3>1. PICK r \in Window(meta) : n <= r /\ ElementIn(slots, meta, r).target_block = b
      BY <1>3, <2>2 DEF Behind, DataOK
    <3> QED
      BY <1>2, <1>5, <3>1
  <2> QED
    BY <2>1, <2>2
<1>8. StoredOK(0)'
  BY <1>6 DEF StoredOK, Allowed
<1>9. DataOK(0)'
  BY <1>7 DEF DataOK
<1> QED
  BY <1>1, <1>8, <1>9 DEF Behind

\* nothing of it changes
LEMMA BehindKept ==
  ASSUME JInv, UNCHANGED <<jm, meta, slots, data, meta_dirty, may>>,
         fpc = "dead" => fpc' = "dead"
  PROVE  \E n \in 0 .. N : Behind(n)'
<1>1. PICK n \in 0 .. N : Behind(n)
  BY DEF JInv
<1>2. Aligned(n)'
  BY <1>1 DEF Behind, Aligned
<1>3. StoredOK(n)' /\ PushedOK(n)' /\ DataOK(n)'
  BY <1>1 DEF Behind, StoredOK, PushedOK, DataOK, Allowed
<1> QED
  BY <1>2, <1>3 DEF Behind

\* the slots change outside both windows
LEMMA BehindOutside ==
  ASSUME JInv, Behind(0), UNCHANGED <<jm, meta, data, may>>,
         \A i \in Window(jm) : ElementIn(slots', jm, i) = ElementIn(slots, jm, i)
  PROVE  Behind(0)'
<1>1. IInv /\ Window(meta) \subseteq Window(jm)
      /\ \A i : ElementIn(slots, meta, i) = ElementIn(slots, jm, i)
                /\ ElementIn(slots', meta, i) = ElementIn(slots', jm, i)
  BY PrefixOfBehind DEF JInv, ElementIn
<1>2. \A i \in Window(meta) : ElementIn(slots', meta, i) = ElementIn(slots, meta, i)
  BY <1>1
<1>3. Aligned(0)'
  BY DEF Behind, Aligned
<1>4. StoredOK(0)' /\ PushedOK(0)' /\ DataOK(0)'
  BY <1>2 DEF Behind, StoredOK, PushedOK, DataOK, Allowed
<1> QED
  BY <1>3, <1>4 DEF Behind

\* the flusher overwrites a block of the data backend with an element
LEMMA BehindApplies ==
  ASSUME JInv, FlusherApplies
  PROVE  Behind(0)'
<1> DEFINE b0 == FirstBlock + run.i
<1>1. /\ UNCHANGED <<jm, meta, slots, may>> /\ fpc = "data"
      /\ data' = [data EXCEPT ![b0] = ElementIn(slots, jm, run.i).data]
  BY DEF FlusherApplies, Element, ElementIn
<1>2. IInv /\ Behind(0)
  BY <1>1, NotBehind DEF JInv
<1>3. /\ run \in RunType /\ run.n \in 1 .. jm.cur_n /\ run.i < run.n
      /\ jm.cur_n \in 0 .. N /\ meta.cur_n \in 0 .. N
  BY <1>1, <1>2, JTypes DEF IInv, RunOK, WindowOK
<1>4. run.i \in 0 .. run.n - 1 /\ run.i \in Nat /\ run.i \in Window(jm)
  BY <1>3, NAssumption DEF RunType, Window
<1>5. ElementIn(slots, jm, run.i).target_block = b0
  BY <1>1, <1>4 DEF JInv, AppliedOK
<1>6. b0 \in Blocks /\ data \in [Blocks -> Values]
  BY <1>2, <1>4, <1>5, TargetType DEF IInv, TypeOK, JournalTypeOK
<1> HIDE DEF b0
<1>7. ASSUME NEW b \in Blocks
      PROVE  \/ data'[b] \in may[b]
             \/ \E r \in Window(meta) : 0 <= r /\ ElementIn(slots, meta, r).target_block = b
  <2>1. CASE b # b0
    BY <1>1, <1>2, <1>6, <2>1 DEF Behind, DataOK
  <2>2. CASE b = b0 /\ run.i < meta.cur_n
    <3>1. run.i \in Window(meta) /\ 0 <= run.i
      BY <1>3, <1>4, <2>2, NAssumption DEF Window
    <3>2. ElementIn(slots, meta, run.i) = ElementIn(slots, jm, run.i)
      BY <1>2, PrefixOfBehind DEF ElementIn
    <3> QED
      BY <1>5, <2>2, <3>1, <3>2
  <2>3. CASE b = b0 /\ ~(run.i < meta.cur_n)
    <3>1. meta.cur_n <= 0 + run.i
      BY <1>3, <1>4, <2>3, NAssumption
    <3>2. Allowed(jm, run.i)
      BY <1>2, <1>4, <3>1 DEF Behind, PushedOK
    <3> QED
      BY <1>1, <1>5, <1>6, <2>3, <3>2 DEF Allowed
  <2> QED
    BY <2>1, <2>2, <2>3
<1>8. Aligned(0)'
  BY <1>1, <1>2 DEF Behind, Aligned
<1>9. StoredOK(0)' /\ PushedOK(0)'
  BY <1>1, <1>2 DEF Behind, StoredOK, PushedOK, Allowed
<1>10. DataOK(0)'
  BY <1>1, <1>7 DEF DataOK
<1> QED
  BY <1>8, <1>9, <1>10 DEF Behind

\* what the flusher's run has applied, when all of it has been
LEMMA RunApplied ==
  ASSUME JInv, fpc = "meta"
  PROVE  /\ run.n \in 1 .. jm.cur_n
         /\ \A i \in Window(jm) : i < run.n =>
              data[ElementIn(slots, jm, i).target_block] = ElementIn(slots, jm, i).data
         /\ \A i, k \in Window(jm) :
              i < run.n /\ k < run.n
                => (ElementIn(slots, jm, i).target_block = ElementIn(slots, jm, k).target_block
                      => i = k)
<1>1. IInv /\ run.i = run.n /\ run.n \in 1 .. jm.cur_n /\ jm.cur_n \in 0 .. N
  BY JTypes DEF JInv, AppliedOK, IInv, RunOK, WindowOK
<1>2. \A i \in Window(jm) : i < run.n => i \in 0 .. run.n - 1
  BY <1>1, NAssumption DEF Window
<1>3. \A i \in 0 .. run.n - 1 :
         data[ElementIn(slots, jm, i).target_block] = ElementIn(slots, jm, i).data
  BY <1>1 DEF JInv, AppliedOK
<1>4. \A i \in Window(jm) : i < run.n =>
         data[ElementIn(slots, jm, i).target_block] = ElementIn(slots, jm, i).data
  BY <1>2, <1>3
<1>5. ASSUME NEW i \in Window(jm), NEW k \in Window(jm), i < run.n, k < run.n,
             ElementIn(slots, jm, i).target_block = ElementIn(slots, jm, k).target_block
      PROVE  i = k
  <2>1. i \in 0 .. run.n - 1 /\ k \in 0 .. run.n - 1
    BY <1>2, <1>5
  <2> QED
    BY <1>5, <2>1, RunDistinct
<1> QED
  BY <1>1, <1>4, <1>5

\* An element that is not hidden in the window in memory is allowed, and so is
\* what the data backend has for a block that is not hit there.
LEMMA LastAllowed ==
  ASSUME JInv, Behind(0)
  PROVE  /\ \A i \in Window(jm) :
              \/ Allowed(jm, i)
              \/ \E r \in Window(jm) :
                   /\ i < r /\ r < meta.cur_n
                   /\ ElementIn(slots, jm, r).target_block
                        = ElementIn(slots, jm, i).target_block
         /\ \A b \in Blocks :
              \/ data[b] \in may[b]
              \/ \E r \in Window(jm) :
                   r < meta.cur_n /\ ElementIn(slots, jm, r).target_block = b
<1>1. /\ IInv /\ Window(meta) \subseteq Window(jm)
      /\ \A i : ElementIn(slots, meta, i) = ElementIn(slots, jm, i)
  BY PrefixOfBehind DEF JInv, ElementIn
<1>2. \A r \in Window(meta) : r < meta.cur_n
  BY <1>1, JTypes, WindowType
<1>3. ASSUME NEW i \in Window(jm)
      PROVE  \/ Allowed(jm, i)
             \/ \E r \in Window(jm) :
                  /\ i < r /\ r < meta.cur_n
                  /\ ElementIn(slots, jm, r).target_block
                       = ElementIn(slots, jm, i).target_block
  <2>0. i \in Nat /\ meta.cur_n \in Nat
    BY <1>1, JTypes, WindowType DEF Meta
  <2>1. CASE meta.cur_n <= i
    <3>1. meta.cur_n <= 0 + i
      BY <2>0, <2>1
    <3> QED
      BY <3>1 DEF Behind, PushedOK
  <2>2. CASE ~(meta.cur_n <= i)
    <3>1. i \in Window(meta)
      BY <1>1, <2>0, <2>2, JTypes, WindowType
    <3> QED
      BY <1>1, <1>2, <3>1 DEF Behind, StoredOK, Allowed
  <2> QED
    BY <2>1, <2>2
<1>4. ASSUME NEW b \in Blocks
      PROVE  \/ data[b] \in may[b]
             \/ \E r \in Window(jm) :
                  r < meta.cur_n /\ ElementIn(slots, jm, r).target_block = b
  BY <1>1, <1>2 DEF Behind, DataOK
<1> QED
  BY <1>3, <1>4

\* The run leaves the ring in memory, and in storage or not.
LEMMA BehindCommits ==
  ASSUME JInv, IInv', FlusherCommits \/ FlusherCommitsIOError
  PROVE  \E n \in 0 .. N : Behind(n)'
<1>1. /\ fpc = "meta" /\ jm' = Consumed(jm, run.n) /\ slots' = slots /\ data' = data
      /\ may' = may /\ meta' \in {meta, jm'}
  BY DEF FlusherCommits, FlusherCommitsIOError, Dies
<1>2. IInv /\ Behind(0)
  BY <1>1, NotBehind DEF JInv
<1>3. run.n \in 1 .. jm.cur_n /\ jm.cur_n \in 0 .. N /\ run.n \in 0 .. N /\ meta.cur_n \in Nat
  BY <1>1, <1>2, RunApplied, JTypes, NAssumption DEF WindowOK, Meta
<1>4. \A i \in Window(jm') : /\ run.n + i \in Window(jm)
                             /\ ElementIn(slots, jm', i) = ElementIn(slots, jm, run.n + i)
  BY <1>1, <1>2, <1>3, JTypes, ConsumedWindow
<1>5. \A j \in Window(jm) : run.n <= j =>
        /\ j - run.n \in Window(jm')
        /\ ElementIn(slots, jm', j - run.n) = ElementIn(slots, jm, j)
  BY <1>1, <1>2, <1>3, <1>4, JTypes, ConsumedWindow
<1>6. \A i \in Window(jm) \cup Window(jm') : i \in Nat
  BY <1>2, JTypes, WindowType DEF IInv, TypeOK, JournalTypeOK, RingConsistent
<1>7. jm'.read_pointer = (jm.read_pointer + run.n) % N /\ jm'.cur_n = jm.cur_n - run.n
  BY <1>1, <1>2, <1>3, JTypes, ConsumedOK
\* what a block that is not hit behind the run has is allowed
<1>8. ASSUME NEW b \in Blocks, data[b] \notin may[b]
      PROVE  \E r \in Window(jm) :
               /\ run.n <= r /\ r < meta.cur_n /\ ElementIn(slots, jm, r).target_block = b
  <2>1. PICK r \in Window(jm) : r < meta.cur_n /\ ElementIn(slots, jm, r).target_block = b
    BY <1>2, <1>8, LastAllowed
  <2>2. CASE run.n <= r
    BY <2>1, <2>2
  <2>3. CASE r < run.n
    <3>1. data[b] = ElementIn(slots, jm, r).data
      BY <1>1, <2>1, <2>3, RunApplied
    <3>2. ~Allowed(jm, r)
      BY <1>8, <2>1, <3>1 DEF Allowed
    <3>3. PICK k \in Window(jm) :
            /\ r < k /\ k < meta.cur_n
            /\ ElementIn(slots, jm, k).target_block = ElementIn(slots, jm, r).target_block
      BY <1>2, <3>2, LastAllowed
    <3>4. ~(k < run.n)
      BY <1>1, <1>6, <2>3, <3>3, RunApplied
    <3>5. run.n <= k
      BY <1>3, <1>6, <3>4
    <3> QED
      BY <2>1, <3>3, <3>5
  <2> QED
    BY <1>3, <1>6, <2>2, <2>3
\* an element that is not hidden by one behind the run is allowed
<1>9. ASSUME NEW i \in Window(jm), ~Allowed(jm, i)
      PROVE  \E r \in Window(jm) :
               /\ run.n <= r /\ i < r /\ r < meta.cur_n
               /\ ElementIn(slots, jm, r).target_block = ElementIn(slots, jm, i).target_block
  <2>1. PICK r \in Window(jm) :
          /\ i < r /\ r < meta.cur_n
          /\ ElementIn(slots, jm, r).target_block = ElementIn(slots, jm, i).target_block
    BY <1>2, <1>9, LastAllowed
  <2>2. ~(r < run.n)
    <3>1. SUFFICES ASSUME r < run.n PROVE FALSE
      OBVIOUS
    <3>2. i < run.n /\ i # r
      BY <1>3, <1>6, <2>1, <3>1
    <3> QED
      BY <1>1, <2>1, <3>1, <3>2, RunApplied
  <2>3. run.n <= r
    BY <1>3, <1>6, <2>2
  <2> QED
    BY <2>1, <2>3
<1>10. CASE meta' = jm'
  <2>1. Aligned(0)' /\ PushedOK(0)'
    BY <1>10, AlignedAtZero
  <2>2. ASSUME NEW i \in Window(jm'),
               ElementIn(slots, jm', i).data \notin may[ElementIn(slots, jm', i).target_block]
        PROVE  \E r \in Window(jm') :
                 /\ 0 <= r /\ i < r
                 /\ ElementIn(slots, jm', r).target_block = ElementIn(slots, jm', i).target_block
    <3>1. run.n + i \in Window(jm) /\ ~Allowed(jm, run.n + i)
      BY <1>4, <2>2 DEF Allowed
    <3>2. PICK r \in Window(jm) :
            /\ run.n <= r /\ run.n + i < r /\ r < meta.cur_n
            /\ ElementIn(slots, jm, r).target_block
                 = ElementIn(slots, jm, run.n + i).target_block
      BY <1>9, <3>1
    <3>3. i < r - run.n /\ 0 <= r - run.n
      BY <1>3, <1>6, <3>2
    <3> QED
      BY <1>4, <1>5, <3>2, <3>3
  <2>3. ASSUME NEW b \in Blocks, data[b] \notin may[b]
        PROVE  \E r \in Window(jm') : 0 <= r /\ ElementIn(slots, jm', r).target_block = b
    <3>1. PICK r \in Window(jm) : run.n <= r /\ ElementIn(slots, jm, r).target_block = b
      BY <1>8, <2>3
    <3> QED
      BY <1>5, <1>6, <3>1
  <2>4. StoredOK(0)'
    BY <1>1, <1>10, <2>2 DEF StoredOK, Allowed
  <2>5. DataOK(0)'
    BY <1>1, <1>10, <2>3 DEF DataOK
  <2>6. 0 \in 0 .. N
    BY NAssumption
  <2> QED
    BY <2>1, <2>4, <2>5, <2>6 DEF Behind
<1>11. CASE meta' # jm'
  <2>0. PICK n0 \in 0 .. N : n0 = run.n
    BY <1>3
  <2>1. /\ meta' = meta /\ FlusherCommitsIOError
    BY <1>1, <1>11 DEF FlusherCommits
  <2>2. fpc' = "dead" /\ meta_dirty' /\ "meta" \in Faults
    BY <2>1 DEF FlusherCommitsIOError, Dies
  <2>3. /\ Window(meta) \subseteq Window(jm) /\ meta.read_pointer = jm.read_pointer
        /\ meta.cur_n <= jm.cur_n /\ meta.cur_n \in Int
        /\ \A i : ElementIn(slots, meta, i) = ElementIn(slots, jm, i)
    BY <1>2, <1>3, PrefixOfBehind DEF ElementIn
  <2>4. \A r \in Window(jm) : r < meta.cur_n => r \in Window(meta)
    BY <1>2, <1>6, <2>3, JTypes, WindowType
  <2>5. Aligned(n0)'
    <3>1. meta.cur_n <= n0 + jm'.cur_n
      BY <1>3, <1>7, <2>0, <2>3
    <3> QED
      BY <1>7, <2>0, <2>1, <2>2, <2>3, <3>1 DEF Aligned
  <2>6. StoredOK(n0)'
    <3>1. ASSUME NEW i \in Window(meta), ~Allowed(meta, i)
          PROVE  \E r \in Window(meta) :
                   /\ n0 <= r /\ i < r
                   /\ ElementIn(slots, meta, r).target_block
                        = ElementIn(slots, meta, i).target_block
      BY <1>9, <2>0, <2>3, <2>4, <3>1 DEF Allowed
    <3> QED
      BY <1>1, <2>1, <3>1 DEF StoredOK, Allowed
  <2>7. PushedOK(n0)'
    <3>1. ASSUME NEW i \in Window(jm'), meta.cur_n <= n0 + i
          PROVE  /\ ElementIn(slots, jm', i) = ElementIn(slots, jm, n0 + i)
                 /\ Allowed(jm, n0 + i)
      <4>1. n0 + i \in Window(jm) /\ meta.cur_n <= 0 + (n0 + i)
        BY <1>3, <1>4, <1>6, <2>0, <3>1
      <4> QED
        BY <1>2, <1>4, <2>0, <3>1, <4>1 DEF Behind, PushedOK
    <3> QED
      BY <1>1, <2>1, <3>1 DEF PushedOK, Allowed
  <2>8. DataOK(n0)'
    <3>1. ASSUME NEW b \in Blocks, data[b] \notin may[b]
          PROVE  \E r \in Window(meta) :
                   n0 <= r /\ ElementIn(slots, meta, r).target_block = b
      BY <1>8, <2>0, <2>3, <2>4, <3>1
    <3> QED
      BY <1>1, <2>1, <3>1 DEF DataOK
  <2> QED
    BY <1>3, <2>5, <2>6, <2>7, <2>8 DEF Behind
<1> QED
  BY <1>10, <1>11

\* An element is pushed.  Its slot may be one of the stored window when the
\* flusher has died: only a slot that the window in memory does not use.
LEMMA BehindPush ==
  ASSUME JInv, NEW c \in Clients, Push(c)
  PROVE  \E n \in 0 .. N : Behind(n)'
<1> DEFINE e == [a |-> req[c].a, target_block |-> at[c], data |-> req[c].data]
<1>1. /\ ~jm.full /\ jm' = Advanced(jm) /\ meta' = meta /\ data' = data /\ meta_dirty' = TRUE
      /\ slots' = [slots EXCEPT ![jm.write_pointer] = e]
      /\ may' = [may EXCEPT ![at[c]] = @ \cup {req[c].data}]
      /\ fpc' = FlusherWoken
  BY DEF Push
<1>2. IInv /\ may \in [Blocks -> SUBSET Values] /\ at[c] \in Blocks
  BY PushedElement DEF JInv, IInv, TypeOK, JournalTypeOK, Push, Active
<1>3. \A b \in Blocks : may[b] \subseteq may'[b]
  BY <1>1, <1>2
<1>4. e.target_block \in Blocks /\ e.data \in may'[e.target_block]
  BY <1>1, <1>2
<1> HIDE DEF e
<1>5. /\ \A i \in Window(jm') : i \in Window(jm) \/ i = jm.cur_n
      /\ \A i \in Window(jm) : ElementIn(slots', jm', i) = ElementIn(slots, jm, i)
      /\ ElementIn(slots', jm', jm.cur_n) = e
  BY <1>1, <1>2, PushedWindow
<1>6. \A i \in Window(meta) : \/ ElementIn(slots', meta, i) = ElementIn(slots, meta, i)
                              \/ ElementIn(slots', meta, i) = e
  BY <1>1, <1>2, PushedWindow
<1>7. \A i \in Window(jm) : ElementIn(slots', jm, i) = ElementIn(slots, jm, i)
  BY <1>1, <1>2, PushedWindow
<1>8. PICK n \in 0 .. N : Behind(n)
  BY DEF JInv
<1>9. \A r \in Window(meta) : n <= r => ElementIn(slots', meta, r) = ElementIn(slots, meta, r)
  BY <1>2, <1>7, <1>8, BehindSame DEF ElementIn
<1>10. /\ \A i \in Window(jm) : ElementIn(slots, jm, i).target_block \in Blocks
       /\ \A i \in Window(meta) : ElementIn(slots, meta, i).target_block \in Blocks
  BY <1>2, TargetType
<1>11. Aligned(n)'
  <2>1. jm'.read_pointer = jm.read_pointer /\ jm'.cur_n = jm.cur_n + 1
    BY <1>1, <1>2, JTypes, AdvancedOK
  <2>2. jm.cur_n \in Int /\ meta.cur_n \in Int /\ n \in Int
    BY <1>2, JTypes, NAssumption DEF Meta
  <2>3. meta.cur_n <= n + jm'.cur_n
    BY <1>8, <2>1, <2>2 DEF Behind, Aligned
  <2>4. fpc = "dead" => fpc' = "dead"
    BY <1>1 DEF FlusherWoken
  <2> QED
    BY <1>1, <1>8, <2>1, <2>3, <2>4 DEF Behind, Aligned
<1>12. StoredOK(n)'
  <2>1. ASSUME NEW i \in Window(meta)
        PROVE  \/ ElementIn(slots', meta, i).data
                    \in may'[ElementIn(slots', meta, i).target_block]
               \/ \E r \in Window(meta) :
                    /\ n <= r /\ i < r
                    /\ ElementIn(slots', meta, r).target_block
                         = ElementIn(slots', meta, i).target_block
    <3>1. CASE ElementIn(slots', meta, i) = e
      BY <1>4, <3>1
    <3>2. CASE ElementIn(slots', meta, i) = ElementIn(slots, meta, i) /\ Allowed(meta, i)
      BY <1>3, <1>10, <3>2 DEF Allowed
    <3>3. CASE ElementIn(slots', meta, i) = ElementIn(slots, meta, i) /\ ~Allowed(meta, i)
      BY <1>8, <1>9, <3>3 DEF Behind, StoredOK
    <3> QED
      BY <1>6, <3>1, <3>2, <3>3
  <2> QED
    BY <1>1, <2>1 DEF StoredOK, Allowed
<1>13. PushedOK(n)'
  <2>1. ASSUME NEW i \in Window(jm'), meta.cur_n <= n + i
        PROVE  ElementIn(slots', jm', i).data \in may'[ElementIn(slots', jm', i).target_block]
    <3>1. CASE i \in Window(jm)
      BY <1>3, <1>5, <1>8, <1>10, <2>1, <3>1 DEF Behind, PushedOK, Allowed
    <3>2. CASE i = jm.cur_n
      BY <1>4, <1>5, <3>2
    <3> QED
      BY <1>5, <3>1, <3>2
  <2> QED
    BY <1>1, <2>1 DEF PushedOK, Allowed
<1>14. DataOK(n)'
  <2>1. ASSUME NEW b \in Blocks
        PROVE  \/ data[b] \in may'[b]
               \/ \E r \in Window(meta) : n <= r /\ ElementIn(slots', meta, r).target_block = b
    BY <1>3, <1>8, <1>9 DEF Behind, DataOK
  <2> QED
    BY <1>1, <2>1 DEF DataOK
<1> QED
  BY <1>11, <1>12, <1>13, <1>14 DEF Behind

LEMMA BehindPushFails ==
  ASSUME JInv, SlotsWhole, NEW c \in Clients, PushIOError(c)
  PROVE  \E n \in 0 .. N : Behind(n)'
<1>1. ~jm.full /\ UNCHANGED <<jm, meta, data, meta_dirty, fpc, may>>
  BY DEF PushIOError
<1>2. CASE slots' = slots
  BY <1>1, <1>2, BehindKept
<1>3. CASE "torn" \in Faults /\ slots' = [slots EXCEPT ![jm.write_pointer] = Invalid]
  <2>1. IInv /\ Behind(0)
    BY <1>3, NotBehind DEF SlotsWhole, JInv
  <2>2. \A i \in Window(jm) : ElementIn(slots', jm, i) = ElementIn(slots, jm, i)
    BY <1>1, <1>3, <2>1, PushedWindow
  <2>3. Behind(0)'
    BY <1>1, <2>1, <2>2, BehindOutside
  <2> QED
    BY <2>3, NAssumption
<1> QED
  BY <1>2, <1>3 DEF PushIOError

LEMMA BehindTransaction ==
  ASSUME JInv, IInv', NEW c \in Clients, TransactionEnd(c) \/ TransactionEndIOError(c)
  PROVE  \E n \in 0 .. N : Behind(n)'
<1>0. IInv /\ DirtyOK /\ 0 \in 0 .. N
  BY NAssumption DEF JInv
<1>1. UNCHANGED <<jm, slots, data, fpc>>
  BY DEF TransactionEnd, TransactionEndIOError
<1>2. CASE TransactionEnd(c)
  <2>1. meta' = jm
    BY <1>0, <1>2 DEF TransactionEnd, DirtyOK
  <2>2. CASE err[c]
    <3>1. may' = may
      BY <1>2, <2>2 DEF TransactionEnd
    <3> QED
      BY <1>0, <1>1, <2>1, <3>1, StoredNow
  <2>3. CASE ~err[c]
    <3>1. may' = [b \in Blocks |-> {Replayed(jm, jm.cur_n, b)}]
      BY <1>2, <2>3 DEF TransactionEnd
    <3> DEFINE m == jm
    <3>2. m \in Meta /\ WindowOK(m) /\ m \in {jm, meta}
      BY <1>0, JTypes
    <3>3. Behind(0)'
      BY <1>0, <1>1, <2>1, <3>1, <3>2, SettledOK
    <3> QED
      BY <1>0, <3>3
  <2> QED
    BY <2>2, <2>3
<1>3. CASE TransactionEndIOError(c)
  <2>1. may' = may /\ meta_dirty' = meta_dirty /\ meta' \in {meta, jm}
    BY <1>3 DEF TransactionEndIOError
  <2>2. CASE meta' = meta
    BY <1>1, <2>1, <2>2, BehindKept
  <2>3. CASE meta' = jm
    BY <1>0, <1>1, <2>1, <2>3, StoredNow
  <2> QED
    BY <2>1, <2>2, <2>3
<1> QED
  BY <1>2, <1>3

\* what the constructor finds is what it replays
LEMMA RecoveredIs ==
  ASSUME JInv, NEW b \in Blocks
  PROVE  Recovered(b) = Replayed(meta, meta.cur_n, b)
BY AllReplayable DEF JInv, Recovered

LEMMA BehindStep ==
  ASSUME JInv, IInv', SlotsWhole, [Next]_vars
  PROVE  \E n \in 0 .. N : Behind(n)'
<1>0. IInv /\ 0 \in 0 .. N
  BY NAssumption DEF JInv
<1>1. CASE Quiet
  BY <1>1, BehindKept DEF Quiet
<1>2. ASSUME NEW c \in Clients,
             Push(c) \/ PushIOError(c) \/ TransactionEnd(c) \/ TransactionEndIOError(c)
      PROVE  \E n \in 0 .. N : Behind(n)'
  BY <1>2, BehindPush, BehindPushFails, BehindTransaction
<1>3. CASE FlusherTakes
  <2>1. UNCHANGED <<jm, meta, slots, data, meta_dirty, may>> /\ fpc # "dead"
    BY <1>3 DEF FlusherTakes, jvars
  <2> QED
    BY <2>1, BehindKept
<1>4. CASE FlusherApplies
  BY <1>0, <1>4, BehindApplies
<1>5. CASE FlusherCommits \/ FlusherCommitsIOError
  BY <1>5, BehindCommits
<1>6. CASE FlusherClears \/ FlusherClearsIOError
  <2>1. fpc = "clear" /\ UNCHANGED <<data, may>>
    BY <1>6 DEF FlusherClears, FlusherClearsIOError
  <2>2. Behind(0)
    BY <2>1, NotBehind
  <2>3. /\ jm' = jm /\ meta' = meta
        /\ \A i \in Window(jm) : ElementIn(slots', jm, i) = ElementIn(slots, jm, i)
    BY <1>6, ClearedWindow
  <2>4. Behind(0)'
    BY <2>1, <2>2, <2>3, BehindOutside
  <2> QED
    BY <1>0, <2>4
<1>7. CASE Construct
  <2>1. /\ jm' = meta /\ meta' = meta /\ slots' = slots /\ data' = data
        /\ may' = [b \in Blocks |-> {Recovered(b)}]
    BY <1>7 DEF Construct, Boot
  <2>2. may' = [b \in Blocks |-> {Replayed(meta, meta.cur_n, b)}]
    BY <2>1, RecoveredIs
  <2>3. Behind(0)'
    BY <1>0, <2>1, <2>2, JTypes, SettledOK
  <2> QED
    BY <1>0, <2>3
<1> QED
  BY <1>1, <1>2, <1>3, <1>4, <1>5, <1>6, <1>7, StepKinds

LEMMA JInit == Init => JInv
<1> SUFFICES ASSUME Init PROVE JInv
  OBVIOUS
<1>1. IInv
  BY InitOK
<1>2. /\ jm = NewMeta /\ meta = NewMeta /\ fpc = "top"
      /\ pc = [c \in Clients |-> "idle"]
      /\ data = [b \in Blocks |-> Zero] /\ may = [b \in Blocks |-> {Zero}]
  BY DEF Init
<1>3. Window(jm) = {} /\ Window(meta) = {} /\ meta.cur_n = 0 /\ jm.cur_n = 0
      /\ meta.read_pointer = jm.read_pointer
  BY <1>2 DEF Window, NewMeta
<1>4. ClientsOK /\ DirtyOK /\ AppliedOK
  BY <1>2 DEF ClientsOK, DirtyOK, AppliedOK, Active
<1>5. ReadableIn(slots, jm) /\ ReadableIn(slots, meta)
  BY <1>3 DEF ReadableIn
<1>6. Behind(0)
  <2>1. jm.read_pointer = (meta.read_pointer + 0) % N
    <3>1. meta.read_pointer \in Slots
      BY <1>1, JTypes DEF Meta
    <3> QED
      BY <1>3, <3>1, Wrap, NAssumption DEF Slots
  <2>2. Aligned(0)
    BY <1>3, <2>1 DEF Aligned
  <2>3. StoredOK(0) /\ PushedOK(0) /\ DataOK(0)
    BY <1>2, <1>3 DEF StoredOK, PushedOK, DataOK
  <2> QED
    BY <2>2, <2>3 DEF Behind
<1> QED
  BY <1>1, <1>4, <1>5, <1>6, NAssumption DEF JInv

LEMMA JNext ==
  ASSUME SlotsWhole
  PROVE  JInv /\ [Next]_vars => JInv'
<1> SUFFICES ASSUME JInv, [Next]_vars PROVE JInv'
  OBVIOUS
<1>1. IInv /\ IInv' /\ ClientsOK
  BY NextOK DEF JInv
<1>2. ClientsOK' /\ DirtyOK' /\ AppliedOK'
  BY <1>1, ClientsStep, DirtyStep, AppliedStep
<1>3. ReadableIn(slots, jm)' /\ ReadableIn(slots, meta)'
  BY <1>1, ReadableStep
<1>4. \E n \in 0 .. N : Behind(n)'
  BY <1>1, BehindStep
<1> QED
  BY <1>1, <1>2, <1>3, <1>4 DEF JInv

\* what a restart finds was promised
LEMMA RecoveryIsSafe ==
  ASSUME JInv
  PROVE  RecoverySafe
<1> SUFFICES ASSUME NEW b \in Blocks PROVE Recovered(b) \in may[b]
  BY DEF RecoverySafe
<1>1. PICK n \in 0 .. N : Behind(n)
  BY DEF JInv
<1>2. meta.cur_n \in Nat /\ \A i \in Window(meta) : i \in Int /\ 0 <= i
  BY JTypes, WindowType DEF JInv, Meta
<1>3. Recovered(b) = Replayed(meta, meta.cur_n, b)
  BY RecoveredIs
<1>4. CASE /\ \A i \in Window(meta) : ElementIn(slots, meta, i).target_block # b
           /\ Replayed(meta, meta.cur_n, b) = data[b]
  BY <1>1, <1>3, <1>4 DEF Behind, DataOK
<1>5. ASSUME NEW i \in Window(meta),
             ElementIn(slots, meta, i).target_block = b,
             \A j \in Window(meta) : ElementIn(slots, meta, j).target_block = b => j <= i,
             Replayed(meta, meta.cur_n, b) = ElementIn(slots, meta, i).data
      PROVE  Recovered(b) \in may[b]
  <2>1. Allowed(meta, i)
    <3>1. ASSUME NEW r \in Window(meta), i < r,
                 ElementIn(slots, meta, r).target_block = ElementIn(slots, meta, i).target_block
          PROVE  FALSE
      <4>1. r <= i /\ r \in Int /\ i \in Int
        BY <1>2, <1>5, <3>1
      <4> QED
        BY <3>1, <4>1
    <3> QED
      BY <1>1, <3>1 DEF Behind, StoredOK
  <2> QED
    BY <1>3, <1>5, <2>1 DEF Allowed
<1> QED
  BY <1>2, <1>4, <1>5, ReplayedIs

\* A restart at any moment can read every element that the stored meta data
\* promises: push_action stores the element before transaction_end stores the
\* meta data, operator() stores the meta data before it clears.
THEOREM StoredWindowIsReadable ==
  ASSUME SlotsWhole
  PROVE  Spec => []StoredWindowReadable
<1>1. JInv => StoredWindowReadable
  BY DEF JInv, ReadableIn, StoredWindowReadable, Element, ElementIn
<1> QED
  BY <1>1, JInit, JNext, PTL DEF Spec

\* Whatever fails, and whenever the process is killed, what the constructor
\* recovers of a block is its value at the last transaction_end that put_data
\* acknowledged or one pushed since.
THEOREM RecoveryAlwaysSafe ==
  ASSUME SlotsWhole
  PROVE  Spec => []RecoverySafe
<1>1. JInv => RecoverySafe
  BY RecoveryIsSafe
<1> QED
  BY <1>1, JInit, JNext, PTL DEF Spec

(***************************************************************************)
(* The cache.                                                              *)
(***************************************************************************)

\* the cache that the first k elements of the window of m leave
LoadIn(s, m, k) ==
  [b \in Blocks |->
     [n |-> Cardinality(HitsIn(s, m, k, b)),
      data |-> IF HitsIn(s, m, k, b) = {} THEN Zero
               ELSE ElementIn(s, m, Max(HitsIn(s, m, k, b))).data]]

LEMMA LoadInSame ==
  ASSUME NEW s, NEW m, NEW t, NEW l, NEW k \in Nat,
         \A i \in 0 .. k - 1 : ElementIn(t, l, i) = ElementIn(s, m, i)
  PROVE  LoadIn(t, l, k) = LoadIn(s, m, k)
<1> SUFFICES ASSUME NEW b \in Blocks
             PROVE  LoadIn(t, l, k)[b] = LoadIn(s, m, k)[b]
  BY DEF LoadIn
<1> DEFINE H == HitsIn(s, m, k, b)
<1>1. HitsIn(t, l, k, b) = H
  BY DEF HitsIn
<1>2. H # {} => ElementIn(t, l, Max(H)) = ElementIn(s, m, Max(H))
  <2>1. SUFFICES ASSUME H # {} PROVE Max(H) \in 0 .. k - 1
    OBVIOUS
  <2>2. Max(H) \in H
    BY <2>1, LastHit
  <2> QED
    BY <2>2 DEF HitsIn
<1>3. /\ LoadIn(t, l, k)[b] = [n |-> Cardinality(H),
                               data |-> IF H = {} THEN Zero ELSE ElementIn(t, l, Max(H)).data]
      /\ LoadIn(s, m, k)[b] = [n |-> Cardinality(H),
                               data |-> IF H = {} THEN Zero ELSE ElementIn(s, m, Max(H)).data]
  BY <1>1 DEF LoadIn
<1> HIDE DEF H
<1> QED
  BY <1>2, <1>3

\* one more element
LEMMA LoadInMore ==
  ASSUME NEW s, NEW m, NEW t, NEW l, NEW k \in Nat, NEW c \in Blocks,
         \A i \in 0 .. k - 1 : ElementIn(t, l, i) = ElementIn(s, m, i),
         ElementIn(t, l, k).target_block = c
  PROVE  LoadIn(t, l, k + 1) =
           [LoadIn(s, m, k) EXCEPT ![c] = [n |-> @.n + 1, data |-> ElementIn(t, l, k).data]]
<1> DEFINE A == LoadIn(s, m, k)
           B == LoadIn(t, l, k + 1)
<1>0. A = [b \in Blocks |-> A[b]] /\ B = [b \in Blocks |-> B[b]]
  BY DEF LoadIn
<1>1. ASSUME NEW b \in Blocks
      PROVE  B[b] = IF b = c THEN [n |-> A[b].n + 1, data |-> ElementIn(t, l, k).data]
                    ELSE A[b]
  <2> DEFINE H == HitsIn(t, l, k, b)
             G == HitsIn(t, l, k + 1, b)
  <2>1. LoadIn(t, l, k)[b] = LoadIn(s, m, k)[b]
    BY LoadInSame
  <2>2. /\ LoadIn(t, l, k)[b] = [n |-> Cardinality(H),
                                 data |-> IF H = {} THEN Zero ELSE ElementIn(t, l, Max(H)).data]
        /\ LoadIn(t, l, k + 1)[b] = [n |-> Cardinality(G),
                                 data |-> IF G = {} THEN Zero ELSE ElementIn(t, l, Max(G)).data]
    BY DEF LoadIn
  <2>3. IsFiniteSet(H) /\ H \subseteq 0 .. k - 1
    <3>1. IsFiniteSet(H)
      BY HitsFinite
    <3>2. H \subseteq 0 .. k - 1
      BY DEF HitsIn
    <3> QED
      BY <3>1, <3>2
  <2>4. G = IF b = c THEN H \cup {k} ELSE H
    <3>1. \A i : i \in 0 .. k + 1 - 1 <=> i \in 0 .. k - 1 \/ i = k
      OBVIOUS
    <3>2. \A i : i \in G <=> i \in 0 .. k + 1 - 1 /\ ElementIn(t, l, i).target_block = b
      BY DEF HitsIn
    <3>3. \A i : i \in H <=> i \in 0 .. k - 1 /\ ElementIn(t, l, i).target_block = b
      BY DEF HitsIn
    <3> HIDE DEF H, G
    <3> QED
      BY <3>1, <3>2, <3>3
  <2> HIDE DEF H, G
  <2>5. CASE b # c
    BY <2>1, <2>2, <2>4, <2>5
  <2>6. CASE b = c
    <3>1. G = H \cup {k} /\ k \notin H
      BY <2>3, <2>4, <2>6
    <3>2. Cardinality(G) = Cardinality(H) + 1
      BY <2>3, <3>1, FS_AddElement
    <3>3. Max(G) = k
      <4>1. G \subseteq 0 .. k /\ k \in G /\ \A y \in G : y <= k
        BY <2>3, <3>1
      <4> QED
        BY <4>1, MaxIs
    <3> QED
      BY <2>1, <2>2, <2>6, <3>1, <3>2, <3>3
  <2> QED
    BY <2>5, <2>6
<1> HIDE DEF A, B
<1>2. B = [A EXCEPT ![c] = [n |-> A[c].n + 1, data |-> ElementIn(t, l, k).data]]
  BY <1>0, <1>1
<1> QED
  BY <1>2 DEF A, B

\* a set of numbers, moved by n
Shifted(n, S) == {n + x : x \in S}

\* moving a set of numbers keeps how many they are and which is the greatest
LEMMA ShiftedSet ==
  ASSUME NEW k \in Nat, NEW n \in Nat, NEW S, S \subseteq 0 .. k
  PROVE  /\ IsFiniteSet(Shifted(n, S)) /\ Cardinality(Shifted(n, S)) = Cardinality(S)
         /\ S # {} => Max(Shifted(n, S)) = n + Max(S)
<1> DEFINE T == {n + x : x \in S}
           f == [x \in S |-> n + x]
<1>1. \A x \in S : x \in Int /\ 0 <= x /\ x <= k /\ (n + x) - n = x /\ n + x \in Int
  OBVIOUS
<1>2. \A x \in S : n + x \in T
  BY <1>1
<1>3. \A y \in T : y - n \in S /\ n + (y - n) = y
  BY <1>1
<1>4. f \in Bijection(S, T)
  <2>1. f \in [S -> T]
    BY <1>2
  <2>2. \A x, y \in S : f[x] = f[y] => x = y
    BY <1>1
  <2>3. \A y \in T : \E x \in S : f[x] = y
    BY <1>3
  <2> QED
    BY <2>1, <2>2, <2>3 DEF Bijection, Injection, Surjection, IsInjective
<1>5. IsFiniteSet(S)
  <2>1. IsFiniteSet(0 .. k)
    BY FS_Interval
  <2> QED
    BY <2>1, FS_Subset
<1>6. IsFiniteSet(T) /\ Cardinality(T) = Cardinality(S)
  <2>1. ExistsBijection(S, T)
    BY <1>4 DEF ExistsBijection
  <2> HIDE DEF T
  <2> QED
    BY <1>5, <2>1, FS_Bijection
<1>7. ASSUME S # {}
      PROVE  Max(T) = n + Max(S)
  <2> DEFINE x == Max(S)
  <2>1. x \in S /\ \A y \in S : x >= y
    BY <1>7, MaxOfSet
  <2> HIDE DEF x, f
  <2>2. n + x \in T /\ \A y \in T : y <= n + x
    BY <1>1, <1>2, <1>3, <2>1
  <2>3. T \subseteq 0 .. n + k /\ n + k \in Nat
    BY <1>1, <1>3
  <2>4. Max(T) = n + x
    <3> HIDE DEF T
    <3> QED
      BY <2>2, <2>3, MaxIs
  <2> QED
    BY <2>4 DEF x
<1> QED
  BY <1>6, <1>7 DEF Shifted

\* the elements for block b, when the run is no longer in the ring
LEMMA ConsumedHits ==
  ASSUME JInv, fpc = "meta", NEW b \in Blocks
  PROVE  LET n == run.n
             c == Consumed(jm, n)
             S == HitsIn(slots, jm, jm.cur_n, b)
             T == HitsIn(slots, c, c.cur_n, b)
         IN  /\ b \in RunBlocks => Cardinality(S) = Cardinality(T) + 1 /\ S # {}
             /\ b \notin RunBlocks => Cardinality(S) = Cardinality(T) /\ (S = {} <=> T = {})
             /\ T # {} => /\ S # {}
                          /\ ElementIn(slots, c, Max(T)) = ElementIn(slots, jm, Max(S))
             /\ Cardinality(T) \in Nat /\ (T = {} <=> Cardinality(T) = 0)
<1> DEFINE n == run.n
           k == jm.cur_n
           c == Consumed(jm, n)
           S == HitsIn(slots, jm, k, b)
           T == HitsIn(slots, c, c.cur_n, b)
           U == {x \in S : n <= x}
           F == FirstBlock
<1>1. IInv /\ n \in 1 .. k /\ k \in 0 .. N /\ n \in Nat /\ k \in Nat
  BY JTypes, NAssumption DEF JInv, IInv, RunOK, WindowOK
<1>2. \A i \in 0 .. n - 1 : ElementIn(slots, jm, i).target_block = F + i
  BY DEF JInv, AppliedOK
<1>3. c.cur_n = k - n /\ k - n \in Nat
  <2>1. c.cur_n = k - n
    BY <1>1, JTypes, ConsumedOK
  <2> HIDE DEF c, k, n
  <2> QED
    BY <1>1, <2>1
<1>4. /\ \A i \in Window(c) : ElementIn(slots, c, i) = ElementIn(slots, jm, n + i)
      /\ \A i : i \in Window(c) <=> i \in Int /\ 0 <= i /\ i < k - n
  <2>1. \A i \in Window(c) : ElementIn(slots, c, i) = ElementIn(slots, jm, n + i)
    BY <1>1, JTypes, ConsumedWindow
  <2>2. c \in Meta /\ WindowOK(c)
    BY <1>1, JTypes, ConsumedOK
  <2> HIDE DEF c, k, n
  <2>3. \A i : i \in Window(c) <=> i \in Int /\ 0 <= i /\ i < k - n
    BY <1>3, <2>2, WindowType
  <2> QED
    BY <2>1, <2>3
<1>5. F \in Int
  <2>1. 0 \in Window(jm)
    BY <1>1, NAssumption DEF Window
  <2>2. ElementIn(slots, jm, 0).target_block \in Blocks
    BY <1>1, <2>1, TargetType
  <2> QED
    BY <2>2, NumBlocksAssumption DEF FirstBlock, Element, ElementIn, Blocks
<1>6. /\ \A x : x \in S <=> x \in 0 .. k - 1 /\ ElementIn(slots, jm, x).target_block = b
      /\ \A x : x \in T <=> x \in Window(c) /\ ElementIn(slots, c, x).target_block = b
  BY DEF HitsIn, Window
<1>7. b \in RunBlocks <=> b - F \in 0 .. n - 1
  <2>1. RunBlocks = F .. F + n - 1 /\ b \in Int
    BY NumBlocksAssumption DEF RunBlocks, Blocks
  <2> HIDE DEF F, n
  <2> QED
    BY <1>1, <1>5, <2>1
<1>8. IsFiniteSet(T) /\ Cardinality(T) \in Nat /\ (T # {} <=> Cardinality(T) > 0)
  <2> HIDE DEF c
  <2> QED
    BY <1>3, HitsFinite
<1> HIDE DEF n, k, c, S, T, F
<1>9. \A x : x \in U <=> x - n \in T /\ x \in Int
  <2>1. ASSUME NEW x \in U
        PROVE  x - n \in T /\ x \in Int
    <3>1. x \in Int /\ n <= x /\ x <= k - 1 /\ ElementIn(slots, jm, x).target_block = b
      BY <1>1, <1>6
    <3>2. x - n \in Window(c) /\ n + (x - n) = x
      BY <1>1, <1>4, <3>1
    <3> QED
      BY <1>4, <1>6, <3>1, <3>2
  <2>2. ASSUME NEW x \in Int, x - n \in T
        PROVE  x \in U
    <3>1. /\ x - n \in Window(c) /\ ElementIn(slots, c, x - n).target_block = b
          /\ n + (x - n) = x
      BY <1>1, <1>6, <2>2
    <3>2. x \in 0 .. k - 1 /\ n <= x
      BY <1>1, <1>4, <3>1
    <3> QED
      BY <1>4, <1>6, <3>1, <3>2
  <2> QED
    BY <2>1, <2>2
<1>10. T \subseteq 0 .. k
  BY <1>1, <1>4, <1>6
<1>11. /\ IsFiniteSet(U) /\ Cardinality(U) = Cardinality(T)
       /\ T # {} => Max(U) = n + Max(T)
  <2>1. \A x \in T : n + x \in Int /\ (n + x) - n = x
    BY <1>1, <1>10
  <2>2. \A x \in U : n + (x - n) = x
    BY <1>1, <1>9
  <2> HIDE DEF U
  <2>3. U = Shifted(n, T)
    BY <2>1, <2>2, <1>9 DEF Shifted
  <2> QED
    BY <1>1, <1>10, <2>3, ShiftedSet
<1>12. U = {} <=> T = {}
  <2>1. ASSUME NEW x \in T
        PROVE  n + x \in U
    <3>1. x \in Int /\ n + x \in Int /\ (n + x) - n = x
      BY <1>1, <1>10
    <3> QED
      BY <1>9, <3>1
  <2> QED
    BY <1>9, <2>1
<1>13. ASSUME b \in RunBlocks
       PROVE  Cardinality(S) = Cardinality(T) + 1 /\ S # {}
  <2>1. b - F \in 0 .. n - 1 /\ b - F \in 0 .. k - 1 /\ b \in Int /\ F + (b - F) = b
    BY <1>1, <1>5, <1>7, <1>13, NumBlocksAssumption DEF Blocks
  <2>2. b - F \in S /\ b - F \notin U
    BY <1>1, <1>2, <1>6, <2>1
  <2>3. ASSUME NEW x \in S, x # b - F
        PROVE  x \in U
    <3>1. x \in 0 .. k - 1 /\ ElementIn(slots, jm, x).target_block = b
      BY <1>6
    <3>2. SUFFICES ASSUME ~(n <= x) PROVE FALSE
      OBVIOUS
    <3>3. x \in 0 .. n - 1
      BY <1>1, <3>1, <3>2
    <3>4. b = F + x
      BY <1>2, <3>1, <3>3
    <3> QED
      BY <1>5, <2>3, <3>3, <3>4
  <2>4. S = U \cup {b - F}
    BY <2>2, <2>3
  <2> QED
    BY <1>11, <2>2, <2>4, FS_AddElement
<1>14. ASSUME b \notin RunBlocks
       PROVE  Cardinality(S) = Cardinality(T) /\ (S = {} <=> T = {})
  <2>1. ASSUME NEW x \in S
        PROVE  n <= x
    <3>1. x \in 0 .. k - 1 /\ ElementIn(slots, jm, x).target_block = b
      BY <1>6
    <3>2. SUFFICES ASSUME ~(n <= x) PROVE FALSE
      OBVIOUS
    <3>3. x \in 0 .. n - 1
      BY <1>1, <3>1, <3>2
    <3>4. b = F + x
      BY <1>2, <3>1, <3>3
    <3>5. b - F = x
      BY <1>5, <3>3, <3>4
    <3> QED
      BY <1>7, <1>14, <3>3, <3>5
  <2>2. S = U
    BY <2>1
  <2> QED
    BY <1>11, <1>12, <2>2
<1>15. ASSUME T # {}
       PROVE  S # {} /\ ElementIn(slots, c, Max(T)) = ElementIn(slots, jm, Max(S))
  <2> DEFINE x == Max(T)
             y == Max(U)
  <2>1. x \in T /\ y = n + x
    BY <1>1, <1>10, <1>11, <1>15, MaxOfSet
  <2>2. U \subseteq 0 .. k /\ U # {}
    BY <1>1, <1>6, <1>12, <1>15
  <2>3. y \in U /\ \A z \in U : y >= z
    <3> HIDE DEF U
    <3> QED
      BY <1>1, <2>2, MaxOfSet
  <2> HIDE DEF x, y
  <2>4. S \subseteq 0 .. k /\ y \in S
    BY <1>1, <1>6, <2>3
  <2>5. ASSUME NEW z \in S
        PROVE  z <= y
    <3>1. z \in Int /\ y \in Int /\ n <= y
      BY <1>1, <2>3, <2>4
    <3>2. CASE n <= z
      BY <2>3, <3>1, <3>2
    <3>3. CASE ~(n <= z)
      BY <1>1, <3>1, <3>3
    <3> QED
      BY <3>2, <3>3
  <2>6. Max(S) = y
    BY <1>1, <2>4, <2>5, MaxIs
  <2>7. ElementIn(slots, c, x) = ElementIn(slots, jm, n + x)
    BY <1>4, <1>6, <2>1
  <2> QED
    BY <2>1, <2>4, <2>6, <2>7 DEF x
<1>16. T = {} <=> Cardinality(T) = 0
  BY <1>8
<1> QED
  BY <1>8, <1>13, <1>14, <1>15, <1>16 DEF S, T, c, k, n

\* a block when the run leaves the cache
LEMMA CacheCommitsBlock ==
  ASSUME JInv, CacheMatchesRing, fpc = "meta", NEW b \in Blocks
  PROVE  /\ b \in RunBlocks => cache[b].n # 0
         /\ CacheWithoutRun[b]
              = LoadIn(slots, Consumed(jm, run.n), Consumed(jm, run.n).cur_n)[b]
<1> DEFINE c == Consumed(jm, run.n)
           S == HitsIn(slots, jm, jm.cur_n, b)
           T == HitsIn(slots, c, c.cur_n, b)
           L == LoadIn(slots, c, c.cur_n)[b]
           x == Cardinality(S)
           y == Cardinality(T)
           d == IF S = {} THEN Zero ELSE ElementIn(slots, jm, Max(S)).data
           e == IF T = {} THEN Zero ELSE ElementIn(slots, c, Max(T)).data
<1>1. cache[b] = [n |-> x, data |-> d]
  BY LoadIs DEF CacheMatchesRing
<1>2. L = [n |-> y, data |-> e]
  BY DEF LoadIn
<1>3. /\ b \in RunBlocks => x = y + 1
      /\ b \notin RunBlocks => x = y
      /\ y \in Nat
  BY ConsumedHits
<1>4. T # {} => e = d
  BY ConsumedHits
<1>5. b \notin RunBlocks => e = d
  BY ConsumedHits
<1>6. T = {} => e = Zero /\ y = 0
  BY ConsumedHits
<1>7. T # {} => y # 0
  BY ConsumedHits
<1> HIDE DEF c, S, T, L, x, y, d, e
<1>8. CASE b \notin RunBlocks
  <2>1. CacheWithoutRun[b] = cache[b]
    BY <1>8 DEF CacheWithoutRun
  <2> QED
    BY <1>1, <1>2, <1>3, <1>5, <1>8, <2>1 DEF L, c
<1>9. CASE b \in RunBlocks /\ T = {}
  <2>1. cache[b].n = 1 /\ y = 0
    BY <1>1, <1>3, <1>6, <1>9
  <2>2. CacheWithoutRun[b] = [n |-> 0, data |-> Zero]
    BY <1>9, <2>1 DEF CacheWithoutRun
  <2> QED
    BY <1>2, <1>6, <1>9, <2>1, <2>2 DEF L, c
<1>10. CASE b \in RunBlocks /\ T # {}
  <2>1. cache[b].n = y + 1 /\ y \in Nat /\ y # 0
    BY <1>1, <1>3, <1>7, <1>10
  <2>2. cache[b].n # 0 /\ cache[b].n # 1 /\ cache[b].n - 1 = y
    BY <2>1
  <2>3. CacheWithoutRun[b] = [cache[b] EXCEPT !.n = @ - 1]
    BY <1>10, <2>2 DEF CacheWithoutRun
  <2>4. CacheWithoutRun[b] = [n |-> y, data |-> e]
    BY <1>1, <1>4, <1>10, <2>2, <2>3
  <2> QED
    BY <1>2, <2>2, <2>4 DEF L, c
<1> QED
  BY <1>8, <1>9, <1>10

\* the blocks of the run are blocks
LEMMA RunBlocksType ==
  ASSUME JInv, fpc \in {"data", "meta"}
  PROVE  RunBlocks \subseteq Blocks
<1> DEFINE n == run.n
<1>1. IInv /\ n \in 1 .. jm.cur_n /\ jm.cur_n \in 0 .. N
  BY JTypes DEF JInv, IInv, RunOK, WindowOK
<1> SUFFICES ASSUME NEW b \in RunBlocks
             PROVE  b \in Blocks
  OBVIOUS
<1>2. 0 \in Window(jm)
  BY <1>1, NAssumption DEF Window
<1>3. FirstBlock \in Int
  <2>1. ElementIn(slots, jm, 0).target_block \in Blocks
    BY <1>1, <1>2, TargetType
  <2> QED
    BY <2>1, NumBlocksAssumption DEF FirstBlock, Element, ElementIn, Blocks
<1>4. b \in FirstBlock .. FirstBlock + n - 1
  BY DEF RunBlocks
<1>5. b - FirstBlock \in 0 .. n - 1 /\ FirstBlock + (b - FirstBlock) = b
  <2> HIDE DEF n
  <2> QED
    BY <1>1, <1>3, <1>4, NAssumption
<1>6. ElementIn(slots, jm, b - FirstBlock).target_block = b
  BY <1>5 DEF JInv, AppliedOK
<1>7. b - FirstBlock \in Window(jm)
  <2> HIDE DEF n
  <2> QED
    BY <1>1, <1>5, NAssumption DEF Window
<1> QED
  BY <1>1, <1>6, <1>7, TargetType

\* The run leaves the cache: every block of it is there, since its elements are
\* still in the ring.
LEMMA CacheCommits ==
  ASSUME JInv, CacheMatchesRing, fpc = "meta"
  PROVE  /\ FirstUncached = {}
         /\ CacheAfterRun = LoadIn(slots, Consumed(jm, run.n), Consumed(jm, run.n).cur_n)
<1> DEFINE c == Consumed(jm, run.n)
           L == LoadIn(slots, c, c.cur_n)
<1>1. FirstUncached = {}
  BY CacheCommitsBlock, RunBlocksType DEF FirstUncached
<1>2. \A b \in Blocks : CacheWithoutRun[b] = L[b]
  BY CacheCommitsBlock
<1>3. CacheAfterRun = [b \in Blocks |-> CacheWithoutRun[b]]
  BY <1>1 DEF CacheAfterRun
<1>4. L = [b \in Blocks |-> L[b]]
  BY DEF LoadIn
<1> HIDE DEF L
<1>5. CacheAfterRun = L
  BY <1>2, <1>3, <1>4
<1> QED
  BY <1>1, <1>5 DEF L, c

LEMMA CacheStep ==
  ASSUME JInv, CacheMatchesRing, SlotsWhole, AllReplayed, [Next]_vars
  PROVE  CacheMatchesRing'
<1> DEFINE k == jm.cur_n
<1>1. IInv /\ k \in Nat /\ k \in 0 .. N
  BY JTypes, NAssumption DEF JInv, WindowOK
<1>2. cache = LoadIn(slots, jm, k)
  BY DEF CacheMatchesRing, Load, LoadIn, HitsIn, Element, ElementIn
<1>3. SUFFICES cache' = LoadIn(slots', jm', jm'.cur_n)
  BY DEF CacheMatchesRing, Load, LoadIn, HitsIn, Element, ElementIn
<1>4. \A i : i \in 0 .. k - 1 <=> i \in Window(jm)
  BY DEF Window
<1> HIDE DEF k
<1>5. CASE Quiet \/ FlusherTakes \/ FlusherApplies
  <2>1. cache' = cache /\ slots' = slots /\ jm' = jm
    BY <1>5 DEF Quiet, FlusherTakes, FlusherApplies, jvars
  <2> QED
    BY <1>2, <2>1 DEF k
<1>6. ASSUME NEW c \in Clients, TransactionEnd(c) \/ TransactionEndIOError(c)
      PROVE  cache' = LoadIn(slots', jm', jm'.cur_n)
  <2>1. cache' = cache /\ slots' = slots /\ jm' = jm
    BY <1>6 DEF TransactionEnd, TransactionEndIOError
  <2> QED
    BY <1>2, <2>1 DEF k
<1>7. ASSUME NEW c \in Clients, Push(c)
      PROVE  cache' = LoadIn(slots', jm', jm'.cur_n)
  <2> DEFINE e == [a |-> req[c].a, target_block |-> at[c], data |-> req[c].data]
  <2>1. /\ ~jm.full /\ jm' = Advanced(jm)
        /\ slots' = [slots EXCEPT ![jm.write_pointer] = e]
        /\ cache' = [cache EXCEPT ![at[c]] = [n |-> @.n + 1, data |-> req[c].data]]
    BY <1>7 DEF Push
  <2>2. at[c] \in Blocks
    BY <1>7, PushedElement DEF Push, Active
  <2>3. e.target_block = at[c] /\ e.data = req[c].data
    OBVIOUS
  <2> HIDE DEF e
  <2>4. /\ \A i \in Window(jm) : ElementIn(slots', jm', i) = ElementIn(slots, jm, i)
        /\ ElementIn(slots', jm', k) = e
    BY <1>1, <2>1, PushedWindow DEF k
  <2>5. jm'.cur_n = k + 1
    BY <1>1, <2>1, JTypes, AdvancedOK DEF k
  <2> DEFINE s == slots'
             l == jm'
  <2>6. /\ \A i \in 0 .. k - 1 : ElementIn(s, l, i) = ElementIn(slots, jm, i)
        /\ ElementIn(s, l, k) = e
    BY <1>4, <2>4
  <2> HIDE DEF s, l
  <2>7. LoadIn(s, l, k + 1) =
          [LoadIn(slots, jm, k) EXCEPT ![at[c]] = [n |-> @.n + 1, data |-> ElementIn(s, l, k).data]]
    BY <1>1, <2>2, <2>3, <2>6, LoadInMore
  <2>8. LoadIn(s, l, k + 1) =
          [LoadIn(slots, jm, k) EXCEPT ![at[c]] = [n |-> @.n + 1, data |-> req[c].data]]
    BY <2>3, <2>6, <2>7
  <2> QED
    BY <1>2, <2>1, <2>5, <2>8 DEF s, l
\* the slots outside the window change
<1>8. ASSUME jm' = jm, cache' = cache,
             \A i \in Window(jm) : ElementIn(slots', jm, i) = ElementIn(slots, jm, i)
      PROVE  cache' = LoadIn(slots', jm', jm'.cur_n)
  <2> DEFINE s == slots'
  <2>1. \A i \in 0 .. k - 1 : ElementIn(s, jm, i) = ElementIn(slots, jm, i)
    BY <1>4, <1>8
  <2> HIDE DEF s
  <2>2. LoadIn(s, jm, k) = LoadIn(slots, jm, k)
    BY <1>1, <2>1, LoadInSame
  <2> QED
    BY <1>2, <1>8, <2>2 DEF s, k
<1>9. ASSUME NEW c \in Clients, PushIOError(c)
      PROVE  cache' = LoadIn(slots', jm', jm'.cur_n)
  <2>1. /\ ~jm.full /\ jm' = jm /\ cache' = cache
        /\ slots' = slots \/ slots' = [slots EXCEPT ![jm.write_pointer] = Invalid]
    BY <1>9 DEF PushIOError
  <2>2. \A i \in Window(jm) : ElementIn(slots', jm, i) = ElementIn(slots, jm, i)
    BY <1>1, <2>1, PushedWindow
  <2> QED
    BY <1>8, <2>1, <2>2
<1>10. CASE FlusherClears \/ FlusherClearsIOError
  <2>1. cache' = cache
    BY <1>10 DEF FlusherClears, FlusherClearsIOError
  <2>2. jm' = jm /\ \A i \in Window(jm) : ElementIn(slots', jm, i) = ElementIn(slots, jm, i)
    BY <1>10, ClearedWindow
  <2> QED
    BY <1>8, <2>1, <2>2
<1>11. CASE FlusherCommits \/ FlusherCommitsIOError
  <2>1. /\ fpc = "meta" /\ jm' = Consumed(jm, run.n) /\ slots' = slots
        /\ cache' = CacheAfterRun
    BY <1>11 DEF FlusherCommits, FlusherCommitsIOError, Dies
  <2> QED
    BY <2>1, CacheCommits
<1>12. CASE Construct
  <2>1. Boot(Replayable(meta))
    BY <1>12 DEF Construct, AllReplayed
  <2>2. cache' = Load(meta, meta.cur_n) /\ slots' = slots /\ jm' = meta
    BY <1>1, <2>1, AllReplayable DEF Boot, JInv
  <2>3. Load(meta, meta.cur_n) = LoadIn(slots, meta, meta.cur_n)
    BY DEF Load, LoadIn, HitsIn, Element, ElementIn
  <2> QED
    BY <2>2, <2>3
<1> QED
  BY <1>5, <1>6, <1>7, <1>9, <1>10, <1>11, <1>12, StepKinds

(***************************************************************************)
(* flush_journal.                                                          *)
(***************************************************************************)

\* until flush_journal returns nobody has set stop_flag, then the ring is empty
OwnerOK ==
  /\ owner \in {"run", "drain"} => ~stop
  /\ owner = "stopped" => stop /\ jm.cur_n = 0

LEMMA OwnerStep ==
  ASSUME IInv, OwnerOK, [Next]_vars
  PROVE  OwnerOK'
<1> USE DEF OwnerOK
<1>1. ASSUME NEW c \in Clients, Client(c)
      PROVE  OwnerOK'
  <2>1. owner' = owner /\ stop' = stop /\ (jm' = jm \/ ~stop)
    BY <1>1 DEF Client, ClientStep, Begin, Check, Wait, SpuriousWake, Terminated, Push,
       PushIOError, TransactionEnd, TransactionEndIOError, jvars
  <2> QED
    BY <2>1
<1>2. CASE Flusher
  <2>1. owner' = owner /\ stop' = stop /\ (jm' = jm \/ fpc = "meta")
    BY <1>2 DEF Flusher, FlusherStep, FlusherStopped, FlusherChecks, FlusherSleeps,
       FlusherWakes, FlusherTakes, FlusherTakesIOError, FlusherApplies, FlusherAppliesIOError,
       FlusherCommits, FlusherCommitsIOError, FlusherClears, FlusherClearsIOError, Dies, jvars
  <2>2. fpc = "meta" => jm.cur_n # 0
    BY JTypes, NAssumption DEF IInv, RunOK, WindowOK
  <2> QED
    BY <2>1, <2>2
<1>3. CASE FlushJournal
  <2>1. jm' = jm /\ owner \in {"run", "drain"} /\ jm.cur_n \in Nat
    BY <1>3, JTypes DEF FlushJournal, jvars, Meta
  <2>2. CASE jm.cur_n > 0
    BY <1>3, <2>1, <2>2 DEF FlushJournal
  <2>3. CASE ~(jm.cur_n > 0)
    <3>1. jm.cur_n = 0
      BY <2>1, <2>3
    <3> QED
      BY <1>3, <2>1, <2>3, <3>1 DEF FlushJournal
  <2> QED
    BY <2>2, <2>3
<1>4. CASE Destroy \/ DestroyNotifies \/ Construct
  BY <1>4 DEF Destroy, DestroyNotifies, Construct, Boot
<1>5. CASE UNCHANGED vars
  BY <1>5 DEF vars, jvars
<1> QED
  BY <1>1, <1>2, <1>3, <1>4, <1>5 DEF Next, Owner, Destroyed, Crash

LEMMA OwnerInit == Init => OwnerOK
BY DEF Init, OwnerOK

\* what the theorems on the cache rest on
KInv == JInv /\ CacheMatchesRing

LEMMA KInit == Init => KInv
<1> SUFFICES ASSUME Init PROVE KInv
  OBVIOUS
<1>1. jm.cur_n = 0 /\ cache = [b \in Blocks |-> [n |-> 0, data |-> Zero]]
  BY DEF Init, NewMeta
<1>2. Load(jm, 0) = [b \in Blocks |-> [n |-> 0, data |-> Zero]]
  BY FS_EmptySet DEF Load
<1> QED
  BY <1>1, <1>2, JInit DEF CacheMatchesRing, KInv

LEMMA KNext ==
  ASSUME SlotsWhole, AllReplayed
  PROVE  KInv /\ [Next]_vars => KInv'
BY JNext, CacheStep DEF KInv

\* The cache is that of the ring: get_block finds the newest element of a block
\* as long as the ring has one for it, and an iteration of the flusher never
\* finds a block of its run missing in the cache.  The constructor must have
\* been able to read all elements.
THEOREM CacheAlwaysMatchesRing ==
  ASSUME SlotsWhole, AllReplayed
  PROVE  Spec => []CacheMatchesRing
<1>1. KInv => CacheMatchesRing
  BY DEF KInv
<1> QED
  BY <1>1, KInit, KNext, PTL DEF Spec

\* When flush_journal has returned, the ring is empty, everything pushed is on
\* the data backend and nothing more can be pushed.
THEOREM FlushReachesData ==
  ASSUME SlotsWhole, AllReplayed
  PROVE  Spec => []FlushedToData
<1>1. KInv /\ OwnerOK => FlushedToData
  <2> SUFFICES ASSUME KInv, OwnerOK, owner = "stopped"
               PROVE  stop /\ jm.cur_n = 0 /\ \A b \in Blocks : data[b] = View(b)
    BY DEF FlushedToData
  <2>1. stop /\ jm.cur_n = 0
    BY DEF OwnerOK
  <2>2. \A b \in Blocks : cache[b].n = 0
    BY <2>1, FS_EmptySet DEF KInv, CacheMatchesRing, Load
  <2> QED
    BY <2>1, <2>2 DEF View
<1>2. KInv /\ OwnerOK /\ [Next]_vars => OwnerOK'
  BY OwnerStep DEF KInv, JInv
<1> QED
  BY <1>1, <1>2, KInit, KNext, OwnerInit, PTL DEF Spec

(***************************************************************************)
(* The journal implements the crash safe device.                           *)
(***************************************************************************)

\* what get_block returns for every block
Mem == [b \in Blocks |-> View(b)]

LEMMA ViewIs ==
  ASSUME CacheMatchesRing, NEW b \in Blocks
  PROVE  View(b) = Replayed(jm, jm.cur_n, b)
BY DEF CacheMatchesRing, View, Replayed

LEMMA MemType ==
  ASSUME IInv
  PROVE  Mem \in [Blocks -> Values]
BY DEF IInv, TypeOK, JournalTypeOK, Mem, View

\* a block that the flusher overwrites is still read from the cache
LEMMA MemApplies ==
  ASSUME KInv, FlusherApplies
  PROVE  Mem' = Mem
<1> DEFINE b0 == FirstBlock + run.i
<1>1. /\ fpc = "data" /\ cache' = cache
      /\ data' = [data EXCEPT ![b0] = Element(jm, run.i).data]
  BY DEF FlusherApplies
<1>2. JInv /\ IInv /\ CacheMatchesRing
  BY DEF KInv, JInv
<1>3. run \in RunType /\ run.n \in 1 .. jm.cur_n /\ run.i < run.n /\ jm.cur_n \in 0 .. N
  BY <1>1, <1>2, JTypes DEF IInv, RunOK, WindowOK
<1>4. run.i \in 0 .. run.n - 1 /\ run.i \in 0 .. jm.cur_n - 1 /\ jm.cur_n \in Nat
  BY <1>3, NAssumption DEF RunType
<1>5. ElementIn(slots, jm, run.i).target_block = b0
  BY <1>1, <1>2, <1>4 DEF JInv, AppliedOK
<1>6. data \in [Blocks -> Values]
  BY <1>2 DEF IInv, TypeOK, JournalTypeOK
<1>7. b0 \in Blocks => cache[b0].n > 0
  <2> SUFFICES ASSUME b0 \in Blocks PROVE cache[b0].n > 0
    OBVIOUS
  <2> DEFINE H == HitsIn(slots, jm, jm.cur_n, b0)
             d == IF H = {} THEN Zero ELSE ElementIn(slots, jm, Max(H)).data
  <2>1. run.i \in H
    BY <1>4, <1>5 DEF HitsIn
  <2>2. cache[b0] = [n |-> Cardinality(H), data |-> d]
    BY <1>2, LoadIs DEF CacheMatchesRing
  <2>3. Cardinality(H) > 0
    BY <1>4, <2>1, HitsFinite
  <2> HIDE DEF H, d
  <2> QED
    BY <2>2, <2>3
<1> HIDE DEF b0
<1>8. ASSUME NEW b \in Blocks
      PROVE  (IF cache[b].n > 0 THEN cache[b].data ELSE data'[b]) = View(b)
  BY <1>1, <1>6, <1>7 DEF View
<1> QED
  BY <1>1, <1>8 DEF Mem, View

\* a block that leaves the cache is on the data backend
LEMMA MemCommits ==
  ASSUME KInv, KInv', FlusherCommits \/ FlusherCommitsIOError
  PROVE  Mem' = Mem
<1> DEFINE n == run.n
           c == Consumed(jm, n)
<1>1. fpc = "meta" /\ jm' = c /\ slots' = slots /\ data' = data
  BY DEF FlusherCommits, FlusherCommitsIOError, Dies
<1>2. JInv /\ IInv /\ CacheMatchesRing /\ CacheMatchesRing'
  BY DEF KInv, JInv
<1>3. n \in 1 .. jm.cur_n /\ jm.cur_n \in 0 .. N /\ jm.cur_n \in Nat /\ n \in Nat
  BY <1>1, <1>2, JTypes, NAssumption DEF IInv, RunOK, WindowOK
<1>4. c \in Meta /\ WindowOK(c) /\ c.cur_n \in Nat
  <2>1. c \in Meta /\ WindowOK(c)
    BY <1>2, <1>3, JTypes, ConsumedOK
  <2> QED
    BY <2>1 DEF Meta
<1>5. /\ \A i \in Window(c) : /\ n + i \in Window(jm)
                              /\ ElementIn(slots, c, i) = ElementIn(slots, jm, n + i)
      /\ \A j \in Window(jm) : n <= j => j - n \in Window(c) /\ n + (j - n) = j
  BY <1>2, <1>3, JTypes, ConsumedWindow
<1>6. /\ \A i \in Window(c) : i \in Nat
      /\ \A j \in Window(jm) : j \in Nat
  <2>1. \A j \in Window(jm) : j \in Nat
    BY <1>2, JTypes, WindowType
  <2> HIDE DEF c
  <2>2. \A i \in Window(c) : i \in Nat
    BY <1>4, WindowType
  <2> QED
    BY <2>1, <2>2
<1>7. \A j \in Window(jm) : j < n =>
         data[ElementIn(slots, jm, j).target_block] = ElementIn(slots, jm, j).data
  BY <1>1, <1>2, RunApplied
<1> HIDE DEF c, n
<1>8. ASSUME NEW b \in Blocks
      PROVE  Replayed(c, c.cur_n, b) = Replayed(jm, jm.cur_n, b)
  <2>1. CASE /\ \A i \in Window(jm) : ElementIn(slots, jm, i).target_block # b
             /\ Replayed(jm, jm.cur_n, b) = data[b]
    <3>1. \A i \in Window(c) : ElementIn(slots, c, i).target_block # b
      BY <1>5, <2>1
    <3> QED
      BY <1>4, <2>1, <3>1, ReplayedIs
  <2>2. ASSUME NEW j \in Window(jm),
               ElementIn(slots, jm, j).target_block = b,
               \A i \in Window(jm) : ElementIn(slots, jm, i).target_block = b => i <= j,
               Replayed(jm, jm.cur_n, b) = ElementIn(slots, jm, j).data
        PROVE  Replayed(c, c.cur_n, b) = Replayed(jm, jm.cur_n, b)
    <3>1. CASE /\ \A i \in Window(c) : ElementIn(slots, c, i).target_block # b
               /\ Replayed(c, c.cur_n, b) = data[b]
      <4>1. ~(n <= j)
        BY <1>5, <2>2, <3>1
      <4>2. j < n
        BY <1>3, <1>6, <4>1
      <4> QED
        BY <1>7, <2>2, <3>1, <4>2
    <3>2. ASSUME NEW i \in Window(c),
                 ElementIn(slots, c, i).target_block = b,
                 \A k \in Window(c) : ElementIn(slots, c, k).target_block = b => k <= i,
                 Replayed(c, c.cur_n, b) = ElementIn(slots, c, i).data
          PROVE  Replayed(c, c.cur_n, b) = Replayed(jm, jm.cur_n, b)
      <4>1. n + i \in Window(jm) /\ n + i <= j
        BY <1>5, <2>2, <3>2
      <4>2. n <= j
        BY <1>3, <1>6, <4>1
      <4>3. j - n \in Window(c) /\ n + (j - n) = j
        BY <1>5, <4>2
      <4>4. j - n <= i
        BY <1>5, <2>2, <3>2, <4>3
      <4>5. n + i = j
        BY <1>3, <1>6, <4>1, <4>4
      <4> QED
        BY <1>5, <2>2, <3>2, <4>5
    <3> QED
      BY <1>4, <3>1, <3>2, ReplayedIs
  <2> QED
    BY <1>3, <2>1, <2>2, ReplayedIs
<1>9. \A b \in Blocks : View(b) = Replayed(jm, jm.cur_n, b)
  BY <1>2, ViewIs
<1>10. \A b \in Blocks : View(b)' = Replayed(c, c.cur_n, b)
  BY <1>1, <1>2 DEF CacheMatchesRing, View, Replayed, Load, Element
<1> QED
  BY <1>8, <1>9, <1>10 DEF Mem

\* a step that changes neither the values that are read nor the promises
LEMMA DeviceStutters ==
  ASSUME UNCHANGED <<cache, data, may>>
  PROVE  UNCHANGED Device!vars
BY DEF Device!vars, View

LEMMA DevicePush ==
  ASSUME KInv, NEW c \in Clients, Push(c)
  PROVE  Device!Write(at[c], req[c].data) /\ at[c] \in Blocks /\ req[c].data \in Values
<1>1. at[c] \in Blocks /\ req[c].data \in Values
  BY PushedElement DEF KInv, Push, Active
<1>2. cache \in [Blocks -> [n : Nat, data : Values]]
  BY DEF KInv, JInv, IInv, TypeOK, JournalTypeOK
<1>3. /\ cache' = [cache EXCEPT ![at[c]] = [n |-> @.n + 1, data |-> req[c].data]]
      /\ data' = data
      /\ may' = [may EXCEPT ![at[c]] = @ \cup {req[c].data}]
  BY DEF Push
<1>4. ASSUME NEW b \in Blocks
      PROVE  View(b)' = IF b = at[c] THEN req[c].data ELSE View(b)
  <2>1. cache[b].n \in Nat /\ cache[b].n + 1 > 0
    BY <1>2
  <2>2. CASE b = at[c]
    BY <1>2, <1>3, <2>1, <2>2 DEF View
  <2>3. CASE b # at[c]
    BY <1>2, <1>3, <2>3 DEF View
  <2> QED
    BY <2>2, <2>3
<1>5. Mem' = [Mem EXCEPT ![at[c]] = req[c].data]
  BY <1>1, <1>4 DEF Mem
<1> QED
  BY <1>1, <1>3, <1>5 DEF Device!Write, Mem

LEMMA DeviceSync ==
  ASSUME KInv, NEW c \in Clients, TransactionEnd(c)
  PROVE  Device!Sync \/ UNCHANGED Device!vars
<1>1. cache' = cache /\ data' = data
  BY DEF TransactionEnd
<1>2. CASE err[c]
  BY <1>1, <1>2, DeviceStutters DEF TransactionEnd
<1>3. CASE ~err[c]
  <2>1. may' = [b \in Blocks |-> {Replayed(jm, jm.cur_n, b)}]
    BY <1>3 DEF TransactionEnd
  <2>2. \A b \in Blocks : Replayed(jm, jm.cur_n, b) = Mem[b]
    BY ViewIs DEF KInv, Mem
  <2>3. may' = [b \in Blocks |-> {Mem[b]}]
    BY <2>1, <2>2
  <2>4. Mem' = Mem
    BY <1>1 DEF Mem, View
  <2> QED
    BY <2>3, <2>4 DEF Device!Sync, Device!Settled, Mem
<1> QED
  BY <1>2, <1>3

LEMMA DeviceRestart ==
  ASSUME KInv, KInv', AllReplayed, Construct
  PROVE  Device!Restart
<1>1. JInv /\ CacheMatchesRing' /\ IInv'
  BY DEF KInv, JInv
<1>2. /\ jm' = meta /\ slots' = slots /\ data' = data
      /\ may' = [b \in Blocks |-> {Recovered(b)}]
  BY DEF Construct, Boot
<1>3. \A b \in Blocks : View(b)' = Replayed(meta, meta.cur_n, b)
  BY <1>1, <1>2 DEF CacheMatchesRing, View, Replayed, Load, Element
<1>4. \A b \in Blocks : View(b)' = Recovered(b) /\ Recovered(b) \in may[b]
  BY <1>1, <1>3, RecoveredIs, RecoveryIsSafe DEF RecoverySafe
<1>5. Mem' \in [Blocks -> Values]
  BY <1>1 DEF IInv, TypeOK, JournalTypeOK, Mem, View
<1>6. \A b \in Blocks : Mem'[b] = Recovered(b)
  BY <1>4 DEF Mem
<1>7. (\A b \in Blocks : Mem'[b] \in may[b]) /\ may' = [b \in Blocks |-> {Mem'[b]}]
  BY <1>2, <1>4, <1>6
<1> QED
  BY <1>5, <1>7 DEF Device!Restart, Device!Settled, Mem

LEMMA DeviceStep ==
  ASSUME KInv, KInv', AllReplayed, [Next]_vars
  PROVE  [Device!Next]_Device!vars
<1>1. CASE Quiet \/ FlusherTakes
  BY <1>1, DeviceStutters DEF Quiet, FlusherTakes, jvars
<1>2. ASSUME NEW c \in Clients, PushIOError(c) \/ TransactionEndIOError(c)
      PROVE  UNCHANGED Device!vars
  BY <1>2, DeviceStutters DEF PushIOError, TransactionEndIOError
<1>3. ASSUME NEW c \in Clients, Push(c)
      PROVE  Device!Next
  BY <1>3, DevicePush DEF Device!Next
<1>4. ASSUME NEW c \in Clients, TransactionEnd(c)
      PROVE  [Device!Next]_Device!vars
  BY <1>4, DeviceSync DEF Device!Next
<1>5. CASE FlusherApplies \/ FlusherCommits \/ FlusherCommitsIOError
  <2>1. may' = may
    BY <1>5 DEF FlusherApplies, FlusherCommits, FlusherCommitsIOError
  <2>2. Mem' = Mem
    BY <1>5, MemApplies, MemCommits
  <2> QED
    BY <2>1, <2>2 DEF Device!vars, Mem
<1>6. CASE FlusherClears \/ FlusherClearsIOError
  BY <1>6, DeviceStutters DEF FlusherClears, FlusherClearsIOError
<1>7. CASE Construct
  BY <1>7, DeviceRestart DEF Device!Next
<1> QED
  BY <1>1, <1>2, <1>3, <1>4, <1>5, <1>6, <1>7, StepKinds

\* The journal is the crash safe device: a read returns the last value pushed
\* wherever the flusher is, a transaction_end without an error makes everything
\* pushed so far permanent, and after a restart every block has its value of
\* then or a later one.
THEOREM ImplementsCrashSafeDevice ==
  ASSUME SlotsWhole, AllReplayed
  PROVE  Spec => CrashSafe
<1>1. Init => Device!Init
  <2> SUFFICES ASSUME Init PROVE Device!Init
    OBVIOUS
  <2>1. Mem = [b \in Blocks |-> Zero] /\ may = [b \in Blocks |-> {Zero}]
    BY DEF Init, Mem, View
  <2>2. Mem \in [Blocks -> Values] /\ may = [b \in Blocks |-> {Mem[b]}]
    BY <2>1, ZeroAssumption
  <2> QED
    BY <2>2 DEF Device!Init, Device!Settled, Mem
<1>2. KInv /\ KInv' /\ [Next]_vars => [Device!Next]_Device!vars
  BY DeviceStep
<1> QED
  BY <1>1, <1>2, KInit, KNext, PTL DEF Spec, CrashSafe, Device!Spec

(***************************************************************************)
(* No wake-up is lost.                                                     *)
(***************************************************************************)

\* the same of a flusher that is about to wait
SleepOK ==
  fpc \in {"checked", "sleep"} =>
    /\ jm.cur_n = 0
    /\ stop => owner \in {"stopping", "join"}

WaitInv ==
  /\ IInv
  /\ SleepOK
  /\ fpc = "dead" => stop \/ fatal
  /\ \A c \in Clients : HasRoomMaker(c)

LEMMA EmptyHasNone ==
  ASSUME IInv, IsEmpty(jm)
  PROVE  jm.cur_n = 0
<1>1. jm.read_pointer \in Slots /\ jm.cur_n \in 0 .. N /\ jm.cur_n # N
  BY DEF IInv, TypeOK, JournalTypeOK, Meta, RingConsistent, WindowOK, IsEmpty
<1>2. (jm.read_pointer + jm.cur_n) % N = jm.read_pointer
  BY DEF IInv, RingConsistent, WindowOK, IsEmpty, SlotOf
<1>3. /\ jm.read_pointer + jm.cur_n < N => jm.read_pointer = jm.read_pointer + jm.cur_n
      /\ jm.read_pointer + jm.cur_n >= N => jm.read_pointer = jm.read_pointer + jm.cur_n - N
  BY <1>1, <1>2, Wrap
<1> QED
  BY <1>1, <1>3, NAssumption DEF Slots

LEMMA FullHasSome ==
  ASSUME IInv, jm.full
  PROVE  jm.cur_n # 0
BY NAssumption DEF IInv, RingConsistent, WindowOK

\* a client waits because it found the ring full, or waited before
LEMMA WaitsBecauseFull ==
  ASSUME TypeOK, NEW c \in Clients, Client(c), NEW d \in Clients, pc'[d] = "wait"
  PROVE  pc[d] = "wait" \/ Wait(c)
<1> USE DEF TypeOK, ClientsTypeOK
<1>1. CASE Begin(c)
  BY <1>1 DEF Begin
<1>2. CASE Check(c) \/ Terminated(c) \/ PushIOError(c)
  BY <1>2 DEF Check, Terminated, PushIOError, PushFailed, Finish
<1>3. CASE Push(c)
  BY <1>3 DEF Push, Finish
<1>4. CASE TransactionEnd(c) \/ TransactionEndIOError(c)
  BY <1>4 DEF TransactionEnd, TransactionEndIOError, Finish
<1>5. CASE SpuriousWake(c)
  BY <1>5 DEF SpuriousWake
<1> QED
  BY <1>1, <1>2, <1>3, <1>4, <1>5 DEF Client, ClientStep

LEMMA ClientWaits ==
  ASSUME WaitInv, NEW c \in Clients, Client(c)
  PROVE  SleepOK' /\ (fpc = "dead" => stop \/ fatal)' /\ \A d \in Clients : HasRoomMaker(d)'
<1> USE DEF WaitInv
<1>1. UNCHANGED <<stop, fatal, owner>>
  BY DEF Client, ClientStep, Begin, Check, Wait, Terminated, Push, TransactionEnd,
     SpuriousWake, PushIOError, TransactionEndIOError, jvars
<1>2. CASE Push(c)
  <2>1. LockFree /\ ~jm.full /\ fpc' = FlusherWoken
    BY <1>2 DEF Push
  <2>2. fpc' \notin {"checked", "sleep"} /\ (fpc' = "dead" => fpc = "dead")
    BY <2>1 DEF LockFree, FlusherWoken
  <2>3. ASSUME NEW d \in Clients, pc'[d] = "wait"
        PROVE  ~stop /\ fatal
    <3>1. pc[d] = "wait"
      BY <1>2, <2>1, <2>3, WaitsBecauseFull DEF IInv, Wait
    <3> QED
      BY <2>1, <3>1 DEF HasRoomMaker, LockFree
  <2> QED
    BY <1>1, <2>2, <2>3 DEF SleepOK, HasRoomMaker
<1>3. CASE ~Push(c)
  <2>1. UNCHANGED <<jm, fpc>>
    BY <1>3 DEF Client, ClientStep, Begin, Check, Wait, Terminated, TransactionEnd,
       SpuriousWake, PushIOError, TransactionEndIOError, jvars
  <2>2. ASSUME NEW d \in Clients, pc'[d] = "wait", pc[d] # "wait"
        PROVE  ~stop /\ (fatal \/ (jm.full /\ fpc = "top"))
    <3>1. Wait(c)
      BY <2>2, WaitsBecauseFull DEF IInv
    <3>2. LockFree /\ jm.full /\ ~stop /\ jm.cur_n # 0
      BY <3>1, FullHasSome DEF Wait
    <3>3. fpc \in {"top", "dead"}
      BY <3>2 DEF LockFree, SleepOK, IInv, TypeOK, JournalTypeOK
    <3> QED
      BY <3>2, <3>3
  <2>3. ASSUME NEW d \in Clients
        PROVE  HasRoomMaker(d)'
    BY <1>1, <2>1, <2>2 DEF HasRoomMaker
  <2> QED
    BY <1>1, <2>1, <2>3 DEF SleepOK
<1> QED
  BY <1>2, <1>3

LEMMA FlusherWaits ==
  ASSUME WaitInv, Flusher
  PROVE  SleepOK' /\ (fpc = "dead" => stop \/ fatal)' /\ \A d \in Clients : HasRoomMaker(d)'
<1> USE DEF WaitInv
<1>0. UNCHANGED <<stop, owner>>
  BY DEF Flusher, FlusherStep, FlusherStopped, FlusherWakes, FlusherChecks, FlusherSleeps,
     FlusherTakes, FlusherTakesIOError, FlusherApplies, FlusherAppliesIOError,
     FlusherCommits, FlusherCommitsIOError, FlusherClears, FlusherClearsIOError
<1>1. CASE FlusherStopped
  BY <1>1 DEF FlusherStopped, jvars, cvars, SleepOK, HasRoomMaker
<1>2. CASE FlusherChecks
  <2>1. jm.cur_n = 0 /\ ~jm.full
    BY <1>2, EmptyHasNone DEF FlusherChecks, IsEmpty
  <2> QED
    BY <1>2, <2>1 DEF FlusherChecks, jvars, cvars, SleepOK, HasRoomMaker
<1>3. CASE FlusherSleeps \/ FlusherWakes
  BY <1>3 DEF FlusherSleeps, FlusherWakes, jvars, cvars, SleepOK, HasRoomMaker
<1>4. CASE FlusherTakes
  BY <1>4 DEF FlusherTakes, jvars, cvars, SleepOK, HasRoomMaker
<1>5. CASE FlusherTakesIOError \/ FlusherAppliesIOError \/ FlusherCommitsIOError
  <2>1. fatal' = TRUE /\ fpc' = "dead" /\ pc' = pc /\ stop' = stop
    BY <1>5 DEF FlusherTakesIOError, FlusherAppliesIOError, FlusherCommitsIOError, Dies, cvars
  <2> QED
    BY <2>1 DEF SleepOK, HasRoomMaker
<1>6. CASE FlusherApplies
  <2>1. fpc = "data" /\ fpc' \in {"data", "meta"}
    BY <1>6 DEF FlusherApplies
  <2>2. UNCHANGED <<jm, pc, stop, fatal>>
    BY <1>6 DEF FlusherApplies, cvars
  <2> QED
    BY <2>1, <2>2 DEF SleepOK, HasRoomMaker
<1>7. CASE FlusherCommits
  <2>1. fpc' = "clear" /\ pc' = pc /\ stop' = stop
    BY <1>7 DEF FlusherCommits, cvars
  <2> QED
    BY <2>1 DEF SleepOK, HasRoomMaker
<1>8. CASE FlusherClears \/ FlusherClearsIOError
  <2>1. \/ fpc' = "clear" /\ pc' = pc
        \/ fpc' = "top" /\ pc' = ClientsWoken
    BY <1>8 DEF FlusherClears, FlusherClearsIOError
  <2>2. \A d \in Clients : ClientsWoken[d] # "wait"
    BY DEF ClientsWoken
  <2> QED
    BY <1>0, <2>1, <2>2 DEF SleepOK, HasRoomMaker
<1> QED
  BY <1>1, <1>2, <1>3, <1>4, <1>5, <1>6, <1>7, <1>8 DEF Flusher, FlusherStep

LEMMA OthersWait ==
  ASSUME WaitInv, Owner \/ Crash
  PROVE  SleepOK' /\ (fpc = "dead" => stop \/ fatal)' /\ \A d \in Clients : HasRoomMaker(d)'
<1> USE DEF WaitInv
<1>1. CASE FlushJournal
  <2>1. CASE UNCHANGED <<stop, fpc, pc>> /\ owner' = "drain" /\ ~stop
    BY <1>1, <2>1 DEF FlushJournal, jvars, SleepOK, HasRoomMaker
  <2>2. CASE stop' = TRUE /\ fpc' = FlusherWoken /\ pc' = ClientsWoken
    <3>1. \A d \in Clients : pc'[d] # "wait"
      BY <2>2 DEF ClientsWoken
    <3>2. fpc' \notin {"checked", "sleep"}
      BY <1>1, <2>2 DEF FlushJournal, LockFree, FlusherWoken
    <3> QED
      BY <2>2, <3>1, <3>2 DEF SleepOK, HasRoomMaker
  <2> QED
    BY <1>1, <2>1, <2>2 DEF FlushJournal
<1>2. CASE Destroy
  <2>1. \A d \in Clients : pc'[d] # "wait"
    BY <1>2 DEF Destroy, Active, cvars
  <2> QED
    BY <1>2, <2>1 DEF Destroy, jvars, SleepOK, HasRoomMaker
<1>3. CASE DestroyNotifies
  <2>1. /\ fpc' \in {fpc, "top"} /\ fpc' # "sleep" /\ owner' = "join"
        /\ fpc' = fpc \/ fpc = "sleep"
    BY <1>3 DEF DestroyNotifies, FlusherWoken
  <2>2. UNCHANGED <<jm, fatal, stop, pc>>
    BY <1>3 DEF DestroyNotifies, jvars, cvars
  <2> QED
    BY <2>1, <2>2 DEF SleepOK, HasRoomMaker
<1>4. CASE Destroyed \/ Crash
  <2>1. fpc' = "top" /\ pc' = [c \in Clients |-> "idle"]
    BY <1>4 DEF Destroyed, Crash, Construct, Boot
  <2> QED
    BY <2>1 DEF SleepOK, HasRoomMaker
<1> QED
  BY <1>1, <1>2, <1>3, <1>4 DEF Owner

LEMMA WaitNext == WaitInv /\ [Next]_vars => WaitInv'
<1> SUFFICES ASSUME WaitInv, [Next]_vars PROVE WaitInv'
  OBVIOUS
<1>1. IInv'
  BY NextOK DEF WaitInv
<1>2. CASE Next
  BY <1>1, <1>2, ClientWaits, FlusherWaits, OthersWait DEF Next, WaitInv
<1>3. CASE UNCHANGED vars
  BY <1>1, <1>3 DEF vars, jvars, cvars, WaitInv, SleepOK, HasRoomMaker
<1> QED
  BY <1>2, <1>3

\* Whatever fails and whoever calls, a waiting client is one that the flusher,
\* awake and with a full ring before it, will notify, and the flusher sleeps
\* on an empty ring only (the waits in push_action and operator()): with a
\* flusher that is scheduled, what NoWakeupLost says is why every wait ends.
THEOREM WakeupsAreNotLost == Spec => []NoWakeupLost
<1>1. Init => WaitInv
  <2> SUFFICES ASSUME Init PROVE WaitInv
    OBVIOUS
  <2>1. IInv
    BY InitOK
  <2> QED
    BY <2>1 DEF Init, WaitInv, SleepOK, HasRoomMaker
<1>2. WaitInv => NoWakeupLost
  BY DEF WaitInv, NoWakeupLost, SleepOK
<1> QED
  BY <1>1, <1>2, WaitNext, PTL DEF Spec
=============================================================================
