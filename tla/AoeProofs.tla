----------------------------- MODULE AoeProofs -----------------------------
(* Theorems about Aoe, for any number of targets, blocks, sectors per block, *)
(* frames on their way, faults and calls.                                    *)
EXTENDS Aoe, SequenceTheorems, TLAPS

(***************************************************************************)
(* The inductive invariant.                                                *)
(***************************************************************************)

\* what is in a queue
In(q) == {q[i] : i \in 1 .. Len(q)}

Messages == [command : {"info", "identify", "read", "write", "flush", "trim"},
             tag : Nat, lba : Nat, data : Values]
Frames == [kind : {"announcement", "info", "identify", "read", "write"},
           from : Targets, tag : Nat, data : Values]
Calls == [op : {"none", "get", "put", "fsync", "trim"}, block : Blocks, data : Values]

Data(m) == m.command \in {"read", "write"}
Reply(f) == f.from = target /\ f.kind \in {"read", "write"}
Busy == pc # "idle" /\ call.op \in {"get", "put"}

Types ==
  /\ store \in [Sectors -> Values]
  /\ toServer \in Seq(Messages) /\ Len(toServer) <= MaxFrames
  /\ toClient \in Seq(Frames) /\ Len(toClient) <= MaxFrames
  /\ state \in {"discover", "discover_sent", "identify", "identify_sent", "running", "failed"}
  /\ size \in Targets \cup {"none"}
  /\ pc \in {"idle", "send", "wait"}
  /\ call \in Calls /\ (pc # "idle" => call.op # "none")
  /\ sector \in 0 .. SectorsPerBlock - 1
  /\ tag \in Nat /\ drawn \in Nat \ {0}
  /\ got \in Seq(Values) /\ Len(got) <= SectorsPerBlock
  /\ possible \in [Sectors -> SUBSET Values]

\* requests of data are in the order of their tags
Ordered(q) ==
  \A i, j \in 1 .. Len(q) : i < j /\ Data(q[i]) /\ Data(q[j]) => q[i].tag <= q[j].tag

\* tags 0 and 1 are of no request of data, and what is to be written is possible
RequestsOK ==
  \A m \in In(toServer) :
    /\ m.command = "identify" => m.tag = 1
    /\ Data(m) => m.tag \in 2 .. drawn /\ m.lba \in Sectors
    /\ m.command = "write" => m.data \in possible[m.lba]

\* the target has answered none that is newer than one it has still to read
RepliesOK ==
  \A f \in In(toClient) :
    /\ f.from = target /\ f.kind = "identify" => f.tag = 1
    /\ Reply(f) => /\ f.tag \in 2 .. drawn
                   /\ \A m \in In(toServer) : Data(m) => f.tag <= m.tag

\* during a get or a put: requests with its tag are its copies, and what was
\* answered with its tag is so
CallOK ==
  Busy =>
    /\ tag = drawn /\ drawn >= 2
    /\ call.op = "put" => call.data \in possible[Lba]
    /\ call.op = "get" => Len(got) = sector
    /\ \A m \in In(toServer) :
         Data(m) /\ m.tag = tag => m.command = Command(call.op) /\ m.lba = Lba /\ m.data = call.data
    /\ \A f \in In(toClient) :
         Reply(f) /\ f.tag = tag => /\ call.op = "put" => store[Lba] = call.data
                                    /\ call.op = "get" => f.data \in possible[Lba]

AInv ==
  /\ Types /\ SectorsAsWritten
  /\ Ordered(toServer) /\ RequestsOK /\ RepliesOK /\ CallOK

(***************************************************************************)
(* Queues.                                                                 *)
(***************************************************************************)

LEMMA InAppend ==
  ASSUME NEW S, NEW q \in Seq(S), NEW x \in S
  PROVE  /\ Append(q, x) \in Seq(S) /\ Len(Append(q, x)) = Len(q) + 1
         /\ In(Append(q, x)) = In(q) \cup {x}
<1> DEFINE p == Append(q, x)
<1>1. p \in Seq(S) /\ Len(p) = Len(q) + 1 /\ Len(q) \in Nat
  OBVIOUS
<1>2. \A i \in 1 .. Len(q) : p[i] = q[i]
  OBVIOUS
<1>3. p[Len(q) + 1] = x
  OBVIOUS
<1>4. In(p) = In(q) \cup {x}
  <2> HIDE DEF p
  <2>1. 1 .. Len(p) = (1 .. Len(q)) \cup {Len(q) + 1}
    BY <1>1
  <2> QED
    BY <2>1, <1>2, <1>3 DEF In
<1> QED
  BY <1>1, <1>4

LEMMA InTail ==
  ASSUME NEW S, NEW q \in Seq(S), q # <<>>
  PROVE  /\ Tail(q) \in Seq(S) /\ Len(Tail(q)) = Len(q) - 1 /\ Len(q) \in Nat \ {0}
         /\ Head(q) \in S /\ Head(q) \in In(q)
         /\ In(Tail(q)) \subseteq In(q)
<1> DEFINE p == Tail(q)
<1>1. p \in Seq(S) /\ Len(p) = Len(q) - 1 /\ Len(q) \in Nat \ {0}
  OBVIOUS
<1>2. Head(q) = q[1] /\ q[1] \in S
  OBVIOUS
<1>3. \A i \in 1 .. Len(p) : p[i] = q[i + 1]
  OBVIOUS
<1>4. In(p) \subseteq In(q)
  <2> HIDE DEF p
  <2>1. \A i \in 1 .. Len(p) : i + 1 \in 1 .. Len(q)
    BY <1>1
  <2> QED
    BY <2>1, <1>3 DEF In
<1>5. Head(q) \in In(q)
  BY <1>1, <1>2 DEF In
<1> QED
  BY <1>1, <1>2, <1>4, <1>5

LEMMA OrderedAppend ==
  ASSUME NEW q \in Seq(Messages), Ordered(q), NEW x \in Messages,
         \A m \in In(q) : Data(m) /\ Data(x) => m.tag <= x.tag
  PROVE  Ordered(Append(q, x))
<1> DEFINE p == Append(q, x)
<1>1. p \in Seq(Messages) /\ Len(p) = Len(q) + 1 /\ Len(q) \in Nat
  OBVIOUS
<1>2. \A i \in 1 .. Len(q) : p[i] = q[i] /\ p[i] \in In(q)
  BY DEF In
<1>3. p[Len(q) + 1] = x
  OBVIOUS
<1>4. SUFFICES ASSUME NEW i \in 1 .. Len(p), NEW j \in 1 .. Len(p), i < j,
                      Data(p[i]), Data(p[j])
               PROVE  p[i].tag <= p[j].tag
  BY DEF Ordered
<1> HIDE DEF p
<1>5. CASE j = Len(q) + 1
  <2>1. i \in 1 .. Len(q)
    BY <1>1, <1>4, <1>5
  <2> QED
    BY <2>1, <1>2, <1>3, <1>4, <1>5
<1>6. CASE j # Len(q) + 1
  <2>1. i \in 1 .. Len(q) /\ j \in 1 .. Len(q)
    BY <1>1, <1>4, <1>6
  <2> QED
    BY <2>1, <1>2, <1>4 DEF Ordered
<1> QED
  BY <1>5, <1>6

LEMMA OrderedTail ==
  ASSUME NEW q \in Seq(Messages), Ordered(q), q # <<>>
  PROVE  /\ Ordered(Tail(q))
         /\ \A m \in In(Tail(q)) : Data(m) /\ Data(Head(q)) => Head(q).tag <= m.tag
<1> DEFINE p == Tail(q)
<1>1. p \in Seq(Messages) /\ Len(p) = Len(q) - 1 /\ Len(q) \in Nat \ {0} /\ Head(q) = q[1]
  OBVIOUS
<1>2. \A i \in 1 .. Len(p) : p[i] = q[i + 1] /\ i + 1 \in 1 .. Len(q) /\ 1 < i + 1
  OBVIOUS
<1> HIDE DEF p
<1>3. Ordered(p)
  <2>1. \A i, j \in 1 .. Len(p) : i < j => i + 1 < j + 1
    BY <1>1
  <2> QED
    BY <2>1, <1>2 DEF Ordered
<1>4. ASSUME NEW m \in In(p), Data(m), Data(Head(q)) PROVE Head(q).tag <= m.tag
  <2>1. PICK i \in 1 .. Len(p) : m = p[i]
    BY <1>4 DEF In
  <2>2. m = q[i + 1] /\ i + 1 \in 1 .. Len(q) /\ 1 < i + 1 /\ 1 \in 1 .. Len(q)
    BY <1>1, <1>2, <2>1
  <2>3. Data(q[1]) /\ Data(q[i + 1])
    BY <1>1, <1>4, <2>2
  <2> QED
    BY <1>1, <2>2, <2>3 DEF Ordered
<1> QED
  BY <1>3, <1>4 DEF p

(***************************************************************************)
(* Steps after which the invariant holds for the same reason as before.    *)
(***************************************************************************)

LEMMA SectorFacts ==
  /\ Blocks \subseteq Nat /\ SectorsPerBlock \in Nat \ {0}
  /\ \A b \in Blocks, i \in 0 .. SectorsPerBlock - 1 :
       b + i \in Nat /\ b + i \in SectorsOf(b) /\ b + i \in Sectors
<1>1. Blocks \subseteq Nat /\ SectorsPerBlock \in Nat \ {0}
  BY BlocksAssumption
<1>2. ASSUME NEW b \in Blocks, NEW i \in 0 .. SectorsPerBlock - 1
      PROVE  b + i \in Nat /\ b + i \in SectorsOf(b)
  BY <1>1 DEF SectorsOf
<1> QED
  BY <1>1, <1>2 DEF Sectors

LEMMA LbaFacts ==
  ASSUME Types
  PROVE  Lba \in Nat /\ Lba \in Sectors /\ Lba \in SectorsOf(call.block) /\ call.block \in Blocks
BY SectorFacts DEF Types, Calls, Lba

\* nothing changes but the queues, and what is new there is no request of data
\* and no answer of the target
LEMMA Quiet ==
  ASSUME AInv, UNCHANGED <<store, call, sector, tag, got, drawn, possible>>,
         Busy' => Busy, Types', Ordered(toServer'),
         \A m \in In(toServer') : \/ m \in In(toServer)
                                  \/ ~Data(m) /\ (m.command = "identify" => m.tag = 1),
         \A f \in In(toClient') : \/ f \in In(toClient)
                                  \/ f.from # target
                                  \/ f.kind \notin {"identify", "read", "write"}
  PROVE  AInv'
<1>1. SectorsAsWritten'
  BY DEF AInv, SectorsAsWritten
<1>2. RequestsOK'
  BY DEF AInv, RequestsOK, Data
<1>3. RepliesOK'
  BY DEF AInv, RepliesOK, Data, Reply
<1>4. Lba' = Lba
  BY DEF Lba
<1>5. CallOK'
  BY <1>4 DEF AInv, CallOK, Data, Reply
<1> QED
  BY <1>1, <1>2, <1>3, <1>5 DEF AInv

\* the parts of Types that most steps leave alone
LEMMA TypesKept ==
  ASSUME Types, UNCHANGED <<store, call, sector, tag, got, drawn, possible>>,
         toServer' \in Seq(Messages), Len(toServer') <= MaxFrames,
         toClient' \in Seq(Frames), Len(toClient') <= MaxFrames,
         state' \in {"discover", "discover_sent", "identify", "identify_sent", "running", "failed"},
         size' \in Targets \cup {"none"}, pc' \in {"idle", "send", "wait"},
         pc' # "idle" => pc # "idle"
  PROVE  Types'
BY DEF Types

\* what Answer does to the queue of the client
LEMMA Answered ==
  ASSUME Types, NEW f \in Frames, Answer(f)
  PROVE  /\ toClient' \in Seq(Frames) /\ Len(toClient') <= MaxFrames
         /\ In(toClient') \subseteq In(toClient) \cup {f}
<1>1. CASE Len(toClient) < MaxFrames /\ toClient' = Append(toClient, f)
  BY <1>1, InAppend, AoeBoundsAssumption DEF Types
<1>2. CASE toClient' = toClient
  BY <1>2 DEF Types
<1> QED
  BY <1>1, <1>2 DEF Answer, Fault

\* and what Broadcast does to that of the server
LEMMA Broadcasted ==
  ASSUME Types, NEW m \in Messages, Broadcast(m)
  PROVE  /\ toServer' \in Seq(Messages) /\ Len(toServer') <= MaxFrames
         /\ In(toServer') \subseteq In(toServer) \cup {m}
         /\ toServer' = toServer \/ toServer' = Append(toServer, m)
<1>1. CASE Len(toServer) < MaxFrames /\ toServer' = Append(toServer, m)
  BY <1>1, InAppend, AoeBoundsAssumption DEF Types
<1>2. CASE toServer' = toServer
  BY <1>2 DEF Types
<1> QED
  BY <1>1, <1>2 DEF Broadcast, Fault

LEMMA Dropped ==
  ASSUME Types, toClient # <<>>, toClient' = Tail(toClient)
  PROVE  /\ toClient' \in Seq(Frames) /\ Len(toClient') <= MaxFrames
         /\ In(toClient') \subseteq In(toClient)
         /\ Head(toClient) \in Frames /\ Head(toClient) \in In(toClient)
BY InTail, AoeBoundsAssumption DEF Types

LEMMA InitOK == Init => AInv
<1> SUFFICES ASSUME Init PROVE AInv
  OBVIOUS
<1> USE DEF Init
<1>1. Types
  <2>1. NoCall \in Calls
    BY BlocksAssumption, AoeZeroAssumption DEF NoCall, Calls
  <2>2. <<>> \in Seq(Messages) /\ <<>> \in Seq(Frames) /\ <<>> \in Seq(Values) /\ Len(<<>>) = 0
    OBVIOUS
  <2>3. 0 \in 0 .. SectorsPerBlock - 1 /\ 0 <= SectorsPerBlock /\ 0 <= MaxFrames
    BY SectorFacts, AoeBoundsAssumption
  <2> QED
    BY <2>1, <2>2, <2>3, AoeZeroAssumption DEF Types
<1>2. In(toServer) = {} /\ In(toClient) = {} /\ Ordered(toServer)
  BY DEF In, Ordered
<1>3. SectorsAsWritten
  BY DEF SectorsAsWritten, NoCall
<1>4. RequestsOK /\ RepliesOK /\ CallOK
  BY <1>2 DEF RequestsOK, RepliesOK, CallOK, Busy
<1> QED
  BY <1>1, <1>2, <1>3, <1>4 DEF AInv

LEMMA AnnounceOK == AInv /\ Announce => AInv'
<1> SUFFICES ASSUME AInv, Announce PROVE AInv'
  OBVIOUS
<1> DEFINE f == Frame("announcement", target, 0, Zero)
<1>1. f \in Frames /\ f.kind = "announcement"
  BY TargetAssumption, AoeZeroAssumption DEF Frame, Frames
<1>2. UNCHANGED <<store, toServer, state, size, pc, call, sector, tag, got, drawn, possible>> /\ Answer(f)
  BY DEF Announce, connection, thread
<1> HIDE DEF f
<1>3. Types /\ In(toClient') \subseteq In(toClient) \cup {f}
  BY <1>1, <1>2, Answered DEF AInv
<1>4. Types'
  BY <1>1, <1>2, <1>3, Answered, TypesKept DEF Types
<1> QED
  BY <1>1, <1>2, <1>3, <1>4, Quiet DEF AInv, Busy

LEMMA ServeOtherOK == ASSUME AInv, NEW s \in Targets, ServeOther(s) PROVE AInv'
<1>1. PICK f \in Frames : f.from # target /\ Answer(f)
  <2>1. PICK kind \in {"info", "identify", "read", "write"}, v \in Values, t \in {0, 1, tag} :
             s # target /\ Answer(Frame(kind, s, t, v))
    BY DEF ServeOther
  <2>2. Frame(kind, s, t, v) \in Frames /\ Frame(kind, s, t, v).from = s
    BY DEF AInv, Types, Frame, Frames
  <2> QED
    BY <2>1, <2>2
<1>2. UNCHANGED <<store, toServer, state, size, pc, call, sector, tag, got, drawn, possible>>
  BY DEF ServeOther, connection, thread
<1>3. Types /\ In(toClient') \subseteq In(toClient) \cup {f}
  BY <1>1, Answered DEF AInv
<1>4. Types'
  BY <1>1, <1>2, <1>3, Answered, TypesKept DEF Types
<1> QED
  BY <1>1, <1>2, <1>3, <1>4, Quiet DEF AInv, Busy

LEMMA ConnectOK == AInv /\ (Connect \/ ConnectFails) => AInv'
<1> SUFFICES ASSUME AInv, Connect \/ ConnectFails PROVE AInv'
  OBVIOUS
<1>1. Types /\ UNCHANGED <<store, pc, call, sector, tag, got, drawn, possible>>
  BY DEF AInv, Connect, ConnectFails, Discover, Discovered, Identify, Identified, thread
<1>2. ASSUME NEW m \in Messages, Broadcast(m), ~Data(m), m.command = "identify" => m.tag = 1,
             UNCHANGED <<toClient, size>>,
             state' \in {"discover", "discover_sent", "identify", "identify_sent", "running", "failed"}
      PROVE  AInv'
  <2>1. In(toServer') \subseteq In(toServer) \cup {m} /\ Types'
    BY <1>1, <1>2, Broadcasted, TypesKept DEF Types
  <2>2. Ordered(toServer')
    <3>1. toServer \in Seq(Messages) /\ Ordered(toServer)
      BY DEF AInv, Types
    <3>2. Ordered(Append(toServer, m))
      BY <1>2, <3>1, OrderedAppend
    <3> QED
      BY <1>1, <1>2, <3>1, <3>2, Broadcasted
  <2> QED
    BY <1>1, <1>2, <2>1, <2>2, Quiet DEF Busy
<1>3. ASSUME toClient' = toClient \/ (toClient # <<>> /\ toClient' = Tail(toClient)), UNCHANGED toServer,
             state' \in {"discover", "discover_sent", "identify", "identify_sent", "running", "failed"},
             size' \in Targets \cup {"none"}
      PROVE  AInv'
  <2>1. toClient' \in Seq(Frames) /\ Len(toClient') <= MaxFrames /\ In(toClient') \subseteq In(toClient)
    BY <1>1, <1>3, Dropped DEF Types
  <2>2. Types'
    BY <1>1, <1>3, <2>1, TypesKept DEF Types
  <2> QED
    BY <1>1, <1>3, <2>1, <2>2, Quiet DEF AInv, Busy
<1>4. CASE Discover
  <2>1. Request("info", 0, 0, Zero) \in Messages /\ ~Data(Request("info", 0, 0, Zero))
        /\ Request("info", 0, 0, Zero).command # "identify"
    BY AoeZeroAssumption DEF Request, Messages, Data
  <2> QED
    BY <1>2, <1>4, <2>1 DEF Discover
<1>5. CASE Identify
  <2>1. Request("identify", 1, 0, Zero) \in Messages /\ ~Data(Request("identify", 1, 0, Zero))
        /\ Request("identify", 1, 0, Zero).tag = 1
    BY AoeZeroAssumption DEF Request, Messages, Data
  <2> QED
    BY <1>2, <1>5, <2>1 DEF Identify
<1>6. CASE Discovered
  BY <1>1, <1>3, <1>6 DEF Discovered, Types
<1>7. CASE Identified
  <2>1. Head(toClient).from \in Targets
    <3>1. Head(toClient) \in Frames
      BY <1>1, <1>7, Dropped DEF Identified
    <3> QED
      BY <3>1 DEF Frames
  <2> QED
    BY <1>1, <1>3, <1>7, <2>1 DEF Identified, Types
<1>8. CASE ConnectFails
  BY <1>1, <1>3, <1>8 DEF ConnectFails, Types
<1> QED
  BY <1>4, <1>5, <1>6, <1>7, <1>8 DEF Connect

(***************************************************************************)
(* The target serves a request.                                            *)
(***************************************************************************)

LEMMA ServeOK == AInv /\ Serve => AInv'
<1> SUFFICES ASSUME AInv, Serve PROVE AInv'
  OBVIOUS
<1> DEFINE m == Head(toServer)
           f == Frame(m.command, target, m.tag, IF m.command = "read" THEN store[m.lba] ELSE Zero)
<1>1. /\ Types /\ toServer # <<>> /\ toServer' = Tail(toServer)
      /\ UNCHANGED <<state, size, pc, call, sector, tag, got, drawn, possible>>
  BY DEF AInv, Serve, connection, thread
<1>2. /\ m \in Messages /\ m \in In(toServer)
      /\ toServer' \in Seq(Messages) /\ Len(toServer') <= MaxFrames
      /\ In(toServer') \subseteq In(toServer)
  <2>1. toServer \in Seq(Messages) /\ Len(toServer) <= MaxFrames
    BY <1>1 DEF Types
  <2> QED
    BY <1>1, <2>1, InTail, AoeBoundsAssumption
<1>3. /\ Ordered(toServer')
      /\ \A n \in In(toServer') : Data(n) /\ Data(m) => m.tag <= n.tag
  BY <1>1, OrderedTail DEF AInv, Types
<1>4. CASE UNCHANGED <<store, toClient>>
  <2>1. Types'
    BY <1>1, <1>2, <1>4, TypesKept DEF Types
  <2> QED
    BY <1>1, <1>2, <1>3, <1>4, <2>1, Quiet DEF Busy
<1>5. CASE /\ m.command \in {"info", "identify", "read", "write"}
           /\ store' = IF m.command = "write" THEN [store EXCEPT ![m.lba] = m.data] ELSE store
           /\ Answer(f)
  <2>1. /\ m.tag \in Nat /\ m.data \in Values
        /\ m.command = "identify" => m.tag = 1
        /\ Data(m) => m.tag \in 2 .. drawn /\ m.lba \in Sectors
        /\ m.command = "write" => m.data \in possible[m.lba]
    BY <1>2 DEF Messages, AInv, RequestsOK
  <2>2. f \in Frames /\ f.kind = m.command /\ f.from = target /\ f.tag = m.tag
        /\ (m.command = "read" => f.data = store[m.lba])
    BY <1>1, <1>5, <2>1, TargetAssumption, AoeZeroAssumption DEF Frame, Frames, Data, Types
  <2> HIDE DEF f, m
  <2>3. /\ toClient' \in Seq(Frames) /\ Len(toClient') <= MaxFrames
        /\ In(toClient') \subseteq In(toClient) \cup {f}
    BY <1>1, <1>5, <2>2, Answered
  <2>4. store' \in [Sectors -> Values] /\ \A l \in Sectors : store'[l] \in possible[l]
    BY <1>1, <1>5, <2>1 DEF Types, Data, AInv, SectorsAsWritten
  <2>5. Types'
    BY <1>1, <1>2, <2>3, <2>4 DEF Types
  <2>6. SectorsAsWritten'
    BY <1>1, <2>4 DEF AInv, SectorsAsWritten
  <2>7. RequestsOK'
    BY <1>1, <1>2 DEF AInv, RequestsOK, Data
  <2>8. RepliesOK'
    <3>1. ASSUME NEW g \in In(toClient'), Reply(g)
          PROVE  g.tag \in 2 .. drawn /\ \A n \in In(toServer') : Data(n) => g.tag <= n.tag
      <4>1. CASE g \in In(toClient)
        BY <1>2, <3>1, <4>1 DEF AInv, RepliesOK
      <4>2. CASE g = f
        BY <1>3, <2>1, <2>2, <3>1, <4>2 DEF Reply, Data
      <4> QED
        BY <2>3, <4>1, <4>2
    <3>2. ASSUME NEW g \in In(toClient'), g.from = target, g.kind = "identify"
          PROVE  g.tag = 1
      BY <2>1, <2>2, <2>3, <3>2 DEF AInv, RepliesOK
    <3> QED
      BY <1>1, <3>1, <3>2 DEF RepliesOK, Reply
  <2>9. CallOK'
    <3>1. SUFFICES ASSUME Busy PROVE CallOK'
      BY <1>1 DEF CallOK, Busy
    <3>2. Lba \in Sectors /\ Lba' = Lba
      BY <1>1, LbaFacts DEF Lba
    <3>3. /\ tag = drawn /\ drawn >= 2
          /\ call.op = "put" => call.data \in possible[Lba]
          /\ call.op = "get" => Len(got) = sector
          /\ \A n \in In(toServer) :
               Data(n) /\ n.tag = tag => n.command = Command(call.op) /\ n.lba = Lba /\ n.data = call.data
      BY <3>1 DEF AInv, CallOK
    <3>4. ASSUME NEW g \in In(toClient'), Reply(g), g.tag = tag
          PROVE  /\ call.op = "put" => store'[Lba] = call.data
                 /\ call.op = "get" => g.data \in possible[Lba]
      <4>1. CASE g \in In(toClient)
        <5>1. /\ call.op = "put" => store[Lba] = call.data
              /\ call.op = "get" => g.data \in possible[Lba]
          BY <3>1, <3>4, <4>1 DEF AInv, CallOK
        <5>2. Data(m) => g.tag <= m.tag
          BY <1>2, <3>4, <4>1 DEF AInv, RepliesOK
        <5>3. Data(m) => m.tag = tag
          BY <1>1, <2>1, <3>3, <3>4, <5>2 DEF Types
        <5>4. m.command = "write" => m.lba = Lba /\ m.data = call.data
          BY <1>2, <3>3, <5>3 DEF Data
        <5> QED
          BY <1>1, <1>5, <3>2, <5>1, <5>4 DEF Types
      <4>2. CASE g = f
        <5>1. Data(m) /\ m.tag = tag
          BY <2>2, <3>4, <4>2 DEF Reply, Data
        <5>2. m.command = Command(call.op) /\ m.lba = Lba /\ m.data = call.data
          BY <1>2, <3>3, <5>1
        <5>3. call.op = "put" => m.command = "write"
          BY <5>2 DEF Command
        <5>4. call.op = "get" => m.command = "read"
          BY <5>2 DEF Command
        <5>5. store[Lba] \in possible[Lba]
          BY <3>2 DEF AInv, SectorsAsWritten
        <5> QED
          BY <1>1, <1>5, <2>2, <3>2, <4>2, <5>2, <5>3, <5>4, <5>5 DEF Types
      <4> QED
        BY <2>3, <4>1, <4>2
    <3> QED
      BY <1>1, <1>2, <3>2, <3>3, <3>4 DEF CallOK, Reply, Data
  <2> QED
    BY <1>3, <2>5, <2>6, <2>7, <2>8, <2>9 DEF AInv
<1> QED
  BY <1>4, <1>5 DEF Serve

(***************************************************************************)
(* The client: calls, requests and answers.                                *)
(***************************************************************************)

\* a new tag is newer than any in a queue
LEMMA NewTag ==
  ASSUME AInv
  PROVE  /\ \A m \in In(toServer) : Data(m) => m.tag # drawn + 1 /\ m.tag <= drawn
         /\ \A f \in In(toClient) : Reply(f) => f.tag # drawn + 1
         /\ drawn + 1 \in Nat \ {0} /\ drawn + 1 >= 2
BY DEF AInv, Types, RequestsOK, RepliesOK

\* a request may become what is written next, and tags are drawn
LEMMA MorePossible ==
  ASSUME AInv, NEW l \in Sectors, NEW v \in Values,
         possible' = MayBecome(possible, l, v) \/ possible' = possible,
         drawn' \in Nat \ {0}, drawn <= drawn',
         UNCHANGED <<store, toServer>>
  PROVE  /\ possible' \in [Sectors -> SUBSET Values]
         /\ \A k \in Sectors : possible[k] \subseteq possible'[k]
         /\ RequestsOK'
<1>1. possible \in [Sectors -> SUBSET Values] /\ drawn \in Nat
  BY DEF AInv, Types
<1>2. possible' \in [Sectors -> SUBSET Values] /\ \A k \in Sectors : possible[k] \subseteq possible'[k]
  BY <1>1 DEF MayBecome
<1>3. ASSUME NEW m \in In(toServer)
      PROVE  /\ m.command = "identify" => m.tag = 1
             /\ Data(m) => m.tag \in 2 .. drawn' /\ m.lba \in Sectors
             /\ m.command = "write" => m.data \in possible'[m.lba]
  BY <1>1, <1>2, <1>3 DEF AInv, RequestsOK, Data
<1> QED
  BY <1>2, <1>3 DEF RequestsOK, Data

LEMMA CallIsOK == AInv /\ Call => AInv'
<1> SUFFICES ASSUME AInv, Call PROVE AInv'
  OBVIOUS
<1>1. PICK op \in {"get", "put", "fsync", "trim"}, b \in Blocks, v \in Values :
        /\ pc' = "send" /\ call' = [op |-> op, block |-> b, data |-> v]
        /\ sector' = 0 /\ got' = <<>>
        /\ drawn' = IF op = "fsync" THEN drawn ELSE drawn + 1
        /\ tag' = IF op = "fsync" THEN 0 ELSE drawn'
        /\ possible' = IF op = "put" THEN MayBecome(possible, b, v) ELSE possible
        /\ UNCHANGED <<store, toServer, toClient, state, size>>
  BY DEF Call, connection
<1>2. b \in Nat /\ b \in Sectors /\ b + 0 = b /\ Lba' = b
  <2>1. b + 0 \in Sectors /\ b \in Nat
    BY SectorFacts
  <2> QED
    BY <1>1, <2>1 DEF Lba
<1>3. drawn' \in Nat \ {0} /\ drawn <= drawn' /\ tag' \in Nat
  BY <1>1 DEF AInv, Types
<1>4. /\ possible' \in [Sectors -> SUBSET Values]
      /\ \A k \in Sectors : possible[k] \subseteq possible'[k]
      /\ RequestsOK'
  BY <1>1, <1>2, <1>3, MorePossible
<1>5. Types'
  <2>1. call' \in Calls /\ <<>> \in Seq(Values) /\ Len(<<>>) = 0
    BY <1>1 DEF Calls
  <2>2. 0 \in 0 .. SectorsPerBlock - 1 /\ 0 <= SectorsPerBlock
    BY SectorFacts
  <2> QED
    BY <1>1, <1>3, <1>4, <2>1, <2>2 DEF AInv, Types
<1>6. SectorsAsWritten'
  <2>1. Len(got') = 0
    BY <1>1
  <2> QED
    BY <1>1, <1>4, <2>1 DEF AInv, SectorsAsWritten
<1>7. RepliesOK'
  <2>1. ASSUME NEW f \in In(toClient), Reply(f) PROVE f.tag \in 2 .. drawn'
    BY <1>3, <2>1 DEF AInv, RepliesOK, Types
  <2> QED
    BY <1>1, <2>1 DEF AInv, RepliesOK, Reply, Data
<1>8. CallOK'
  <2>1. SUFFICES ASSUME op \in {"get", "put"} PROVE CallOK'
    BY <1>1 DEF CallOK, Busy
  <2>2. tag' = drawn + 1 /\ drawn' = drawn + 1
    BY <1>1, <2>1
  <2>3. op = "put" => v \in possible'[b]
    BY <1>1, <1>2 DEF AInv, Types, MayBecome
  <2>4. op = "get" => Len(got') = sector'
    BY <1>1
  <2> QED
    BY <1>1, <1>2, <2>2, <2>3, <2>4, NewTag DEF CallOK, Data, Reply
<1> QED
  BY <1>1, <1>4, <1>5, <1>6, <1>7, <1>8 DEF AInv

LEMMA SendOK == AInv /\ Send => AInv'
<1> SUFFICES ASSUME AInv, Send PROVE AInv'
  OBVIOUS
<1> DEFINE m == Request(Command(call.op), tag, Lba, call.data)
<1>1. /\ Types /\ pc = "send" /\ pc' = "wait" /\ Broadcast(m)
      /\ UNCHANGED <<store, toClient, state, size, call, sector, tag, got, drawn, possible>>
  BY DEF AInv, Send, connection
<1>2. m \in Messages /\ m.command = Command(call.op) /\ m.tag = tag /\ m.lba = Lba /\ m.data = call.data
  BY <1>1, LbaFacts DEF Types, Calls, Command, Request, Messages
<1>3. Data(m) => Busy /\ tag = drawn /\ drawn \in Nat /\ drawn >= 2 /\ Lba \in Sectors
  BY <1>1, <1>2, LbaFacts DEF AInv, Data, Command, Types, Calls, Busy, CallOK
<1>4. m.command = "write" => call.op = "put" /\ Data(m)
  BY <1>1, <1>2 DEF Types, Calls, Command, Data
<1>5. m.command # "identify"
  BY <1>1, <1>2 DEF Types, Calls, Command
<1> HIDE DEF m
<1>6. /\ toServer' \in Seq(Messages) /\ Len(toServer') <= MaxFrames
      /\ In(toServer') \subseteq In(toServer) \cup {m}
  BY <1>1, <1>2, Broadcasted
<1>7. Types'
  BY <1>1, <1>6 DEF Types
<1>8. SectorsAsWritten'
  BY <1>1 DEF AInv, SectorsAsWritten
<1>9. Ordered(toServer')
  <2>1. \A n \in In(toServer) : Data(n) /\ Data(m) => n.tag <= m.tag
    BY <1>2, <1>3, NewTag
  <2>2. Ordered(toServer) /\ toServer \in Seq(Messages)
    BY DEF AInv, Types
  <2>3. Ordered(Append(toServer, m))
    BY <1>2, <2>1, <2>2, OrderedAppend
  <2> QED
    BY <1>1, <1>2, <2>2, <2>3, Broadcasted
<1>10. RequestsOK'
  <2>1. /\ Data(m) => m.tag \in 2 .. drawn /\ m.lba \in Sectors
        /\ m.command = "write" => m.data \in possible[m.lba]
    BY <1>2, <1>3, <1>4 DEF AInv, CallOK
  <2> QED
    BY <1>1, <1>5, <1>6, <2>1 DEF AInv, RequestsOK, Data
<1>11. RepliesOK'
  <2>1. ASSUME NEW f \in In(toClient), Reply(f), Data(m) PROVE f.tag <= m.tag
    BY <1>2, <1>3, <2>1 DEF AInv, RepliesOK
  <2> QED
    BY <1>1, <1>6, <2>1 DEF AInv, RepliesOK, Reply, Data
<1>12. CallOK'
  <2>1. Lba' = Lba /\ (Busy' <=> Busy)
    BY <1>1 DEF Lba, Busy
  <2> QED
    BY <1>1, <1>2, <1>6, <2>1 DEF AInv, CallOK, Data, Reply
<1> QED
  BY <1>7, <1>8, <1>9, <1>10, <1>11, <1>12 DEF AInv

\* Fails, Ignore and TimeOut: the client reads at most a frame, and goes on, or
\* sends again, or ends the call
LEMMA OtherOK == AInv /\ (Fails \/ Ignore \/ TimeOut) => AInv'
<1> SUFFICES ASSUME AInv, Fails \/ Ignore \/ TimeOut PROVE AInv'
  OBVIOUS
<1>1. /\ Types /\ UNCHANGED <<store, toServer, state, size, call, sector, tag, got, drawn, possible>>
      /\ pc # "idle" /\ pc' \in {"idle", "send", "wait"}
      /\ toClient' = toClient \/ (toClient # <<>> /\ toClient' = Tail(toClient))
  BY DEF AInv, Types, Fails, Ignore, TimeOut, TimedOut, connection, thread
<1>2. toClient' \in Seq(Frames) /\ Len(toClient') <= MaxFrames /\ In(toClient') \subseteq In(toClient)
  BY <1>1, Dropped DEF Types
<1>3. Types'
  BY <1>1, <1>2, TypesKept DEF Types
<1> QED
  BY <1>1, <1>2, <1>3, Quiet DEF AInv, Busy

\* an answer ends the call or takes it to the next sector
LEMMA ReceiveOK == AInv /\ Receive => AInv'
<1> SUFFICES ASSUME AInv, Receive PROVE AInv'
  OBVIOUS
<1> DEFINE f == Head(toClient)
           more == sector + 1 < Requests
           written == [possible EXCEPT ![Lba] = {call.data}]
<1>1. /\ Types /\ pc = "wait" /\ toClient # <<>> /\ IsAnswer(f) /\ toClient' = Tail(toClient)
      /\ pc' = IF more THEN "send" ELSE "idle"
      /\ sector' = IF more THEN sector + 1 ELSE sector
      /\ got' = IF call.op = "get" THEN Append(got, f.data) ELSE got
      /\ possible' = IF call.op # "put" THEN possible
                     ELSE IF more THEN MayBecome(written, Lba + 1, call.data) ELSE written
      /\ drawn' = IF more THEN drawn + 1 ELSE drawn
      /\ tag' = IF more THEN drawn' ELSE tag
      /\ UNCHANGED <<store, toServer, state, size, call>>
  BY DEF AInv, Receive, connection
<1>2. /\ toClient' \in Seq(Frames) /\ Len(toClient') <= MaxFrames
      /\ In(toClient') \subseteq In(toClient) /\ f \in Frames /\ f \in In(toClient)
  BY <1>1, Dropped
<1> HIDE DEF f
<1>3. /\ Lba \in Nat /\ Lba \in Sectors /\ Lba = call.block + sector /\ call.block \in Nat
      /\ sector \in Nat /\ call.data \in Values
  <2>1. Lba \in Nat /\ Lba \in Sectors /\ call.block \in Blocks
    BY <1>1, LbaFacts
  <2>2. call.block \in Nat
    BY <2>1, SectorFacts
  <2>3. sector \in Nat /\ call.data \in Values
    BY <1>1, SectorFacts DEF Types, Calls
  <2> QED
    BY <2>1, <2>2, <2>3 DEF Lba
<1>4. more => /\ sector + 1 \in 0 .. SectorsPerBlock - 1
              /\ Lba' = Lba + 1 /\ Lba + 1 \in Sectors
  <2>1. SUFFICES ASSUME more
                 PROVE  sector + 1 \in 0 .. SectorsPerBlock - 1 /\ Lba' = Lba + 1 /\ Lba + 1 \in Sectors
    OBVIOUS
  <2>2. sector + 1 \in 0 .. SectorsPerBlock - 1
    BY <1>3, <2>1, SectorFacts DEF Requests
  <2>3. call.block \in Blocks
    BY <1>1, LbaFacts
  <2>4. call.block + (sector + 1) \in Sectors
    BY <2>2, <2>3, SectorFacts
  <2>5. call.block + (sector + 1) = Lba + 1
    BY <1>3
  <2> QED
    BY <1>1, <2>1, <2>2, <2>4, <2>5 DEF Lba
<1> HIDE DEF more
<1>5. Busy => Reply(f) /\ f.tag = tag
  <2>1. SUFFICES ASSUME Busy PROVE f.kind # "identify" /\ f.tag = tag
    BY <1>1 DEF IsAnswer, Reply
  <2>2. f.tag = tag /\ tag >= 2 /\ f.from = target
    BY <1>1, <2>1 DEF AInv, CallOK, IsAnswer
  <2> QED
    BY <1>2, <2>2 DEF AInv, RepliesOK
<1>6. call.op = "put" => store[Lba] = call.data
  BY <1>1, <1>2, <1>5 DEF AInv, CallOK, Busy
<1>7. call.op = "get" => f.data \in possible[Lba] /\ f.data \in Values /\ Len(got) = sector
  BY <1>1, <1>2, <1>5, <1>3 DEF AInv, CallOK, Busy, Types
<1>8. possible' \in [Sectors -> SUBSET Values]
  <2>1. written \in [Sectors -> SUBSET Values]
    BY <1>1, <1>3 DEF Types
  <2>2. more => MayBecome(written, Lba + 1, call.data) \in [Sectors -> SUBSET Values]
    BY <1>3, <1>4, <2>1 DEF MayBecome
  <2> QED
    BY <1>1, <2>1, <2>2 DEF Types
<1>9. \A l \in Sectors : l # Lba \/ call.op # "put" => possible[l] \subseteq possible'[l]
  BY <1>1, <1>3, <1>4 DEF Types, MayBecome
<1>10. call.op = "put" => call.data \in possible'[Lba] /\ (more => call.data \in possible'[Lba + 1])
  BY <1>1, <1>3, <1>4 DEF Types, MayBecome
<1>11. drawn' \in Nat \ {0} /\ drawn <= drawn' /\ tag' \in Nat /\ drawn \in Nat
  BY <1>1 DEF Types
<1>12. /\ got' \in Seq(Values) /\ Len(got') <= SectorsPerBlock
       /\ call.op = "get" => Len(got') = sector + 1 /\ got'[sector + 1] = f.data
       /\ \A i \in 1 .. Len(got) : got'[i] = got[i]
  <2>1. CASE call.op = "get"
    <3>1. got \in Seq(Values) /\ f.data \in Values /\ got' = Append(got, f.data) /\ Len(got) = sector
      BY <1>1, <1>7, <2>1 DEF Types
    <3>2. sector + 1 <= SectorsPerBlock
      BY <1>1, SectorFacts DEF Types
    <3> QED
      BY <3>1, <3>2, <2>1
  <2>2. CASE call.op # "get"
    BY <1>1, <2>2 DEF Types
  <2> QED
    BY <2>1, <2>2
<1>13. Types'
  <2>1. sector' \in 0 .. SectorsPerBlock - 1
    BY <1>1, <1>4 DEF Types
  <2> QED
    BY <1>1, <1>2, <1>8, <1>11, <1>12, <2>1 DEF Types
<1>14. SectorsAsWritten'
  <2>1. ASSUME NEW l \in Sectors PROVE store[l] \in possible'[l]
    BY <1>3, <1>6, <1>9, <1>10 DEF AInv, SectorsAsWritten
  <2>2. ASSUME call.op = "get", NEW i \in 1 .. Len(got')
        PROVE  got'[i] \in possible'[call.block + i - 1]
    <3>1. possible' = possible /\ Len(got) = sector /\ Len(got') = sector + 1
      BY <1>1, <1>7, <1>12, <2>2
    <3>2. CASE i = sector + 1
      <4>1. call.block + i - 1 = Lba
        BY <1>3, <3>2
      <4> QED
        BY <1>7, <1>12, <2>2, <3>1, <3>2, <4>1
    <3>3. CASE i # sector + 1
      <4>1. i \in 1 .. Len(got)
        BY <1>3, <2>2, <3>1, <3>3
      <4> QED
        BY <1>12, <2>2, <3>1, <4>1 DEF AInv, SectorsAsWritten
    <3> QED
      BY <3>2, <3>3
  <2> QED
    BY <1>1, <2>1, <2>2 DEF SectorsAsWritten
<1>15. RequestsOK'
  <2>1. ASSUME NEW m \in In(toServer), m.command = "write" PROVE m.data \in possible'[m.lba]
    <3>1. Data(m) /\ m.lba \in Sectors /\ m.data \in possible[m.lba] /\ m.tag \in 2 .. drawn
      BY <2>1 DEF AInv, RequestsOK, Data
    <3>2. CASE m.lba # Lba \/ call.op # "put"
      BY <1>9, <3>1, <3>2
    <3>3. CASE m.lba = Lba /\ call.op = "put"
      <4>1. Busy
        BY <1>1, <3>3 DEF Busy
      <4>2. f.tag <= m.tag /\ f.tag = tag /\ tag = drawn
        BY <1>2, <1>5, <3>1, <4>1 DEF AInv, RepliesOK, CallOK
      <4>3. m.tag = tag
        BY <1>11, <3>1, <4>2
      <4>4. m.data = call.data
        BY <3>1, <4>1, <4>3 DEF AInv, CallOK
      <4> QED
        BY <1>10, <3>3, <4>4
    <3> QED
      BY <3>2, <3>3
  <2>2. ASSUME NEW m \in In(toServer), Data(m) PROVE m.tag \in 2 .. drawn' /\ m.lba \in Sectors
    BY <1>11, <2>2 DEF AInv, RequestsOK
  <2> QED
    BY <1>1, <2>1, <2>2 DEF AInv, RequestsOK, Data
<1>16. RepliesOK'
  <2>1. ASSUME NEW g \in In(toClient), Reply(g) PROVE g.tag \in 2 .. drawn'
    BY <1>11, <2>1 DEF AInv, RepliesOK
  <2> QED
    BY <1>1, <1>2, <2>1 DEF AInv, RepliesOK, Reply, Data
<1>17. CallOK'
  <2>1. SUFFICES ASSUME more, call.op \in {"get", "put"} PROVE CallOK'
    BY <1>1 DEF CallOK, Busy
  <2>2. tag' = drawn + 1 /\ drawn' = drawn + 1
    BY <1>1, <2>1
  <2>3. call.op = "put" => call.data \in possible'[Lba']
    BY <1>4, <1>10, <2>1
  <2>4. call.op = "get" => Len(got') = sector'
    BY <1>1, <1>12, <2>1
  <2> QED
    BY <1>1, <1>2, <2>2, <2>3, <2>4, NewTag DEF CallOK, Data, Reply
<1> QED
  BY <1>1, <1>13, <1>14, <1>15, <1>16, <1>17 DEF AInv

(***************************************************************************)
(* The theorems.                                                           *)
(***************************************************************************)

LEMMA AoeStep == AInv /\ [Next]_vars => AInv'
<1> SUFFICES ASSUME AInv, [Next]_vars PROVE AInv'
  OBVIOUS
<1>1. CASE Announce
  BY <1>1, AnnounceOK
<1>2. CASE Serve
  BY <1>2, ServeOK
<1>3. CASE \E s \in Targets : ServeOther(s)
  BY <1>3, ServeOtherOK
<1>4. CASE Connect \/ ConnectFails
  BY <1>4, ConnectOK
<1>5. CASE Call
  BY <1>5, CallIsOK
<1>6. CASE Send
  BY <1>6, SendOK
<1>7. CASE Fails \/ Ignore \/ TimeOut
  BY <1>7, OtherOK
<1>8. CASE Receive
  BY <1>8, ReceiveOK
<1>9. CASE UNCHANGED vars
  <2>1. UNCHANGED <<store, toServer, toClient, state, size, pc, call, sector, tag, got, drawn, possible>>
    BY <1>9 DEF vars, connection, thread
  <2>2. Types'
    BY <2>1 DEF AInv, Types
  <2> QED
    BY <2>1, <2>2, Quiet DEF AInv, Busy
<1> QED
  BY <1>1, <1>2, <1>3, <1>4, <1>5, <1>6, <1>7, <1>8, <1>9 DEF Next

\* The inductive invariant holds in every state that is reached.
THEOREM AoeInvariant == Spec => []AInv
<1>1. Init => AInv
  BY InitOK
<1>2. AInv /\ [Next]_vars => AInv'
  BY AoeStep
<1> QED
  BY <1>1, <1>2, PTL DEF Spec

\* Every variable keeps its type, and the sector that the client works on is one
\* of the block (do_ata_command, worker_thread).
THEOREM AoeTypeCorrect == Spec => []TypeOK
<1>1. AInv => TypeOK
  <2> SUFFICES ASSUME AInv PROVE TypeOK
    OBVIOUS
  <2>1. Types
    BY DEF AInv
  <2> QED
    BY <2>1, LbaFacts DEF Types, TypeOK
<1> QED
  BY <1>1, AoeInvariant, PTL

\* No copy of a request that was sent again (do_ata_command), no answer of
\* another target or to another request undoes a write that was answered or gets
\* into what is read, however many frames are lost.
THEOREM AoeSectorsAsWritten == Spec => []SectorsAsWritten
<1>1. AInv => SectorsAsWritten
  BY DEF AInv
<1> QED
  BY <1>1, AoeInvariant, PTL
=============================================================================
