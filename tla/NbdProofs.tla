----------------------------- MODULE NbdProofs -----------------------------
(* Theorems about Nbd, for any number of connections, guests, requests and   *)
(* blocks, whatever fails, and for both answers to NBD_OPT_EXPORT_NAME.      *)
EXTENDS Nbd, TLAPS

(***************************************************************************)
(* What is in the queues.                                                  *)
(***************************************************************************)

\* what is in a queue
In(q) == {q[i] : i \in 1 .. Len(q)}

Handles == (Guests \cup {Backend}) \X Nat
Options == [msg : {"option"}, option : {"export name", "go", "other"}, known : BOOLEAN]
Commands == {m \in [msg : {"command"}, type : {"none", "read", "write", "flush", "trim", "disc"},
                     handle : Handles, blocks : SUBSET Blocks, data : Values, fua : BOOLEAN] :
                (m.type = "read" => m.blocks # {}) /\ (m.fua = TRUE => m.type = "write")}
Requests == {[msg |-> "flags"]} \cup Options \cup Commands
Replies == [msg : {"reply"}, handle : Handles, err : BOOLEAN]
Contents == [msg : {"data"}, data : Values]
Answers == {[msg |-> "hello"], [msg |-> "size"], [msg |-> "rest"]}
           \cup [msg : {"option reply"}, ok : BOOLEAN] \cup Replies \cup Contents

Calls == [op : {"none", "get", "put", "fsync", "trim"}, block : Blocks, data : Values]

Types ==
  /\ TypeOK
  /\ toServer \in [Connections -> Seq(Requests)]
  /\ toClient \in [Connections -> Seq(Answers)]
  /\ fua \in [Connections -> SUBSET Handles]
  /\ call \in Calls
  /\ result \in [ok : BOOLEAN, data : Values]
  /\ command \in [Guests -> Commands]
  /\ written \in SUBSET Handles /\ synced \in SUBSET Handles /\ acked \in SUBSET Handles
  /\ promised \in SUBSET (Guests \X Nat)
  /\ before \in [Guests \cup {Backend} -> SUBSET Handles]
  /\ seen \in SUBSET Values

(***************************************************************************)
(* The inductive invariant.                                                *)
(***************************************************************************)

\* what was acknowledged or promised was written, and a flush asks for what was
\* acknowledged
History ==
  /\ acked \subseteq written /\ promised \subseteq written
  /\ \A o \in Guests \cup {Backend} : before[o] \subseteq acked

\* what handle_client receives is what its state is about
ShapeOf(k) ==
  /\ state[k] = "none" => toServer[k] = <<>> /\ ~up[k]
  /\ state[k] = "client flags" =>
       /\ Len(toServer[k]) <= 2
       /\ \A i \in 1 .. Len(toServer[k]) :
            toServer[k][i].msg = IF i = 1 THEN "flags" ELSE "option"
  /\ state[k] = "options" =>
       Len(toServer[k]) <= 1 /\ \A m \in In(toServer[k]) : m.msg = "option"
  /\ state[k] = "transmission" => \A m \in In(toServer[k]) : m.msg = "command"
Shape == \A k \in Connections : ShapeOf(k)

Ready(k) == state[k] \in {"transmission", "terminate"}

\* connections not made yet, and those of the backend: its option is accepted, and
\* it never asks for FUA
Owner ==
  /\ fd = IF used = 0 THEN 1 ELSE used
  /\ pc # "connect" => used > 0
  /\ \A k \in Owned :
       /\ k > used => state[k] = "none"
       /\ \A m \in In(toServer[k]) :
            /\ m.msg = "option" => m.option = "export name" /\ m.known = TRUE
            /\ m.msg = "command" => m.fua = FALSE

\* where the backend is on its connection
Place ==
  /\ pc = "init" => /\ toServer[fd] = <<>> /\ Len(toClient[fd]) <= 1
                    /\ state[fd] \in {"none", "client flags", "terminate"}
  /\ pc = "options recv" => toClient[fd] = <<>> \/ Ready(fd)
  /\ pc \in {"idle", "send", "header", "data"} => Ready(fd) \/ ~up[fd]

Ok(r) == r.msg = "reply" /\ r.handle = Handle /\ r.err = FALSE

\* the commands and replies on its connection: those with the handle of the call
\* are about the call, and what they say is true
SentOK(m) ==
  m.msg = "command" => /\ m.handle \in {Backend} \X (0 .. nr)
                       /\ m.handle = Handle => call.op # "none" /\ m = Request
ToldOK(r) ==
  /\ r.msg = "reply" => r.handle \in {Backend} \X (0 .. nr)
  /\ Ok(r) /\ call.op = "put" => Handle \in written
  /\ Ok(r) /\ call.op = "fsync" => before[Backend] \subseteq synced
Datum(r) == r.msg = "data" /\ r.data \in seen
Brings(q) ==
  \A i \in 1 .. Len(q) :
    Ok(q[i]) /\ call.op = "get" => IF i < Len(q) THEN Datum(q[i + 1]) ELSE ~up[fd]
DataNext ==
  pc = "data" => call.op = "get" /\ (IF toClient[fd] # <<>> THEN Datum(toClient[fd][1]) ELSE ~up[fd])

Exchange ==
  /\ \A m \in In(toServer[fd]) : SentOK(m)
  /\ \A r \in In(toClient[fd]) : ToldOK(r)
  /\ pc # "idle" => Brings(toClient[fd])
  /\ DataNext

\* where a guest is, and that it waits for one answer at a time
Alone(g) ==
  /\ state[g] # "none"
  /\ command[g].handle = <<g, count[g]>> /\ command[g].type # "read"
  /\ Len(toServer[g]) <= 2 /\ Len(toClient[g]) <= 1
  /\ Len(toServer[g]) = 0 \/ Len(toClient[g]) = 0

Asked(g) ==
  \A m \in In(toServer[g]) :
    m.msg = "command" => m = command[g] /\ guest[g] \in {"reply", "gone"}

Negotiates(g) ==
  /\ guest[g] \in {"hello", "option"} => command[g].type = "none"
  /\ guest[g] = "hello" => /\ toServer[g] = <<>> /\ state[g] \in {"client flags", "terminate"}
                           /\ toClient[g] \in {Hello, <<>>}
  /\ guest[g] = "option" =>
       \A m \in In(toClient[g]) :
         /\ m.msg \in {"size", "option reply"}
         /\ IF m.msg = "size" \/ m.ok = TRUE THEN Ready(g)
            ELSE state[g] \in {"options", "terminate"}

Rests(g) ==
  /\ guest[g] \in {"ready", "failed"} =>
       toServer[g] = <<>> /\ toClient[g] = <<>> /\ (Ready(g) \/ ~up[g])
  /\ guest[g] = "gone" => ~up[g] /\ toClient[g] = <<>>

Awaits(g) ==
  guest[g] = "reply" =>
    /\ Ready(g) \/ ~up[g]
    /\ Len(toServer[g]) <= 1 /\ \A m \in In(toServer[g]) : m.msg = "command"
    /\ \A r \in In(toClient[g]) :
         /\ r.msg = "reply" /\ r.handle = command[g].handle
         /\ r.err = FALSE /\ command[g].type = "write" => r.handle \in written
         /\ r.err = FALSE /\ command[g].type = "flush" => before[g] \subseteq synced

GuestOf(g) == Alone(g) /\ Asked(g) /\ Negotiates(g) /\ Rests(g) /\ Awaits(g)
AllGuests == \A g \in Guests : GuestOf(g)

\* a write with FUA that is not on stable storage yet: its thread is about to sync,
\* or has lost its connection, and nothing is answered in between
FuaOf(g) ==
  \A n \in Nat : <<g, n>> \in promised /\ <<g, n>> \notin synced =>
    /\ n <= count[g]
    /\ <<g, n>> \in fua[g] \/ ~up[g]
    /\ count[g] > n => guest[g] \in {"reply", "gone"} /\ toClient[g] = <<>>
Fua == \A g \in Guests : FuaOf(g)

\* only a thread that handles commands syncs
FuaThreads == \A k \in Connections : fua[k] # {} => Ready(k)

NInv ==
  /\ Types /\ History /\ Shape /\ Owner /\ Place /\ Exchange /\ AllGuests /\ Fua /\ FuaThreads
  /\ CallsTakeEffect /\ FlushCovers

(***************************************************************************)
(* Queues and messages.                                                    *)
(***************************************************************************)

LEMMA TailFacts ==
  ASSUME NEW S, NEW q \in Seq(S), q # <<>>
  PROVE  /\ Tail(q) \in Seq(S) /\ Len(Tail(q)) = Len(q) - 1 /\ Len(q) \in Nat \ {0}
         /\ Head(q) = q[1] /\ Head(q) \in S
         /\ \A i \in 1 .. Len(q) - 1 : Tail(q)[i] = q[i + 1]
  OBVIOUS

LEMMA AppendFacts ==
  ASSUME NEW S, NEW q \in Seq(S), NEW x \in S
  PROVE  /\ Append(q, x) \in Seq(S) /\ Len(Append(q, x)) = Len(q) + 1 /\ Len(q) \in Nat
         /\ \A i \in 1 .. Len(q) : Append(q, x)[i] = q[i]
         /\ Append(q, x)[Len(q) + 1] = x
  OBVIOUS

LEMMA ConcatFacts ==
  ASSUME NEW S, NEW q \in Seq(S), NEW p \in Seq(S)
  PROVE  /\ q \o p \in Seq(S) /\ Len(q \o p) = Len(q) + Len(p) /\ Len(q) \in Nat /\ Len(p) \in Nat
         /\ \A i \in 1 .. Len(q) : (q \o p)[i] = q[i]
         /\ \A i \in 1 .. Len(p) : (q \o p)[Len(q) + i] = p[i]
  OBVIOUS

LEMMA ConcatOne ==
  ASSUME NEW S, NEW q \in Seq(S), NEW x \in S
  PROVE  q \o <<x>> = Append(q, x)
<1> DEFINE c == q \o <<x>>
           d == Append(q, x)
<1>1. /\ c \in Seq(S) /\ d \in Seq(S) /\ Len(c) = Len(d)
      /\ \A i \in 1 .. Len(c) : c[i] = d[i]
  OBVIOUS
<1> HIDE DEF c, d
<1>2. c = d
  BY <1>1
<1> QED
  BY <1>2 DEF c, d

LEMMA PrefixFacts ==
  ASSUME NEW S, NEW q \in Seq(S), NEW n \in 0 .. Len(q)
  PROVE  /\ SubSeq(q, 1, n) \in Seq(S) /\ Len(SubSeq(q, 1, n)) = n /\ Len(q) \in Nat
         /\ \A i \in 1 .. n : SubSeq(q, 1, n)[i] = q[i]
  OBVIOUS

\* p is q without its first message
Rest(p, q) ==
  /\ Len(p) = Len(q) - 1 /\ Len(p) \in Nat /\ Len(q) \in Nat \ {0}
  /\ \A i \in 1 .. Len(p) : p[i] = q[i + 1]
  /\ In(q) = In(p) \cup {q[1]} /\ In(p) \subseteq In(q) /\ q[1] \in In(q)

LEMMA RestIs ==
  ASSUME NEW S, NEW q \in Seq(S), q # <<>>
  PROVE  Rest(Tail(q), q)
<1> DEFINE p == Tail(q)
<1>1. /\ p \in Seq(S) /\ Len(p) = Len(q) - 1 /\ Len(q) \in Nat \ {0}
      /\ \A i \in 1 .. Len(q) - 1 : p[i] = q[i + 1]
  BY TailFacts
<1> HIDE DEF p
<1>2. In(q) = In(p) \cup {q[1]}
  <2>1. \A i \in 1 .. Len(p) : p[i] = q[i + 1] /\ i + 1 \in 1 .. Len(q)
    BY <1>1
  <2>2. In(p) \subseteq In(q)
    BY <2>1 DEF In
  <2>3. 1 \in 1 .. Len(q) /\ q[1] \in In(q)
    BY <1>1 DEF In
  <2>4. ASSUME NEW i \in 1 .. Len(q), i # 1
        PROVE  q[i] \in In(p)
    <3>1. i - 1 \in 1 .. Len(p) /\ p[i - 1] = q[(i - 1) + 1] /\ (i - 1) + 1 = i
      BY <1>1, <2>1, <2>4
    <3> QED
      BY <3>1 DEF In
  <2> QED
    BY <2>2, <2>3, <2>4 DEF In
<1> QED
  BY <1>1, <1>2 DEF Rest, p

LEMMA EmptyQueue ==
  ASSUME NEW S, NEW q \in Seq(S)
  PROVE  Len(q) \in Nat /\ (q = <<>> <=> Len(q) = 0) /\ (q = <<>> => In(q) = {}) /\ In(q) \subseteq S
<1>1. Len(q) \in Nat /\ (q = <<>> <=> Len(q) = 0) /\ \A i \in 1 .. Len(q) : q[i] \in S
  OBVIOUS
<1> QED
  BY <1>1 DEF In

\* p is the beginning of q
Begins(p, q) ==
  /\ Len(p) <= Len(q) /\ Len(p) \in Nat /\ Len(q) \in Nat
  /\ \A i \in 1 .. Len(p) : p[i] = q[i]
  /\ In(p) \subseteq In(q) /\ (q = <<>> => p = <<>>)

LEMMA BeginsFacts ==
  ASSUME NEW S, NEW q \in Seq(S)
  PROVE  /\ Begins(q, q) /\ Begins(<<>>, q)
         /\ \A n \in 0 .. Len(q) : SubSeq(q, 1, n) \in Seq(S) /\ Begins(SubSeq(q, 1, n), q)
<1>1. Len(q) \in Nat /\ (q = <<>> <=> Len(q) = 0)
  BY EmptyQueue
<1>2. Begins(q, q)
  BY <1>1 DEF Begins
<1>3. Begins(<<>>, q)
  BY <1>1 DEF Begins, In
<1>4. ASSUME NEW n \in 0 .. Len(q)
      PROVE  SubSeq(q, 1, n) \in Seq(S) /\ Begins(SubSeq(q, 1, n), q)
  <2> DEFINE p == SubSeq(q, 1, n)
  <2>1. /\ p \in Seq(S) /\ Len(p) = n
        /\ \A i \in 1 .. n : p[i] = q[i]
    BY PrefixFacts
  <2> HIDE DEF p
  <2>2. p = <<>> <=> n = 0
    BY <2>1, EmptyQueue
  <2>3. In(p) \subseteq In(q)
    BY <1>1, <2>1 DEF In
  <2>4. Begins(p, q)
    BY <1>1, <2>1, <2>2, <2>3 DEF Begins
  <2> QED
    BY <2>1, <2>4 DEF p
<1> QED
  BY <1>2, <1>3, <1>4

LEMMA HearFacts ==
  ASSUME NEW S, NEW Q \in [Connections -> Seq(S)], NEW k \in Connections, Q[k] # <<>>
  PROVE  /\ Hear(k, Q) \in [Connections -> Seq(S)]
         /\ Hear(k, Q)[k] = Tail(Q[k])
         /\ \A j \in Connections \ {k} : Hear(k, Q)[j] = Q[j]
         /\ Head(Q[k]) = Q[k][1] /\ Q[k][1] \in S
         /\ Rest(Hear(k, Q)[k], Q[k])
         /\ Hear(k, Q)[k] = <<>> <=> Len(Q[k]) = 1
<1> DEFINE q == Q[k]
<1>1. q \in Seq(S) /\ q # <<>>
  OBVIOUS
<1>2. Hear(k, Q)[k] = Tail(q) /\ \A j \in Connections \ {k} : Hear(k, Q)[j] = Q[j]
  BY DEF Hear
<1> HIDE DEF q
<1>3. /\ Tail(q) \in Seq(S) /\ Head(q) = q[1] /\ Head(q) \in S /\ Rest(Tail(q), q)
      /\ Len(Tail(q)) = Len(q) - 1 /\ Len(q) \in Nat
  BY <1>1, TailFacts, RestIs
<1>4. Hear(k, Q) \in [Connections -> Seq(S)]
  BY <1>3 DEF Hear, q
<1>5. Tail(q) = <<>> <=> Len(q) = 1
  <2> DEFINE p == Tail(q)
  <2>1. p \in Seq(S) /\ Len(p) = Len(q) - 1 /\ Len(q) \in Nat
    BY <1>1, TailFacts
  <2> HIDE DEF p
  <2>2. p = <<>> <=> Len(p) = 0
    BY <2>1, EmptyQueue
  <2> QED
    BY <2>1, <2>2 DEF p
<1> QED
  BY <1>2, <1>3, <1>4, <1>5 DEF q

\* p has the messages of q and m
Adds(p, q, m) == \A x : x \in In(p) <=> x \in In(q) \/ x = m

LEMMA AppendIn ==
  ASSUME NEW S, NEW q \in Seq(S), NEW m \in S
  PROVE  Adds(Append(q, m), q, m) /\ Begins(q, Append(q, m))
<1> DEFINE p == Append(q, m)
<1>1. /\ p \in Seq(S) /\ Len(p) = Len(q) + 1 /\ Len(q) \in Nat
      /\ \A i \in 1 .. Len(q) : p[i] = q[i]
      /\ p[Len(q) + 1] = m
  BY AppendFacts
<1> HIDE DEF p
<1>2. 1 .. Len(p) = (1 .. Len(q)) \cup {Len(q) + 1}
  BY <1>1
<1>3. \A x : x \in In(p) <=> x \in In(q) \/ x = m
  BY <1>1, <1>2 DEF In
<1>4. p # <<>>
  BY <1>1, EmptyQueue
<1>5. Adds(p, q, m)
  BY <1>3 DEF Adds
<1> QED
  BY <1>1, <1>3, <1>4, <1>5 DEF Begins, p

LEMMA SayFacts ==
  ASSUME NEW S, NEW Q \in [Connections -> Seq(S)], NEW k \in Connections, NEW m \in S
  PROVE  /\ Say(k, Q, m) \in [Connections -> Seq(S)]
         /\ \A j \in Connections \ {k} : Say(k, Q, m)[j] = Q[j]
         /\ Len(Say(k, Q, m)[k]) = Len(Q[k]) + 1 /\ Len(Q[k]) \in Nat
         /\ Adds(Say(k, Q, m)[k], Q[k], m)
         /\ Begins(Q[k], Say(k, Q, m)[k]) /\ Say(k, Q, m)[k][Len(Q[k]) + 1] = m
<1> DEFINE q == Q[k]
<1>1. q \in Seq(S)
  OBVIOUS
<1>2. Say(k, Q, m)[k] = Append(q, m) /\ \A j \in Connections \ {k} : Say(k, Q, m)[j] = Q[j]
  BY DEF Say
<1> HIDE DEF q
<1>3. /\ Append(q, m) \in Seq(S) /\ Len(Append(q, m)) = Len(q) + 1 /\ Len(q) \in Nat
      /\ Adds(Append(q, m), q, m) /\ Begins(q, Append(q, m))
      /\ Append(q, m)[Len(q) + 1] = m
  BY <1>1, AppendFacts, AppendIn
<1>4. Say(k, Q, m) \in [Connections -> Seq(S)]
  BY <1>3 DEF Say, q
<1> QED
  BY <1>2, <1>3, <1>4 DEF q

LEMMA Pair ==
  ASSUME NEW S, NEW x \in S, NEW y \in S
  PROVE  <<x, y>> \in Seq(S) /\ <<x, y>>[1] = x /\ <<x, y>>[2] = y /\ Len(<<x, y>>) = 2
  OBVIOUS

LEMMA One == \A n \in Nat : n <= 1 /\ n # 0 => n = 1
  OBVIOUS

LEMMA Several == \A n \in Nat : n # 0 /\ n # 1 => 1 < n
  OBVIOUS

\* the messages of each kind
LEMMA RequestKinds ==
  ASSUME NEW m \in Requests
  PROVE  /\ m.msg \in {"flags", "option", "command"}
         /\ m.msg = "option" => m \in Options
         /\ m.msg = "command" => m \in Commands
<1>1. CASE m = [msg |-> "flags"]
  BY <1>1
<1>2. CASE m \in Options
  BY <1>2 DEF Options
<1>3. CASE m \in Commands
  <2>1. m.msg = "command"
    BY <1>3 DEF Commands
  <2> QED
    BY <2>1, <1>3
<1> QED
  BY <1>1, <1>2, <1>3 DEF Requests

LEMMA AnswerKinds ==
  ASSUME NEW r \in Answers
  PROVE  /\ r.msg \in {"hello", "size", "rest", "option reply", "reply", "data"}
         /\ r.msg = "option reply" => r.ok \in BOOLEAN
         /\ r.msg = "reply" => r \in Replies
         /\ r.msg = "data" => r \in Contents
<1>1. CASE r \in {[msg |-> "hello"], [msg |-> "size"], [msg |-> "rest"]}
  <2>1. r.msg \in {"hello", "size", "rest"}
    BY <1>1
  <2> QED
    BY <2>1
<1>2. CASE r \in [msg : {"option reply"}, ok : BOOLEAN]
  <2>1. r.msg = "option reply"
    BY <1>2
  <2>2. r.ok \in BOOLEAN
    BY <1>2
  <2> QED
    BY <2>1, <2>2
<1>3. CASE r \in Replies
  <2>1. r.msg = "reply"
    BY <1>3 DEF Replies
  <2> QED
    BY <2>1, <1>3
<1>4. CASE r \in Contents
  <2>1. r.msg = "data"
    BY <1>4 DEF Contents
  <2> QED
    BY <2>1, <1>4
<1> QED
  BY <1>1, <1>2, <1>3, <1>4 DEF Answers

LEMMA CommandIs ==
  ASSUME NEW type \in {"none", "read", "write", "flush", "trim", "disc"},
         NEW h \in Handles, NEW bs \in SUBSET Blocks, NEW d \in Values, NEW sync \in BOOLEAN,
         type = "read" => bs # {}, sync = TRUE => type = "write"
  PROVE  /\ Command(type, h, bs, d, sync) \in Commands
         /\ Command(type, h, bs, d, sync) \in Requests
  BY DEF Command, Commands, Requests

LEMMA TheBlock == NoCall.block \in Blocks /\ NoCall \in Calls
  BY NbdDataAssumption DEF NoCall, Calls

LEMMA Apart ==
  /\ \A k \in Connections : (k \in Owned <=> k \notin Guests)
  /\ Guests \subseteq Connections /\ Owned \subseteq Connections
  /\ \A k \in Owned : k \in Nat
  BY GuestsAssumption DEF Connections, Owned

LEMMA RequestIs ==
  ASSUME call \in Calls, call.op # "none", nr \in Nat
  PROVE  /\ Request \in Commands /\ Request \in Requests
         /\ Request.msg = "command" /\ Request.handle = Handle /\ ~Request.fua
         /\ call.op = "get" <=> Request.type = "read"
         /\ call.op = "put" <=> Request.type = "write"
         /\ call.op = "fsync" <=> Request.type = "flush"
         /\ call.op = "get" => Request.blocks = {call.block}
<1> DEFINE type == [get |-> "read", put |-> "write", fsync |-> "flush", trim |-> "trim"][call.op]
           blocks == IF call.op \in {"get", "put"} THEN {call.block} ELSE {}
<1>1. Handle \in Handles /\ call.block \in Blocks /\ call.data \in Values
      /\ call.op \in {"get", "put", "fsync", "trim"}
  BY DEF Handle, Handles, Calls
<1>2. /\ call.op = "get" <=> type = "read"
      /\ call.op = "put" <=> type = "write"
      /\ call.op = "fsync" <=> type = "flush"
      /\ type \in {"read", "write", "flush", "trim"}
  BY <1>1
<1>3. blocks \in SUBSET Blocks /\ (type = "read" => blocks = {call.block})
  BY <1>1, <1>2
<1>4. Request = Command(type, Handle, blocks, call.data, FALSE)
  BY DEF Request
<1> HIDE DEF type, blocks
<1>5. Request \in Commands /\ Request \in Requests
  <2> HIDE DEF Handle
  <2> QED
    BY <1>1, <1>2, <1>3, <1>4, CommandIs
<1> QED
  BY <1>1, <1>2, <1>3, <1>4, <1>5 DEF Command

LEMMA SayToClient ==
  ASSUME toClient \in [Connections -> Seq(Answers)], NEW k \in Connections, NEW m \in Answers,
         toClient' = Say(k, toClient, m)
  PROVE  /\ toClient' \in [Connections -> Seq(Answers)]
         /\ \A j \in Connections \ {k} : toClient'[j] = toClient[j]
         /\ Len(toClient'[k]) = Len(toClient[k]) + 1 /\ Len(toClient[k]) \in Nat
         /\ Len(toClient'[k]) \in Nat
         /\ Adds(toClient'[k], toClient[k], m)
         /\ Begins(toClient[k], toClient'[k]) /\ toClient'[k][Len(toClient[k]) + 1] = m
<1>1. Say(k, toClient, m) \in [Connections -> Seq(Answers)]
  BY SayFacts
<1>2. \A j \in Connections \ {k} : Say(k, toClient, m)[j] = toClient[j]
  BY SayFacts
<1>3. Len(Say(k, toClient, m)[k]) = Len(toClient[k]) + 1 /\ Len(toClient[k]) \in Nat
  BY SayFacts
<1>4. Adds(Say(k, toClient, m)[k], toClient[k], m)
  BY SayFacts
<1>5. Begins(toClient[k], Say(k, toClient, m)[k]) /\ Say(k, toClient, m)[k][Len(toClient[k]) + 1] = m
  BY SayFacts
<1> QED
  BY <1>1, <1>2, <1>3, <1>4, <1>5

LEMMA SayToServer ==
  ASSUME toServer \in [Connections -> Seq(Requests)], NEW k \in Connections, NEW m \in Requests,
         toServer' = Say(k, toServer, m)
  PROVE  /\ toServer' \in [Connections -> Seq(Requests)]
         /\ \A j \in Connections \ {k} : toServer'[j] = toServer[j]
         /\ Len(toServer'[k]) = Len(toServer[k]) + 1 /\ Len(toServer[k]) \in Nat
         /\ Adds(toServer'[k], toServer[k], m)
         /\ Begins(toServer[k], toServer'[k]) /\ toServer'[k][Len(toServer[k]) + 1] = m
<1>1. Say(k, toServer, m) \in [Connections -> Seq(Requests)]
  BY SayFacts
<1>2. \A j \in Connections \ {k} : Say(k, toServer, m)[j] = toServer[j]
  BY SayFacts
<1>3. Len(Say(k, toServer, m)[k]) = Len(toServer[k]) + 1 /\ Len(toServer[k]) \in Nat
  BY SayFacts
<1>4. Adds(Say(k, toServer, m)[k], toServer[k], m)
  BY SayFacts
<1>5. Begins(toServer[k], Say(k, toServer, m)[k]) /\ Say(k, toServer, m)[k][Len(toServer[k]) + 1] = m
  BY SayFacts
<1> QED
  BY <1>1, <1>2, <1>3, <1>4, <1>5

LEMMA HearServer ==
  ASSUME toServer \in [Connections -> Seq(Requests)], NEW k \in Connections, toServer[k] # <<>>,
         toServer' = Hear(k, toServer)
  PROVE  /\ toServer' \in [Connections -> Seq(Requests)]
         /\ \A j \in Connections \ {k} : toServer'[j] = toServer[j]
         /\ Rest(toServer'[k], toServer[k])
         /\ Head(toServer[k]) = toServer[k][1] /\ toServer[k][1] \in Requests
         /\ toServer'[k] = <<>> <=> Len(toServer[k]) = 1
  BY HearFacts

LEMMA HearClient ==
  ASSUME toClient \in [Connections -> Seq(Answers)], NEW k \in Connections, toClient[k] # <<>>,
         toClient' = Hear(k, toClient)
  PROVE  /\ toClient' \in [Connections -> Seq(Answers)]
         /\ \A j \in Connections \ {k} : toClient'[j] = toClient[j]
         /\ Rest(toClient'[k], toClient[k])
         /\ Head(toClient[k]) = toClient[k][1] /\ toClient[k][1] \in Answers
         /\ toClient'[k] = <<>> <=> Len(toClient[k]) = 1
  BY HearFacts

LEMMA TypeFacts ==
  ASSUME Types
  PROVE  /\ nr \in Nat /\ used \in Nat /\ fd \in Nat
         /\ count \in [Guests -> Nat] /\ call \in Calls
<1>1. /\ nr \in 0 .. MaxEach /\ used \in 0 .. MaxConnections /\ fd \in Owned
      /\ count \in [Guests -> 0 .. MaxEach] /\ call \in Calls
  BY DEF Types, TypeOK
<1>2. nr \in Nat /\ used \in Nat /\ fd \in Nat
  BY <1>1, MaxConnectionsAssumption, NbdBoundsAssumption DEF Owned
<1>3. 0 .. MaxEach \subseteq Nat
  BY NbdBoundsAssumption
<1>4. count \in [Guests -> Nat]
  BY <1>1, <1>3
<1> QED
  BY <1>1, <1>2, <1>4

(***************************************************************************)
(* What a step leaves alone.                                               *)
(***************************************************************************)

\* the thread of connection k may end, and requests may be lost
Ends(k) ==
  /\ state'[k] = state[k] \/ (state[k] # "none" /\ state'[k] = "terminate")
  /\ Begins(toServer'[k], toServer[k])
  /\ up'[k] => up[k]

LEMMA Stays ==
  ASSUME Types, NEW k \in Connections,
         state'[k] = state[k], toServer'[k] = toServer[k], up'[k] = up[k]
  PROVE  Ends(k)
<1>1. toServer[k] \in Seq(Requests)
  BY DEF Types
<1> QED
  BY <1>1, BeginsFacts DEF Ends

LEMMA ShapeFrame ==
  ASSUME NEW k \in Connections, ShapeOf(k), Ends(k)
  PROVE  ShapeOf(k)'
<1>1. state'[k] = "none" => toServer'[k] = <<>> /\ ~up'[k]
  BY DEF ShapeOf, Ends, Begins
<1>2. ASSUME state'[k] = "client flags"
      PROVE  /\ Len(toServer'[k]) <= 2
             /\ \A i \in 1 .. Len(toServer'[k]) :
                  toServer'[k][i].msg = IF i = 1 THEN "flags" ELSE "option"
  <2>1. /\ Len(toServer[k]) <= 2
        /\ \A i \in 1 .. Len(toServer[k]) :
             toServer[k][i].msg = IF i = 1 THEN "flags" ELSE "option"
    BY <1>2 DEF ShapeOf, Ends
  <2>2. Len(toServer'[k]) <= 2
    BY <2>1 DEF Ends, Begins
  <2>3. \A i \in 1 .. Len(toServer'[k]) :
          i \in 1 .. Len(toServer[k]) /\ toServer'[k][i] = toServer[k][i]
    BY DEF Ends, Begins
  <2> QED
    BY <2>1, <2>2, <2>3
<1>3. ASSUME state'[k] = "options"
      PROVE  Len(toServer'[k]) <= 1 /\ \A m \in In(toServer'[k]) : m.msg = "option"
  <2>1. Len(toServer[k]) <= 1 /\ \A m \in In(toServer[k]) : m.msg = "option"
    BY <1>3 DEF ShapeOf, Ends
  <2>2. Len(toServer'[k]) <= 1
    BY <2>1 DEF Ends, Begins
  <2>3. \A m \in In(toServer'[k]) : m \in In(toServer[k])
    BY DEF Ends, Begins
  <2> QED
    BY <2>1, <2>2, <2>3
<1>4. state'[k] = "transmission" => \A m \in In(toServer'[k]) : m.msg = "command"
  BY DEF ShapeOf, Ends, Begins
<1> QED
  BY <1>1, <1>2, <1>3, <1>4 DEF ShapeOf

LEMMA OwnerFrame ==
  ASSUME Owner, pc' = pc, fd' = fd, used' = used,
         \A k \in Connections : /\ state[k] = "none" => state'[k] = "none"
                                /\ In(toServer'[k]) \subseteq In(toServer[k])
  PROVE  Owner'
  BY Apart DEF Owner

\* for guest g no more than that, and more is written and synced
LEMMA GuestFrame ==
  ASSUME NEW g \in Guests, GuestOf(g), Ends(g), toClient'[g] = toClient[g],
         guest'[g] = guest[g], command'[g] = command[g], count'[g] = count[g],
         before'[g] = before[g], written \subseteq written', synced \subseteq synced'
  PROVE  GuestOf(g)'
<1>1. Ready(g) => Ready(g)'
  BY DEF Ready, Ends
<1>2. Alone(g)'
  <2>1. /\ state'[g] # "none"
        /\ command'[g].handle = <<g, count'[g]>> /\ command'[g].type # "read"
        /\ Len(toClient'[g]) <= 1
    BY DEF GuestOf, Alone, Ends
  <2>2. Len(toServer'[g]) <= 2 /\ (Len(toServer'[g]) = 0 \/ Len(toClient'[g]) = 0)
    <3>1. /\ Len(toServer[g]) <= 2 /\ (Len(toServer[g]) = 0 \/ Len(toClient'[g]) = 0)
          /\ Len(toServer'[g]) <= Len(toServer[g]) /\ Len(toServer'[g]) \in Nat
      BY DEF GuestOf, Alone, Ends, Begins
    <3> QED
      BY <3>1
  <2> QED
    BY <2>1, <2>2 DEF Alone
<1>3. Asked(g)'
  BY DEF GuestOf, Asked, Ends, Begins
<1>4. Negotiates(g)'
  BY <1>1 DEF GuestOf, Negotiates, Ends, Begins
<1>5. Rests(g)'
  BY <1>1 DEF GuestOf, Rests, Ends, Begins
<1>6. Awaits(g)'
  <2>1. SUFFICES ASSUME guest[g] = "reply"
                 PROVE  Awaits(g)'
    BY DEF Awaits
  <2>2. Ready(g)' \/ ~up'[g]
    BY <1>1, <2>1 DEF GuestOf, Awaits, Ends
  <2>3. Len(toServer'[g]) <= 1 /\ \A m \in In(toServer'[g]) : m.msg = "command"
    <3>1. /\ Len(toServer[g]) <= 1 /\ \A m \in In(toServer[g]) : m.msg = "command"
          /\ Len(toServer'[g]) <= Len(toServer[g]) /\ Len(toServer'[g]) \in Nat
          /\ \A m \in In(toServer'[g]) : m \in In(toServer[g])
      BY <2>1 DEF GuestOf, Awaits, Ends, Begins
    <3>2. Len(toServer'[g]) <= 1
      BY <3>1
    <3> QED
      BY <3>1, <3>2
  <2> QED
    BY <2>1, <2>2, <2>3 DEF GuestOf, Awaits
<1> QED
  BY <1>2, <1>3, <1>4, <1>5, <1>6 DEF GuestOf

LEMMA FuaFrame ==
  ASSUME NEW g \in Guests, FuaOf(g),
         promised' \cap ({g} \X Nat) \subseteq promised, synced \subseteq synced',
         fua'[g] = fua[g] \/ ~up'[g], up'[g] => up[g], count'[g] = count[g], guest'[g] = guest[g],
         toClient'[g] = toClient[g]
  PROVE  FuaOf(g)'
  BY DEF FuaOf

\* for the backend no more than that, and more is written, synced and seen
LEMMA PlaceFrame ==
  ASSUME Place, pc' = pc, fd' = fd, toClient'[fd] = toClient[fd], Ends(fd)
  PROVE  Place'
<1>1. Ready(fd) => Ready(fd)'
  BY DEF Ready, Ends
<1> QED
  BY <1>1 DEF Place, Ends, Begins

LEMMA ExchangeFrame ==
  ASSUME Exchange, pc' = pc, fd' = fd, nr' = nr, call' = call, before'[Backend] = before[Backend],
         In(toServer'[fd]) \subseteq In(toServer[fd]), toClient'[fd] = toClient[fd],
         up'[fd] => up[fd],
         written \subseteq written', synced \subseteq synced', seen \subseteq seen'
  PROVE  Exchange'
<1>1. Handle' = Handle /\ Request' = Request /\ (\A r : Ok(r)' <=> Ok(r))
  BY DEF Handle, Request, Ok
<1>2. \A m : SentOK(m)' <=> SentOK(m)
  BY <1>1 DEF SentOK
<1>3. \A r : ToldOK(r) => ToldOK(r)'
  BY <1>1 DEF ToldOK
<1>4. \A r : Datum(r) => Datum(r)'
  BY DEF Datum
<1>5. (pc # "idle" => Brings(toClient[fd]))'
  BY <1>1, <1>4 DEF Brings, Exchange
<1>6. DataNext'
  BY <1>4 DEF DataNext, Exchange
<1> QED
  BY <1>2, <1>3, <1>5, <1>6 DEF Exchange

LEMMA EffectFrame ==
  ASSUME CallsTakeEffect, pc' = pc, result' = result, call' = call, nr' = nr,
         written \subseteq written', seen \subseteq seen'
  PROVE  CallsTakeEffect'
<1>1. Handle' = Handle
  BY DEF Handle
<1> QED
  BY <1>1 DEF CallsTakeEffect

LEMMA FlushFrame ==
  ASSUME FlushCovers, pc' = pc, result' = result, call' = call, before' = before,
         guest' = guest, command' = command, synced \subseteq synced'
  PROVE  FlushCovers'
  BY DEF FlushCovers

LEMMA FdOwned ==
  ASSUME NInv
  PROVE  fd \in Owned /\ fd \in Connections /\ fd \notin Guests
  BY Apart DEF NInv, Types, TypeOK

-----------------------------------------------------------------------------
(***************************************************************************)
(* The server.                                                             *)
(***************************************************************************)

LEMMA ReceiveFlagsStep ==
  ASSUME NInv, NEW k \in Connections, ReceiveFlags(k)
  PROVE  NInv'
<1>1. /\ toServer \in [Connections -> Seq(Requests)] /\ toServer[k] # <<>>
      /\ toServer' = Hear(k, toServer)
  BY DEF ReceiveFlags, NInv, Types
<1>2. /\ toServer' \in [Connections -> Seq(Requests)]
      /\ \A j \in Connections \ {k} : toServer'[j] = toServer[j]
      /\ Rest(toServer'[k], toServer[k])
      /\ toServer'[k] = <<>> <=> Len(toServer[k]) = 1
  BY <1>1, HearFacts
<1>3. /\ state[k] = "client flags"
      /\ state' \in [Connections -> {"none", "client flags", "options", "transmission", "terminate"}]
      /\ \A j \in Connections : state'[j] = IF j = k THEN "options" ELSE state[j]
  BY DEF ReceiveFlags, NInv, Types, TypeOK
<1>4. UNCHANGED <<store, fua, written, synced, promised, pc, call, nr, fd, used, result, seen,
                  guest, command, count, up, toClient, acked, before>>
  BY DEF ReceiveFlags, client, guests
<1>5. /\ Len(toServer[k]) <= 2
      /\ \A i \in 1 .. Len(toServer[k]) :
           toServer[k][i].msg = IF i = 1 THEN "flags" ELSE "option"
  BY <1>3 DEF NInv, Shape, ShapeOf
<1>6. Len(toServer'[k]) <= 1 /\ \A m \in In(toServer'[k]) : m.msg = "option"
  BY <1>2, <1>5 DEF Rest, In
<1>17. Len(toServer'[k]) = Len(toServer[k]) - 1 /\ Len(toServer'[k]) \in Nat /\ Len(toServer[k]) \in Nat \ {0}
  BY <1>2 DEF Rest
<1>18. \A j \in Connections \ {k} : Ends(j)
  BY <1>2, <1>3, <1>4, Stays DEF NInv
<1>7. Types'
  BY <1>2, <1>3, <1>4 DEF NInv, Types, TypeOK
<1>8. History'
  BY <1>4 DEF NInv, History
<1>9. Shape'
  <2>1. ShapeOf(k)'
    BY <1>3, <1>6 DEF ShapeOf
  <2>2. \A j \in Connections \ {k} : ShapeOf(j)'
    BY <1>18, ShapeFrame DEF NInv, Shape
  <2> QED
    BY <2>1, <2>2 DEF Shape
<1>10. \A j \in Connections : In(toServer'[j]) \subseteq In(toServer[j])
  BY <1>2 DEF Rest
<1>11. Owner'
  BY <1>3, <1>4, <1>10, OwnerFrame DEF NInv
<1>12. Place'
  BY <1>1, <1>2, <1>3, <1>4, FdOwned DEF NInv, Place, Ready
<1>13. Exchange'
  BY <1>4, <1>10, FdOwned, ExchangeFrame DEF NInv
<1>14. AllGuests'
  <2>1. ASSUME NEW g \in Guests, g # k
        PROVE  GuestOf(g)'
    BY <1>4, <1>18, <2>1, Apart, GuestFrame DEF NInv, AllGuests
  <2>2. ASSUME k \in Guests
        PROVE  GuestOf(k)'
    <3>1. Alone(k) /\ Asked(k) /\ Negotiates(k) /\ Rests(k) /\ Awaits(k)
      BY <2>2 DEF NInv, AllGuests, GuestOf
    <3>2. Alone(k)'
      <4>1. Len(toServer'[k]) <= 2 /\ Len(toClient'[k]) <= 1
        BY <1>4, <1>17, <3>1 DEF Alone
      <4>2. Len(toClient'[k]) = 0
        BY <1>4, <1>17, <3>1 DEF Alone
      <4>3. state'[k] # "none" /\ command'[k].handle = <<k, count'[k]>> /\ command'[k].type # "read"
        BY <1>3, <1>4, <3>1 DEF Alone
      <4> QED
        BY <4>1, <4>2, <4>3 DEF Alone
    <3>6. Asked(k)'
      BY <1>4, <1>10, <3>1 DEF Asked
    <3>3. Negotiates(k)'
      BY <1>1, <1>2, <1>3, <1>4, <3>1 DEF Negotiates, Alone, Ready, Rest
    <3>4. Rests(k)'
      BY <1>1, <1>4, <3>1 DEF Rests
    <3>5. Awaits(k)'
      <4>1. SUFFICES ASSUME guest[k] = "reply"
                     PROVE  Awaits(k)'
        BY <1>4 DEF Awaits
      <4>2. ~up'[k]
        BY <1>3, <1>4, <3>1, <4>1 DEF Awaits, Ready
      <4>3. Len(toServer'[k]) <= 1
        BY <1>17, <3>1, <4>1 DEF Awaits
      <4>4. \A m \in In(toServer'[k]) : m.msg = "command"
        BY <1>10, <3>1, <4>1 DEF Awaits
      <4> QED
        BY <1>4, <3>1, <4>1, <4>2, <4>3, <4>4 DEF Awaits
    <3> QED
      BY <3>2, <3>3, <3>4, <3>5, <3>6 DEF GuestOf
  <2> QED
    BY <2>1, <2>2 DEF AllGuests
<1>15. Fua'
  BY <1>4, Apart, FuaFrame DEF NInv, Fua
<1>16. CallsTakeEffect' /\ FlushCovers'
  BY <1>4, EffectFrame, FlushFrame DEF NInv
<1>19. FuaThreads'
  BY <1>3, <1>4 DEF NInv, FuaThreads, Ready
<1> QED
  BY <1>19, <1>7, <1>8, <1>9, <1>11, <1>12, <1>13, <1>14, <1>15, <1>16 DEF NInv

\* threads of the server end, or sync
LEMMA ServerEnds ==
  ASSUME NInv, Types', History', Fua',
         \A k \in Connections : Ends(k) /\ fua'[k] \subseteq fua[k],
         written \subseteq written', synced \subseteq synced', seen \subseteq seen',
         UNCHANGED <<pc, call, nr, fd, used, result, guest, command, count, toClient,
                     acked, before>>
  PROVE  NInv'
<1>2. Shape'
  BY ShapeFrame DEF NInv, Shape
<1>3. \A k \in Connections : /\ state[k] = "none" => state'[k] = "none"
                             /\ In(toServer'[k]) \subseteq In(toServer[k])
  BY DEF Ends, Begins
<1>4. Owner'
  BY <1>3, OwnerFrame DEF NInv
<1>5. Place'
  BY FdOwned, PlaceFrame DEF NInv
<1>6. Exchange'
  <2>1. up'[fd] => up[fd]
    BY FdOwned DEF Ends
  <2> QED
    BY <1>3, <2>1, FdOwned, ExchangeFrame DEF NInv
<1>7. AllGuests'
  BY Apart, GuestFrame DEF NInv, AllGuests
<1>8. CallsTakeEffect' /\ FlushCovers'
  BY EffectFrame, FlushFrame DEF NInv
<1>9. FuaThreads'
  BY DEF NInv, FuaThreads, Ends, Ready
<1> QED
  BY <1>2, <1>4, <1>5, <1>6, <1>7, <1>8, <1>9 DEF NInv

LEMMA SyncFuaStep ==
  ASSUME NInv, NEW k \in Connections, SyncFua(k)
  PROVE  NInv'
<1>1. UNCHANGED <<store, written, promised, pc, call, nr, fd, used, result, seen, guest, command,
                  count, toServer, toClient, acked, before>>
  BY DEF SyncFua, client, guests
<1>2. /\ fua[k] # {} /\ fua' = [fua EXCEPT ![k] = {}]
      /\ \/ synced' = synced \cup written /\ state' = state /\ up' = up
         \/ /\ state' = [state EXCEPT ![k] = "terminate"] /\ up' = [up EXCEPT ![k] = FALSE]
            /\ synced' = synced
  BY DEF SyncFua, FuaSynced
<1>3. fua' \in [Connections -> SUBSET Handles] /\ \A j \in Connections \ {k} : fua'[j] = fua[j]
  BY <1>2 DEF NInv, Types
<1>4. Types'
  BY <1>1, <1>2, <1>3 DEF NInv, Types, TypeOK
<1>5. \A j \in Connections : Ends(j)
  <2>1. state[k] # "none"
    BY <1>2 DEF NInv, FuaThreads, Ready
  <2>2. ASSUME NEW j \in Connections
        PROVE  Begins(toServer'[j], toServer[j])
    <3>1. toServer[j] \in Seq(Requests)
      BY DEF NInv, Types
    <3> QED
      BY <1>1, <3>1, BeginsFacts
  <2> QED
    BY <1>2, <2>1, <2>2 DEF Ends, NInv, Types, TypeOK
<1>6. Fua'
  <2>1. CASE synced' = synced \cup written
    BY <1>1, <2>1 DEF Fua, FuaOf, NInv, History
  <2>2. CASE up' = [up EXCEPT ![k] = FALSE] /\ synced' = synced
    <3>1. \A j \in Connections : (up'[j] => up[j]) /\ (fua'[j] = fua[j] \/ ~up'[j])
      BY <1>3, <2>2 DEF NInv, Types, TypeOK
    <3> QED
      BY <1>1, <2>2, <3>1, Apart, FuaFrame DEF NInv, Fua
  <2> QED
    BY <1>2, <2>1, <2>2
<1>7. \A j \in Connections : fua'[j] \subseteq fua[j]
  BY <1>2, <1>3 DEF NInv, Types
<1>8. History'
  BY <1>1 DEF NInv, History
<1> QED
  BY <1>1, <1>2, <1>4, <1>5, <1>6, <1>7, <1>8, ServerEnds

LEMMA ReceiveFailsStep ==
  ASSUME NInv, NEW k \in Connections, ReceiveFails(k)
  PROVE  NInv'
<1>1. /\ UNCHANGED <<store, fua, written, synced, promised, pc, call, nr, fd, used, result, seen,
                     guest, command, count, up, toServer, toClient, acked, before>>
      /\ state[k] # "none" /\ state' = [state EXCEPT ![k] = "terminate"]
  BY DEF ReceiveFails, client, guests
<1>2. Types'
  BY <1>1 DEF NInv, Types, TypeOK
<1>3. \A j \in Connections : Ends(j)
  <2>1. ASSUME NEW j \in Connections
        PROVE  Begins(toServer'[j], toServer[j])
    <3>1. toServer[j] \in Seq(Requests)
      BY DEF NInv, Types
    <3> QED
      BY <1>1, <3>1, BeginsFacts
  <2> QED
    BY <1>1, <2>1 DEF Ends, NInv, Types, TypeOK
<1>4. Fua'
  BY <1>1, Apart, FuaFrame DEF NInv, Fua
<1>5. \A j \in Connections : fua'[j] \subseteq fua[j]
  BY <1>1
<1>6. History'
  BY <1>1 DEF NInv, History
<1> QED
  BY <1>1, <1>2, <1>3, <1>4, <1>5, <1>6, ServerEnds

\* the server ends, when one of its threads writes to a connection that is gone or
\* for another reason
LEMMA KilledEnds ==
  ASSUME NInv, Killed
  PROVE  /\ up' \in [Connections -> BOOLEAN] /\ toServer' \in [Connections -> Seq(Requests)]
         /\ state' \in [Connections -> {"none", "client flags", "options", "transmission",
                                       "terminate"}]
         /\ fua' \in [Connections -> SUBSET Handles]
         /\ \A j \in Connections : /\ Ends(j) /\ ~up'[j]
                                  /\ fua'[j] \subseteq fua[j]
<1>1. /\ up' = [k \in Connections |-> FALSE]
      /\ toServer' = [k \in Connections |-> <<>>]
      /\ state' = [k \in Connections |-> IF state[k] = "none" THEN "none" ELSE "terminate"]
      /\ fua' = [k \in Connections |-> {}]
  BY DEF Killed
<1>2. toServer' \in [Connections -> Seq(Requests)]
  BY <1>1
<1>3. /\ up' \in [Connections -> BOOLEAN] /\ fua' \in [Connections -> SUBSET Handles]
      /\ state' \in [Connections -> {"none", "client flags", "options", "transmission",
                                    "terminate"}]
  BY <1>1 DEF NInv, Types, TypeOK
<1>4. ASSUME NEW j \in Connections
      PROVE  Ends(j) /\ ~up'[j] /\ fua'[j] \subseteq fua[j]
  <2>1. toServer[j] \in Seq(Requests)
    BY DEF NInv, Types
  <2>2. Begins(toServer'[j], toServer[j])
    BY <1>1, <2>1, BeginsFacts
  <2> QED
    BY <1>1, <2>2 DEF Ends
<1> QED
  BY <1>2, <1>3, <1>4

\* and nothing else happens
LEMMA KilledStep ==
  ASSUME NInv, Killed,
         UNCHANGED <<store, written, synced, promised, pc, call, nr, fd, used, result, seen,
                     guest, command, count, toClient, acked, before>>
  PROVE  NInv'
<1>1. Types'
  BY KilledEnds DEF NInv, Types, TypeOK
<1>2. History'
  BY DEF NInv, History
<1>3. Fua'
  BY KilledEnds, Apart, FuaFrame DEF NInv, Fua, Ends
<1> QED
  BY <1>1, <1>2, <1>3, KilledEnds, ServerEnds

LEMMA DieStep ==
  ASSUME NInv, Die
  PROVE  NInv'
BY KilledStep DEF Die, client, guests

\* the server answers the backend, on the connection it uses
LEMMA ExchangeAnswer ==
  ASSUME Exchange, up[fd] = TRUE, NEW c, c = toClient'[fd], Begins(toClient[fd], c), Len(c) \in Nat,
         toClient[fd] = <<>> <=> Len(toClient[fd]) = 0, c = <<>> <=> Len(c) = 0,
         \A i \in Len(toClient[fd]) + 1 .. Len(c) :
           /\ ToldOK(c[i])'
           /\ Ok(c[i]) /\ call.op = "get" /\ pc # "idle" => i < Len(c) /\ Datum(c[i + 1])',
         pc' = pc, fd' = fd, nr' = nr, call' = call, before'[Backend] = before[Backend],
         In(toServer'[fd]) \subseteq In(toServer[fd]),
         written \subseteq written', synced \subseteq synced', seen \subseteq seen'
  PROVE  Exchange'
<1> DEFINE q == toClient[fd]
<1>1. Handle' = Handle /\ Request' = Request /\ (\A r : Ok(r)' <=> Ok(r))
  BY DEF Handle, Request, Ok
<1>2. \A m : SentOK(m)' <=> SentOK(m)
  BY <1>1 DEF SentOK
<1>3. \A r : ToldOK(r) => ToldOK(r)'
  BY <1>1 DEF ToldOK
<1>4. \A r : Datum(r) => Datum(r)'
  BY DEF Datum
<1>5. Len(q) \in Nat /\ Len(q) <= Len(c) /\ \A i \in 1 .. Len(q) : c[i] = q[i]
  BY DEF Begins
<1>6. \A i \in 1 .. Len(c) : i \in 1 .. Len(q) \/ i \in Len(q) + 1 .. Len(c)
  BY <1>5
<1>7. \A i \in 1 .. Len(c) : ToldOK(c[i])'
  <2>1. \A i \in 1 .. Len(q) : ToldOK(q[i])
    BY DEF Exchange, In
  <2> QED
    BY <1>3, <1>5, <1>6, <2>1
<1>8. (pc # "idle" => Brings(c))'
  <2>1. SUFFICES ASSUME NEW i \in 1 .. Len(c), Ok(c[i]), call.op = "get", pc # "idle"
                 PROVE  i < Len(c) /\ Datum(c[i + 1])'
    BY <1>1 DEF Brings
  <2>2. CASE i \in Len(q) + 1 .. Len(c)
    BY <2>1, <2>2
  <2>3. CASE i \in 1 .. Len(q)
    <3>1. i < Len(q) /\ Datum(q[i + 1])
      BY <1>5, <2>1, <2>3 DEF Exchange, Brings
    <3>2. i + 1 \in 1 .. Len(q)
      BY <1>5, <2>3, <3>1
    <3> QED
      BY <1>4, <1>5, <3>1, <3>2
  <2> QED
    BY <1>6, <2>2, <2>3
<1>9. DataNext'
  <2>1. SUFFICES ASSUME pc = "data"
                 PROVE  DataNext'
    BY DEF DataNext
  <2>2. call.op = "get" /\ q # <<>> /\ Datum(q[1])
    BY <2>1 DEF Exchange, DataNext
  <2>3. 1 \in 1 .. Len(q) /\ c # <<>> /\ c[1] = q[1]
    BY <1>5, <2>2
  <2> QED
    BY <1>4, <2>2, <2>3 DEF DataNext
<1>10. \A r \in In(c) : ToldOK(r)'
  BY <1>7 DEF In
<1>11. \A m \in In(toServer'[fd]) : SentOK(m)
  BY DEF Exchange
<1> QED
  BY <1>2, <1>8, <1>9, <1>10, <1>11 DEF Exchange

\* c is q and then p
Follows(c, q, p) ==
  /\ Begins(q, c) /\ Len(c) = Len(q) + Len(p) /\ Len(q) \in Nat /\ Len(p) \in Nat
  /\ \A i \in 1 .. Len(p) : c[Len(q) + i] = p[i]
  /\ In(c) = In(q) \cup In(p)

LEMMA ConcatFollows ==
  ASSUME NEW S, NEW q \in Seq(S), NEW p \in Seq(S)
  PROVE  q \o p \in Seq(S) /\ Follows(q \o p, q, p)
<1> DEFINE c == q \o p
<1>1. /\ c \in Seq(S) /\ Len(c) = Len(q) + Len(p) /\ Len(q) \in Nat /\ Len(p) \in Nat
      /\ \A i \in 1 .. Len(q) : c[i] = q[i]
      /\ \A i \in 1 .. Len(p) : c[Len(q) + i] = p[i]
  BY ConcatFacts
<1>2. c = <<>> <=> Len(c) = 0
  BY <1>1, EmptyQueue
<1>3. q = <<>> <=> Len(q) = 0
  BY EmptyQueue
<1> HIDE DEF c
<1>4. 1 .. Len(q) \subseteq 1 .. Len(c)
  BY <1>1
<1>5. In(c) = In(q) \cup In(p)
  <2>1. In(q) \subseteq In(c)
    BY <1>1, <1>4 DEF In
  <2>2. \A i \in 1 .. Len(p) : Len(q) + i \in 1 .. Len(c)
    BY <1>1
  <2>3. In(p) \subseteq In(c)
    BY <1>1, <2>2 DEF In
  <2>4. ASSUME NEW i \in 1 .. Len(c)
        PROVE  c[i] \in In(q) \cup In(p)
    <3>1. CASE i <= Len(q)
      <4>1. i \in 1 .. Len(q)
        BY <1>1, <3>1
      <4> QED
        BY <1>1, <4>1 DEF In
    <3>2. CASE i > Len(q)
      <4>1. i - Len(q) \in 1 .. Len(p) /\ Len(q) + (i - Len(q)) = i
        BY <1>1, <3>2
      <4> QED
        BY <1>1, <4>1 DEF In
    <3> QED
      BY <1>1, <3>1, <3>2
  <2> QED
    BY <2>1, <2>3, <2>4 DEF In
<1>6. Begins(q, c)
  <2>1. c = <<>> => q = <<>>
    BY <1>1, <1>2, <1>3
  <2> QED
    BY <1>1, <1>5, <2>1 DEF Begins
<1> QED
  BY <1>1, <1>5, <1>6 DEF c, Follows

\* the thread of k has answered an option or not, and is in another state
Negotiated(k) ==
  /\ toServer' = Hear(k, toServer) /\ fua' = [fua EXCEPT ![k] = {}]
  /\ \E st \in {"options", "transmission", "terminate"} :
       /\ state' = [state EXCEPT ![k] = st] /\ up' = [up EXCEPT ![k] = @ /\ st # "terminate"]
       /\ \/ toClient' = toClient /\ (st = "terminate" \/ up[k] = FALSE)
          \/ \E r \in Answers :
               /\ up[k] = TRUE /\ st # "terminate" /\ toClient' = Say(k, toClient, r)
               /\ r.msg \in {"size", "option reply"}
               /\ IF r.msg = "size" \/ r.ok = TRUE THEN st = "transmission" ELSE st = "options"
       /\ LET m == Head(toServer[k])
          IN m.option = "export name" /\ m.known = TRUE => st \in {"transmission", "terminate"}

LEMMA ReceiveOptionFacts ==
  ASSUME NInv, NEW k \in Connections, ReceiveOption(k)
  PROVE  Negotiated(k) \/ (Killed /\ toClient' = toClient)
<1> DEFINE m == Head(toServer[k])
           accepted == m.option \in {"export name", "go"} /\ m.known
           refused == m.option = "go" /\ ~m.known
           no == [msg |-> "option reply", ok |-> FALSE]
<1>1. \/ accepted /\ \E a \in Acknowledgements(m.option) : Answered(k, <<a>>, "transmission", {})
      \/ refused /\ Handled(k, "terminate", {}) /\ toClient' = toClient
      \/ ~accepted /\ ~refused /\ Answered(k, <<no>>, "options", {})
  BY DEF ReceiveOption
<1>2. up[k] \in BOOLEAN /\ no \in Answers /\ no.msg = "option reply" /\ no.ok = FALSE
  BY DEF NInv, Types, TypeOK, Answers
<1>3. ASSUME Handled(k, "terminate", {}), toClient' = toClient
      PROVE  Negotiated(k)
  BY <1>3 DEF Negotiated, Handled
<1>4. ASSUME NEW a \in Answers, NEW st \in {"options", "transmission"}, Answered(k, <<a>>, st, {}),
             a.msg \in {"size", "option reply"},
             IF a.msg = "size" \/ a.ok = TRUE THEN st = "transmission" ELSE st = "options",
             m.option = "export name" /\ m.known = TRUE => st = "transmission"
      PROVE  Negotiated(k) \/ (Killed /\ toClient' = toClient)
  <2>1. \/ Handled(k, st, {}) /\ toClient' = IF up[k] THEN Say(k, toClient, a) ELSE toClient
        \/ (Handled(k, "terminate", {}) \/ Killed) /\ toClient' = toClient
    <3>1. toClient \in [Connections -> Seq(Answers)]
      BY DEF NInv, Types
    <3>2. [toClient EXCEPT ![k] = @ \o <<a>>] = Say(k, toClient, a)
      BY <3>1, <1>4, ConcatOne DEF Say
    <3> QED
      BY <1>4, <3>2 DEF Answered
  <2>2. CASE Handled(k, st, {}) /\ toClient' = IF up[k] THEN Say(k, toClient, a) ELSE toClient
    <3> HIDE DEF m
    <3>1. st # "terminate" /\ st \in {"options", "transmission", "terminate"}
      BY <1>4
    <3>2. CASE up[k] = TRUE
      BY <1>4, <2>2, <3>1, <3>2 DEF Negotiated, Handled, m
    <3>3. CASE up[k] = FALSE
      BY <1>4, <2>2, <3>1, <3>3 DEF Negotiated, Handled, m
    <3> QED
      BY <1>2, <3>2, <3>3
  <2> QED
    BY <1>3, <2>1, <2>2
<1>5. ASSUME NEW a \in Acknowledgements(m.option)
      PROVE  a \in Answers /\ a.msg \in {"size", "option reply"} /\ (a.msg = "size" \/ a.ok = TRUE)
  <2>1. a = [msg |-> "option reply", ok |-> TRUE] \/ a = [msg |-> "size"]
    BY <1>5 DEF Acknowledgements
  <2> HIDE DEF m, no
  <2>2. CASE a = [msg |-> "option reply", ok |-> TRUE]
    BY <2>2 DEF Answers
  <2>3. CASE a = [msg |-> "size"]
    BY <2>3 DEF Answers
  <2> QED
    BY <2>1, <2>2, <2>3
<1>6. CASE accepted
  <2>1. PICK a \in Acknowledgements(m.option) : Answered(k, <<a>>, "transmission", {})
    BY <1>1, <1>6
  <2> QED
    BY <1>4, <1>5, <2>1
<1>7. CASE refused
  BY <1>1, <1>3, <1>7
<1>8. CASE ~accepted /\ ~refused
  <2>1. Answered(k, <<no>>, "options", {})
    BY <1>1, <1>8
  <2> QED
    BY <1>2, <1>4, <1>8, <2>1
<1> QED
  BY <1>6, <1>7, <1>8

LEMMA ReceiveOptionStep ==
  ASSUME NInv, NEW k \in Connections, ReceiveOption(k), Negotiated(k)
  PROVE  NInv'
<1>1. /\ toServer \in [Connections -> Seq(Requests)] /\ toServer[k] # <<>>
      /\ toServer' = Hear(k, toServer)
      /\ toClient \in [Connections -> Seq(Answers)]
  BY DEF ReceiveOption, Negotiated, NInv, Types
<1>2. /\ toServer' \in [Connections -> Seq(Requests)]
      /\ \A j \in Connections \ {k} : toServer'[j] = toServer[j]
      /\ Rest(toServer'[k], toServer[k]) /\ Head(toServer[k]) = toServer[k][1]
      /\ toServer'[k] = <<>> <=> Len(toServer[k]) = 1
  BY <1>1, HearFacts
<1>3. state[k] = "options"
  BY DEF ReceiveOption
<1>4. UNCHANGED <<store, fua, written, synced, promised, pc, call, nr, fd, used, result, seen,
                  guest, command, count, acked, before>>
  <2>1. fua[k] = {} /\ fua \in [Connections -> SUBSET Handles]
    BY <1>3 DEF NInv, Types, FuaThreads, Ready
  <2>2. fua' = fua
    BY <2>1 DEF Negotiated
  <2> QED
    BY <2>2 DEF ReceiveOption, client, guests
<1> DEFINE m == toServer[k][1]
<1>5. m.msg = "option" /\ toServer'[k] = <<>> /\ Len(toServer[k]) = 1 /\ m \in In(toServer[k])
  <2>1. Len(toServer[k]) <= 1 /\ \A x \in In(toServer[k]) : x.msg = "option"
    BY <1>3 DEF NInv, Shape, ShapeOf
  <2>2. Len(toServer[k]) \in Nat \ {0} /\ m \in In(toServer[k])
    BY <1>2 DEF Rest
  <2>3. Len(toServer[k]) = 1
    <3>1. Len(toServer[k]) <= 1
      BY <2>1
    <3>2. Len(toServer[k]) \in Nat \ {0}
      BY <2>2
    <3> QED
      BY <3>1, <3>2, One
  <2> QED
    BY <1>2, <2>1, <2>2, <2>3
<1>6. m \in Options
  <2>1. m \in Requests
    BY <1>1, <1>5, EmptyQueue
  <2> QED
    BY <1>5, <2>1, RequestKinds
<1>7. /\ state' \in [Connections -> {"none", "client flags", "options", "transmission", "terminate"}]
      /\ state'[k] \in {"options", "transmission", "terminate"}
      /\ \A j \in Connections \ {k} : state'[j] = state[j]
      /\ up' \in [Connections -> BOOLEAN] /\ (up'[k] => up[k])
      /\ \A j \in Connections \ {k} : up'[j] = up[j]
  BY DEF Negotiated, NInv, Types, TypeOK
<1>8. \/ toClient' = toClient /\ ~up'[k]
      \/ \E r \in Answers :
           /\ up[k] = TRUE /\ up'[k] = TRUE /\ toClient' = Say(k, toClient, r)
           /\ r.msg \in {"size", "option reply"}
           /\ IF r.msg = "size" \/ r.ok = TRUE THEN state'[k] = "transmission"
              ELSE state'[k] = "options"
  BY DEF Negotiated, NInv, Types, TypeOK
<1>9. /\ toClient' \in [Connections -> Seq(Answers)]
      /\ \A j \in Connections \ {k} : toClient'[j] = toClient[j]
  BY <1>1, <1>8, SayToClient
<1>10. Types'
  BY <1>2, <1>4, <1>7, <1>9 DEF NInv, Types, TypeOK
<1>11. History'
  BY <1>4 DEF NInv, History
<1>12. In(toServer'[k]) = {} /\ Len(toServer'[k]) = 0
  BY <1>2, <1>5, EmptyQueue
<1>13. \A j \in Connections \ {k} : Ends(j)
  BY <1>2, <1>7, Stays DEF NInv
<1>14. \A j \in Connections : In(toServer'[j]) \subseteq In(toServer[j])
  BY <1>2 DEF Rest
<1>15. Shape'
  <2>1. ShapeOf(k)'
    <3>1. Len(toServer'[k]) <= 1 /\ \A x \in In(toServer'[k]) : x.msg = "option"
      BY <1>12
    <3>2. \A x \in In(toServer'[k]) : x.msg = "command"
      BY <1>12
    <3> QED
      BY <1>7, <3>1, <3>2 DEF ShapeOf
  <2>2. \A j \in Connections \ {k} : ShapeOf(j)'
    BY <1>13, ShapeFrame DEF NInv, Shape
  <2> QED
    BY <2>1, <2>2 DEF Shape
<1>16. Owner'
  BY <1>3, <1>4, <1>7, <1>14, OwnerFrame DEF NInv
<1>17. Place'
  <2>1. CASE k # fd
    <3>1. Ends(fd) /\ toClient'[fd] = toClient[fd]
      BY <1>9, <1>13, <2>1, FdOwned
    <3> QED
      BY <1>4, <3>1, PlaceFrame DEF NInv
  <2>2. CASE k = fd
    <3>1. m.option = "export name" /\ m.known = TRUE
      BY <1>5, <2>2, FdOwned DEF NInv, Owner
    <3>2. state'[fd] \in {"transmission", "terminate"}
      BY <1>2, <2>2, <3>1 DEF Negotiated, NInv, Types, TypeOK
    <3>3. pc # "init"
      BY <1>1, <2>2 DEF NInv, Place
    <3> QED
      BY <1>4, <3>2, <3>3 DEF Place, Ready
  <2> QED
    BY <2>1, <2>2
<1>18. Exchange'
  <2>1. CASE toClient'[fd] = toClient[fd]
    <3>1. up'[fd] => up[fd]
      BY <1>7, FdOwned
    <3> QED
      BY <1>4, <1>14, <2>1, <3>1, FdOwned, ExchangeFrame DEF NInv
  <2>2. CASE toClient'[fd] # toClient[fd]
    <3>1. k = fd
      BY <1>9, <2>2, FdOwned
    <3>2. PICK r \in Answers : up[fd] = TRUE /\ toClient' = Say(fd, toClient, r)
                               /\ r.msg \in {"size", "option reply"}
      BY <1>8, <2>2, <3>1
    <3>3. PICK c : c = toClient'[fd]
      OBVIOUS
    <3>4. /\ c \in Seq(Answers) /\ Len(c) = Len(toClient[fd]) + 1 /\ Len(toClient[fd]) \in Nat
          /\ Begins(toClient[fd], c) /\ c[Len(toClient[fd]) + 1] = r
      <4>1. c \in Seq(Answers)
        BY <1>9, <3>3, FdOwned
      <4> QED
        BY <1>1, <3>2, <3>3, <4>1, FdOwned, SayToClient
    <3>5. (toClient[fd] = <<>> <=> Len(toClient[fd]) = 0) /\ (c = <<>> <=> Len(c) = 0)
      BY <1>1, <3>4, FdOwned, EmptyQueue
    <3>6. \A i \in Len(toClient[fd]) + 1 .. Len(c) : c[i] = r
      BY <3>4
    <3>7. ToldOK(r)' /\ ~Ok(r)
      BY <3>2 DEF ToldOK, Ok
    <3>8. Len(c) \in Nat
      BY <3>4
    <3> QED
      BY <1>4, <1>14, <3>2, <3>3, <3>4, <3>5, <3>6, <3>7, <3>8, FdOwned, ExchangeAnswer DEF NInv
  <2> QED
    BY <2>1, <2>2
<1>19. AllGuests'
  <2>1. ASSUME NEW g \in Guests, g # k
        PROVE  GuestOf(g)'
    BY <1>4, <1>9, <1>13, <2>1, Apart, GuestFrame DEF NInv, AllGuests
  <2>2. ASSUME k \in Guests
        PROVE  GuestOf(k)'
    <3>1. Alone(k) /\ Asked(k) /\ Negotiates(k) /\ Rests(k) /\ Awaits(k)
      BY <2>2 DEF NInv, AllGuests, GuestOf
    <3>2. toClient[k] = <<>> /\ Len(toClient[k]) = 0 /\ In(toClient[k]) = {}
      BY <1>1, <1>5, <3>1, EmptyQueue DEF Alone
    <3>3. guest[k] \in {"option", "gone"}
      <4>1. guest[k] \notin {"hello", "ready", "failed"}
        BY <1>1, <3>1 DEF Negotiates, Rests
      <4>2. guest[k] # "reply"
        BY <1>5, <3>1 DEF Awaits
      <4> QED
        BY <2>2, <4>1, <4>2 DEF NInv, Types, TypeOK
    <3>4. Len(toClient'[k]) <= 1
      <4>1. CASE toClient' = toClient
        <5>1. Len(toClient'[k]) = 0
          BY <3>2, <4>1
        <5> QED
          BY <5>1
      <4>2. ASSUME NEW r \in Answers, toClient' = Say(k, toClient, r)
            PROVE  Len(toClient'[k]) <= 1
        <5>1. Len(toClient'[k]) = 0 + 1
          BY <1>1, <3>2, <4>2, SayToClient
        <5> QED
          BY <5>1
      <4> QED
        BY <1>8, <4>1, <4>2
    <3>5. Alone(k)'
      <4>1. command'[k].handle = <<k, count'[k]>> /\ command'[k].type # "read"
        BY <1>4, <3>1 DEF Alone
      <4>2. Len(toServer'[k]) <= 2
        BY <1>12
      <4>3. state'[k] # "none"
        BY <1>7
      <4> QED
        BY <1>12, <3>4, <4>1, <4>2, <4>3 DEF Alone
    <3>6. Asked(k)'
      BY <1>5, <1>12 DEF Asked
    <3>7. Negotiates(k)'
      <4>1. SUFFICES ASSUME guest[k] = "option", NEW x \in In(toClient'[k])
                     PROVE  /\ x.msg \in {"size", "option reply"}
                            /\ IF x.msg = "size" \/ x.ok = TRUE THEN Ready(k)'
                               ELSE state'[k] \in {"options", "terminate"}
        BY <1>4, <3>1, <3>3 DEF Negotiates
      <4>2. PICK r \in Answers :
              /\ toClient' = Say(k, toClient, r)
              /\ r.msg \in {"size", "option reply"}
              /\ IF r.msg = "size" \/ r.ok = TRUE THEN state'[k] = "transmission"
                 ELSE state'[k] = "options"
        BY <1>8, <3>2, <4>1
      <4>3. x = r
        <5>1. Adds(toClient'[k], toClient[k], r)
          BY <1>1, <4>2, SayToClient
        <5> QED
          BY <3>2, <4>1, <5>1 DEF Adds
      <4> QED
        BY <4>2, <4>3 DEF Ready
    <3>8. Rests(k)'
      <4>1. guest[k] = "gone" => ~up[k] /\ ~up'[k] /\ toClient' = toClient
        BY <1>7, <1>8, <3>1 DEF Rests
      <4> QED
        BY <1>4, <3>2, <3>3, <4>1 DEF Rests
    <3>9. Awaits(k)'
      BY <1>4, <3>3 DEF Awaits
    <3> QED
      BY <3>5, <3>6, <3>7, <3>8, <3>9 DEF GuestOf
  <2> QED
    BY <2>1, <2>2 DEF AllGuests
<1>20. Fua'
  <2>1. ASSUME NEW g \in Guests, toClient'[g] = toClient[g]
        PROVE  FuaOf(g)'
    <3>1. up'[g] => up[g]
      BY <1>7, Apart
    <3> QED
      BY <1>4, <2>1, <3>1, Apart, FuaFrame DEF NInv, Fua
  <2>2. ASSUME k \in Guests, up[k] = TRUE, up'[k] = TRUE
        PROVE  FuaOf(k)'
    <3>1. guest[k] \notin {"reply", "gone"}
      BY <1>5, <2>2 DEF NInv, AllGuests, GuestOf, Awaits, Rests
    <3>2. FuaOf(k)
      BY <2>2 DEF NInv, Fua
    <3> QED
      BY <1>4, <2>2, <3>1, <3>2 DEF FuaOf
  <2> QED
    BY <1>8, <1>9, <2>1, <2>2, Apart DEF Fua
<1>21. FuaThreads'
  BY <1>3, <1>4, <1>7 DEF NInv, FuaThreads, Ready
<1>22. CallsTakeEffect' /\ FlushCovers'
  BY <1>4, EffectFrame, FlushFrame DEF NInv
<1> QED
  BY <1>10, <1>11, <1>15, <1>16, <1>17, <1>18, <1>19, <1>20, <1>21, <1>22 DEF NInv

LEMMA AnswerIs ==
  ASSUME Types, NEW m \in Commands, NEW err \in BOOLEAN
  PROVE  /\ Answer(m, err) \in Seq(Answers)
         /\ Answer(m, err)[1] = [msg |-> "reply", handle |-> m.handle, err |-> err]
         /\ Len(Answer(m, err)) = IF m.type = "read" /\ ~err THEN 2 ELSE 1
         /\ m.type = "read" /\ ~err =>
              Answer(m, err)[2] = [msg |-> "data", data |-> store[CHOOSE b \in m.blocks : TRUE]]
<1> DEFINE header == [msg |-> "reply", handle |-> m.handle, err |-> err]
           content == [msg |-> "data", data |-> store[CHOOSE b \in m.blocks : TRUE]]
<1>1. m.handle \in Handles /\ m.blocks \in SUBSET Blocks /\ (m.type = "read" => m.blocks # {})
  BY DEF Commands
<1>2. header \in Answers
  BY <1>1 DEF Answers, Replies
<1>3. ASSUME m.type = "read"
      PROVE  content \in Answers
  <2>1. (CHOOSE b \in m.blocks : TRUE) \in Blocks
    BY <1>1, <1>3
  <2>2. store[CHOOSE b \in m.blocks : TRUE] \in Values
    BY <2>1 DEF Types, TypeOK
  <2> QED
    BY <2>2 DEF Answers, Contents
<1>4. Answer(m, err) = IF m.type = "read" /\ ~err THEN <<header, content>> ELSE <<header>>
  BY DEF Answer
<1> HIDE DEF header, content
<1>5. CASE m.type = "read" /\ ~err
  <2>1. Answer(m, err) = <<header, content>>
    BY <1>4, <1>5
  <2> QED
    BY <1>2, <1>3, <1>5, <2>1 DEF header, content
<1>6. CASE ~(m.type = "read" /\ ~err)
  <2>1. Answer(m, err) = <<header>>
    BY <1>4, <1>6
  <2> QED
    BY <1>2, <1>6, <2>1 DEF header
<1> QED
  BY <1>5, <1>6

\* what handling command m does to the storage
Effect(m, err) ==
  /\ store' \in [Blocks -> Values] /\ (m.type = "read" => store' = store)
  /\ written \subseteq written' /\ written' \subseteq written \cup {m.handle}
  /\ synced \subseteq synced' /\ synced' \subseteq synced \cup written
  /\ promised \subseteq promised' /\ promised' \subseteq promised \cup {m.handle}
  /\ m.fua = FALSE => promised' = promised
  /\ m.handle \in promised' \ promised => m.handle \in written' /\ m.fua = TRUE
  /\ err = FALSE /\ m.type = "write" => m.handle \in written'
  /\ err = FALSE /\ m.type = "flush" => written \subseteq synced'
  /\ seen \subseteq seen' /\ seen' \in SUBSET Values
  /\ pc # "idle" /\ call.op = "get" => store'[call.block] \in seen'

\* the thread has handled it, has answered it when the connection is there, and
\* goes on or ends
Goes(k, m, err) ==
  \E st \in {"transmission", "terminate"}, sync \in {{}, {m.handle}} :
    /\ Handled(k, st, sync)
    /\ m.fua = TRUE => st = "terminate" \/ sync = {m.handle}
    /\ toClient' = IF up[k] THEN [toClient EXCEPT ![k] = @ \o Answer(m, err)] ELSE toClient

LEMMA ReceiveCommandFacts ==
  ASSUME NInv, NEW k \in Connections, ReceiveCommand(k)
  PROVE  /\ toServer[k] # <<>>
         /\ state[k] = "transmission" /\ fua[k] = {}
         /\ UNCHANGED <<pc, call, nr, fd, used, result, guest, command, count, acked, before>>
         /\ toServer[k][1] \in Commands /\ toServer[k][1] \in In(toServer[k])
         /\ toServer[k][1].msg = "command"
         /\ \E err \in BOOLEAN :
              LET m == toServer[k][1]
              IN Effect(m, err) /\ (Goes(k, m, err) \/ (Killed /\ toClient' = toClient))
<1> DEFINE m == toServer[k][1]
<1>1. /\ toServer[k] # <<>> /\ state[k] = "transmission" /\ fua[k] = {}
      /\ UNCHANGED <<pc, call, nr, fd, used, result, guest, command, count, acked, before>>
  BY DEF ReceiveCommand, guests
<1>2. Head(toServer[k]) = m /\ m \in In(toServer[k]) /\ m \in Requests
  <2>1. toServer \in [Connections -> Seq(Requests)]
    BY DEF NInv, Types
  <2>2. Rest(Hear(k, toServer)[k], toServer[k]) /\ Head(toServer[k]) = m /\ m \in Requests
    BY <1>1, <2>1, HearFacts
  <2> QED
    BY <2>2 DEF Rest
<1>3. m.msg = "command"
  BY <1>1, <1>2 DEF NInv, Shape, ShapeOf
<1>4. m \in Commands
  BY <1>2, <1>3, RequestKinds
<1>5. PICK err \in BOOLEAN :
        LET ends == m.type = "disc" \/ (m.type = "flush" /\ err)
        IN /\ err => m.type # "disc"
           /\ IF err THEN UNCHANGED <<store, written, synced>> ELSE Execute(m)
           /\ Answered(k, Answer(m, err), IF ends THEN "terminate" ELSE "transmission",
                       IF m.fua /\ ~ends THEN {m.handle} ELSE {})
           /\ promised' = IF m.fua /\ ~err THEN promised \cup {m.handle} ELSE promised
           /\ seen' = IF pc = "idle" \/ call.op # "get" THEN seen ELSE seen \cup {store'[call.block]}
  BY <1>2 DEF ReceiveCommand
<1>6. m.fua \in BOOLEAN /\ (m.fua = TRUE => m.type = "write") /\ m.data \in Values
      /\ m.type \in {"none", "read", "write", "flush", "trim", "disc"}
  BY <1>4 DEF Commands
<1>7. Effect(m, err)
  <2> HIDE DEF m
  <2>1. store' \in [Blocks -> Values] /\ (m.type = "read" => store' = store)
    <3>1. CASE err
      BY <1>5, <3>1 DEF NInv, Types, TypeOK
    <3>2. CASE ~err
      <4>1. store' = [b \in Blocks |-> IF b \notin m.blocks THEN store[b]
                                       ELSE IF m.type = "write" THEN m.data
                                       ELSE IF m.type = "trim" THEN Zero ELSE store[b]]
        BY <1>5, <3>2 DEF Execute
      <4>2. store \in [Blocks -> Values] /\ Zero \in Values
        BY NbdDataAssumption DEF NInv, Types, TypeOK
      <4> QED
        BY <1>6, <4>1, <4>2
    <3> QED
      BY <3>1, <3>2
  <2>2. /\ written \subseteq written' /\ written' \subseteq written \cup {m.handle}
        /\ synced \subseteq synced' /\ synced' \subseteq synced \cup written
        /\ err = FALSE /\ m.type = "write" => m.handle \in written'
        /\ err = FALSE /\ m.type = "flush" => written \subseteq synced'
    BY <1>5 DEF Execute, Flushed
  <2>3. /\ promised \subseteq promised' /\ promised' \subseteq promised \cup {m.handle}
        /\ m.fua = FALSE => promised' = promised
        /\ m.handle \in promised' \ promised => m.fua = TRUE /\ err = FALSE
    BY <1>5, <1>6
  <2>4. store'[call.block] \in Values
    BY <2>1 DEF NInv, Types, Calls
  <2>5. /\ seen \subseteq seen' /\ seen' \in SUBSET Values
        /\ pc # "idle" /\ call.op = "get" => store'[call.block] \in seen'
    BY <1>5, <2>4 DEF NInv, Types
  <2> QED
    BY <1>6, <2>1, <2>2, <2>3, <2>5 DEF Effect
<1>8. Goes(k, m, err) \/ (Killed /\ toClient' = toClient)
  <2> HIDE DEF m
  <2> DEFINE ends == m.type = "disc" \/ (m.type = "flush" /\ err)
             st == IF ends THEN "terminate" ELSE "transmission"
             sync == IF m.fua /\ ~ends THEN {m.handle} ELSE {}
  <2>1. Answered(k, Answer(m, err), st, sync)
    BY <1>5
  <2>2. /\ st \in {"transmission", "terminate"} /\ sync \in {{}, {m.handle}}
        /\ m.fua = TRUE => st = "terminate" \/ sync = {m.handle}
    OBVIOUS
  <2> HIDE DEF st, sync
  <2>3. \/ /\ Handled(k, st, sync)
           /\ toClient' = IF up[k] THEN [toClient EXCEPT ![k] = @ \o Answer(m, err)] ELSE toClient
        \/ ~up[k] /\ (Handled(k, "terminate", {}) \/ Killed) /\ toClient' = toClient
    BY <2>1 DEF Answered
  <2> QED
    BY <2>2, <2>3 DEF Goes
<1> QED
  BY <1>1, <1>2, <1>3, <1>4, <1>5, <1>7, <1>8

\* only guests ask for FUA, and what is executed was asked for
LEMMA CommandEffect ==
  ASSUME NInv, NEW k \in Connections, ReceiveCommand(k), NEW err \in BOOLEAN,
         Effect(toServer[k][1], err)
  PROVE  LET m == toServer[k][1]
         IN /\ m.fua = TRUE => k \in Guests
            /\ k \in Guests => /\ m = command[k] /\ m.handle = <<k, count[k]>>
                              /\ guest[k] \in {"reply", "gone"} /\ m.type # "read"
            /\ promised' \in SUBSET (Guests \X Nat) /\ History'
<1> DEFINE m == toServer[k][1]
<1>1. /\ m \in Commands /\ m \in In(toServer[k]) /\ m.msg = "command"
      /\ UNCHANGED <<count, acked, before>> /\ m.fua \in BOOLEAN
  BY ReceiveCommandFacts DEF Commands
<1> HIDE DEF m
<1>2. Effect(m, err)
  BY DEF m
<1>3. m.fua = TRUE => k \in Guests
  BY <1>1, Apart DEF NInv, Owner
<1>4. k \in Guests => m = command[k] /\ m.handle = <<k, count[k]>> /\ guest[k] \in {"reply", "gone"}
                      /\ m.type # "read"
  BY <1>1 DEF NInv, AllGuests, GuestOf, Asked, Alone
<1>5. promised' \in SUBSET (Guests \X Nat)
  <2>1. k \in Guests => count[k] \in Nat
    BY TypeFacts DEF NInv
  <2>2. ASSUME m.handle \in promised' \ promised
        PROVE  m.handle \in Guests \X Nat
    <3>1. k \in Guests
      BY <1>2, <1>3, <2>2 DEF Effect
    <3>2. m.handle = <<k, count[k]>>
      BY <1>4, <3>1
    <3> QED
      BY <2>1, <3>1, <3>2
  <2>3. promised \in SUBSET (Guests \X Nat) /\ promised' \subseteq promised \cup {m.handle}
    BY <1>2 DEF NInv, Types, Effect
  <2> QED
    BY <2>2, <2>3
<1>6. History'
  BY <1>1, <1>2 DEF NInv, History, Effect
<1> QED
  BY <1>3, <1>4, <1>5, <1>6 DEF m

\* a write with FUA is to be synced, or its connection is gone
LEMMA FuaAfterCommand ==
  ASSUME NInv, NEW k \in Connections, ReceiveCommand(k), NEW err \in BOOLEAN,
         Effect(toServer[k][1], err),
         \A j \in Connections \ {k} : fua'[j] = fua[j] \/ ~up'[j],
         \A j \in Connections : up'[j] => up[j],
         \A j \in Connections \ {k} : toClient'[j] = toClient[j],
         up[k] = FALSE => toClient'[k] = toClient[k],
         toServer[k][1].fua = TRUE => toServer[k][1].handle \in fua'[k] \/ ~up'[k]
  PROVE  Fua'
<1> DEFINE m == toServer[k][1]
<1>1. fua[k] = {} /\ UNCHANGED <<guest, count>>
  BY ReceiveCommandFacts
<1>2. /\ m.fua = TRUE => k \in Guests
      /\ k \in Guests => m.handle = <<k, count[k]>> /\ guest[k] \in {"reply", "gone"}
  BY CommandEffect
<1>3. Effect(m, err) /\ (m.fua = TRUE => m.handle \in fua'[k] \/ ~up'[k])
  OBVIOUS
<1>4. m.fua \in BOOLEAN /\ up[k] \in BOOLEAN
  BY ReceiveCommandFacts DEF Commands, NInv, Types, TypeOK
<1> HIDE DEF m
<1>5. ASSUME NEW g \in Guests, g # k
      PROVE  FuaOf(g)'
  <2>1. promised' \cap ({g} \X Nat) \subseteq promised
    BY <1>2, <1>3, <1>4, <1>5 DEF Effect
  <2>2. synced \subseteq synced'
    BY <1>3 DEF Effect
  <2>3. g \in Connections \ {k} /\ FuaOf(g)
    BY <1>5, Apart DEF NInv, Fua
  <2> QED
    BY <1>1, <2>1, <2>2, <2>3, FuaFrame
<1>6. ASSUME k \in Guests
      PROVE  FuaOf(k)'
  <2>1. SUFFICES ASSUME NEW n \in Nat, <<k, n>> \in promised', <<k, n>> \notin synced'
                 PROVE  /\ n <= count[k]
                        /\ <<k, n>> \in fua'[k] \/ ~up'[k]
                        /\ count[k] > n => guest[k] \in {"reply", "gone"} /\ toClient'[k] = <<>>
    BY <1>1 DEF FuaOf
  <2>2. count[k] \in Nat
    BY <1>6, TypeFacts DEF NInv
  <2>3. CASE <<k, n>> \in promised
    <3>1. <<k, n>> \notin synced
      BY <1>3, <2>1 DEF Effect
    <3>2. /\ n <= count[k] /\ ~up[k]
          /\ count[k] > n => guest[k] \in {"reply", "gone"} /\ toClient[k] = <<>>
      BY <1>1, <1>6, <2>1, <2>3, <3>1 DEF NInv, Fua, FuaOf
    <3> QED
      BY <1>4, <3>2
  <2>4. CASE <<k, n>> \notin promised
    <3>1. <<k, n>> = m.handle /\ m.fua = TRUE
      BY <1>3, <1>4, <2>1, <2>4 DEF Effect
    <3>2. n = count[k]
      BY <1>2, <1>6, <3>1
    <3>3. <<k, n>> \in fua'[k] \/ ~up'[k]
      BY <1>3, <3>1
    <3>4. n <= count[k] /\ ~(count[k] > n)
      BY <2>2, <3>2
    <3> QED
      BY <3>3, <3>4
  <2> QED
    BY <2>3, <2>4
<1> QED
  BY <1>5, <1>6 DEF Fua

LEMMA CommandGoesStep ==
  ASSUME NInv, NEW k \in Connections, ReceiveCommand(k), NEW err \in BOOLEAN,
         Effect(toServer[k][1], err), Goes(k, toServer[k][1], err)
  PROVE  NInv'
<1> DEFINE m == toServer[k][1]
           q == toClient[k]
<1>1. /\ toServer[k] # <<>> /\ toServer' = Hear(k, toServer)
      /\ state[k] = "transmission" /\ fua[k] = {}
      /\ m \in Commands /\ m \in In(toServer[k]) /\ m.msg = "command"
  BY ReceiveCommandFacts DEF Goes, Handled
<1>2. UNCHANGED <<pc, call, nr, fd, used, result, guest, command, count, acked, before>>
  BY ReceiveCommandFacts
<1>3. PICK st \in {"transmission", "terminate"}, sync \in {{}, {m.handle}} :
        /\ state' = [state EXCEPT ![k] = st] /\ up' = [up EXCEPT ![k] = @ /\ st # "terminate"]
        /\ fua' = [fua EXCEPT ![k] = sync]
        /\ m.fua = TRUE => st = "terminate" \/ sync = {m.handle}
        /\ toClient' = IF up[k] THEN [toClient EXCEPT ![k] = @ \o Answer(m, err)] ELSE toClient
  BY DEF Goes, Handled
<1>4. /\ toServer \in [Connections -> Seq(Requests)] /\ toClient \in [Connections -> Seq(Answers)]
      /\ q \in Seq(Answers) /\ up[k] \in BOOLEAN
  BY DEF NInv, Types, TypeOK
<1>5. /\ toServer' \in [Connections -> Seq(Requests)]
      /\ \A j \in Connections \ {k} : toServer'[j] = toServer[j]
      /\ Rest(toServer'[k], toServer[k])
      /\ toServer'[k] = <<>> <=> Len(toServer[k]) = 1
  BY <1>1, <1>4, HearServer
<1>6. /\ state' \in [Connections -> {"none", "client flags", "options", "transmission", "terminate"}]
      /\ state'[k] \in {"transmission", "terminate"}
      /\ \A j \in Connections \ {k} : state'[j] = state[j]
      /\ up' \in [Connections -> BOOLEAN] /\ (up'[k] => up[k])
      /\ \A j \in Connections \ {k} : up'[j] = up[j]
  BY <1>1, <1>3 DEF NInv, Types, TypeOK
<1>7. Effect(m, err)
  OBVIOUS
<1>8. /\ m.handle \in Handles /\ m.fua \in BOOLEAN
      /\ m.type \in {"none", "read", "write", "flush", "trim", "disc"}
      /\ m.blocks \in SUBSET Blocks /\ (m.type = "read" => m.blocks # {})
  BY <1>1 DEF Commands
<1>10. k \in Guests => m = command[k] /\ m.handle = <<k, count[k]>> /\ guest[k] \in {"reply", "gone"}
                       /\ m.type # "read"
  BY <1>7, CommandEffect
<1>11. fua' \in [Connections -> SUBSET Handles] /\ \A j \in Connections \ {k} : fua'[j] = fua[j]
  BY <1>3, <1>8 DEF NInv, Types
<1>12. promised' \in SUBSET (Guests \X Nat) /\ History'
  BY <1>7, CommandEffect
\* the answer
<1> PICK a : a = Answer(m, err)
  OBVIOUS
<1>13. /\ a \in Seq(Answers)
       /\ a[1] = [msg |-> "reply", handle |-> m.handle, err |-> err]
       /\ Len(a) = IF m.type = "read" /\ ~err THEN 2 ELSE 1
       /\ m.type = "read" /\ ~err =>
            a[2] = [msg |-> "data", data |-> store[CHOOSE b \in m.blocks : TRUE]]
  BY <1>1, AnswerIs DEF NInv
<1> HIDE DEF m, q
<1>14. toClient' = IF up[k] THEN [toClient EXCEPT ![k] = q \o a] ELSE toClient
  BY <1>3 DEF q
<1> PICK c : c = q \o a
  OBVIOUS
<1>15. c \in Seq(Answers) /\ Follows(c, q, a)
  <2>1. q \o a \in Seq(Answers) /\ Follows(q \o a, q, a)
    BY <1>4, <1>13, ConcatFollows
  <2> QED
    BY <2>1
<1>16. /\ toClient' \in [Connections -> Seq(Answers)]
       /\ \A j \in Connections \ {k} : toClient'[j] = toClient[j]
       /\ toClient'[k] = IF up[k] THEN c ELSE q
  BY <1>4, <1>14, <1>15 DEF q
<1>17. Types'
  <2>1. TypeOK'
    BY <1>2, <1>6, <1>7 DEF NInv, Types, TypeOK, Effect
  <2>2. written' \in SUBSET Handles /\ synced' \in SUBSET Handles /\ seen' \in SUBSET Values
    BY <1>7, <1>8 DEF NInv, Types, Effect
  <2> QED
    BY <1>2, <1>5, <1>11, <1>12, <1>16, <2>1, <2>2 DEF NInv, Types
<1>19. \A j \in Connections \ {k} : Ends(j)
  BY <1>5, <1>6, Stays DEF NInv
<1>20. \A j \in Connections : In(toServer'[j]) \subseteq In(toServer[j])
  BY <1>5 DEF Rest
<1>21. Shape'
  <2>1. \A x \in In(toServer'[k]) : x.msg = "command"
    BY <1>1, <1>20 DEF NInv, Shape, ShapeOf
  <2>2. ShapeOf(k)'
    BY <1>6, <2>1 DEF ShapeOf
  <2>3. \A j \in Connections \ {k} : ShapeOf(j)'
    BY <1>19, ShapeFrame DEF NInv, Shape
  <2> QED
    BY <2>2, <2>3 DEF Shape
<1>22. Owner'
  BY <1>1, <1>2, <1>6, <1>20, OwnerFrame DEF NInv
<1>23. Place'
  <2>1. CASE k # fd
    <3>1. Ends(fd) /\ toClient'[fd] = toClient[fd]
      BY <1>16, <1>19, <2>1, FdOwned
    <3> QED
      BY <1>2, <3>1, PlaceFrame DEF NInv
  <2>2. CASE k = fd
    <3>1. pc # "init"
      BY <1>1, <2>2 DEF NInv, Place
    <3> QED
      BY <1>2, <1>6, <2>2, <3>1 DEF Place, Ready
  <2> QED
    BY <2>1, <2>2
<1>24. Handle' = Handle /\ Request' = Request
  BY <1>2 DEF Handle, Request
<1>25. Exchange'
  <2>1. written \subseteq written' /\ synced \subseteq synced' /\ seen \subseteq seen'
    BY <1>7 DEF Effect
  <2>2. CASE toClient'[fd] = toClient[fd]
    <3>1. up'[fd] => up[fd]
      BY <1>6, FdOwned
    <3> QED
      BY <1>2, <1>20, <2>1, <2>2, <3>1, FdOwned, ExchangeFrame DEF NInv
  <2>3. CASE toClient'[fd] # toClient[fd]
    <3>1. k = fd /\ up[fd] = TRUE /\ toClient'[fd] = c /\ q = toClient[fd]
      BY <1>4, <1>16, <2>3, FdOwned DEF q
    <3>3. /\ c \in Seq(Answers) /\ Begins(q, c) /\ Len(c) = Len(q) + Len(a) /\ Len(q) \in Nat
          /\ \A i \in 1 .. Len(a) : c[Len(q) + i] = a[i]
          /\ Len(a) \in Nat /\ Len(c) \in Nat
      BY <1>15 DEF Follows, Begins
    <3>4. (q = <<>> <=> Len(q) = 0) /\ (c = <<>> <=> Len(c) = 0)
      BY <1>4, <3>3, EmptyQueue
    <3>5. /\ m.handle \in {Backend} \X (0 .. nr)
          /\ m.handle = Handle => call.op # "none" /\ m = Request
      BY <1>1, <3>1 DEF NInv, Exchange, SentOK
    <3>6. m.handle = Handle =>
            /\ call.op = "get" <=> m.type = "read"
            /\ call.op = "put" <=> m.type = "write"
            /\ call.op = "fsync" <=> m.type = "flush"
            /\ call.op = "get" => m.blocks = {call.block}
      <4>1. call \in Calls /\ nr \in Nat
        BY TypeFacts DEF NInv
      <4> QED
        BY <3>5, <4>1, RequestIs
    <3>7. a[1].msg = "reply" /\ a[1].handle = m.handle /\ a[1].err = err
      BY <1>13
    <3>8. ToldOK(a[1])'
      <4>1. a[1].msg = "reply" => a[1].handle \in {Backend} \X (0 .. nr)
        BY <3>5, <3>7
      <4>2. ASSUME Ok(a[1]), call.op = "put"
            PROVE  Handle \in written'
        BY <1>7, <3>6, <3>7, <4>2 DEF Ok, Effect
      <4>3. ASSUME Ok(a[1]), call.op = "fsync"
            PROVE  before[Backend] \subseteq synced'
        <5>1. written \subseteq synced'
          BY <1>7, <3>6, <3>7, <4>3 DEF Ok, Effect
        <5> QED
          BY <5>1 DEF NInv, History
      <4>4. Ok(a[1])' <=> Ok(a[1])
        BY <1>24 DEF Ok
      <4> QED
        BY <1>2, <1>24, <4>1, <4>2, <4>3, <4>4 DEF ToldOK
    <3>9. CASE m.type = "read" /\ ~err
      <4>1. Len(a) = 2 /\ a[2] = [msg |-> "data", data |-> store[CHOOSE b \in m.blocks : TRUE]]
        BY <1>13, <3>9
      <4>2. ToldOK(a[2])' /\ ~Ok(a[2])
        BY <4>1 DEF ToldOK, Ok
      <4>3. Ok(a[1]) /\ call.op = "get" /\ pc # "idle" => Datum(a[2])'
        <5>1. SUFFICES ASSUME Ok(a[1]), call.op = "get", pc # "idle"
                       PROVE  Datum(a[2])'
          OBVIOUS
        <5>2. m.blocks = {call.block}
          BY <3>6, <3>7, <5>1 DEF Ok
        <5>3. a[2].data = store[call.block] /\ a[2].msg = "data"
          BY <4>1, <5>2
        <5>4. store' = store /\ store'[call.block] \in seen'
          BY <1>7, <3>9, <5>1 DEF Effect
        <5> QED
          BY <5>3, <5>4 DEF Datum
      <4>4. Len(q) + 1 < Len(c) /\ Len(c) = Len(q) + 2
        BY <3>3, <4>1
      <4>5. c[Len(q) + 1] = a[1] /\ c[Len(q) + 2] = a[2] /\ c[(Len(q) + 1) + 1] = a[2]
        BY <3>3, <4>1
      <4>6. \A i \in Len(q) + 1 .. Len(c) : i = Len(q) + 1 \/ i = Len(q) + 2
        BY <3>3, <4>4
      <4>7. \A i \in Len(q) + 1 .. Len(c) :
              /\ ToldOK(c[i])'
              /\ Ok(c[i]) /\ call.op = "get" /\ pc # "idle" => i < Len(c) /\ Datum(c[i + 1])'
        BY <3>8, <4>2, <4>3, <4>4, <4>5, <4>6
      <4> QED
        BY <1>2, <1>20, <2>1, <3>1, <3>3, <3>4, <4>7, ExchangeAnswer DEF NInv
    <3>10. CASE ~(m.type = "read" /\ ~err)
      <4>1. Len(a) = 1
        BY <1>13, <3>10
      <4>2. ~(Ok(a[1]) /\ call.op = "get")
        BY <3>6, <3>7, <3>10 DEF Ok
      <4>3. \A i \in Len(q) + 1 .. Len(c) : c[i] = a[1]
        BY <3>3, <4>1
      <4>4. \A i \in Len(q) + 1 .. Len(c) :
              /\ ToldOK(c[i])'
              /\ Ok(c[i]) /\ call.op = "get" /\ pc # "idle" => i < Len(c) /\ Datum(c[i + 1])'
        BY <3>8, <4>2, <4>3
      <4> QED
        BY <1>2, <1>20, <2>1, <3>1, <3>3, <3>4, <4>4, ExchangeAnswer DEF NInv
    <3> QED
      BY <3>9, <3>10
  <2> QED
    BY <2>2, <2>3
<1>26. AllGuests'
  <2>1. ASSUME NEW g \in Guests, g # k
        PROVE  GuestOf(g)'
    <3>1. written \subseteq written' /\ synced \subseteq synced'
      BY <1>7 DEF Effect
    <3> QED
      BY <1>2, <1>16, <1>19, <2>1, <3>1, Apart, GuestFrame DEF NInv, AllGuests
  <2>2. ASSUME k \in Guests
        PROVE  GuestOf(k)'
    <3>1. Alone(k) /\ Asked(k) /\ Negotiates(k) /\ Rests(k) /\ Awaits(k)
      BY <2>2 DEF NInv, AllGuests, GuestOf
    <3>2. Len(toServer'[k]) = Len(toServer[k]) - 1 /\ Len(toServer[k]) \in Nat \ {0}
          /\ Len(toServer'[k]) \in Nat
      BY <1>5 DEF Rest
    <3>3. q = <<>> /\ Len(q) = 0 /\ In(q) = {}
      <4>1. Len(toServer[k]) # 0
        BY <3>2
      <4>2. Len(q) = 0
        BY <3>1, <4>1 DEF Alone, q
      <4> QED
        BY <1>4, <4>2, EmptyQueue
    <3>4. Len(a) = 1 /\ In(a) = {a[1]}
      <4>1. Len(a) = 1
        BY <1>10, <1>13, <2>2
      <4> QED
        BY <4>1 DEF In
    <3>5. CASE up[k] = TRUE
      <4>1. guest[k] = "reply"
        BY <1>10, <2>2, <3>1, <3>5 DEF Rests
      <4>2. Len(toServer'[k]) = 0 /\ toServer'[k] = <<>> /\ In(toServer'[k]) = {}
        <5>1. Len(toServer[k]) <= 1 /\ Len(toServer[k]) \in Nat /\ Len(toServer[k]) # 0
          BY <3>1, <3>2, <4>1 DEF Awaits
        <5>2. Len(toServer[k]) = 1
          BY <5>1, One
        <5>3. toServer'[k] = <<>>
          BY <1>5, <5>2
        <5> QED
          BY <1>5, <5>3, EmptyQueue
      <4>3. toClient'[k] = c /\ Len(toClient'[k]) = 1 /\ In(toClient'[k]) = {a[1]}
        BY <1>15, <1>16, <3>3, <3>4, <3>5 DEF Follows
      <4>4. Alone(k)'
        <5>1. command'[k].handle = <<k, count'[k]>> /\ command'[k].type # "read" /\ state'[k] # "none"
          BY <1>2, <1>6, <3>1 DEF Alone
        <5>2. Len(toServer'[k]) <= 2
          BY <4>2
        <5>3. Len(toClient'[k]) <= 1
          BY <4>3
        <5> QED
          BY <4>2, <5>1, <5>2, <5>3 DEF Alone
      <4>5. Asked(k)'
        BY <4>2 DEF Asked
      <4>6. Negotiates(k)' /\ Rests(k)'
        BY <1>2, <4>1 DEF Negotiates, Rests
      <4>7. Awaits(k)'
        <5>1. Len(toServer'[k]) <= 1
          BY <4>2
        <5>2. a[1].msg = "reply" /\ a[1].handle = m.handle /\ a[1].err = err
          BY <1>13
        <5>3. m.handle = command'[k].handle /\ m.type = command'[k].type
          BY <1>2, <1>10, <2>2
        <5>4. a[1].err = FALSE /\ m.type = "write" => a[1].handle \in written'
          BY <1>7, <5>2 DEF Effect
        <5>5. a[1].err = FALSE /\ m.type = "flush" => before'[k] \subseteq synced'
          <6>1. before'[k] \subseteq written
            BY <1>2, <2>2 DEF NInv, History
          <6> QED
            BY <1>7, <5>2, <6>1 DEF Effect
        <5>6. Ready(k)'
          BY <1>6 DEF Ready
        <5> QED
          BY <4>2, <4>3, <5>1, <5>2, <5>3, <5>4, <5>5, <5>6 DEF Awaits
      <4> QED
        BY <4>4, <4>5, <4>6, <4>7 DEF GuestOf
    <3>6. CASE up[k] = FALSE
      <4>1. toClient'[k] = <<>> /\ Len(toClient'[k]) = 0 /\ In(toClient'[k]) = {} /\ ~up'[k]
        BY <1>6, <1>16, <3>3, <3>6
      <4>2. Alone(k)'
        <5>1. command'[k].handle = <<k, count'[k]>> /\ command'[k].type # "read" /\ state'[k] # "none"
          BY <1>2, <1>6, <3>1 DEF Alone
        <5>2. Len(toServer'[k]) <= 2
          BY <3>1, <3>2 DEF Alone
        <5>3. Len(toClient'[k]) <= 1
          BY <4>1
        <5> QED
          BY <4>1, <5>1, <5>2, <5>3 DEF Alone
      <4>3. Asked(k)'
        BY <1>2, <1>20, <3>1 DEF Asked
      <4>4. Negotiates(k)' /\ Rests(k)'
        BY <1>2, <1>10, <2>2, <4>1 DEF Negotiates, Rests
      <4>5. Awaits(k)'
        <5>1. SUFFICES ASSUME guest[k] = "reply"
                       PROVE  Awaits(k)'
          BY <1>2 DEF Awaits
        <5>2. Len(toServer'[k]) <= 1
          BY <3>1, <3>2, <5>1 DEF Awaits
        <5>3. \A x \in In(toServer'[k]) : x.msg = "command"
          BY <1>20, <3>1, <5>1 DEF Awaits
        <5> QED
          BY <4>1, <5>2, <5>3 DEF Awaits
      <4> QED
        BY <4>2, <4>3, <4>4, <4>5 DEF GuestOf
    <3> QED
      BY <1>4, <3>5, <3>6
  <2> QED
    BY <2>1, <2>2 DEF AllGuests
<1>27. Fua'
  <2>1. m.fua = TRUE => m.handle \in fua'[k] \/ ~up'[k]
    BY <1>3 DEF NInv, Types, TypeOK
  <2>2. up[k] = FALSE => toClient'[k] = toClient[k]
    BY <1>16 DEF q
  <2> QED
    BY <1>6, <1>7, <1>11, <1>16, <2>1, <2>2, FuaAfterCommand DEF m
<1>28. FuaThreads'
  BY <1>6, <1>11 DEF NInv, FuaThreads, Ready
<1>29. CallsTakeEffect' /\ FlushCovers'
  BY <1>2, <1>7, EffectFrame, FlushFrame DEF NInv, Effect
<1> QED
  BY <1>12, <1>17, <1>21, <1>22, <1>23, <1>25, <1>26, <1>27, <1>28, <1>29 DEF NInv

\* the write of the answer ends the server
LEMMA CommandKilledStep ==
  ASSUME NInv, NEW k \in Connections, ReceiveCommand(k), NEW err \in BOOLEAN,
         Effect(toServer[k][1], err), Killed, toClient' = toClient
  PROVE  NInv'
<1> DEFINE m == toServer[k][1]
<1>1. UNCHANGED <<pc, call, nr, fd, used, result, guest, command, count, acked, before>>
      /\ m.handle \in Handles
  BY ReceiveCommandFacts DEF Commands
<1>2. promised' \in SUBSET (Guests \X Nat) /\ History'
  BY CommandEffect
<1>3. Effect(m, err)
  OBVIOUS
<1>4. /\ up' \in [Connections -> BOOLEAN] /\ toServer' \in [Connections -> Seq(Requests)]
      /\ state' \in [Connections -> {"none", "client flags", "options", "transmission", "terminate"}]
      /\ fua' \in [Connections -> SUBSET Handles]
      /\ \A j \in Connections : Ends(j) /\ ~up'[j] /\ fua'[j] \subseteq fua[j]
  BY KilledEnds
<1>5. Fua'
  BY <1>4, FuaAfterCommand
<1> HIDE DEF m
<1>6. Types'
  <2>1. TypeOK'
    BY <1>1, <1>3, <1>4 DEF NInv, Types, TypeOK, Effect
  <2>2. written' \in SUBSET Handles /\ synced' \in SUBSET Handles /\ seen' \in SUBSET Values
    BY <1>1, <1>3 DEF NInv, Types, Effect
  <2> QED
    BY <1>1, <1>2, <1>4, <2>1, <2>2 DEF NInv, Types
<1>7. written \subseteq written' /\ synced \subseteq synced' /\ seen \subseteq seen'
  BY <1>3 DEF Effect
<1> QED
  BY <1>1, <1>2, <1>4, <1>5, <1>6, <1>7, ServerEnds

LEMMA ReceiveCommandStep ==
  ASSUME NInv, NEW k \in Connections, ReceiveCommand(k)
  PROVE  NInv'
<1>1. PICK err \in BOOLEAN :
        /\ Effect(toServer[k][1], err)
        /\ Goes(k, toServer[k][1], err) \/ (Killed /\ toClient' = toClient)
  BY ReceiveCommandFacts
<1> QED
  BY <1>1, CommandGoesStep, CommandKilledStep

-----------------------------------------------------------------------------
(***************************************************************************)
(* The backend.                                                            *)
(***************************************************************************)

\* what the guests see does not change
LEMMA OfBackend ==
  ASSUME NInv, Types', History', Shape', Owner', Place', Exchange', CallsTakeEffect',
         pc' = "idle" /\ result'.ok /\ call'.op = "fsync" => before'[Backend] \subseteq synced',
         UNCHANGED <<guest, command, count, fua, written, synced, promised>>,
         \A g \in Guests : /\ state'[g] = state[g] /\ up'[g] = up[g] /\ before'[g] = before[g]
                           /\ toServer'[g] = toServer[g] /\ toClient'[g] = toClient[g],
         \A k \in Connections : state'[k] = state[k] \/ state[k] = "none"
  PROVE  NInv'
<1>1. \A g \in Guests : Ends(g)
  BY Apart, Stays DEF NInv
<1>2. AllGuests'
  BY <1>1, GuestFrame DEF NInv, AllGuests
<1>3. Fua'
  BY FuaFrame DEF NInv, Fua
<1>4. FuaThreads'
  BY DEF NInv, FuaThreads, Ready
<1>5. FlushCovers'
  BY DEF NInv, FlushCovers
<1> QED
  BY <1>2, <1>3, <1>4, <1>5 DEF NInv

LEMMA ExchangeClient ==
  ASSUME Exchange, NEW c, c = toClient'[fd],
         UNCHANGED <<nr, call, fd, before, written, synced, seen, up>>,
         \A m \in In(toServer'[fd]) : SentOK(m),
         \A r \in In(c) : ToldOK(r),
         pc' # "idle" => Brings(c),
         pc' = "data" => call.op = "get" /\ (IF c # <<>> THEN Datum(c[1]) ELSE ~up[fd])
  PROVE  Exchange'
<1>1. Handle' = Handle /\ Request' = Request
  BY DEF Handle, Request
<1>2. (\A m : SentOK(m)' <=> SentOK(m)) /\ (\A r : ToldOK(r)' <=> ToldOK(r)) /\ (\A r : Ok(r)' <=> Ok(r))
      /\ (\A r : Datum(r)' <=> Datum(r))
  BY <1>1 DEF SentOK, ToldOK, Ok, Datum
<1>3. Brings(c)' <=> Brings(c)
  BY <1>2 DEF Brings
<1>4. (\A m \in In(toServer[fd]) : SentOK(m))'
  BY <1>2
<1>5. \A r \in In(c) : ToldOK(r)'
  BY <1>2
<1>6. DataNext'
  BY <1>2 DEF DataNext
<1> QED
  BY <1>3, <1>4, <1>5, <1>6 DEF Exchange

LEMMA BringsRest ==
  ASSUME NEW q, NEW c, Brings(q), Rest(c, q)
  PROVE  Brings(c)
<1>1. SUFFICES ASSUME NEW i \in 1 .. Len(c), Ok(c[i]), call.op = "get"
               PROVE  IF i < Len(c) THEN Datum(c[i + 1]) ELSE ~up[fd]
  BY DEF Brings
<1>2. Len(c) = Len(q) - 1 /\ Len(c) \in Nat /\ Len(q) \in Nat /\ \A j \in 1 .. Len(c) : c[j] = q[j + 1]
  BY DEF Rest
<1>3. i + 1 \in 1 .. Len(q) /\ c[i] = q[i + 1] /\ (i < Len(c) <=> i + 1 < Len(q))
  BY <1>2
<1>4. IF i + 1 < Len(q) THEN Datum(q[(i + 1) + 1]) ELSE ~up[fd]
  BY <1>1, <1>3 DEF Brings
<1>5. i < Len(c) => c[i + 1] = q[(i + 1) + 1]
  BY <1>2
<1> QED
  BY <1>3, <1>4, <1>5

LEMMA HandshakeFailsStep ==
  ASSUME NInv, HandshakeFails
  PROVE  NInv'
<1>1. /\ pc \in {"init", "options recv"} /\ ~up[fd] /\ toClient[fd] = <<>>
      /\ pc' = IF call.op = "none" THEN "idle" ELSE "send"
      /\ UNCHANGED <<call, nr, fd, used, result, seen, store, state, fua, written, synced, promised,
                     guest, command, count, up, toServer, toClient, acked, before>>
  BY DEF HandshakeFails, Lost, Reconnected, server, guests
<1>2. Types'
  BY <1>1 DEF NInv, Types, TypeOK
<1>3. History' /\ Shape'
  <2>1. History'
    BY <1>1 DEF NInv, History
  <2>2. Shape'
    BY <1>1, Stays, ShapeFrame DEF NInv, Shape
  <2> QED
    BY <2>1, <2>2
<1>4. Owner'
  BY <1>1 DEF NInv, Owner
<1>5. Place'
  BY <1>1 DEF Place
<1>6. Exchange'
  <2>1. PICK c : c = toClient'[fd]
    OBVIOUS
  <2>2. toClient[fd] \in Seq(Answers)
    BY FdOwned DEF NInv, Types
  <2>3. Len(c) = 0 /\ In(c) = {}
    BY <1>1, <2>1, <2>2, EmptyQueue
  <2>4. Brings(c)
    BY <2>3 DEF Brings
  <2> QED
    BY <1>1, <2>1, <2>3, <2>4, ExchangeClient DEF NInv, Exchange
<1>7. CallsTakeEffect' /\ ~(pc' = "idle" /\ call'.op = "fsync")
  BY <1>1 DEF CallsTakeEffect
<1> QED
  BY <1>1, <1>2, <1>3, <1>4, <1>5, <1>6, <1>7, OfBackend

LEMMA AnswerFailsStep ==
  ASSUME NInv, AnswerFails
  PROVE  NInv'
<1>1. /\ pc \in {"header", "data"} /\ toClient[fd] = <<>> /\ pc' = "connect"
      /\ UNCHANGED <<call, nr, fd, used, result, seen, store, state, fua, written, synced, promised,
                     guest, command, count, up, toServer, toClient, acked, before>>
  BY DEF AnswerFails, Lost, Retry, server, guests
<1>2. Types'
  BY <1>1 DEF NInv, Types, TypeOK
<1>3. History' /\ Shape'
  <2>1. History'
    BY <1>1 DEF NInv, History
  <2>2. Shape'
    BY <1>1, Stays, ShapeFrame DEF NInv, Shape
  <2> QED
    BY <2>1, <2>2
<1>4. Owner'
  BY <1>1 DEF NInv, Owner
<1>5. Place'
  BY <1>1 DEF Place
<1>6. Exchange'
  <2>1. PICK c : c = toClient'[fd]
    OBVIOUS
  <2>2. toClient[fd] \in Seq(Answers)
    BY FdOwned DEF NInv, Types
  <2>3. Len(c) = 0 /\ In(c) = {}
    BY <1>1, <2>1, <2>2, EmptyQueue
  <2>4. Brings(c)
    BY <2>3 DEF Brings
  <2> QED
    BY <1>1, <2>1, <2>3, <2>4, ExchangeClient DEF NInv, Exchange
<1>7. CallsTakeEffect' /\ pc' # "idle"
  BY <1>1 DEF CallsTakeEffect
<1> QED
  BY <1>1, <1>2, <1>3, <1>4, <1>5, <1>6, <1>7, OfBackend

LEMMA ReceiveHelloStep ==
  ASSUME NInv, ReceiveHello
  PROVE  NInv'
<1>19. PICK flags : flags = [msg |-> "flags"]
  OBVIOUS
<1>20. PICK option : option = [msg |-> "option", option |-> "export name", known |-> TRUE]
  OBVIOUS
<1>1. /\ pc = "init" /\ toClient[fd] # <<>> /\ toClient' = Hear(fd, toClient)
      /\ UNCHANGED <<call, nr, fd, used, result, seen, store, state, fua, written, synced, promised,
                     guest, command, count, up, acked, before>>
      /\ IF up[fd]
         THEN pc' = "options recv" /\ toServer' = [toServer EXCEPT ![fd] = @ \o <<flags, option>>]
         ELSE /\ pc' \in {IF call.op = "none" THEN "idle" ELSE "send", "dead"}
              /\ toServer' = toServer
  BY <1>19, <1>20 DEF ReceiveHello, Reconnected, server, guests
<1>2. /\ toServer \in [Connections -> Seq(Requests)] /\ toClient \in [Connections -> Seq(Answers)]
      /\ up[fd] \in BOOLEAN /\ toServer[fd] = <<>> /\ Len(toClient[fd]) <= 1
      /\ state[fd] \in {"none", "client flags", "terminate"} /\ (state[fd] = "none" => ~up[fd])
  BY <1>1, FdOwned DEF NInv, Types, TypeOK, Place, Shape, ShapeOf
<1>3. /\ toClient' \in [Connections -> Seq(Answers)]
      /\ \A j \in Connections \ {fd} : toClient'[j] = toClient[j]
      /\ Rest(toClient'[fd], toClient[fd])
      /\ toClient'[fd] = <<>> <=> Len(toClient[fd]) = 1
  BY <1>1, <1>2, FdOwned, HearClient
<1>4. toClient'[fd] = <<>> /\ Len(toClient'[fd]) = 0 /\ In(toClient'[fd]) = {}
  <2>1. Len(toClient[fd]) \in Nat /\ Len(toClient[fd]) # 0
    BY <1>3 DEF Rest
  <2>2. Len(toClient[fd]) = 1
    BY <1>2, <2>1, One
  <2>3. toClient'[fd] \in Seq(Answers) /\ toClient'[fd] = <<>>
    BY <1>3, <2>2, FdOwned
  <2> QED
    BY <2>3, EmptyQueue
<1>5. flags \in Requests /\ option \in Requests
  BY <1>19, <1>20 DEF Requests, Options
<1>6. /\ flags.msg = "flags" /\ option.msg = "option"
      /\ option.option = "export name" /\ option.known = TRUE
  BY <1>19, <1>20
<1>21. PICK p : p = <<flags, option>>
  OBVIOUS
<1>7. p \in Seq(Requests) /\ p[1] = flags /\ p[2] = option /\ Len(p) = 2
  BY <1>5, <1>21, Pair
<1>22. PICK e : e = toServer[fd] \o p
  OBVIOUS
<1>8. e \in Seq(Requests) /\ Len(e) = 2 /\ e[1] = flags /\ e[2] = option
  <2>1. toServer[fd] \in Seq(Requests) /\ Len(toServer[fd]) = 0
    BY <1>2, FdOwned, EmptyQueue
  <2>2. toServer[fd] \o p \in Seq(Requests) /\ Follows(toServer[fd] \o p, toServer[fd], p)
    BY <1>7, <2>1, ConcatFollows
  <2>3. e \in Seq(Requests) /\ Follows(e, toServer[fd], p)
    BY <1>22, <2>2
  <2>4. Len(e) = 0 + 2 /\ \A i \in 1 .. 2 : e[0 + i] = p[i]
    BY <1>7, <2>1, <2>3 DEF Follows
  <2> QED
    BY <1>7, <2>3, <2>4
<1>23. PICK s : s = toServer'[fd]
  OBVIOUS
<1>9. /\ toServer' \in [Connections -> Seq(Requests)]
      /\ \A j \in Connections \ {fd} : toServer'[j] = toServer[j]
      /\ s = <<>> \/ (up[fd] = TRUE /\ s = e)
  <2>1. CASE up[fd] = TRUE
    <3>1. toServer' = [toServer EXCEPT ![fd] = e]
      BY <1>1, <1>21, <1>22, <2>1
    <3> QED
      BY <1>2, <1>8, <1>23, <2>1, <3>1, FdOwned
  <2>2. CASE up[fd] = FALSE
    BY <1>1, <1>2, <1>23, <2>2, FdOwned
  <2> QED
    BY <1>2, <2>1, <2>2
<1>10. s \in Seq(Requests) /\ (s = <<>> => Len(s) = 0 /\ In(s) = {})
  BY <1>9, <1>23, FdOwned, EmptyQueue
<1>11. \A m \in In(s) : m = flags \/ m = option
  <2>1. CASE s = <<>>
    BY <1>10, <2>1
  <2>2. CASE s = e
    <3>1. \A i \in 1 .. Len(e) : i = 1 \/ i = 2
      BY <1>8
    <3> QED
      BY <1>8, <2>2, <3>1 DEF In
  <2> QED
    BY <1>9, <2>1, <2>2
<1>12. Types'
  BY <1>1, <1>3, <1>9 DEF NInv, Types, TypeOK
<1>13. History'
  BY <1>1 DEF NInv, History
<1>14. Shape'
  <2>1. ASSUME NEW j \in Connections, j # fd
        PROVE  ShapeOf(j)'
    <3>1. Ends(j)
      BY <1>1, <1>9, <2>1, Stays DEF NInv
    <3> QED
      BY <3>1, ShapeFrame DEF NInv, Shape
  <2>2. ASSUME NEW j \in Connections, j = fd
        PROVE  ShapeOf(j)'
    <3>1. /\ state'[j] \in {"none", "client flags", "terminate"} /\ toServer'[j] = s
          /\ state'[j] = "none" => ~up'[j] /\ ~up[fd]
      BY <1>1, <1>2, <1>23, <2>2
    <3>2. CASE s = <<>>
      <4>1. Len(s) <= 2 /\ \A i \in 1 .. Len(s) : s[i].msg = IF i = 1 THEN "flags" ELSE "option"
        BY <1>10, <3>2
      <4> QED
        BY <3>1, <3>2, <4>1 DEF ShapeOf
    <3>3. CASE s = e /\ up[fd] = TRUE
      <4>4. Len(s) = 2
        BY <1>8, <3>3
      <4>1. Len(s) <= 2
        BY <4>4
      <4>2. \A i \in 1 .. Len(s) : i = 1 \/ i = 2
        BY <4>4
      <4>3. \A i \in 1 .. Len(s) : s[i].msg = IF i = 1 THEN "flags" ELSE "option"
        BY <1>6, <1>8, <3>3, <4>2
      <4> QED
        BY <3>1, <3>3, <4>1, <4>3 DEF ShapeOf
    <3> QED
      BY <1>9, <3>2, <3>3
  <2> QED
    BY <2>1, <2>2 DEF Shape
<1>15. Owner'
  <2>1. ASSUME NEW k \in Owned
        PROVE  /\ k > used' => state'[k] = "none"
               /\ \A m \in In(toServer'[k]) :
                    /\ m.msg = "option" => m.option = "export name" /\ m.known = TRUE
                    /\ m.msg = "command" => m.fua = FALSE
    <3>1. CASE k = fd
      BY <1>1, <1>6, <1>11, <1>23, <2>1, <3>1 DEF NInv, Owner
    <3>2. CASE k # fd
      <4>1. toServer'[k] = toServer[k]
        BY <1>9, <3>2, Apart
      <4> QED
        BY <1>1, <4>1 DEF NInv, Owner
    <3> QED
      BY <3>1, <3>2
  <2> QED
    BY <1>1, <2>1 DEF NInv, Owner
<1>16. Place'
  BY <1>1, <1>4 DEF Place
<1>17. Exchange'
  <2>1. PICK c : c = toClient'[fd]
    OBVIOUS
  <2>2. Len(c) = 0 /\ In(c) = {}
    BY <1>4, <2>1
  <2>3. Brings(c)
    BY <2>2 DEF Brings
  <2>4. \A m \in In(toServer'[fd]) : SentOK(m)
    BY <1>6, <1>11, <1>23 DEF SentOK
  <2> QED
    BY <1>1, <2>1, <2>2, <2>3, <2>4, ExchangeClient DEF NInv
<1>18. CallsTakeEffect' /\ ~(pc' = "idle" /\ call'.op = "fsync")
  BY <1>1 DEF CallsTakeEffect
<1> QED
  BY <1>1, <1>3, <1>9, <1>12, <1>13, <1>14, <1>15, <1>16, <1>17, <1>18, OfBackend, Apart, FdOwned

LEMMA ReceiveExportStep ==
  ASSUME NInv, ReceiveExport
  PROVE  NInv'
<1> DEFINE rest == [msg |-> "rest"]
           q == toClient[fd]
<1>1. /\ pc = "options recv" /\ q # <<>>
      /\ pc' = IF call.op = "none" THEN "idle" ELSE "send"
      /\ toClient' = IF Head(q).msg = "size" THEN Hear(fd, toClient)
                     ELSE [toClient EXCEPT ![fd] = <<rest>> \o Tail(@)]
      /\ UNCHANGED <<call, nr, fd, used, result, seen, store, state, fua, written, synced, promised,
                     guest, command, count, up, toServer, acked, before>>
  BY DEF ReceiveExport, Reconnected, server, guests
<1>2. toClient \in [Connections -> Seq(Answers)] /\ q \in Seq(Answers)
  BY FdOwned DEF NInv, Types
<1>15. PICK t : t = Tail(q)
  OBVIOUS
<1>3. t \in Seq(Answers) /\ Rest(t, q)
  BY <1>1, <1>2, <1>15, TailFacts, RestIs
<1>16. PICK d : d = <<rest>>
  OBVIOUS
<1>4. d \in Seq(Answers) /\ Len(d) = 1 /\ d[1] = rest /\ In(d) = {rest}
  <2>1. rest \in Answers
    BY DEF Answers
  <2> QED
    BY <1>16, <2>1 DEF In
<1>17. PICK e : e = d \o t
  OBVIOUS
<1>5. e \in Seq(Answers) /\ Follows(e, d, t)
  <2>1. d \o t \in Seq(Answers) /\ Follows(d \o t, d, t)
    BY <1>3, <1>4, ConcatFollows
  <2> QED
    BY <1>17, <2>1
<1>18. PICK c : c = toClient'[fd]
  OBVIOUS
<1>6. /\ toClient' \in [Connections -> Seq(Answers)]
      /\ \A j \in Connections \ {fd} : toClient'[j] = toClient[j]
      /\ c = t \/ c = e
  <2>1. toClient' = [toClient EXCEPT ![fd] = t] \/ toClient' = [toClient EXCEPT ![fd] = e]
    BY <1>1, <1>15, <1>16, <1>17 DEF Hear
  <2> QED
    BY <1>2, <1>3, <1>5, <1>18, <2>1, FdOwned
<1> HIDE DEF q
<1>7. \A r \in In(c) : ToldOK(r)
  <2>1. \A r \in In(q) : ToldOK(r)
    BY DEF NInv, Exchange, q
  <2>2. ToldOK(rest)
    BY DEF ToldOK, Ok
  <2>3. \A r \in In(t) : ToldOK(r)
    BY <1>3, <2>1 DEF Rest
  <2>4. \A r \in In(e) : ToldOK(r)
    BY <1>4, <1>5, <2>2, <2>3 DEF Follows
  <2> QED
    BY <1>6, <2>3, <2>4
<1>8. Brings(c)
  <2>1. Brings(q)
    BY <1>1 DEF NInv, Exchange, q
  <2>2. Brings(t)
    BY <1>3, <2>1, BringsRest
  <2>3. Brings(e)
    <3>1. SUFFICES ASSUME NEW i \in 1 .. Len(e), Ok(e[i]), call.op = "get"
                   PROVE  IF i < Len(e) THEN Datum(e[i + 1]) ELSE ~up[fd]
      BY DEF Brings
    <3>2. /\ Len(e) = Len(t) + 1 /\ Len(t) \in Nat /\ e[1] = rest
          /\ \A j \in 1 .. Len(t) : e[1 + j] = t[j]
      BY <1>4, <1>5 DEF Follows, Begins
    <3>3. ~Ok(rest)
      BY DEF Ok
    <3>4. i # 1
      BY <3>1, <3>2, <3>3
    <3>5. i - 1 \in 1 .. Len(t) /\ 1 + (i - 1) = i
      BY <3>1, <3>2, <3>4
    <3>6. e[i] = t[i - 1]
      BY <3>2, <3>5
    <3>7. IF i - 1 < Len(t) THEN Datum(t[(i - 1) + 1]) ELSE ~up[fd]
      BY <2>2, <3>1, <3>5, <3>6 DEF Brings
    <3>8. i < Len(e) <=> i - 1 < Len(t)
      BY <3>2, <3>5
    <3>9. i < Len(e) => i \in 1 .. Len(t) /\ (i - 1) + 1 = i /\ 1 + i = i + 1
      BY <3>2
    <3>10. i < Len(e) => e[i + 1] = t[(i - 1) + 1]
      BY <3>2, <3>9
    <3> QED
      BY <3>7, <3>8, <3>10
  <2> QED
    BY <1>6, <2>2, <2>3
<1>9. Types'
  BY <1>1, <1>6 DEF NInv, Types, TypeOK
<1>10. History' /\ Shape'
  <2>1. History'
    BY <1>1 DEF NInv, History
  <2>2. Shape'
    BY <1>1, Stays, ShapeFrame DEF NInv, Shape
  <2> QED
    BY <2>1, <2>2
<1>11. Owner'
  BY <1>1 DEF NInv, Owner
<1>12. Place'
  BY <1>1 DEF NInv, Place, Ready, q
<1>13. Exchange'
  <2>1. \A m \in In(toServer'[fd]) : SentOK(m)
    BY <1>1 DEF NInv, Exchange
  <2> QED
    BY <1>1, <1>7, <1>8, <1>18, <2>1, ExchangeClient DEF NInv
<1>14. CallsTakeEffect' /\ ~(pc' = "idle" /\ call'.op = "fsync")
  BY <1>1 DEF CallsTakeEffect
<1> QED
  BY <1>1, <1>6, <1>9, <1>10, <1>11, <1>12, <1>13, <1>14, OfBackend, Apart, FdOwned

LEMMA SendStep ==
  ASSUME NInv, Send
  PROVE  NInv'
<1>1. /\ pc = "send"
      /\ IF up[fd] THEN pc' = "header" /\ toServer' = Say(fd, toServer, Request)
         ELSE pc' \in {"header", "connect", "dead"} /\ toServer' = toServer
      /\ UNCHANGED <<call, nr, fd, used, result, seen, store, state, fua, written, synced, promised,
                     guest, command, count, up, toClient, acked, before>>
  BY DEF Send, Retry, server, guests
<1>2. /\ toServer \in [Connections -> Seq(Requests)] /\ toClient \in [Connections -> Seq(Answers)]
      /\ up[fd] \in BOOLEAN /\ call.op # "none"
  BY <1>1, FdOwned DEF NInv, Types, TypeOK
<1>3. /\ Request \in Requests /\ Request.msg = "command" /\ Request.handle = Handle
      /\ Request.fua = FALSE
  <2>1. call \in Calls /\ nr \in Nat
    BY TypeFacts DEF NInv
  <2>2. Request \in Commands /\ ~Request.fua /\ Request \in Requests /\ Request.msg = "command"
        /\ Request.handle = Handle
    BY <1>2, <2>1, RequestIs
  <2>3. Request.fua \in BOOLEAN
    BY <2>2 DEF Commands
  <2> QED
    BY <2>2, <2>3
<1>4. SentOK(Request)
  <2>1. Handle \in {Backend} \X (0 .. nr)
    <3>1. nr \in Nat
      BY TypeFacts DEF NInv
    <3> QED
      BY <3>1 DEF Handle
  <2> QED
    BY <1>2, <1>3, <2>1 DEF SentOK
<1>14. PICK x : x = Request
  OBVIOUS
<1>5. /\ toServer' \in [Connections -> Seq(Requests)]
      /\ \A j \in Connections \ {fd} : toServer'[j] = toServer[j]
      /\ toServer'[fd] = toServer[fd] \/ (up[fd] = TRUE /\ Adds(toServer'[fd], toServer[fd], x))
  <2>1. CASE up[fd] = TRUE
    <3>1. toServer' = Say(fd, toServer, x) /\ x \in Requests
      BY <1>1, <1>3, <1>14, <2>1
    <3> QED
      BY <1>2, <2>1, <3>1, FdOwned, SayToServer
  <2>2. CASE up[fd] = FALSE
    BY <1>1, <1>2, <2>2
  <2> QED
    BY <1>2, <2>1, <2>2
<1>6. Types'
  BY <1>1, <1>2, <1>5 DEF NInv, Types, TypeOK
<1>7. History'
  BY <1>1 DEF NInv, History
<1>8. \A m \in In(toServer'[fd]) : m \in In(toServer[fd]) \/ m = x
  BY <1>5 DEF Adds
<1>9. Shape'
  <2>1. ASSUME NEW j \in Connections, toServer'[j] = toServer[j]
        PROVE  ShapeOf(j)'
    <3>1. Ends(j)
      BY <1>1, <2>1, Stays DEF NInv
    <3> QED
      BY <3>1, ShapeFrame DEF NInv, Shape
  <2>2. ASSUME up[fd] = TRUE
        PROVE  \A j \in Connections : j = fd => ShapeOf(j)'
    <3>1. SUFFICES ASSUME NEW j \in Connections, j = fd
                   PROVE  ShapeOf(j)'
      OBVIOUS
    <3>2. state'[j] \in {"transmission", "terminate"}
      BY <1>1, <2>2, <3>1 DEF NInv, Place, Ready
    <3>3. state'[j] = "transmission" => \A m \in In(toServer'[j]) : m.msg = "command"
      BY <1>1, <1>3, <1>8, <1>14, <3>1 DEF NInv, Shape, ShapeOf
    <3> QED
      BY <3>2, <3>3 DEF ShapeOf
  <2>3. \A j \in Connections : j # fd => toServer'[j] = toServer[j]
    BY <1>5
  <2>4. toServer'[fd] = toServer[fd] \/ up[fd] = TRUE
    BY <1>5
  <2> QED
    BY <2>1, <2>2, <2>3, <2>4 DEF Shape
<1>10. Owner'
  <2>1. ASSUME NEW k \in Owned
        PROVE  /\ k > used' => state'[k] = "none"
               /\ \A m \in In(toServer'[k]) :
                    /\ m.msg = "option" => m.option = "export name" /\ m.known = TRUE
                    /\ m.msg = "command" => m.fua = FALSE
    <3>1. CASE k = fd
      BY <1>1, <1>3, <1>8, <1>14, <2>1, <3>1 DEF NInv, Owner
    <3>2. CASE k # fd
      BY <1>1, <1>5, <2>1, <3>2, Apart DEF NInv, Owner
    <3> QED
      BY <3>1, <3>2
  <2> QED
    BY <1>1, <2>1 DEF NInv, Owner
<1>11. Place'
  BY <1>1 DEF NInv, Place, Ready
<1>12. Exchange'
  <2>1. PICK c : c = toClient'[fd]
    OBVIOUS
  <2>2. \A m \in In(toServer'[fd]) : SentOK(m)
    BY <1>4, <1>8, <1>14 DEF NInv, Exchange
  <2> QED
    BY <1>1, <2>1, <2>2, ExchangeClient DEF NInv, Exchange
<1>13. CallsTakeEffect' /\ pc' # "idle"
  BY <1>1 DEF CallsTakeEffect
<1> QED
  BY <1>1, <1>5, <1>6, <1>7, <1>9, <1>10, <1>11, <1>12, <1>13, OfBackend, Apart, FdOwned

LEMMA ReceiveHeaderStep ==
  ASSUME NInv, ReceiveHeader
  PROVE  NInv'
<1> DEFINE q == toClient[fd]
           r == toClient[fd][1]
<1>1. /\ pc = "header" /\ q # <<>> /\ toClient' = Hear(fd, toClient)
      /\ UNCHANGED <<call, nr, fd, used, seen, store, state, fua, written, synced, promised,
                     guest, command, count, up, toServer, before>>
  BY DEF ReceiveHeader, server, guests
<1>2. toClient \in [Connections -> Seq(Answers)]
  BY DEF NInv, Types
<1>3. /\ toClient' \in [Connections -> Seq(Answers)]
      /\ \A j \in Connections \ {fd} : toClient'[j] = toClient[j]
      /\ Rest(toClient'[fd], q) /\ Head(q) = r /\ r \in Answers
      /\ toClient'[fd] = <<>> <=> Len(q) = 1
  BY <1>1, <1>2, FdOwned, HearClient
<1>4. Len(q) \in Nat /\ Len(q) # 0 /\ r \in In(q)
  BY <1>3 DEF Rest
<1>5. PICK c : c = toClient'[fd]
  OBVIOUS
<1>6. Rest(c, q) /\ (c = <<>> <=> Len(q) = 1) /\ Len(c) \in Nat
  BY <1>3, <1>5 DEF Rest
<1>7. ToldOK(r) /\ Brings(q) /\ \A x \in In(c) : ToldOK(x)
  <2>1. \A x \in In(q) : ToldOK(x)
    BY DEF NInv, Exchange
  <2>2. Brings(q)
    BY <1>1 DEF NInv, Exchange
  <2> QED
    BY <1>4, <1>6, <2>1, <2>2 DEF Rest
<1>8. \/ /\ r.msg = "reply" /\ r.handle = Handle /\ r.err = TRUE
         /\ pc' = "idle" /\ result' = [ok |-> FALSE, data |-> Zero] /\ acked' = acked
      \/ /\ Ok(r) /\ call.op = "get"
         /\ pc' = "data" /\ result' = result /\ acked' = acked
      \/ /\ Ok(r) /\ call.op # "get"
         /\ pc' = "idle" /\ result' = [ok |-> TRUE, data |-> Zero]
         /\ acked' = IF call.op = "put" THEN acked \cup {Handle} ELSE acked
      \/ /\ pc' = "connect" /\ result' = result /\ acked' = acked
  <2>1. \/ /\ Mine(r)
           /\ IF r.err THEN Return(FALSE, Zero)
              ELSE IF call.op = "get" THEN pc' = "data" /\ UNCHANGED <<result, acked>>
              ELSE Return(TRUE, Zero)
        \/ pc' = "connect" /\ UNCHANGED <<result, acked>>
    BY <1>3 DEF ReceiveHeader, Retry
  <2>2. CASE Mine(r)
    <3>1. r.err \in BOOLEAN
      BY <1>3, <2>2, AnswerKinds DEF Mine, Replies
    <3>2. r.msg = "reply" /\ r.handle = Handle
      BY <2>2 DEF Mine
    <3> HIDE DEF r
    <3> QED
      BY <2>1, <3>1, <3>2 DEF Return, Ok
  <2>3. CASE ~Mine(r)
    BY <2>1, <2>3
  <2> QED
    BY <2>2, <2>3
<1>9. call.op # "none"
  BY <1>1 DEF NInv, Types, TypeOK
<1> HIDE DEF r, q
<1>10. result' \in [ok : BOOLEAN, data : Values]
  <2>1. [ok |-> FALSE, data |-> Zero] \in [ok : BOOLEAN, data : Values]
    BY NbdDataAssumption
  <2>2. [ok |-> TRUE, data |-> Zero] \in [ok : BOOLEAN, data : Values]
    BY NbdDataAssumption
  <2>3. result \in [ok : BOOLEAN, data : Values]
    BY DEF NInv, Types
  <2> QED
    BY <1>8, <2>1, <2>2, <2>3
<1>11. acked \subseteq acked' /\ acked' \in SUBSET Handles
  <2>1. Handle \in Handles
    <3>1. nr \in Nat
      BY TypeFacts DEF NInv
    <3> QED
      BY <3>1 DEF Handle, Handles
  <2> QED
    BY <1>8, <2>1 DEF NInv, Types
<1>12. pc' \in {"idle", "data", "connect"}
  BY <1>8
<1>13. Types'
  <2>1. TypeOK'
    BY <1>1, <1>9, <1>12 DEF NInv, Types, TypeOK
  <2> QED
    BY <1>1, <1>3, <1>10, <1>11, <2>1 DEF NInv, Types
<1>14. History'
  <2>1. acked' \subseteq written
    BY <1>7, <1>8 DEF NInv, History, ToldOK
  <2> QED
    BY <1>1, <1>11, <2>1 DEF NInv, History
<1>15. Shape'
  <2>1. ASSUME NEW j \in Connections
        PROVE  ShapeOf(j)'
    <3>1. Ends(j)
      BY <1>1, Stays DEF NInv
    <3> QED
      BY <3>1, ShapeFrame DEF NInv, Shape
  <2> QED
    BY <2>1 DEF Shape
<1>16. Owner'
  BY <1>1 DEF NInv, Owner
<1>17. Place'
  BY <1>1, <1>12 DEF NInv, Place, Ready
<1>18. Exchange'
  <2>1. Brings(c)
    BY <1>6, <1>7, BringsRest
  <2>2. ASSUME pc' = "data"
        PROVE  call.op = "get" /\ (IF c # <<>> THEN Datum(c[1]) ELSE ~up[fd])
    <3>1. Ok(r) /\ call.op = "get"
      BY <1>8, <2>2
    <3>2. 1 \in 1 .. Len(q) /\ q[1] = r
      BY <1>4 DEF q, r
    <3>3. IF 1 < Len(q) THEN Datum(q[1 + 1]) ELSE ~up[fd]
      BY <1>7, <3>1, <3>2 DEF Brings
    <3>4. CASE c = <<>>
      <4>1. ~(1 < Len(q))
        <5>1. Len(q) = 1
          BY <1>6, <3>4
        <5> QED
          BY <5>1
      <4> QED
        BY <3>1, <3>3, <3>4, <4>1
    <3>5. CASE c # <<>>
      <4>1. 1 < Len(q)
        <5>1. Len(q) # 1
          BY <1>6, <3>5
        <5> QED
          BY <1>4, <5>1, Several
      <4>2. 1 \in 1 .. Len(c)
        BY <1>6, <4>1 DEF Rest
      <4>3. c[1] = q[1 + 1]
        BY <1>6, <4>2 DEF Rest
      <4> QED
        BY <3>1, <3>3, <3>5, <4>1, <4>3
    <3> QED
      BY <3>4, <3>5
  <2>3. \A m \in In(toServer'[fd]) : SentOK(m)
    BY <1>1 DEF NInv, Exchange
  <2> QED
    BY <1>1, <1>5, <1>7, <2>1, <2>2, <2>3, ExchangeClient DEF NInv
<1>19. CallsTakeEffect'
  <2>1. Handle' = Handle
    BY <1>1 DEF Handle
  <2> QED
    BY <1>1, <1>7, <1>8, <2>1 DEF CallsTakeEffect, ToldOK
<1>20. pc' = "idle" /\ result'.ok /\ call'.op = "fsync" => before'[Backend] \subseteq synced'
  BY <1>1, <1>7, <1>8 DEF ToldOK
<1> QED
  BY <1>1, <1>3, <1>13, <1>14, <1>15, <1>16, <1>17, <1>18, <1>19, <1>20, OfBackend, Apart, FdOwned

LEMMA ReceiveDataStep ==
  ASSUME NInv, ReceiveData
  PROVE  NInv'
<1> DEFINE q == toClient[fd]
           r == toClient[fd][1]
<1>1. /\ pc = "data" /\ q # <<>> /\ toClient' = Hear(fd, toClient)
      /\ UNCHANGED <<call, nr, fd, used, seen, store, state, fua, written, synced, promised,
                     guest, command, count, up, toServer, before>>
  BY DEF ReceiveData, server, guests
<1>2. toClient \in [Connections -> Seq(Answers)]
  BY DEF NInv, Types
<1>3. /\ toClient' \in [Connections -> Seq(Answers)]
      /\ \A j \in Connections \ {fd} : toClient'[j] = toClient[j]
      /\ Rest(toClient'[fd], q) /\ Head(q) = r
  BY <1>1, <1>2, FdOwned, HearClient
<1>4. call.op = "get" /\ r.data \in seen
  BY <1>1 DEF NInv, Exchange, DataNext, Datum
<1>5. pc' = "idle" /\ result' = [ok |-> TRUE, data |-> r.data] /\ acked' = acked
  BY <1>3, <1>4 DEF ReceiveData, Return
<1>6. PICK c : c = toClient'[fd]
  OBVIOUS
<1> HIDE DEF q, r
<1>7. Types'
  <2>1. r.data \in Values
    BY <1>4 DEF NInv, Types
  <2>2. result' \in [ok : BOOLEAN, data : Values]
    BY <1>5, <2>1
  <2>3. TypeOK'
    BY <1>1, <1>5 DEF NInv, Types, TypeOK
  <2> QED
    BY <1>1, <1>3, <1>5, <2>2, <2>3 DEF NInv, Types
<1>8. History'
  BY <1>1, <1>5 DEF NInv, History
<1>9. Shape'
  <2>1. ASSUME NEW j \in Connections
        PROVE  ShapeOf(j)'
    <3>1. Ends(j)
      BY <1>1, Stays DEF NInv
    <3> QED
      BY <3>1, ShapeFrame DEF NInv, Shape
  <2> QED
    BY <2>1 DEF Shape
<1>10. Owner'
  BY <1>1, <1>5 DEF NInv, Owner
<1>11. Place'
  BY <1>1, <1>5 DEF NInv, Place, Ready
<1>12. Exchange'
  <2>1. \A x \in In(c) : ToldOK(x)
    <3>1. \A x \in In(q) : ToldOK(x)
      BY DEF NInv, Exchange, q
    <3> QED
      BY <1>3, <1>6, <3>1 DEF Rest
  <2>2. \A m \in In(toServer'[fd]) : SentOK(m)
    BY <1>1 DEF NInv, Exchange
  <2> QED
    BY <1>1, <1>5, <1>6, <2>1, <2>2, ExchangeClient DEF NInv
<1>13. CallsTakeEffect'
  BY <1>1, <1>4, <1>5 DEF CallsTakeEffect
<1>14. call'.op # "fsync"
  BY <1>1, <1>4
<1> QED
  BY <1>1, <1>3, <1>7, <1>8, <1>9, <1>10, <1>11, <1>12, <1>13, <1>14, OfBackend, Apart, FdOwned

LEMMA CallStep ==
  ASSUME NInv, Call
  PROVE  NInv'
<1>1. PICK op \in {"get", "put", "fsync", "trim"}, b \in Blocks, v \in Values :
        /\ pc = "idle" /\ nr < MaxEach
        /\ nr' = nr + 1
        /\ call' = [op |-> op, block |-> b, data |-> v]
        /\ seen' = IF op = "get" THEN {store[b]} ELSE {}
        /\ before' = [before EXCEPT ![Backend] = IF op = "fsync" THEN acked ELSE {}]
        /\ pc' = "send"
        /\ UNCHANGED <<fd, used, result, store, state, fua, written, synced, promised,
                       guest, command, count, up, toServer, toClient, acked>>
  BY DEF Call, MayAsk, server, guests
<1>2. nr \in Nat /\ nr' \in 0 .. MaxEach
  <2>1. nr \in 0 .. MaxEach
    BY DEF NInv, Types, TypeOK
  <2> QED
    BY <1>1, <2>1, NbdBoundsAssumption
<1>3. before' \in [Guests \cup {Backend} -> SUBSET Handles]
      /\ (\A o \in Guests \cup {Backend} : before'[o] \subseteq acked)
      /\ \A g \in Guests : before'[g] = before[g]
  BY <1>1, BackendAssumption DEF NInv, Types, History
<1>4. Types'
  <2>1. call' \in Calls /\ call'.op # "none"
    BY <1>1 DEF Calls
  <2>2. seen' \in SUBSET Values
    <3>1. store[b] \in Values
      BY <1>1 DEF NInv, Types, TypeOK
    <3> QED
      BY <1>1, <3>1
  <2>3. TypeOK'
    BY <1>1, <1>2, <2>1 DEF NInv, Types, TypeOK
  <2> QED
    BY <1>1, <1>3, <2>1, <2>2, <2>3 DEF NInv, Types
<1>5. History'
  BY <1>1, <1>3 DEF NInv, History
<1>6. Shape'
  <2>1. ASSUME NEW j \in Connections
        PROVE  ShapeOf(j)'
    <3>1. Ends(j)
      BY <1>1, Stays DEF NInv
    <3> QED
      BY <3>1, ShapeFrame DEF NInv, Shape
  <2> QED
    BY <2>1 DEF Shape
<1>7. Owner'
  BY <1>1 DEF NInv, Owner
<1>8. Place'
  BY <1>1 DEF NInv, Place, Ready
<1>9. Exchange'
  <2>1. \A h \in {Backend} \X (0 .. nr) : h \in {Backend} \X (0 .. nr') /\ h # <<Backend, nr'>>
    BY <1>1, <1>2
  <2>2. Handle' = <<Backend, nr'>>
    BY DEF Handle
  <2>3. \A m : SentOK(m) => SentOK(m)'
    BY <2>1, <2>2 DEF SentOK
  <2>4. \A r : ToldOK(r) => ToldOK(r)' /\ ~Ok(r)'
    BY <2>1, <2>2 DEF ToldOK, Ok
  <2>5. \A r \in In(toClient[fd]) : ~Ok(r)'
    BY <2>4 DEF NInv, Exchange
  <2>6. PICK c : c = toClient[fd]
    OBVIOUS
  <2>7. \A i \in 1 .. Len(c) : ~Ok(c[i])'
    BY <2>5, <2>6 DEF In
  <2>8. Brings(c)'
    BY <2>7 DEF Brings
  <2>9. Brings(toClient[fd])'
    BY <1>1, <2>6, <2>8
  <2>10. DataNext'
    BY <1>1 DEF DataNext
  <2> QED
    BY <1>1, <2>3, <2>4, <2>9, <2>10 DEF NInv, Exchange
<1>10. CallsTakeEffect' /\ pc' # "idle"
  BY <1>1 DEF CallsTakeEffect
<1> QED
  BY <1>1, <1>3, <1>4, <1>5, <1>6, <1>7, <1>8, <1>9, <1>10, OfBackend

LEMMA ConnectStep ==
  ASSUME NInv, Connect
  PROVE  NInv'
<1>1. PICK k : k = used + 1
  OBVIOUS
<1>2. /\ pc = "connect" /\ used < MaxConnections
      /\ used' = k /\ fd' = k /\ pc' = "init"
      /\ \E made \in BOOLEAN :
           /\ up' = [up EXCEPT ![fd] = FALSE, ![k] = made]
           /\ state' = [state EXCEPT ![k] = IF made THEN "client flags" ELSE "none"]
           /\ toClient' = [toClient EXCEPT ![fd] = <<>>, ![k] = IF made THEN Hello ELSE <<>>]
      /\ UNCHANGED <<call, nr, result, seen, store, fua, written, synced, promised,
                     guest, command, count, toServer, acked, before>>
  BY <1>1 DEF Connect, guests
<1>3. k \in Owned /\ k \in Connections /\ k \notin Guests /\ k > used /\ k \in 0 .. MaxConnections
      /\ used \in Nat /\ k # 0
  <2>1. used \in Nat
    BY TypeFacts DEF NInv
  <2>3. used < MaxConnections
    BY <1>2
  <2>2. k \in 1 .. MaxConnections /\ k > used /\ k \in 0 .. MaxConnections /\ k # 0
    BY <1>1, <2>1, <2>3, MaxConnectionsAssumption
  <2> QED
    BY <2>1, <2>2, Apart DEF Owned
<1>4. state[k] = "none" /\ toServer[k] = <<>> /\ In(toServer[k]) = {}
  <2>1. state[k] = "none"
    BY <1>3 DEF NInv, Owner
  <2>2. toServer[k] \in Seq(Requests)
    BY <1>3 DEF NInv, Types
  <2>3. toServer[k] = <<>>
    BY <1>3, <2>1 DEF NInv, Shape, ShapeOf
  <2> QED
    BY <2>1, <2>2, <2>3, EmptyQueue
<1>18. PICK made \in BOOLEAN :
         /\ up' = [up EXCEPT ![fd] = FALSE, ![k] = made]
         /\ state' = [state EXCEPT ![k] = IF made THEN "client flags" ELSE "none"]
         /\ toClient' = [toClient EXCEPT ![fd] = <<>>, ![k] = IF made THEN Hello ELSE <<>>]
  BY <1>2
<1>14. PICK h : /\ h = IF made THEN Hello ELSE <<>>
                /\ toClient' = [toClient EXCEPT ![fd] = <<>>, ![k] = h]
  BY <1>18
<1>15. PICK m : m = [msg |-> "hello"]
  OBVIOUS
<1>5. h \in Seq(Answers) /\ Len(h) <= 1 /\ In(h) \subseteq {m} /\ m.msg = "hello"
  <2>1. m \in Answers
    BY <1>15 DEF Answers
  <2>2. CASE h = <<m>>
    BY <1>15, <2>1, <2>2 DEF In
  <2>3. CASE h = <<>>
    <3>1. h \in Seq(Answers)
      BY <2>3
    <3>2. Len(h) = 0 /\ In(h) = {}
      BY <2>3, <3>1, EmptyQueue
    <3>3. Len(h) <= 1
      BY <3>2
    <3> QED
      BY <1>15, <3>1, <3>2, <3>3
  <2> QED
    BY <1>14, <1>15, <2>2, <2>3 DEF Hello
<1>6. /\ toClient' \in [Connections -> Seq(Answers)] /\ toClient'[k] = h
      /\ \A g \in Guests : toClient'[g] = toClient[g]
  <2>1. <<>> \in Seq(Answers)
    OBVIOUS
  <2>2. toClient' = [toClient EXCEPT ![fd] = <<>>, ![k] = h]
    BY <1>14
  <2> QED
    BY <1>3, <1>5, <2>1, <2>2, FdOwned, Apart DEF NInv, Types
<1>7. /\ up' \in [Connections -> BOOLEAN] /\ (state'[k] = "none" => up'[k] = FALSE)
      /\ \A j \in Connections \ {k} : (up'[j] = up[j] \/ up'[j] = FALSE) /\ state'[j] = state[j]
      /\ \A g \in Guests : up'[g] = up[g]
      /\ state'[k] \in {"none", "client flags"}
  <2>1. CASE made = TRUE
    BY <1>3, <1>18, <2>1, FdOwned, Apart DEF NInv, Types, TypeOK
  <2>2. CASE made = FALSE
    BY <1>3, <1>18, <2>2, FdOwned, Apart DEF NInv, Types, TypeOK
  <2> QED
    BY <2>1, <2>2
<1>8. Types'
  BY <1>2, <1>3, <1>6, <1>7 DEF NInv, Types, TypeOK
<1>9. History'
  BY <1>2 DEF NInv, History
<1>10. Shape'
  <2>1. ASSUME NEW j \in Connections, j # k
        PROVE  ShapeOf(j)'
    <3>1. Ends(j)
      <4>1. toServer[j] \in Seq(Requests)
        BY DEF NInv, Types
      <4>2. Begins(toServer'[j], toServer[j])
        BY <1>2, <4>1, BeginsFacts
      <4> QED
        BY <1>7, <2>1, <4>2 DEF Ends
    <3> QED
      BY <3>1, ShapeFrame DEF NInv, Shape
  <2>2. ShapeOf(k)'
    <3>1. PICK s : s = toServer'[k]
      OBVIOUS
    <3>2. s \in Seq(Requests) /\ s = <<>>
      BY <1>2, <1>3, <1>4, <3>1 DEF NInv, Types
    <3>3. Len(s) = 0
      BY <3>2, EmptyQueue
    <3>4. Len(s) <= 2 /\ \A i \in 1 .. Len(s) : s[i].msg = IF i = 1 THEN "flags" ELSE "option"
      BY <3>3
    <3>5. state'[k] = "none" => ~up'[k]
      BY <1>7
    <3>6. state'[k] \in {"none", "client flags"}
      BY <1>7
    <3> QED
      <4>1. CASE state'[k] = "none"
        BY <3>1, <3>2, <3>5, <4>1 DEF ShapeOf
      <4>2. CASE state'[k] = "client flags"
        BY <3>1, <3>4, <4>2 DEF ShapeOf
      <4> QED
        BY <3>6, <4>1, <4>2
  <2> QED
    BY <2>1, <2>2 DEF Shape
<1>11. Owner'
  <2>1. \A j \in Owned : j > k => state'[j] = "none"
    <3>1. ASSUME NEW j \in Owned, j > k
          PROVE  j > used /\ j # k
      BY <1>1, <1>3, <3>1, Apart
    <3> QED
      BY <1>7, <3>1, Apart DEF NInv, Owner
  <2>2. k > 0
    BY <1>1, <1>3
  <2> QED
    BY <1>2, <1>3, <2>1, <2>2 DEF NInv, Owner
<1>12. Place'
  BY <1>2, <1>4, <1>5, <1>6, <1>7 DEF Place
<1>13. Exchange'
  <2>1. \A r \in In(h) : ToldOK(r)'
    BY <1>5 DEF ToldOK, Ok
  <2>2. (\A r \in In(toClient[fd]) : ToldOK(r))'
    BY <1>2, <1>6, <2>1
  <2>3. (\A x \in In(toServer[fd]) : SentOK(x))'
    BY <1>2, <1>4
  <2>4. \A i \in 1 .. Len(h) : ~Ok(h[i])'
    BY <1>5 DEF In, Ok
  <2>5. Brings(h)'
    BY <2>4 DEF Brings
  <2>6. Brings(toClient[fd])'
    BY <1>2, <1>6, <2>5
  <2>7. DataNext'
    BY <1>2 DEF DataNext
  <2> QED
    BY <2>2, <2>3, <2>6, <2>7 DEF Exchange
<1>16. CallsTakeEffect' /\ pc' # "idle"
  BY <1>2 DEF CallsTakeEffect
<1>17. \A j \in Connections : state'[j] = state[j] \/ state[j] = "none"
  BY <1>4, <1>7
<1> QED
  BY <1>2, <1>3, <1>6, <1>7, <1>8, <1>9, <1>10, <1>11, <1>12, <1>13, <1>16, <1>17, OfBackend, Apart

LEMMA BreakStep ==
  ASSUME NInv, NEW k \in Owned, Break(k)
  PROVE  NInv'
<1>1. k \in Connections /\ k \notin Guests
  BY Apart
<1>2. /\ toServer[k] \in Seq(Requests) /\ toClient[k] \in Seq(Answers)
      /\ toServer \in [Connections -> Seq(Requests)] /\ toClient \in [Connections -> Seq(Answers)]
  BY <1>1 DEF NInv, Types
<1>3. PICK i \in 0 .. Len(toServer[k]), j \in 0 .. Len(toClient[k]) :
        /\ toServer' = [toServer EXCEPT ![k] = SubSeq(@, 1, i)]
        /\ toClient' = [toClient EXCEPT ![k] = SubSeq(@, 1, j)]
  BY DEF Break
<1>4. /\ up[k] /\ up' = [up EXCEPT ![k] = FALSE]
      /\ UNCHANGED <<pc, call, nr, fd, used, result, seen, store, state, fua, written, synced,
                     promised, guest, command, count, acked, before>>
  BY DEF Break, client, server, guests
<1>5. SubSeq(toServer[k], 1, i) \in Seq(Requests) /\ Begins(SubSeq(toServer[k], 1, i), toServer[k])
  BY <1>2, BeginsFacts
<1>6. SubSeq(toClient[k], 1, j) \in Seq(Answers) /\ Begins(SubSeq(toClient[k], 1, j), toClient[k])
  BY <1>2, BeginsFacts
<1>7. /\ toServer' \in [Connections -> Seq(Requests)] /\ Begins(toServer'[k], toServer[k])
      /\ \A h \in Connections \ {k} : toServer'[h] = toServer[h]
  BY <1>1, <1>2, <1>3, <1>5
<1>8. /\ toClient' \in [Connections -> Seq(Answers)] /\ Begins(toClient'[k], toClient[k])
      /\ \A h \in Connections \ {k} : toClient'[h] = toClient[h]
  BY <1>1, <1>2, <1>3, <1>6
<1>9. /\ up' \in [Connections -> BOOLEAN] /\ up'[k] = FALSE
      /\ \A h \in Connections \ {k} : up'[h] = up[h]
  BY <1>1, <1>4 DEF NInv, Types, TypeOK
<1>10. \A h \in Connections : Ends(h)
  <2>1. Ends(k)
    BY <1>4, <1>7, <1>9 DEF Ends
  <2>2. \A h \in Connections \ {k} : Ends(h)
    BY <1>4, <1>7, <1>9, Stays DEF NInv
  <2> QED
    BY <2>1, <2>2
<1>11. Types'
  BY <1>4, <1>7, <1>8, <1>9 DEF NInv, Types, TypeOK
<1>12. History'
  BY <1>4 DEF NInv, History
<1>13. Shape'
  BY <1>10, ShapeFrame DEF NInv, Shape
<1>14. \A h \in Connections : In(toServer'[h]) \subseteq In(toServer[h])
  BY <1>10 DEF Ends, Begins
<1>15. Owner'
  BY <1>4, <1>14, OwnerFrame DEF NInv
<1>20. PICK q : q = toClient[fd]
  OBVIOUS
<1>21. PICK c : c = toClient'[fd]
  OBVIOUS
<1>22. Begins(c, q)
  <2>1. toClient[fd] \in Seq(Answers)
    BY <1>2, FdOwned
  <2>2. Begins(toClient[fd], toClient[fd])
    BY <2>1, BeginsFacts
  <2> QED
    BY <1>8, <1>20, <1>21, <2>2, FdOwned
<1>16. Place'
  <2>1. Begins(toServer'[fd], toServer[fd]) /\ (up'[fd] => up[fd])
    BY <1>10, FdOwned DEF Ends
  <2>2. pc' = "init" => Len(c) <= 1
    <3>1. pc = "init" => Len(q) <= 1
      BY <1>20 DEF NInv, Place
    <3> QED
      BY <1>4, <1>22, <3>1 DEF Begins
  <2> QED
    BY <1>4, <1>20, <1>21, <1>22, <2>1, <2>2 DEF NInv, Place, Ready, Begins
<1>17. Exchange'
  <2>1. Handle' = Handle /\ Request' = Request
    BY <1>4 DEF Handle, Request
  <2>2. /\ \A m : SentOK(m)' <=> SentOK(m)
        /\ \A r : (ToldOK(r)' <=> ToldOK(r)) /\ (Ok(r)' <=> Ok(r)) /\ (Datum(r)' <=> Datum(r))
    BY <1>4, <2>1 DEF SentOK, ToldOK, Ok, Datum
  <2>3. (\A m \in In(toServer[fd]) : SentOK(m))'
    BY <1>4, <1>14, <2>2, FdOwned DEF NInv, Exchange
  <2>4. \A r \in In(q) : ToldOK(r)
    BY <1>20 DEF NInv, Exchange
  <2>5. (\A r \in In(toClient[fd]) : ToldOK(r))'
    BY <1>4, <1>21, <1>22, <2>2, <2>4 DEF Begins
  <2>6. up'[fd] => c = q
    BY <1>4, <1>8, <1>9, <1>20, <1>21, FdOwned
  <2>7. ASSUME pc # "idle"
        PROVE  Brings(toClient[fd])'
    <3>1. Brings(q)
      BY <1>20, <2>7 DEF NInv, Exchange
    <3>2. ASSUME NEW n \in 1 .. Len(c), Ok(c[n]), call.op = "get"
          PROVE  IF n < Len(c) THEN Datum(c[n + 1]) ELSE ~up'[fd]
      <4>1. /\ Len(c) <= Len(q) /\ Len(c) \in Nat /\ Len(q) \in Nat
            /\ \A l \in 1 .. Len(c) : c[l] = q[l]
        BY <1>22 DEF Begins
      <4>2. n \in 1 .. Len(q) /\ c[n] = q[n]
        BY <4>1
      <4>3. IF n < Len(q) THEN Datum(q[n + 1]) ELSE ~up[fd]
        BY <3>1, <3>2, <4>2 DEF Brings
      <4>4. n < Len(c) => n < Len(q) /\ n + 1 \in 1 .. Len(c)
        BY <4>1
      <4>5. CASE n < Len(c)
        BY <4>1, <4>3, <4>4, <4>5
      <4>6. CASE ~(n < Len(c)) /\ c # q
        BY <2>6, <4>6
      <4>7. CASE ~(n < Len(c)) /\ c = q
        <5>1. ~up[fd]
          BY <4>3, <4>7
        <5> QED
          BY <1>10, <4>7, <5>1, FdOwned DEF Ends
      <4> QED
        BY <4>5, <4>6, <4>7
    <3>3. Brings(c)'
      BY <1>4, <2>2, <3>2 DEF Brings
    <3> QED
      BY <1>4, <1>21, <3>3
  <2>8. DataNext'
    <3>1. SUFFICES ASSUME pc = "data"
                   PROVE  call.op = "get" /\ (IF c # <<>> THEN Datum(c[1]) ELSE ~up'[fd])
      BY <1>4, <1>21, <2>2 DEF DataNext
    <3>2. call.op = "get" /\ (IF q # <<>> THEN Datum(q[1]) ELSE ~up[fd])
      BY <1>20, <3>1 DEF NInv, Exchange, DataNext
    <3>3. ASSUME c # <<>>
          PROVE  q # <<>> /\ c[1] = q[1]
      <4>1. toClient'[fd] \in Seq(Answers)
        BY <1>8, FdOwned
      <4>2. Len(c) # 0 /\ Len(c) \in Nat
        BY <1>21, <3>3, <4>1, EmptyQueue
      <4>3. 1 \in 1 .. Len(c)
        BY <4>2
      <4> QED
        BY <1>22, <3>3, <4>3 DEF Begins
    <3>4. up'[fd] => up[fd]
      BY <1>10, FdOwned DEF Ends
    <3> QED
      BY <2>6, <3>2, <3>3, <3>4
  <2> QED
    BY <1>4, <2>3, <2>5, <2>7, <2>8 DEF Exchange
<1>18. CallsTakeEffect'
  BY <1>4, EffectFrame DEF NInv
<1>19. pc' = "idle" /\ result'.ok /\ call'.op = "fsync" => before'[Backend] \subseteq synced'
  BY <1>4 DEF NInv, FlushCovers
<1> QED
  BY <1>1, <1>4, <1>7, <1>8, <1>9, <1>11, <1>12, <1>13, <1>15, <1>16, <1>17, <1>18, <1>19, OfBackend, Apart

-----------------------------------------------------------------------------
(***************************************************************************)
(* The guests.                                                             *)
(***************************************************************************)

\* what the others see does not change
LEMMA OfGuest ==
  ASSUME NInv, NEW g \in Guests, Types', History', ShapeOf(g)', GuestOf(g)', FuaOf(g)',
         guest'[g] = "ready" /\ command'[g].type = "flush" => before'[g] \subseteq synced,
         UNCHANGED <<pc, call, nr, fd, used, result, seen, store, state, fua, written, synced,
                     promised, up>>,
         \A o \in Guests : o # g => /\ guest'[o] = guest[o] /\ command'[o] = command[o]
                                    /\ count'[o] = count[o],
         \A o \in Guests \cup {Backend} : o # g => before'[o] = before[o],
         \A k \in Connections : k # g => toServer'[k] = toServer[k] /\ toClient'[k] = toClient[k]
  PROVE  NInv'
<1>1. fd # g /\ Backend # g
  BY FdOwned, BackendAssumption
<1>2. \A k \in Connections : k # g => Ends(k)
  BY Stays DEF NInv
<1>3. Shape'
  <2>1. \A k \in Connections : k # g => ShapeOf(k)'
    BY <1>2, ShapeFrame DEF NInv, Shape
  <2> QED
    BY <2>1 DEF Shape
<1>4. Owner'
  <2>1. \A k \in Owned : k # g /\ k \in Connections
    BY Apart
  <2>2. /\ fd' = IF used' = 0 THEN 1 ELSE used'
        /\ pc' # "connect" => used' > 0
    BY DEF NInv, Owner
  <2>3. ASSUME NEW k \in Owned
        PROVE  /\ k > used' => state'[k] = "none"
               /\ \A m \in In(toServer'[k]) :
                    /\ m.msg = "option" => m.option = "export name" /\ m.known = TRUE
                    /\ m.msg = "command" => m.fua = FALSE
    <3>1. toServer'[k] = toServer[k]
      BY <2>1
    <3> QED
      BY <3>1 DEF NInv, Owner
  <2> QED
    BY <2>2, <2>3 DEF Owner
<1>5. toServer'[fd] = toServer[fd] /\ toClient'[fd] = toClient[fd]
  BY <1>1, FdOwned
<1>6. Place'
  BY <1>1, <1>2, <1>5, FdOwned, PlaceFrame DEF NInv
<1>7. Exchange'
  <2>1. before'[Backend] = before[Backend] /\ In(toServer'[fd]) \subseteq In(toServer[fd])
    BY <1>1, <1>5
  <2> QED
    BY <1>5, <2>1, ExchangeFrame DEF NInv
<1>8. AllGuests'
  <2>1. \A o \in Guests : o # g => GuestOf(o)'
    BY <1>2, Apart, GuestFrame DEF NInv, AllGuests
  <2> QED
    BY <2>1 DEF AllGuests
<1>9. Fua'
  <2>1. \A o \in Guests : o # g => FuaOf(o)'
    BY Apart, FuaFrame DEF NInv, Fua
  <2> QED
    BY <2>1 DEF Fua
<1>10. FuaThreads'
  BY DEF NInv, FuaThreads, Ready
<1>11. CallsTakeEffect'
  BY EffectFrame DEF NInv
<1>12. FlushCovers'
  BY <1>1 DEF NInv, FlushCovers
<1> QED
  BY <1>3, <1>4, <1>6, <1>7, <1>8, <1>9, <1>10, <1>11, <1>12 DEF NInv

\* what a guest that receives something sees
LEMMA GuestHears ==
  ASSUME NInv, NEW g \in Guests, toClient[g] # <<>>, toClient' = Hear(g, toClient)
  PROVE  /\ toServer \in [Connections -> Seq(Requests)] /\ toServer[g] = <<>>
         /\ Len(toServer[g]) = 0 /\ In(toServer[g]) = {}
         /\ toClient' \in [Connections -> Seq(Answers)] /\ toClient'[g] = <<>>
         /\ Len(toClient'[g]) = 0 /\ In(toClient'[g]) = {}
         /\ \A k \in Connections : k # g => toClient'[k] = toClient[k]
         /\ Head(toClient[g]) = toClient[g][1] /\ toClient[g][1] \in Answers
         /\ toClient[g][1] \in In(toClient[g])
<1>1. /\ toServer \in [Connections -> Seq(Requests)] /\ toClient \in [Connections -> Seq(Answers)]
      /\ g \in Connections
  BY Apart DEF NInv, Types
<1>2. /\ toClient' \in [Connections -> Seq(Answers)]
      /\ \A j \in Connections \ {g} : toClient'[j] = toClient[j]
      /\ Rest(toClient'[g], toClient[g])
      /\ Head(toClient[g]) = toClient[g][1] /\ toClient[g][1] \in Answers
      /\ toClient'[g] = <<>> <=> Len(toClient[g]) = 1
  BY <1>1, HearClient
<1>3. Len(toClient[g]) \in Nat /\ Len(toClient[g]) # 0 /\ toClient[g][1] \in In(toClient[g])
  BY <1>2 DEF Rest
<1>4. Len(toClient[g]) <= 1 /\ (Len(toServer[g]) = 0 \/ Len(toClient[g]) = 0)
  BY DEF NInv, AllGuests, GuestOf, Alone
<1>5. Len(toClient[g]) = 1
  BY <1>3, <1>4, One
<1>6. toClient'[g] = <<>> /\ toClient'[g] \in Seq(Answers)
  BY <1>1, <1>2, <1>5
<1>7. Len(toClient'[g]) = 0 /\ In(toClient'[g]) = {}
  BY <1>6, EmptyQueue
<1>8. toServer[g] \in Seq(Requests) /\ Len(toServer[g]) = 0
  BY <1>1, <1>3, <1>4
<1>9. toServer[g] = <<>> /\ In(toServer[g]) = {}
  BY <1>8, EmptyQueue
<1> QED
  BY <1>1, <1>2, <1>3, <1>6, <1>7, <1>8, <1>9

LEMMA GuestLeavesStep ==
  ASSUME NInv, NEW g \in Guests, GuestLeaves(g)
  PROVE  NInv'
<1>1. /\ ~up[g] /\ toClient[g] = <<>> /\ guest' = [guest EXCEPT ![g] = "gone"]
      /\ UNCHANGED <<pc, call, nr, fd, used, result, seen, store, state, fua, written, synced,
                     promised, up, command, count, toServer, toClient, acked, before>>
  BY DEF GuestLeaves, Lost, client, server
<1>2. Types'
  BY <1>1 DEF NInv, Types, TypeOK
<1>3. guest'[g] = "gone" /\ \A o \in Guests : o # g => guest'[o] = guest[o]
  BY <1>1 DEF NInv, Types, TypeOK
<1>4. History'
  BY <1>1 DEF NInv, History
<1>5. ShapeOf(g)'
  <2>1. g \in Connections /\ ShapeOf(g)
    BY Apart DEF NInv, Shape
  <2>2. Ends(g)
    BY <1>1, <2>1, Stays DEF NInv
  <2> QED
    BY <2>1, <2>2, ShapeFrame
<1>6. GuestOf(g)'
  <2>1. Alone(g) /\ Asked(g)
    BY DEF NInv, AllGuests, GuestOf
  <2>2. Alone(g)'
    BY <1>1, <2>1 DEF Alone
  <2>3. Asked(g)'
    BY <1>1, <1>3, <2>1 DEF Asked
  <2>4. Negotiates(g)' /\ Rests(g)' /\ Awaits(g)'
    BY <1>1, <1>3 DEF Negotiates, Rests, Awaits
  <2> QED
    BY <2>2, <2>3, <2>4 DEF GuestOf
<1>7. FuaOf(g)'
  BY <1>1, <1>3 DEF NInv, Fua, FuaOf
<1> QED
  BY <1>1, <1>2, <1>3, <1>4, <1>5, <1>6, <1>7, OfGuest

LEMMA GuestReceivesStep ==
  ASSUME NInv, NEW g \in Guests, GuestReceives(g)
  PROVE  NInv'
<1>1. /\ guest[g] = "reply" /\ toClient[g] # <<>> /\ toClient' = Hear(g, toClient)
      /\ UNCHANGED <<pc, call, nr, fd, used, result, seen, store, state, fua, written, synced,
                     promised, up, command, count, toServer, before>>
  BY DEF GuestReceives, client, server
<1>2. /\ toServer[g] = <<>> /\ Len(toServer[g]) = 0 /\ In(toServer[g]) = {}
      /\ toClient' \in [Connections -> Seq(Answers)] /\ toClient'[g] = <<>>
      /\ Len(toClient'[g]) = 0 /\ In(toClient'[g]) = {}
      /\ \A k \in Connections : k # g => toClient'[k] = toClient[k]
  BY <1>1, GuestHears
<1>3. PICK m : m = toClient[g][1]
  OBVIOUS
<1>4. Head(toClient[g]) = m /\ m \in Answers /\ m \in In(toClient[g])
  BY <1>1, <1>3, GuestHears
<1>5. /\ m.msg = "reply" /\ m.handle = command[g].handle
      /\ m.err = FALSE /\ command[g].type = "write" => m.handle \in written
      /\ m.err = FALSE /\ command[g].type = "flush" => before[g] \subseteq synced
      /\ Ready(g) \/ ~up[g]
  BY <1>1, <1>4 DEF NInv, AllGuests, GuestOf, Awaits
<1>6. m \in Replies
  BY <1>4, <1>5, AnswerKinds
<1>7. m.err \in BOOLEAN /\ m.handle \in Handles
  BY <1>6 DEF Replies
<1>8. /\ guest' = [guest EXCEPT ![g] = IF m.err THEN "failed" ELSE "ready"]
      /\ acked' = IF command[g].type = "write" /\ ~m.err THEN acked \cup {m.handle} ELSE acked
  BY <1>4 DEF GuestReceives
<1>9. /\ guest' \in [Guests -> {"hello", "option", "ready", "failed", "reply", "gone"}]
      /\ guest'[g] \in {"ready", "failed"} /\ (guest'[g] = "ready" => m.err = FALSE)
      /\ \A o \in Guests : o # g => guest'[o] = guest[o]
  BY <1>7, <1>8 DEF NInv, Types, TypeOK
<1>10. acked \subseteq acked' /\ acked' \in SUBSET Handles /\ acked' \subseteq written
  BY <1>5, <1>7, <1>8 DEF NInv, Types, History
<1>11. Types'
  BY <1>1, <1>2, <1>9, <1>10 DEF NInv, Types, TypeOK
<1>12. History'
  BY <1>1, <1>10 DEF NInv, History
<1>13. ShapeOf(g)'
  <2>1. g \in Connections /\ ShapeOf(g)
    BY Apart DEF NInv, Shape
  <2>2. Ends(g)
    BY <1>1, <2>1, Stays DEF NInv
  <2> QED
    BY <2>1, <2>2, ShapeFrame
<1>14. GuestOf(g)'
  <2>1. Alone(g)
    BY DEF NInv, AllGuests, GuestOf
  <2>2. Alone(g)'
    <3>1. Len(toServer'[g]) <= 2
      BY <1>1, <2>1 DEF Alone
    <3>2. Len(toClient'[g]) <= 1
      BY <1>2
    <3>3. state'[g] # "none" /\ command'[g].handle = <<g, count'[g]>> /\ command'[g].type # "read"
      BY <1>1, <2>1 DEF Alone
    <3> QED
      BY <1>2, <3>1, <3>2, <3>3 DEF Alone
  <2>3. Asked(g)'
    BY <1>1, <1>2 DEF Asked
  <2>4. Negotiates(g)' /\ Awaits(g)'
    BY <1>9 DEF Negotiates, Awaits
  <2>5. Rests(g)'
    BY <1>1, <1>2, <1>5, <1>9 DEF Rests, Ready
  <2> QED
    BY <2>2, <2>3, <2>4, <2>5 DEF GuestOf
<1>15. FuaOf(g)'
  BY <1>1, <1>9 DEF NInv, Fua, FuaOf
<1>16. guest'[g] = "ready" /\ command'[g].type = "flush" => before'[g] \subseteq synced
  BY <1>1, <1>5, <1>9
<1> QED
  BY <1>1, <1>2, <1>9, <1>11, <1>12, <1>13, <1>14, <1>15, <1>16, OfGuest

LEMMA GuestSendsStep ==
  ASSUME NInv, NEW g \in Guests, GuestSends(g)
  PROVE  NInv'
<1>1. PICK type \in {"write", "flush", "trim", "disc"}, b \in Blocks, v \in Values, sync \in BOOLEAN :
        /\ guest[g] \in {"ready", "failed"} /\ up[g] /\ MayAsk(count[g])
        /\ (type \in {"flush", "disc"} => b = NoCall.block)
        /\ (type = "write" <=> v # Zero) /\ (sync => type = "write")
        /\ LET m == Command(type, <<g, count[g] + 1>>,
                            IF type \in {"write", "trim"} THEN {b} ELSE {}, v, sync)
           IN command' = [command EXCEPT ![g] = m] /\ toServer' = Say(g, toServer, m)
        /\ count' = [count EXCEPT ![g] = @ + 1]
        /\ guest' = [guest EXCEPT ![g] = "reply"]
        /\ before' = [before EXCEPT ![g] = IF type = "flush" THEN acked ELSE {}]
        /\ UNCHANGED <<client, server, up, toClient, acked>>
  BY DEF GuestSends
<1>2. UNCHANGED <<pc, call, nr, fd, used, result, seen, store, state, fua, written, synced,
                  promised, up, toClient, acked>>
  BY <1>1 DEF client, server
<1>3. PICK blocks : blocks = IF type \in {"write", "trim"} THEN {b} ELSE {}
  OBVIOUS
<1>4. PICK m : m = Command(type, <<g, count[g] + 1>>, blocks, v, sync)
  OBVIOUS
<1>5. count[g] \in 0 .. MaxEach /\ count[g] \in Nat /\ count[g] + 1 \in 0 .. MaxEach
  <2>1. count[g] \in 0 .. MaxEach
    BY DEF NInv, Types, TypeOK
  <2>2. count[g] < MaxEach
    BY <1>1 DEF MayAsk
  <2> QED
    BY <2>1, <2>2, NbdBoundsAssumption
<1>6. m \in Commands /\ m \in Requests
  <2>1. <<g, count[g] + 1>> \in Handles
    BY <1>5 DEF Handles
  <2>2. blocks \in SUBSET Blocks
    BY <1>3
  <2> QED
    BY <1>1, <1>4, <2>1, <2>2, CommandIs
<1>7. m.msg = "command" /\ m.handle = <<g, count[g] + 1>> /\ m.type = type
  BY <1>4 DEF Command
<1>8. /\ command' \in [Guests -> Commands] /\ command'[g] = m
      /\ count' \in [Guests -> 0 .. MaxEach] /\ count'[g] = count[g] + 1
      /\ guest' \in [Guests -> {"hello", "option", "ready", "failed", "reply", "gone"}]
      /\ guest'[g] = "reply"
      /\ \A o \in Guests : o # g => command'[o] = command[o] /\ count'[o] = count[o]
                                    /\ guest'[o] = guest[o]
  BY <1>1, <1>3, <1>4, <1>5, <1>6 DEF NInv, Types, TypeOK
<1>9. /\ before' \in [Guests \cup {Backend} -> SUBSET Handles] /\ before'[g] \subseteq acked
      /\ \A o \in Guests \cup {Backend} : o # g => before'[o] = before[o]
  BY <1>1 DEF NInv, Types
<1>10. toServer \in [Connections -> Seq(Requests)] /\ g \in Connections /\ toServer' = Say(g, toServer, m)
  BY <1>1, <1>3, <1>4, Apart DEF NInv, Types
<1>11. /\ toServer' \in [Connections -> Seq(Requests)]
       /\ \A k \in Connections : k # g => toServer'[k] = toServer[k]
       /\ Len(toServer'[g]) = Len(toServer[g]) + 1
       /\ Adds(toServer'[g], toServer[g], m)
  BY <1>6, <1>10, SayToServer
<1>12. toServer[g] = <<>> /\ toClient[g] = <<>> /\ Ready(g)
  BY <1>1 DEF NInv, AllGuests, GuestOf, Rests
<1>13. Len(toServer'[g]) = 1 /\ \A x \in In(toServer'[g]) : x = m
  <2>1. toServer[g] \in Seq(Requests)
    BY <1>10
  <2>2. Len(toServer[g]) = 0 /\ In(toServer[g]) = {}
    BY <1>12, <2>1, EmptyQueue
  <2> QED
    BY <1>11, <2>2 DEF Adds
<1>14. Types'
  BY <1>2, <1>8, <1>9, <1>11 DEF NInv, Types, TypeOK
<1>15. History'
  BY <1>2, <1>9 DEF NInv, History
<1>16. ShapeOf(g)'
  BY <1>2, <1>7, <1>12, <1>13 DEF ShapeOf, Ready
<1>17. GuestOf(g)'
  <2>1. Alone(g)'
    <3>1. Len(toServer'[g]) <= 2
      BY <1>13
    <3>2. Len(toClient'[g]) <= 1 /\ Len(toClient'[g]) = 0
      <4>1. toClient[g] \in Seq(Answers)
        BY <1>10 DEF NInv, Types
      <4>2. Len(toClient[g]) = 0
        BY <1>12, <4>1, EmptyQueue
      <4> QED
        BY <1>2, <4>2
    <3>3. state'[g] # "none"
      BY <1>2 DEF NInv, AllGuests, GuestOf, Alone
    <3>4. command'[g].handle = <<g, count'[g]>> /\ command'[g].type # "read"
      BY <1>1, <1>7, <1>8
    <3> QED
      BY <3>1, <3>2, <3>3, <3>4 DEF Alone
  <2>2. Asked(g)'
    BY <1>8, <1>13 DEF Asked
  <2>3. Negotiates(g)' /\ Rests(g)'
    BY <1>8 DEF Negotiates, Rests
  <2>4. Awaits(g)'
    <3>1. Len(toServer'[g]) <= 1
      BY <1>13
    <3>2. \A x \in In(toServer'[g]) : x.msg = "command"
      BY <1>7, <1>13
    <3>3. In(toClient'[g]) = {}
      <4>1. toClient[g] \in Seq(Answers)
        BY <1>10 DEF NInv, Types
      <4> QED
        BY <1>2, <1>12, <4>1, EmptyQueue
    <3>4. Ready(g)'
      BY <1>2, <1>12 DEF Ready
    <3> QED
      BY <3>1, <3>2, <3>3, <3>4 DEF Awaits
  <2> QED
    BY <2>1, <2>2, <2>3, <2>4 DEF GuestOf
<1>18. FuaOf(g)'
  <2>1. SUFFICES ASSUME NEW n \in Nat, <<g, n>> \in promised, <<g, n>> \notin synced
                 PROVE  n <= count'[g] /\ (<<g, n>> \in fua[g] \/ ~up[g])
    BY <1>2, <1>8, <1>12 DEF FuaOf
  <2>2. n <= count[g] /\ (<<g, n>> \in fua[g] \/ ~up[g])
    BY <2>1 DEF NInv, Fua, FuaOf
  <2>3. n <= count'[g]
    BY <1>5, <1>8, <2>2
  <2> QED
    BY <2>2, <2>3
<1>19. guest'[g] # "ready"
  BY <1>8
<1> QED
  BY <1>2, <1>8, <1>9, <1>11, <1>14, <1>15, <1>16, <1>17, <1>18, <1>19, OfGuest

LEMMA GuestNegotiatesStep ==
  ASSUME NInv, NEW g \in Guests, GuestNegotiates(g)
  PROVE  NInv'
<1>1. /\ guest[g] \in {"hello", "option"} /\ toClient[g] # <<>> /\ toClient' = Hear(g, toClient)
      /\ UNCHANGED <<pc, call, nr, fd, used, result, seen, store, state, fua, written, synced,
                     promised, up, command, count, acked, before>>
  BY DEF GuestNegotiates, client, server
<1>2. /\ toServer \in [Connections -> Seq(Requests)] /\ toServer[g] = <<>>
      /\ Len(toServer[g]) = 0 /\ In(toServer[g]) = {}
      /\ toClient' \in [Connections -> Seq(Answers)] /\ toClient'[g] = <<>>
      /\ Len(toClient'[g]) = 0 /\ In(toClient'[g]) = {}
      /\ \A k \in Connections : k # g => toClient'[k] = toClient[k]
  BY <1>1, GuestHears
<1>3. PICK m : m = toClient[g][1]
  OBVIOUS
<1>4. Head(toClient[g]) = m /\ m \in Answers /\ m \in In(toClient[g])
  BY <1>1, <1>3, GuestHears
<1>5. \/ /\ m.msg = "size" \/ (m.msg = "option reply" /\ m.ok)
         /\ guest' = [guest EXCEPT ![g] = "ready"] /\ toServer' = toServer
      \/ /\ ~(m.msg = "size" \/ (m.msg = "option reply" /\ m.ok))
         /\ guest' = [guest EXCEPT ![g] = "option"] /\ Ask(g)
  BY <1>4 DEF GuestNegotiates
<1>6. /\ guest[g] = "hello" => state[g] \in {"client flags", "terminate"} /\ toClient[g] = Hello
      /\ guest[g] = "option" => /\ m.msg \in {"size", "option reply"}
                                /\ IF m.msg = "size" \/ m.ok = TRUE THEN Ready(g)
                                   ELSE state[g] \in {"options", "terminate"}
      /\ command[g].type = "none"
  BY <1>1, <1>4 DEF NInv, AllGuests, GuestOf, Negotiates
<1>7. guest[g] = "hello" => m.msg = "hello"
  <2>1. Hello[1].msg = "hello"
    BY DEF Hello
  <2> QED
    BY <1>3, <1>6, <2>1
<1>8. g \in Connections /\ ShapeOf(g) /\ Alone(g) /\ Asked(g) /\ up[g] \in BOOLEAN
  BY Apart DEF NInv, Shape, AllGuests, GuestOf, Types, TypeOK
<1>9. History'
  BY <1>1 DEF NInv, History
<1>10. CASE guest' = [guest EXCEPT ![g] = "ready"] /\ toServer' = toServer
            /\ (m.msg = "size" \/ (m.msg = "option reply" /\ m.ok))
  <2>1. /\ guest' \in [Guests -> {"hello", "option", "ready", "failed", "reply", "gone"}]
        /\ guest'[g] = "ready" /\ \A o \in Guests : o # g => guest'[o] = guest[o]
    BY <1>10 DEF NInv, Types, TypeOK
  <2>2. Ready(g)
    <3>1. m.msg = "size" \/ m.ok = TRUE
      BY <1>4, <1>10, AnswerKinds
    <3> QED
      BY <1>1, <1>6, <1>7, <1>10, <3>1
  <2>3. Types'
    BY <1>1, <1>2, <1>10, <2>1 DEF NInv, Types, TypeOK
  <2>4. ShapeOf(g)'
    <3>1. Ends(g)
      BY <1>1, <1>8, <1>10, Stays DEF NInv
    <3> QED
      BY <1>8, <3>1, ShapeFrame
  <2>5. GuestOf(g)'
    <3>1. Alone(g)'
      <4>1. Len(toServer'[g]) <= 2
        BY <1>8, <1>10 DEF Alone
      <4>2. Len(toClient'[g]) <= 1
        BY <1>2
      <4>3. state'[g] # "none" /\ command'[g].handle = <<g, count'[g]>> /\ command'[g].type # "read"
        BY <1>1, <1>8 DEF Alone
      <4> QED
        BY <1>2, <4>1, <4>2, <4>3 DEF Alone
    <3>2. Asked(g)'
      BY <1>2, <1>10 DEF Asked
    <3>3. Negotiates(g)' /\ Awaits(g)'
      BY <2>1 DEF Negotiates, Awaits
    <3>4. Rests(g)'
      BY <1>1, <1>2, <1>10, <2>1, <2>2 DEF Rests, Ready
    <3> QED
      BY <3>1, <3>2, <3>3, <3>4 DEF GuestOf
  <2>6. FuaOf(g)'
    BY <1>1, <2>1 DEF NInv, Fua, FuaOf
  <2>7. command'[g].type # "flush"
    BY <1>1, <1>6
  <2> QED
    BY <1>1, <1>2, <1>9, <1>10, <2>1, <2>3, <2>4, <2>5, <2>6, <2>7, OfGuest
<1>11. CASE guest' = [guest EXCEPT ![g] = "option"] /\ Ask(g)
            /\ ~(m.msg = "size" \/ (m.msg = "option reply" /\ m.ok))
  <2>1. /\ guest' \in [Guests -> {"hello", "option", "ready", "failed", "reply", "gone"}]
        /\ guest'[g] = "option" /\ \A o \in Guests : o # g => guest'[o] = guest[o]
    BY <1>11 DEF NInv, Types, TypeOK
  <2>2. /\ guest[g] = "hello" => state[g] \in {"client flags", "terminate"}
        /\ guest[g] = "option" => state[g] \in {"options", "terminate"}
    <3>1. guest[g] = "option" => m.msg = "option reply" /\ m.ok # TRUE
      BY <1>6, <1>11
    <3> QED
      BY <1>6, <3>1
  <2>3. PICK flags : flags = [msg |-> "flags"]
    OBVIOUS
  <2>4. PICK option \in Options :
          toServer' = IF ~up[g] THEN toServer
                      ELSE [toServer EXCEPT ![g] = @ \o
                              IF guest[g] = "hello" THEN <<flags, option>> ELSE <<option>>]
    <3>1. PICK name \in {"export name", "go", "other"}, known \in BOOLEAN :
            toServer' = IF ~up[g] THEN toServer
                        ELSE LET o == [msg |-> "option", option |-> name, known |-> known]
                             IN [toServer EXCEPT ![g] = @ \o
                                   IF guest[g] = "hello" THEN <<flags, o>> ELSE <<o>>]
      BY <1>11, <2>3 DEF Ask
    <3>2. [msg |-> "option", option |-> name, known |-> known] \in Options
      BY DEF Options
    <3> QED
      BY <3>1, <3>2
  <2>6. flags \in Requests /\ option \in Requests /\ flags.msg = "flags" /\ option.msg = "option"
    BY <2>3 DEF Requests, Options
  <2>7. PICK p : p = IF guest[g] = "hello" THEN <<flags, option>> ELSE <<option>>
    OBVIOUS
  <2>8. /\ p \in Seq(Requests)
        /\ guest[g] = "hello" => Len(p) = 2 /\ p[1] = flags /\ p[2] = option
        /\ guest[g] # "hello" => Len(p) = 1 /\ p[1] = option
    <3>1. CASE guest[g] = "hello"
      BY <2>6, <2>7, <3>1, Pair
    <3>2. CASE guest[g] # "hello"
      <4>1. p = <<option>>
        BY <2>7, <3>2
      <4> QED
        BY <2>6, <3>2, <4>1
    <3> QED
      BY <3>1, <3>2
  <2>9. PICK e : e = toServer[g] \o p
    OBVIOUS
  <2>10. /\ e \in Seq(Requests)
         /\ guest[g] = "hello" => Len(e) = 2 /\ e[1] = flags /\ e[2] = option
         /\ guest[g] # "hello" => Len(e) = 1 /\ e[1] = option
    <3>1. toServer[g] \in Seq(Requests)
      BY <1>2, <1>8
    <3>2. toServer[g] \o p \in Seq(Requests) /\ Follows(toServer[g] \o p, toServer[g], p)
      BY <2>8, <3>1, ConcatFollows
    <3>3. e \in Seq(Requests) /\ Follows(e, toServer[g], p)
      BY <2>9, <3>2
    <3>4. CASE guest[g] = "hello"
      <4>1. Len(e) = 0 + 2 /\ \A i \in 1 .. 2 : e[0 + i] = p[i]
        BY <1>2, <2>8, <3>3, <3>4 DEF Follows
      <4> QED
        BY <2>8, <3>3, <3>4, <4>1
    <3>5. CASE guest[g] # "hello"
      <4>1. Len(e) = 0 + 1 /\ \A i \in 1 .. 1 : e[0 + i] = p[i]
        BY <1>2, <2>8, <3>3, <3>5 DEF Follows
      <4> QED
        BY <2>8, <3>3, <3>5, <4>1
    <3> QED
      BY <3>4, <3>5
  <2>11. PICK s : s = toServer'[g]
    OBVIOUS
  <2>12. /\ toServer' \in [Connections -> Seq(Requests)]
         /\ \A k \in Connections : k # g => toServer'[k] = toServer[k]
         /\ s = <<>> \/ s = e
    <3>1. CASE up[g] = TRUE
      <4>1. toServer' = [toServer EXCEPT ![g] = e]
        BY <2>4, <2>7, <2>9, <3>1
      <4> QED
        BY <1>2, <1>8, <2>10, <2>11, <4>1
    <3>2. CASE up[g] = FALSE
      BY <1>2, <2>4, <2>11, <3>2
    <3> QED
      BY <1>8, <3>1, <3>2
  <2>13. s \in Seq(Requests) /\ (s = <<>> => Len(s) = 0 /\ In(s) = {})
    BY <1>8, <2>11, <2>12, EmptyQueue
  <2>14. /\ Len(s) <= 2
         /\ \A i \in 1 .. Len(s) : s[i].msg = IF guest[g] = "hello" /\ i = 1 THEN "flags" ELSE "option"
         /\ guest[g] # "hello" => Len(s) <= 1
    <3>1. CASE s = <<>>
      BY <2>13, <3>1
    <3>2. CASE s = e /\ guest[g] = "hello"
      <4>1. Len(s) = 2
        BY <2>10, <3>2
      <4>2. Len(s) <= 2
        BY <4>1
      <4>3. \A i \in 1 .. Len(s) : i = 1 \/ i = 2
        BY <4>1
      <4> QED
        BY <2>6, <2>10, <3>2, <4>2, <4>3
    <3>3. CASE s = e /\ guest[g] # "hello"
      <4>1. Len(s) = 1
        BY <2>10, <3>3
      <4>2. Len(s) <= 2 /\ Len(s) <= 1
        BY <4>1
      <4>3. \A i \in 1 .. Len(s) : i = 1
        BY <4>1
      <4> QED
        BY <2>6, <2>10, <3>3, <4>2, <4>3
    <3> QED
      BY <2>12, <3>1, <3>2, <3>3
  <2>15. Types'
    BY <1>1, <1>2, <2>1, <2>12 DEF NInv, Types, TypeOK
  <2>16. ShapeOf(g)'
    <3>1. CASE guest[g] = "hello"
      <4>1. state'[g] \in {"client flags", "terminate"}
        BY <1>1, <2>2, <3>1
      <4> QED
        BY <2>11, <2>14, <3>1, <4>1 DEF ShapeOf
    <3>2. CASE guest[g] = "option"
      <4>1. state'[g] \in {"options", "terminate"}
        BY <1>1, <2>2, <3>2
      <4>2. Len(s) <= 1 /\ \A x \in In(s) : x.msg = "option"
        BY <2>14, <3>2 DEF In
      <4> QED
        BY <2>11, <4>1, <4>2 DEF ShapeOf
    <3> QED
      BY <1>1, <3>1, <3>2
  <2>17. GuestOf(g)'
    <3>1. Alone(g)'
      <4>1. Len(toServer'[g]) <= 2
        BY <2>11, <2>14
      <4>2. Len(toClient'[g]) <= 1
        BY <1>2
      <4>3. state'[g] # "none" /\ command'[g].handle = <<g, count'[g]>> /\ command'[g].type # "read"
        BY <1>1, <1>8 DEF Alone
      <4> QED
        BY <1>2, <4>1, <4>2, <4>3 DEF Alone
    <3>2. Asked(g)'
      <4>1. \A x \in In(s) : x.msg # "command"
        BY <2>14 DEF In
      <4> QED
        BY <2>11, <4>1 DEF Asked
    <3>3. Negotiates(g)'
      BY <1>1, <1>2, <1>6, <2>1 DEF Negotiates
    <3>4. Rests(g)' /\ Awaits(g)'
      BY <2>1 DEF Rests, Awaits
    <3> QED
      BY <3>1, <3>2, <3>3, <3>4 DEF GuestOf
  <2>18. FuaOf(g)'
    BY <1>1, <2>1 DEF NInv, Fua, FuaOf
  <2>19. command'[g].type # "flush"
    BY <1>1, <1>6
  <2> QED
    BY <1>1, <1>2, <1>9, <2>1, <2>12, <2>15, <2>16, <2>17, <2>18, <2>19, OfGuest
<1> QED
  BY <1>5, <1>10, <1>11

-----------------------------------------------------------------------------
(***************************************************************************)
(* The invariant.                                                          *)
(***************************************************************************)

LEMMA InitInv == Init => NInv
<1> SUFFICES ASSUME Init
             PROVE  NInv
  OBVIOUS
<1>1. PICK m : m = [msg |-> "hello"]
  OBVIOUS
<1>2. PICK h : h = Hello
  OBVIOUS
<1>3. /\ m.msg = "hello" /\ m \in Answers /\ h \in Seq(Answers) /\ Len(h) = 1
      /\ \A x \in In(h) : x = m
  <2>1. m \in Answers
    BY <1>1 DEF Answers
  <2>2. h = <<m>>
    BY <1>1, <1>2 DEF Hello
  <2> QED
    BY <1>1, <2>1, <2>2 DEF In
<1>4. PICK e : e = <<>>
  OBVIOUS
<1>5. e \in Seq(Answers) /\ e \in Seq(Requests) /\ Len(e) = 0 /\ In(e) = {}
  BY <1>4 DEF In
<1>6. /\ \A k \in Connections : toServer[k] = e /\ fua[k] = {}
      /\ \A k \in Guests : up[k] = TRUE /\ toClient[k] = h /\ state[k] = "client flags"
      /\ \A k \in Owned : up[k] = FALSE /\ toClient[k] = e /\ state[k] = "none"
      /\ toServer \in [Connections -> Seq(Requests)] /\ toClient \in [Connections -> Seq(Answers)]
  <2>1. /\ toServer = [k \in Connections |-> e]
        /\ toClient = [k \in Connections |-> IF k \in Guests THEN h ELSE e]
        /\ up = [k \in Connections |-> k \in Guests]
        /\ state = [k \in Connections |-> IF k \in Guests THEN "client flags" ELSE "none"]
        /\ fua = [k \in Connections |-> {}]
    BY <1>2, <1>4 DEF Init
  <2>3. /\ \A k \in Guests : up[k] = TRUE
        /\ \A k \in Owned : up[k] = FALSE
    <3>1. ASSUME NEW k \in Connections
          PROVE  up[k] = (k \in Guests)
      BY <2>1, Zenon
    <3>2. ASSUME NEW k \in Connections
          PROVE  /\ k \in Guests => (k \in Guests) = TRUE
                 /\ k \notin Guests => (k \in Guests) = FALSE
      OBVIOUS
    <3> QED
      BY <3>1, <3>2, Apart, Zenon
  <2>4. /\ \A k \in Guests : toClient[k] = h /\ state[k] = "client flags"
        /\ \A k \in Owned : toClient[k] = e /\ state[k] = "none"
    BY <2>1, Apart
  <2>5. toServer \in [Connections -> Seq(Requests)] /\ toClient \in [Connections -> Seq(Answers)]
    BY <1>3, <1>5, <2>1
  <2> QED
    BY <2>1, <2>3, <2>4, <2>5
<1>7. /\ command \in [Guests -> Commands]
      /\ \A g \in Guests : command[g].handle = <<g, 0>> /\ command[g].type = "none"
  <2>1. ASSUME NEW g \in Guests
        PROVE  /\ Command("none", <<g, 0>>, {}, Zero, FALSE) \in Commands
               /\ Command("none", <<g, 0>>, {}, Zero, FALSE).handle = <<g, 0>>
               /\ Command("none", <<g, 0>>, {}, Zero, FALSE).type = "none"
    <3>1. <<g, 0>> \in Handles
      BY DEF Handles
    <3>2. Command("none", <<g, 0>>, {}, Zero, FALSE) \in Commands
      BY <3>1, CommandIs, NbdDataAssumption
    <3> QED
      BY <3>2 DEF Command
  <2>2. command = [g \in Guests |-> Command("none", <<g, 0>>, {}, Zero, FALSE)]
    BY DEF Init
  <2> QED
    BY <2>1, <2>2
<1>8. 1 \in Owned /\ 0 \in 0 .. MaxEach /\ 0 \in 0 .. MaxConnections
  BY MaxConnectionsAssumption, NbdBoundsAssumption DEF Owned
<1>9. Types
  <2>1. TypeOK
    <3>1. /\ store \in [Blocks -> Values]
          /\ state \in [Connections -> {"none", "client flags", "options", "transmission",
                                        "terminate"}]
          /\ pc = "connect" /\ nr \in 0 .. MaxEach /\ fd \in Owned /\ used \in 0 .. MaxConnections
      BY <1>8, NbdDataAssumption DEF Init
    <3>2. up \in [Connections -> BOOLEAN]
      <4>1. up = [k \in Connections |-> k \in Guests]
        BY DEF Init
      <4>2. \A k \in Connections : (k \in Guests) \in BOOLEAN
        OBVIOUS
      <4> QED
        BY <4>1, <4>2, Zenon
    <3>3. guest \in [Guests -> {"hello", "option", "ready", "failed", "reply", "gone"}]
      BY DEF Init
    <3>4. count \in [Guests -> 0 .. MaxEach]
      BY <1>8 DEF Init
    <3> QED
      BY <3>1, <3>2, <3>3, <3>4 DEF TypeOK
  <2>2. result \in [ok : BOOLEAN, data : Values]
    BY NbdDataAssumption DEF Init
  <2>3. call \in Calls
    BY TheBlock DEF Init
  <2>4. /\ fua \in [Connections -> SUBSET Handles]
        /\ before \in [Guests \cup {Backend} -> SUBSET Handles]
    BY DEF Init
  <2>5. /\ written = {} /\ synced = {} /\ acked = {} /\ promised = {} /\ seen = {}
    BY DEF Init
  <2> QED
    BY <1>6, <1>7, <2>1, <2>2, <2>3, <2>4, <2>5 DEF Types
<1>10. History
  BY DEF Init, History
<1>11. Shape
  <2>1. ASSUME NEW k \in Connections
        PROVE  ShapeOf(k)
    <3>1. toServer[k] = e /\ (state[k] = "client flags" \/ (state[k] = "none" /\ up[k] = FALSE))
      BY <1>6, Apart
    <3>2. Len(e) <= 2 /\ \A i \in 1 .. Len(e) : e[i].msg = IF i = 1 THEN "flags" ELSE "option"
      BY <1>5
    <3> QED
      BY <1>4, <3>1, <3>2 DEF ShapeOf
  <2> QED
    BY <2>1 DEF Shape
<1>12. pc = "connect" /\ used = 0 /\ fd = 1 /\ result.ok = FALSE
  BY DEF Init
<1>13. Owner
  BY <1>5, <1>6, <1>12, Apart DEF Owner
<1>14. Place
  BY <1>12 DEF Place
<1>15. Exchange
  <2>1. toServer[fd] = e /\ toClient[fd] = e
    BY <1>6, <1>8, <1>12, Apart
  <2>2. Brings(e)
    BY <1>5 DEF Brings
  <2> QED
    BY <1>5, <1>12, <2>1, <2>2 DEF Exchange, DataNext
<1>16. AllGuests
  <2>1. ASSUME NEW g \in Guests
        PROVE  GuestOf(g)
    <3>1. /\ toServer[g] = e /\ toClient[g] = h /\ state[g] = "client flags" /\ guest[g] = "hello"
          /\ count[g] = 0
      BY <1>6, Apart DEF Init
    <3>2. Len(e) <= 2
      BY <1>5
    <3>3. Len(h) <= 1
      BY <1>3
    <3>4. Alone(g)
      BY <1>5, <1>7, <3>1, <3>2, <3>3 DEF Alone
    <3>5. Asked(g)
      BY <1>5, <3>1 DEF Asked
    <3>6. Negotiates(g)
      BY <1>2, <1>4, <1>7, <3>1 DEF Negotiates
    <3>7. Rests(g) /\ Awaits(g)
      BY <3>1 DEF Rests, Awaits
    <3> QED
      BY <3>4, <3>5, <3>6, <3>7 DEF GuestOf
  <2> QED
    BY <2>1 DEF AllGuests
<1>17. Fua /\ FuaThreads
  BY <1>6 DEF Init, Fua, FuaOf, FuaThreads
<1>18. CallsTakeEffect /\ FlushCovers
  BY <1>12 DEF Init, CallsTakeEffect, FlushCovers
<1> QED
  BY <1>9, <1>10, <1>11, <1>13, <1>14, <1>15, <1>16, <1>17, <1>18 DEF NInv

LEMMA ServerStep ==
  ASSUME NInv, NEW k \in Connections, Server(k)
  PROVE  NInv'
<1>1. CASE ReceiveFlags(k)
  BY <1>1, ReceiveFlagsStep
<1>2. CASE ReceiveOption(k)
  <2>1. CASE Negotiated(k)
    BY <1>2, <2>1, ReceiveOptionStep
  <2>2. CASE Killed /\ toClient' = toClient
    BY <1>2, <2>2, KilledStep DEF ReceiveOption, client, guests
  <2> QED
    BY <1>2, <2>1, <2>2, ReceiveOptionFacts
<1>3. CASE ReceiveCommand(k)
  BY <1>3, ReceiveCommandStep
<1>4. CASE SyncFua(k)
  BY <1>4, SyncFuaStep
<1>5. CASE ReceiveFails(k)
  BY <1>5, ReceiveFailsStep
<1> QED
  BY <1>1, <1>2, <1>3, <1>4, <1>5 DEF Server

LEMMA ClientStep ==
  ASSUME NInv, Client
  PROVE  NInv'
<1>1. CASE Connect
  BY <1>1, ConnectStep
<1>2. CASE ReceiveHello
  BY <1>2, ReceiveHelloStep
<1>3. CASE ReceiveExport
  BY <1>3, ReceiveExportStep
<1>4. CASE HandshakeFails
  BY <1>4, HandshakeFailsStep
<1>5. CASE Send
  BY <1>5, SendStep
<1>6. CASE ReceiveHeader
  BY <1>6, ReceiveHeaderStep
<1>7. CASE ReceiveData
  BY <1>7, ReceiveDataStep
<1>8. CASE AnswerFails
  BY <1>8, AnswerFailsStep
<1> QED
  BY <1>1, <1>2, <1>3, <1>4, <1>5, <1>6, <1>7, <1>8 DEF Client

LEMMA StutterStep ==
  ASSUME NInv, UNCHANGED vars
  PROVE  NInv'
<1>1. UNCHANGED <<store, up, toServer, toClient, state, fua, pc, call, nr, fd, used, result, guest,
                  command, count, written, synced, acked, promised, before, seen>>
  BY DEF vars, server, client, guests
<1>2. Types'
  BY <1>1 DEF NInv, Types, TypeOK
<1>3. \A k \in Connections : Ends(k)
  BY <1>1, Stays DEF NInv
<1>4. Fua'
  BY <1>1, Apart, FuaFrame DEF NInv, Fua
<1>5. \A k \in Connections : fua'[k] \subseteq fua[k]
  BY <1>1
<1>6. History'
  BY <1>1 DEF NInv, History
<1> QED
  BY <1>1, <1>2, <1>3, <1>4, <1>5, <1>6, ServerEnds

LEMMA NextInv == NInv /\ [Next]_vars => NInv'
<1> SUFFICES ASSUME NInv, [Next]_vars
             PROVE  NInv'
  OBVIOUS
<1>1. CASE Call
  BY <1>1, CallStep
<1>2. CASE Client
  BY <1>2, ClientStep
<1>3. CASE Die
  BY <1>3, DieStep
<1>4. CASE \E k \in Connections : Server(k)
  BY <1>4, ServerStep
<1>5. CASE \E k \in Owned : Break(k)
  BY <1>5, BreakStep
<1>6. CASE \E g \in Guests : Guest(g) \/ GuestSends(g)
  <2>1. PICK g \in Guests : Guest(g) \/ GuestSends(g)
    BY <1>6
  <2>2. CASE GuestNegotiates(g)
    BY <2>2, GuestNegotiatesStep
  <2>3. CASE GuestReceives(g)
    BY <2>3, GuestReceivesStep
  <2>4. CASE GuestLeaves(g)
    BY <2>4, GuestLeavesStep
  <2>5. CASE GuestSends(g)
    BY <2>5, GuestSendsStep
  <2> QED
    BY <2>1, <2>2, <2>3, <2>4, <2>5 DEF Guest
<1>7. CASE UNCHANGED vars
  BY <1>7, StutterStep
<1> QED
  BY <1>1, <1>2, <1>3, <1>4, <1>5, <1>6, <1>7 DEF Next

\* What is in the queues of every connection belongs to where its thread, and the
\* backend or the guest at its other end, are: the backend has one command under
\* way whose handle was never used on its connection before, a guest waits for one
\* answer at a time, and what an answer on its way says is true.
THEOREM NbdInvariant == Spec => []NInv
<1> QED
  BY InitInv, NextInv, PTL DEF Spec

\* The variables keep their types, and the backend sends within a call only.
THEOREM NbdTypeCorrect == Spec => []TypeOK
<1>1. NInv => TypeOK
  BY DEF NInv, Types
<1> QED
  BY <1>1, NbdInvariant, PTL

\* What a read of the NBD backend returns was in the block at some moment of the
\* call, and a write that it reports as done was executed, whatever breaks.
THEOREM NbdCallsTakeEffect == Spec => []CallsTakeEffect
<1>1. NInv => CallsTakeEffect
  BY DEF NInv
<1> QED
  BY <1>1, NbdInvariant, PTL

\* A flush that succeeds covers all that was acknowledged on any connection before
\* it was sent.
THEOREM NbdFlushCovers == Spec => []FlushCovers
<1>1. NInv => FlushCovers
  BY DEF NInv
<1> QED
  BY <1>1, NbdInvariant, PTL

\* A write with FUA is on stable storage before the next command of its connection
\* is answered, although the server answers the write itself before it syncs.
THEOREM NbdFuaBeforeNextAnswer == Spec => []FuaBeforeNextAnswer
<1>1. NInv => FuaBeforeNextAnswer
  <2>1. SUFFICES ASSUME NInv, NEW h \in promised, guest[h[1]] \in {"ready", "failed"},
                        count[h[1]] > h[2]
                 PROVE  h \in synced
    BY DEF FuaBeforeNextAnswer
  <2>2. h \in Guests \X Nat
    BY <2>1 DEF NInv, Types
  <2>3. h = <<h[1], h[2]>> /\ h[1] \in Guests /\ h[2] \in Nat
    BY <2>2
  <2>4. FuaOf(h[1])
    BY <2>1, <2>3 DEF NInv, Fua
  <2> QED
    BY <2>1, <2>3, <2>4 DEF FuaOf
<1> QED
  BY <1>1, NbdInvariant, PTL

=============================================================================
