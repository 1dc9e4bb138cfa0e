-------------------------------- MODULE Nbd --------------------------------
(***************************************************************************)
(* src/storage_backend_nbd.cpp, the backend that is a client of an NBD      *)
(* server, and src/server_nbd.cpp, the server, with a thread for each       *)
(* connection, next to guests: NBD clients that are not part of MyStorage.  *)
(*                                                                          *)
(* A connection is a queue of messages in each direction. It may break: the *)
(* server still handles what it has received by then, and the client still  *)
(* reads what it has received.  Nothing ignores SIGPIPE (main.cpp:37): a     *)
(* write to a connection that is gone may succeed, fail, or end the process. *)
(*                                                                          *)
(* One step is one message received, with what the receiver does about it   *)
(* before it receives again; the storage of the server handles a request at *)
(* one moment (Volume). The backend is called by one thread.                *)
(***************************************************************************)
EXTENDS Naturals, SequencesExt

CONSTANTS
  MaxConnections,     \* bound: the connections that the backend makes
  Guests,             \* other clients, each with a connection
  MaxRequests,        \* bound: the calls of the backend and the commands of guests
  MaxEach,            \* bound: those of one of them
  Blocks, Values, Zero,
  StandardReply,      \* server_nbd.cpp answers NBD_OPT_EXPORT_NAME by an option reply;
                      \* whether there are servers that answer by size and flags, as
                      \* NBD has it and as the backend expects
  Faults,             \* "break": of connections, or they are refused,
                      \* "storage": errors of the storage,
                      \* "die": the server dies and is started again
  Backend             \* who owns the handles that are not of guests

ASSUME MaxConnectionsAssumption == MaxConnections \in Nat \ {0}
ASSUME NbdBoundsAssumption == MaxRequests \in Nat /\ MaxEach \in Nat
ASSUME NbdDataAssumption == Blocks # {} /\ Zero \in Values
ASSUME StandardReplyAssumption == StandardReply \in BOOLEAN
ASSUME NbdFaultsAssumption == Faults \subseteq {"break", "storage", "die"}
ASSUME BackendAssumption == Backend \notin Guests
ASSUME GuestsAssumption == Guests \cap (1 .. MaxConnections) = {}

Owned == 1 .. MaxConnections  \* the connections of the backend
Connections == Owned \cup Guests

VARIABLES
  store,     \* the blocks of the storage of the server
  up,        \* up[k]: connection k is there
  toServer, toClient,
  state,     \* state[k]: of handle_client; "none": no thread, "terminate": it is gone
  fua,       \* fua[k]: the write that is answered and to be synced, as a set
  pc,        \* the backend: where it is in reconnect or in a call; "dead": its
             \* process is
  call,      \* and the call
  nr,        \* seq_nr
  fd,        \* the connection in use
  used,      \* the number of connections made
  result,    \* of the last call
  guest,     \* guest[g]: what guest g waits for
  command,   \* command[g]: its last command
  count,     \* count[g]: the number of its commands
  written, synced, acked,  \* history: handles of writes that were executed, that
                           \* are on stable storage, that were acknowledged
  promised,  \* history: handles of writes that asked for FUA and were executed
  before,    \* history: before[o]: acked when o sent its last command, if that flushes
  seen       \* history: what the block that is read has been since the call began

server == <<store, state, fua, written, synced, promised>>
client == <<pc, call, nr, fd, used, result, seen>>
guests == <<guest, command, count>>
vars == <<server, client, guests, up, toServer, toClient, acked, before>>

-----------------------------------------------------------------------------
NoCall == [op |-> "none", block |-> CHOOSE b \in Blocks : TRUE, data |-> Zero]
Handle == <<Backend, nr>>

Command(type, handle, blocks, data, sync) ==
  [msg |-> "command", type |-> type, handle |-> handle, blocks |-> blocks,
   data |-> data, fua |-> sync]

\* what handle_client sends first, before it receives anything: it is there with
\* the connection
Hello == <<[msg |-> "hello"]>>

MayAsk(n) == n < MaxEach /\ FoldFunction(+, nr, count) < MaxRequests

Say(k, q, m) == [q EXCEPT ![k] = Append(@, m)]
Hear(k, q) == [q EXCEPT ![k] = Tail(@)]
Lost(k, q) == ~up[k] /\ q[k] = <<>>

Init ==
  /\ store = [b \in Blocks |-> Zero]
  /\ up = [k \in Connections |-> k \in Guests]
  /\ toServer = [k \in Connections |-> <<>>]
  /\ toClient = [k \in Connections |-> IF k \in Guests THEN Hello ELSE <<>>]
  /\ state = [k \in Connections |-> IF k \in Guests THEN "client flags" ELSE "none"]
  /\ fua = [k \in Connections |-> {}]
  /\ pc = "connect" /\ call = NoCall /\ nr = 0 /\ fd = 1 /\ used = 0
  /\ result = [ok |-> FALSE, data |-> Zero]
  /\ guest = [g \in Guests |-> "hello"]
  /\ command = [g \in Guests |-> Command("none", <<g, 0>>, {}, Zero, FALSE)]
  /\ count = [g \in Guests |-> 0]
  /\ written = {} /\ synced = {} /\ acked = {} /\ promised = {}
  /\ before = [o \in Guests \cup {Backend} |-> {}]
  /\ seen = {}

-----------------------------------------------------------------------------
(* server_nbd.cpp: handle_client, the thread of connection k                *)

ReceiveFlags(k) ==
  /\ state[k] = "client flags" /\ toServer[k] # <<>>
  /\ state' = [state EXCEPT ![k] = "options"]
  /\ toServer' = Hear(k, toServer)
  /\ UNCHANGED <<store, fua, written, synced, promised, client, guests, up, toClient, acked, before>>

Acknowledgements(option) ==
  {[msg |-> "option reply", ok |-> TRUE]} \cup
  (IF option = "export name" /\ StandardReply THEN {[msg |-> "size"]} ELSE {})

\* the process of the server ends, and is there again for the next connection
Killed ==
  /\ up' = [k \in Connections |-> FALSE]
  /\ toServer' = [k \in Connections |-> <<>>]
  /\ state' = [k \in Connections |-> IF state[k] = "none" THEN "none" ELSE "terminate"]
  /\ fua' = [k \in Connections |-> {}]

\* the thread of k has handled a message and is in state st, with `sync' to sync
Handled(k, st, sync) ==
  /\ toServer' = Hear(k, toServer)
  /\ state' = [state EXCEPT ![k] = st]
  /\ up' = [up EXCEPT ![k] = @ /\ st # "terminate"]
  /\ fua' = [fua EXCEPT ![k] = sync]

\* it has, and has sent m, after which it is in state st. When the connection is
\* gone, the write succeeds nevertheless, or fails, or there is a SIGPIPE.
Answered(k, m, st, sync) ==
  \/ /\ Handled(k, st, sync)
     /\ toClient' = IF up[k] THEN [toClient EXCEPT ![k] = @ \o m] ELSE toClient
  \/ /\ ~up[k] /\ (Handled(k, "terminate", {}) \/ Killed)
     /\ UNCHANGED toClient

\* a known export starts the transmission; NBD_OPT_GO for an unknown one ends
\* the connection; everything else is answered and another option awaited
ReceiveOption(k) ==
  LET m == Head(toServer[k])
      accepted == m.option \in {"export name", "go"} /\ m.known
      refused == m.option = "go" /\ ~m.known
  IN /\ state[k] = "options" /\ toServer[k] # <<>>
     /\ \/ /\ accepted
           /\ \E a \in Acknowledgements(m.option) : Answered(k, <<a>>, "transmission", {})
        \/ refused /\ Handled(k, "terminate", {}) /\ UNCHANGED toClient
        \/ /\ ~accepted /\ ~refused
           /\ Answered(k, <<[msg |-> "option reply", ok |-> FALSE]>>, "options", {})
     /\ UNCHANGED <<store, written, synced, promised, client, guests, acked, before>>

\* slip: a flush is answered first and done later, as it is for FUA
Flushed_Later(m) == synced
Flushed(m) == synced \cup written

Execute(m) ==
  /\ store' = [b \in Blocks |-> IF b \notin m.blocks THEN store[b]
                                ELSE IF m.type = "write" THEN m.data
                                ELSE IF m.type = "trim" THEN Zero ELSE store[b]]
  /\ written' = IF m.type = "write" THEN written \cup {m.handle} ELSE written
  /\ synced' = IF m.type = "flush" THEN Flushed(m) ELSE synced

\* slip: the error is not passed on
Answer_Success(m, err) ==
  <<[msg |-> "reply", handle |-> m.handle, err |-> FALSE]>> \o
  (IF m.type = "read" THEN <<[msg |-> "data", data |-> Zero]>> ELSE <<>>)

\* the answer to m: a header, and the data that was read
Answer(m, err) ==
  LET header == [msg |-> "reply", handle |-> m.handle, err |-> err]
  IN IF m.type = "read" /\ ~err
     THEN <<header, [msg |-> "data", data |-> store[CHOOSE b \in m.blocks : TRUE]]>>
     ELSE <<header>>

\* the command, its answer, and whether the thread goes on
ReceiveCommand(k) ==
  \E err \in BOOLEAN :
    LET m == Head(toServer[k])
        ends == m.type = "disc" \/ (m.type = "flush" /\ err)
    IN /\ state[k] = "transmission" /\ fua[k] = {} /\ toServer[k] # <<>>
       /\ err => "storage" \in Faults /\ m.type # "disc"
       /\ IF err THEN UNCHANGED <<store, written, synced>> ELSE Execute(m)
       /\ Answered(k, Answer(m, err), IF ends THEN "terminate" ELSE "transmission",
                   IF m.fua /\ ~ends THEN {m.handle} ELSE {})
       /\ promised' = IF m.fua /\ ~err THEN promised \cup {m.handle} ELSE promised
       /\ seen' = IF pc = "idle" \/ call.op # "get" THEN seen ELSE seen \cup {store'[call.block]}
       /\ UNCHANGED <<pc, call, nr, fd, used, result, guests, acked, before>>

\* slip: the sync of FUA is left out
FuaSynced_Never == synced
FuaSynced == synced \cup written

\* NBD_CMD_FLAG_FUA: after the answer
SyncFua(k) ==
  /\ fua[k] # {}
  /\ fua' = [fua EXCEPT ![k] = {}]
  /\ \/ /\ synced' = FuaSynced
        /\ UNCHANGED <<state, up>>
     \/ /\ "storage" \in Faults
        /\ state' = [state EXCEPT ![k] = "terminate"]
        /\ up' = [up EXCEPT ![k] = FALSE]
        /\ UNCHANGED synced
  /\ UNCHANGED <<store, written, promised, client, guests, toServer, toClient, acked, before>>

ReceiveFails(k) ==
  /\ state[k] \notin {"none", "terminate"} /\ fua[k] = {} /\ Lost(k, toServer)
  /\ state' = [state EXCEPT ![k] = "terminate"]
  /\ UNCHANGED <<store, fua, written, synced, promised, client, guests, up, toServer, toClient, acked, before>>

Server(k) ==
  \/ ReceiveFlags(k) \/ ReceiveOption(k)
  \/ ReceiveCommand(k) \/ SyncFua(k) \/ ReceiveFails(k)

-----------------------------------------------------------------------------
(* storage_backend_nbd.cpp                                                  *)

\* what the call asks the server for: a trim asks for nothing at all, its
\* offset and length are 0
Request ==
  LET types == [get |-> "read", put |-> "write", fsync |-> "flush", trim |-> "trim"]
      blocks == IF call.op \in {"get", "put"} THEN {call.block} ELSE {}
  IN Command(types[call.op], Handle, blocks, call.data, FALSE)

\* get_block, put_block, fsync, trim_zero
Call ==
  \E op \in {"get", "put", "fsync", "trim"}, b \in Blocks, v \in Values :
    /\ pc = "idle" /\ MayAsk(nr)
    /\ (op \in {"fsync", "trim"} => b = NoCall.block) /\ (op = "put" <=> v # Zero)
    /\ nr' = nr + 1
    /\ call' = [op |-> op, block |-> b, data |-> v]
    /\ seen' = IF op = "get" THEN {store[b]} ELSE {}
    /\ before' = [before EXCEPT ![Backend] = IF op = "fsync" THEN acked ELSE {}]
    /\ pc' = "send"
    /\ UNCHANGED <<fd, used, result, server, guests, up, toServer, toClient, acked>>

\* sc->connect() closes the previous connection, and tries until it has a socket:
\* of a new connection, or one that was refused and is not connected, since the
\* error is read once and then gone (socket_client_ipv4.cpp:122)
Connect ==
  /\ pc = "connect" /\ used < MaxConnections
  /\ used' = used + 1 /\ fd' = used'
  /\ \E made \in BOOLEAN :
       /\ ~made => "break" \in Faults /\ used' < MaxConnections
       /\ up' = [up EXCEPT ![fd] = FALSE, ![fd'] = made]
       /\ state' = [state EXCEPT ![fd'] = IF made THEN "client flags" ELSE "none"]
       /\ toClient' = [toClient EXCEPT ![fd] = <<>>, ![fd'] = IF made THEN Hello ELSE <<>>]
  /\ pc' = "init"
  /\ UNCHANGED <<call, nr, result, seen, store, fua, written, synced, promised, guests,
                 toServer, acked, before>>

\* slip: that the constructor connects as well is forgotten
Reconnected_AlwaysSend == pc' = "send"

\* the result of reconnect is not looked at: the call goes on
Reconnected == pc' = IF call.op = "none" THEN "idle" ELSE "send"

ReceiveHello ==
  /\ pc = "init" /\ toClient[fd] # <<>>
  /\ toClient' = Hear(fd, toClient)
  /\ IF up[fd]
     THEN /\ toServer' = [toServer EXCEPT ![fd] = @ \o
                 <<[msg |-> "flags"], [msg |-> "option", option |-> "export name", known |-> TRUE]>>]
          /\ pc' = "options recv"
     ELSE (Reconnected \/ pc' = "dead") /\ UNCHANGED toServer
  /\ UNCHANGED <<call, nr, fd, used, result, seen, server, guests, up, acked, before>>

\* eight bytes of size and two of flags: an option reply is twice as long
ReceiveExport ==
  /\ pc = "options recv" /\ toClient[fd] # <<>>
  /\ toClient' = IF Head(toClient[fd]).msg = "size" THEN Hear(fd, toClient)
                 ELSE [toClient EXCEPT ![fd] = <<[msg |-> "rest"]>> \o Tail(@)]
  /\ Reconnected
  /\ UNCHANGED <<call, nr, fd, used, result, seen, server, guests, up, toServer, acked, before>>

HandshakeFails ==
  /\ pc \in {"init", "options recv"} /\ Lost(fd, toClient)
  /\ Reconnected
  /\ UNCHANGED <<call, nr, fd, used, result, seen, server, guests, up, toServer, toClient,
                 acked, before>>

\* slip: after a failure the command goes out on the old connection once more
Retry_SameConnection == "send"
Retry == "connect"

\* the write to a connection that is gone succeeds, fails, or ends the process
Send ==
  /\ pc = "send"
  /\ IF up[fd] THEN pc' = "header" /\ toServer' = Say(fd, toServer, Request)
     ELSE pc' \in {"header", Retry, "dead"} /\ UNCHANGED toServer
  /\ UNCHANGED <<call, nr, fd, used, result, seen, server, guests, up, toClient, acked, before>>

Return(ok, v) ==
  /\ pc' = "idle"
  /\ result' = [ok |-> ok, data |-> v]
  /\ acked' = IF ok /\ call.op = "put" THEN acked \cup {Handle} ELSE acked

Mine(m) == m.msg = "reply" /\ m.handle = Handle

ReceiveHeader ==
  /\ pc = "header" /\ toClient[fd] # <<>>
  /\ LET m == Head(toClient[fd]) IN
       \/ /\ Mine(m)
          /\ IF m.err THEN Return(FALSE, Zero)
             ELSE IF call.op = "get" THEN pc' = "data" /\ UNCHANGED <<result, acked>>
             ELSE Return(TRUE, Zero)
       \/ /\ ~Mine(m)  \* the rest of something else, and the start of a reply
          /\ m.msg = "rest" => Len(toClient[fd]) > 1 \/ ~up[fd]
          /\ pc' = Retry
          /\ UNCHANGED <<result, acked>>
  /\ toClient' = Hear(fd, toClient)
  /\ UNCHANGED <<call, nr, fd, used, seen, server, guests, up, toServer, before>>

ReceiveData ==
  /\ pc = "data" /\ toClient[fd] # <<>>
  /\ Return(TRUE, Head(toClient[fd]).data)
  /\ toClient' = Hear(fd, toClient)
  /\ UNCHANGED <<call, nr, fd, used, seen, server, guests, up, toServer, before>>

AnswerFails ==
  /\ pc \in {"header", "data"} /\ Lost(fd, toClient)
  /\ pc' = Retry
  /\ UNCHANGED <<call, nr, fd, used, result, seen, server, guests, up, toServer, toClient,
                 acked, before>>

Client ==
  \/ Connect \/ ReceiveHello \/ ReceiveExport \/ HandshakeFails
  \/ Send \/ ReceiveHeader \/ ReceiveData \/ AnswerFails

-----------------------------------------------------------------------------
(* the guests, and what else may happen                                     *)

Ask(g) ==
  \E option \in {"export name", "go", "other"}, known \in BOOLEAN :
    /\ known <=> option # "go" \/ guest[g] = "option"
    /\ toServer' = IF ~up[g] THEN toServer
         ELSE LET m == [msg |-> "option", option |-> option, known |-> known]
              IN [toServer EXCEPT ![g] = @ \o
                    IF guest[g] = "hello" THEN <<[msg |-> "flags"], m>> ELSE <<m>>]

\* the handshake: options until one is accepted
GuestNegotiates(g) ==
  /\ guest[g] \in {"hello", "option"} /\ toClient[g] # <<>>
  /\ LET m == Head(toClient[g]) IN
       IF m.msg = "size" \/ (m.msg = "option reply" /\ m.ok)
       THEN guest' = [guest EXCEPT ![g] = "ready"] /\ UNCHANGED toServer
       ELSE guest' = [guest EXCEPT ![g] = "option"] /\ Ask(g)
  /\ toClient' = Hear(g, toClient)
  /\ UNCHANGED <<command, count, client, server, up, acked, before>>

GuestSends(g) ==
  \E type \in {"write", "flush", "trim", "disc"}, b \in Blocks, v \in Values, sync \in BOOLEAN :
    /\ guest[g] \in {"ready", "failed"} /\ up[g] /\ MayAsk(count[g])
    /\ (type \in {"flush", "disc"} => b = NoCall.block)
    /\ (type = "write" <=> v # Zero) /\ (sync => type = "write")
    /\ LET m == Command(type, <<g, count[g] + 1>>,
                        IF type \in {"write", "trim"} THEN {b} ELSE {}, v, sync)
       IN command' = [command EXCEPT ![g] = m] /\ toServer' = Say(g, toServer, m)
    /\ count' = [count EXCEPT ![g] = @ + 1]
    /\ guest' = [guest EXCEPT ![g] = "reply"]
    /\ before' = [before EXCEPT ![g] = IF type = "flush" THEN acked ELSE {}]
    /\ UNCHANGED <<client, server, up, toClient, acked>>

GuestReceives(g) ==
  /\ guest[g] = "reply" /\ toClient[g] # <<>>
  /\ LET m == Head(toClient[g]) IN
       /\ guest' = [guest EXCEPT ![g] = IF m.err THEN "failed" ELSE "ready"]
       /\ acked' = IF command[g].type = "write" /\ ~m.err THEN acked \cup {m.handle} ELSE acked
  /\ toClient' = Hear(g, toClient)
  /\ UNCHANGED <<command, count, client, server, up, toServer, before>>

GuestLeaves(g) ==
  /\ guest[g] # "gone" /\ Lost(g, toClient)
  /\ guest' = [guest EXCEPT ![g] = "gone"]
  /\ UNCHANGED <<command, count, client, server, up, toServer, toClient, acked, before>>

Guest(g) == GuestNegotiates(g) \/ GuestReceives(g) \/ GuestLeaves(g)

\* what was on its way does not arrive, from some point on; bound: the backend may
\* still make another connection
Break(k) ==
  /\ "break" \in Faults /\ used < MaxConnections /\ up[k]
  /\ \E i \in 0 .. Len(toServer[k]), j \in 0 .. Len(toClient[k]) :
       /\ toServer' = [toServer EXCEPT ![k] = SubSeq(@, 1, i)]
       /\ toClient' = [toClient EXCEPT ![k] = SubSeq(@, 1, j)]
  /\ up' = [up EXCEPT ![k] = FALSE]
  /\ UNCHANGED <<client, guests, server, acked, before>>

\* for whatever other reason
Die ==
  /\ "die" \in Faults /\ used < MaxConnections /\ \E k \in Connections : up[k]
  /\ Killed
  /\ UNCHANGED <<store, written, synced, promised, client, guests, toClient, acked, before>>

Next ==
  \/ Call \/ Client \/ Die
  \/ (\E k \in Connections : Server(k)) \/ (\E k \in Owned : Break(k))
  \/ \E g \in Guests : Guest(g) \/ GuestSends(g)

Spec == Init /\ [][Next]_vars

\* the threads of the server and of the backend go on; calls, commands and
\* faults come or do not come
FairSpec ==
  /\ Spec
  /\ WF_vars(Client)
  /\ \A k \in Connections : WF_vars(Server(k))
  /\ \A g \in Guests : WF_vars(Guest(g))

-----------------------------------------------------------------------------
(* Properties                                                               *)

\* Every variable has its type; a command is sent within a call only.
TypeOK ==
  /\ store \in [Blocks -> Values]
  /\ up \in [Connections -> BOOLEAN]
  /\ state \in [Connections -> {"none", "client flags", "options", "transmission",
                                "terminate"}]
  /\ pc \in {"connect", "init", "options recv", "idle", "send", "header", "data",
            "dead"}
  /\ pc \in {"send", "header", "data"} => call.op # "none"
  /\ nr \in 0 .. MaxEach /\ fd \in Owned /\ used \in 0 .. MaxConnections
  /\ guest \in [Guests -> {"hello", "option", "ready", "failed", "reply", "gone"}]
  /\ count \in [Guests -> 0 .. MaxEach]

\* What the answer of the backend says is true, through broken connections,
\* commands sent twice and another client that writes the same block: a read
\* returns what the block was at some moment of the call, and a write that
\* succeeded was executed. (get_multiple_blocks, put_block, handle_client)
CallsTakeEffect ==
  pc = "idle" /\ result.ok =>
    /\ call.op = "get" => result.data \in seen
    /\ call.op = "put" => Handle \in written

\* A flush that succeeds covers every write that was acknowledged before it was
\* sent, on whichever connection (the server offers NBD_FLAG_CAN_MULTI_CONN).
FlushCovers ==
  /\ pc = "idle" /\ result.ok /\ call.op = "fsync" => before[Backend] \subseteq synced
  /\ \A g \in Guests :
       guest[g] = "ready" /\ command[g].type = "flush" => before[g] \subseteq synced

\* The server answers a FUA write first and syncs it then, but it is on stable
\* storage before the next command of its connection is answered, whatever that is.
FuaBeforeNextAnswer ==
  \A h \in promised : guest[h[1]] \in {"ready", "failed"} /\ count[h[1]] > h[2] => h \in synced

\* bound: the backend has used the connections it may make
Exhausted == pc = "connect" /\ used = MaxConnections

\* Nobody waits for ever, whatever broke, died or failed: a guest that waits is
\* answered or sees its connection end; and the backend, in its constructor or in a
\* call, gets on, or its process ends by SIGPIPE, or it gives up the connection for
\* another one until it may make no more (Exhausted). With server_nbd.cpp's answer
\* to NBD_OPT_EXPORT_NAME it is always the last: no call ever returns.
Progress ==
  /\ (pc \notin {"idle", "dead"}) ~> (pc \in {"idle", "dead"} \/ Exhausted)
  /\ \A g \in Guests : (guest[g] = "reply") ~> (guest[g] # "reply")
=============================================================================
