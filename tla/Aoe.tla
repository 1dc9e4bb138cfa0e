-------------------------------- MODULE Aoe --------------------------------
(***************************************************************************)
(* src/storage_backend_aoe.cpp, the backend that is a client of an ATA over *)
(* Ethernet target, and src/server_aoe.cpp, targets on the same network.    *)
(*                                                                          *)
(* The client broadcasts every request, looks at whatever frame arrives     *)
(* next, of whatever target, and sends a request again when nothing arrives *)
(* for a while. A frame may be lost (one that another thread of the client  *)
(* takes is lost for this one); frames that arrive are in order, as the     *)
(* target has one path and one thread for it.                               *)
(***************************************************************************)
EXTENDS Naturals, Sequences

CONSTANTS
  Targets,          \* servers on the network, with a shelf and slot (major, minor) each
  target,           \* the one that the client is configured for
  Blocks,           \* block numbers that are used
  SectorsPerBlock,  \* block_size / 512
  Values, Zero,
  Faults,           \* "lose": a frame, "storage": errors of the storage, "device": of the
                    \* network device of the client
  MaxFaults, MaxCalls, MaxFrames  \* bounds: faults, calls, frames on their way

ASSUME AoeZeroAssumption == Zero \in Values
ASSUME TargetAssumption == target \in Targets
ASSUME BlocksAssumption == Blocks \subseteq Nat /\ Blocks # {} /\ SectorsPerBlock \in Nat \ {0}
ASSUME AoeFaultsAssumption == Faults \subseteq {"lose", "storage", "device"}
ASSUME AoeBoundsAssumption == MaxFaults \in Nat /\ MaxCalls \in Nat /\ MaxFrames \in Nat

VARIABLES
  store,     \* the sectors of the storage of the target
  toServer,  \* frames that the target has not read yet
  toClient,  \* frames that the client has not read yet
  state,     \* of connect(); "failed": it gave up
  size,      \* whose size was received
  pc, call,  \* the client: "idle", "send", "wait"; its call
  sector,    \* the sector of the block that is worked on
  tag,       \* of the request
  got,       \* the sectors that were read
  drawn,     \* the tags that rand() has returned
  faults, calls,
  possible   \* history: possible[l]: what sector l of the target can be, after
             \* the writes that were answered and with those that were not

connection == <<state, size>>
thread == <<pc, call, sector, tag, got>>
vars == <<store, toServer, toClient, connection, thread, drawn, faults, calls, possible>>

-----------------------------------------------------------------------------
\* the number of a block is used as that of its first sector, which it is not:
\* the sectors of neighbouring blocks overlap
SectorsOf(b) == b .. b + SectorsPerBlock - 1
Sectors == UNION {SectorsOf(b) : b \in Blocks}

NoCall == [op |-> "none", block |-> CHOOSE b \in Blocks : TRUE, data |-> Zero]
Lba == call.block + sector
Connected == state \in {"running", "failed"}
Reading == state \in {"discover_sent", "identify_sent"} \/ pc = "wait"

Command(op) == CASE op = "get" -> "read" [] op = "put" -> "write"
                 [] op = "fsync" -> "flush" [] op = "trim" -> "trim" [] OTHER -> "none"

Init ==
  /\ store = [l \in Sectors |-> Zero]
  /\ toServer = <<>> /\ toClient = <<>>
  /\ state = "discover" /\ size = "none"
  /\ pc = "idle" /\ call = NoCall /\ sector = 0 /\ tag = 0 /\ got = <<>>
  /\ drawn = 1 /\ faults = 0 /\ calls = 0
  /\ possible = [l \in Sectors |-> {Zero}]

Fault(kind) == kind \in Faults /\ faults < MaxFaults /\ faults' = faults + 1

\* m to all targets: the one that is meant may not get it
Broadcast(m) ==
  /\ Len(toServer) < MaxFrames
  /\ \/ toServer' = Append(toServer, m) /\ UNCHANGED faults
     \/ Fault("lose") /\ UNCHANGED toServer

\* m to the client, which may not get it; when nobody reads the frames, those
\* that are too many are dropped
Answer(m) ==
  \/ Len(toClient) < MaxFrames /\ toClient' = Append(toClient, m) /\ UNCHANGED faults
  \/ Len(toClient) >= MaxFrames /\ ~Reading /\ UNCHANGED <<toClient, faults>>
  \/ Fault("lose") /\ UNCHANGED toClient

-----------------------------------------------------------------------------
(* server_aoe.cpp: worker_thread and announcer                              *)

\* a frame of target s, with a tag and the data of a sector
Frame(kind, s, t, v) == [kind |-> kind, from |-> s, tag |-> t, data |-> v]
Request(command, t, l, v) == [command |-> command, tag |-> t, lba |-> l, data |-> v]

\* bound: one frame that nobody waits for at a time, and room for an answer
Spare == (Reading => Len(toClient) < MaxFrames - 1) /\
         \A i \in 1 .. Len(toClient) : toClient[i].from = target /\ toClient[i].kind # "announcement"

Announce ==
  /\ Spare
  /\ Answer(Frame("announcement", target, 0, Zero))
  /\ UNCHANGED <<store, toServer, connection, thread, drawn, calls, possible>>

\* a command that is not known, flush and trim among them, is not answered, nor is
\* one that fails
Serve ==
  LET m == Head(toServer) IN
  /\ toServer # <<>>
  /\ toServer' = Tail(toServer)
  /\ \/ /\ m.command \in {"info", "identify", "read", "write"}
        /\ store' = IF m.command = "write" THEN [store EXCEPT ![m.lba] = m.data] ELSE store
        /\ Answer(Frame(m.command, target, m.tag, IF m.command = "read" THEN store[m.lba] ELSE Zero))
     \/ /\ m.command \in {"read", "write"} /\ Fault("storage")
        /\ UNCHANGED <<store, toClient>>
     \/ /\ m.command \in {"flush", "trim"}
        /\ UNCHANGED <<store, toClient, faults>>
  /\ UNCHANGED <<connection, thread, drawn, calls, possible>>

\* the other targets execute and answer what is broadcast as well: the shelf that
\* a request is for is not looked at. Their answers come at any time (a frame of
\* kind "info" is an announcement, too), and what they store is not followed
ServeOther(s) ==
  \E kind \in {"info", "identify", "read", "write"}, v \in Values, t \in {0, 1, tag} :
    /\ s # target /\ Spare
    /\ \/ kind = "info" /\ t = 0 /\ v = Zero
       \/ kind = "identify" /\ t = 1 /\ v = Zero /\ ~Connected
       \/ pc # "idle" /\ t = tag /\ kind = Command(call.op) /\ (kind = "read" \/ v = Zero)
    /\ Answer(Frame(kind, s, t, v))
    /\ UNCHANGED <<store, toServer, connection, thread, drawn, calls, possible>>

-----------------------------------------------------------------------------
(* storage_backend_aoe.cpp: connect(), which the constructor calls          *)

Discover ==
  /\ state = "discover"
  /\ Broadcast(Request("info", 0, 0, Zero))
  /\ state' = "discover_sent"
  /\ UNCHANGED <<store, toClient, size, thread, drawn, calls, possible>>

\* any frame of the target will do; when another one comes after a second the
\* request is sent again
Discovered ==
  /\ state = "discover_sent" /\ toClient # <<>>
  /\ toClient' = Tail(toClient)
  /\ state' \in IF Head(toClient).from = target THEN {"identify"}
                 ELSE {"discover", "discover_sent"}
  /\ UNCHANGED <<store, toServer, size, thread, drawn, faults, calls, possible>>

Identify ==
  /\ state = "identify"
  /\ Broadcast(Request("identify", 1, 0, Zero))
  /\ state' = "identify_sent"
  /\ UNCHANGED <<store, toClient, size, thread, drawn, calls, possible>>

\* what arrives is not compared with what was asked: the count of buffers in a
\* configuration is where an answer has its error, and the size may be that of
\* another target
Identified ==
  /\ state = "identify_sent" /\ toClient # <<>>
  /\ IF Head(toClient).kind \in {"info", "announcement"}
     THEN state' = "failed" /\ UNCHANGED size
     ELSE state' = "running" /\ size' = Head(toClient).from
  /\ toClient' = Tail(toClient)
  /\ UNCHANGED <<store, toServer, thread, drawn, faults, calls, possible>>

\* poll or read fails
ConnectFails ==
  /\ state \in {"discover_sent", "identify_sent"} /\ Fault("device")
  /\ state' = "failed"
  /\ UNCHANGED <<store, toServer, toClient, size, thread, drawn, calls, possible>>

Connect == Discover \/ Discovered \/ Identify \/ Identified

-----------------------------------------------------------------------------
(* storage_backend_aoe.cpp: get_block, put_block, fsync, trim_zero          *)

\* slip: one more
Requests_OffByOne == IF call.op = "fsync" THEN 1 ELSE SectorsPerBlock + 1

\* the requests of the call: one for each sector
Requests == IF call.op = "fsync" THEN 1 ELSE SectorsPerBlock

\* with a write of value v under way sector l may become v
MayBecome(f, l, v) == [f EXCEPT ![l] = @ \cup {v}]

\* a call is made whether or not connect found the target; a flush has tag 0
Call ==
  \E op \in {"get", "put", "fsync", "trim"}, b \in Blocks, v \in Values :
    /\ Connected /\ pc = "idle" /\ calls < MaxCalls
    /\ (op = "put" <=> v # Zero) /\ (op = "fsync" => b = NoCall.block)
    /\ pc' = "send" /\ call' = [op |-> op, block |-> b, data |-> v]
    /\ sector' = 0 /\ got' = <<>>
    /\ drawn' = IF op = "fsync" THEN drawn ELSE drawn + 1
    /\ tag' = IF op = "fsync" THEN 0 ELSE drawn'
    /\ calls' = calls + 1
    /\ possible' = IF op = "put" THEN MayBecome(possible, b, v) ELSE possible
    /\ UNCHANGED <<store, toServer, toClient, connection, faults>>

\* do_ata_command: write
Send ==
  /\ pc = "send"
  /\ Broadcast(Request(Command(call.op), tag, Lba, call.data))
  /\ pc' = "wait"
  /\ UNCHANGED <<store, toClient, connection, call, sector, tag, got, drawn, calls, possible>>

\* write, poll or read fails
Fails ==
  /\ pc # "idle" /\ Fault("device")
  /\ pc' = "idle"
  /\ UNCHANGED <<store, toServer, toClient, connection, call, sector, tag, got, drawn, calls,
                 possible>>

\* slip: the tag is not compared
IsAnswer_AnyTag(m) == m.kind \in {"identify", "read", "write"} /\ m.from = target

\* long enough, from the target, and with the tag of the request
IsAnswer(m) == m.kind \in {"identify", "read", "write"} /\ m.from = target /\ m.tag = tag

\* do_ata_command: read; a frame that is no answer is dropped
Ignore ==
  /\ pc = "wait" /\ toClient # <<>> /\ ~IsAnswer(Head(toClient))
  /\ toClient' = Tail(toClient)
  /\ UNCHANGED <<store, toServer, connection, thread, drawn, faults, calls, possible>>

\* the answer: the next sector, or the end of the call
Receive ==
  /\ pc = "wait" /\ toClient # <<>> /\ IsAnswer(Head(toClient))
  /\ toClient' = Tail(toClient)
  /\ LET more == sector + 1 < Requests
         written == [possible EXCEPT ![Lba] = {call.data}]
     IN /\ pc' = IF more THEN "send" ELSE "idle"
        /\ sector' = IF more THEN sector + 1 ELSE sector
        /\ got' = IF call.op = "get" THEN Append(got, Head(toClient).data) ELSE got
        /\ possible' = IF call.op # "put" THEN possible
                       ELSE IF more THEN MayBecome(written, Lba + 1, call.data) ELSE written
        /\ drawn' = IF more THEN drawn + 1 ELSE drawn
        /\ tag' = IF more THEN drawn' ELSE tag
  /\ UNCHANGED <<store, toServer, connection, call, faults, calls>>

\* slip: there is nothing to do but wait longer
TimedOut_Waits == "wait"
TimedOut == "send"

\* nothing for 500 ms: the request is sent again
TimeOut ==
  /\ pc = "wait" /\ toClient = <<>>
  /\ pc' = TimedOut
  /\ UNCHANGED <<store, toServer, toClient, connection, call, sector, tag, got, drawn, faults,
                 calls, possible>>

Next ==
  \/ Connect \/ ConnectFails
  \/ Announce \/ Serve \/ \E s \in Targets : ServeOther(s)
  \/ Call \/ Send \/ Fails \/ Ignore \/ Receive \/ TimeOut

Spec == Init /\ [][Next]_vars

\* every thread goes on; announcements are seconds apart, so that a time-out, and
\* the room for a request, comes in between
FairSpec ==
  /\ Spec
  /\ WF_vars(Connect) /\ WF_vars(Serve) /\ SF_vars(Announce)
  /\ SF_vars(Send) /\ SF_vars(TimeOut) /\ WF_vars(Ignore \/ Receive)

-----------------------------------------------------------------------------
(* Properties                                                               *)

\* Every variable has its type; the sector that is worked on is one of the block.
TypeOK ==
  /\ store \in [Sectors -> Values]
  /\ state \in {"discover", "discover_sent", "identify", "identify_sent", "running", "failed"}
  /\ size \in Targets \cup {"none"}
  /\ pc \in {"idle", "send", "wait"}
  /\ call.block \in Blocks /\ Lba \in SectorsOf(call.block)
  /\ Len(got) <= SectorsPerBlock
  /\ Len(toClient) <= MaxFrames /\ Len(toServer) <= MaxFrames

\* A sector of the target is what was written to it last: a copy of a request
\* that was sent again, an answer of another target or to another request never
\* undoes a write that was answered, and a read returns what is there.
\* (do_ata_command: the checks of the shelf and of the tag)
SectorsAsWritten ==
  /\ \A l \in Sectors : store[l] \in possible[l]
  /\ call.op = "get" => \A i \in 1 .. Len(got) : got[i] \in possible[call.block + i - 1]

\* connect comes to an end, and so does a get or a put, although frames are lost
\* and accesses of the storage fail. A flush and a trim do not: server_aoe.cpp does
\* not know them. (do_ata_command: the time-out; announce)
CallsReturn ==
  /\ <>Connected
  /\ (pc # "idle" /\ call.op \in {"get", "put"}) ~> (pc = "idle")
=============================================================================
