---------------------------- MODULE AtomicVolume ----------------------------
(***************************************************************************)
(* What a volume that several threads use at once promises: each call of    *)
(* get_data, put_data or trim_zero happens at one moment between its        *)
(* invocation and its return, on an array of bytes.  A call that fails may  *)
(* have changed the bytes of its request up to some point, and no others.   *)
(***************************************************************************)
EXTENDS Integers

CONSTANTS Threads,   \* the callers
          Size,      \* the size of the volume, in bytes
          Values,    \* what a byte can be
          Zero,      \* a byte of a new volume
          Requests,  \* records of op, offset, size and data
          NoRequest  \* no call is under way

VARIABLES mem,     \* the bytes
          call,    \* call[t]: the call of thread t
          answer   \* answer[t]: its outcome, and the bytes that it has read

vars == <<mem, call, answer>>

Bytes == 0 .. Size - 1
Span(r) == r.offset .. r.offset + r.size - 1

Blank == [c \in Bytes |-> Zero]
NoAnswer == [outcome |-> "none", data |-> Blank]
Failed == [outcome |-> "failed", data |-> Blank]
Success(bytes) == [outcome |-> "success", data |-> bytes]

\* the bytes m of the request r
Read(m, r) == [c \in Bytes |-> IF c \in Span(r) THEN m[c] ELSE Zero]

Init ==
  /\ mem = Blank
  /\ call = [t \in Threads |-> NoRequest]
  /\ answer = [t \in Threads |-> NoAnswer]

Invoke(t) ==
  /\ call[t] = NoRequest
  /\ \E r \in Requests : call' = [call EXCEPT ![t] = r]
  /\ UNCHANGED <<mem, answer>>

UnderWay(t) == call[t] # NoRequest /\ answer[t] = NoAnswer

Get(t) ==
  /\ UnderWay(t) /\ call[t].op = "get"
  /\ answer' = [answer EXCEPT ![t] = Success(Read(mem, call[t]))]
  /\ UNCHANGED <<mem, call>>

Put(t) ==
  /\ UnderWay(t) /\ call[t].op # "get"
  /\ answer' = [answer EXCEPT ![t] = Success(Blank)]
  /\ mem' = [c \in Bytes |-> IF c \in Span(call[t]) THEN call[t].data ELSE mem[c]]
  /\ UNCHANGED call

\* the bytes before `upto' are written, the others are not
Fail(t) ==
  /\ UnderWay(t)
  /\ answer' = [answer EXCEPT ![t] = Failed]
  /\ \E upto \in Span(call[t]) :
       mem' = [c \in Bytes |->
                 IF call[t].op # "get" /\ c \in Span(call[t]) /\ c < upto
                   THEN call[t].data ELSE mem[c]]
  /\ UNCHANGED call

Return(t) ==
  /\ answer[t] # NoAnswer
  /\ call' = [call EXCEPT ![t] = NoRequest]
  /\ answer' = [answer EXCEPT ![t] = NoAnswer]
  /\ UNCHANGED mem

Next == \E t \in Threads : Invoke(t) \/ Get(t) \/ Put(t) \/ Fail(t) \/ Return(t)

Spec == Init /\ [][Next]_vars
=============================================================================
