---------------------------- MODULE VolumeAtomic ----------------------------
(***************************************************************************)
(* Volume with a history variable, and the claim that it is an atomic       *)
(* volume.  While a thread writes its blocks one by one the backend has     *)
(* some of them new and some old; mem is the volume in which a call takes   *)
(* effect at once, when its loop ends and its locks are still held.  The    *)
(* variable only follows the steps of Volume, it allows and forbids none.   *)
(***************************************************************************)
EXTENDS Volume

VARIABLE mem  \* history: the bytes, each call being one change

lvars == <<vars, mem>>

Working(t) == pc[t] \in {"work", "modified"}

\* the loop of a call that changes byte c ends in this step
Settles(t, c) ==
  /\ Working(t) /\ pc'[t] = "unlock"
  /\ Changes(req[t]) /\ c \in Span(req[t])

LInit == Init /\ mem = store

LNext ==
  /\ Next
  /\ mem' = [c \in Bytes |->
               IF \E t \in Threads : Settles(t, c) THEN store'[c] ELSE mem[c]]

LSpec == LInit /\ [][LNext]_lvars

\* the result of a call whose loop has ended, until it has returned
HasAnswer(t) == pc[t] \in {"unlock", "mirror"}
Outcome(t) == IF ~HasAnswer(t) THEN "none" ELSE IF err[t] THEN "failed" ELSE "success"
DataRead(t) ==
  [c \in Bytes |-> IF Outcome(t) = "success" /\ req[t].op = "get" /\ c \in Span(req[t])
                     THEN copy[t][c] ELSE Zero]
Answer(t) == [outcome |-> Outcome(t), data |-> DataRead(t)]
Answers == [t \in Threads |-> Answer(t)]

Atomic == INSTANCE AtomicVolume WITH
            call <- req,
            answer <- Answers

\* Between the calls nothing is left half done: the backend has the bytes that
\* the calls, each at its moment, put there.
SettledIsStored ==
  (\A t \in Threads : ~Working(t)) => mem = store

\* Calls of get_data, put_data and trim_zero are linearizable where trims take
\* their locks: however the threads interleave block by block, each call looks
\* as if it happened at one moment between its invocation and its return, and
\* what get_data returns is the volume at that moment.  A put or trim that
\* fails halfway leaves a first part of its range changed, nothing else.  And
\* this volume is the one that is stored whenever nobody is in a loop.
Linearizable == Atomic!Spec /\ []SettledIsStored
=============================================================================
