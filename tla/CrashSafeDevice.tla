-------------------------- MODULE CrashSafeDevice --------------------------
(***************************************************************************)
(* What a block device with a write-back log in front of it promises.      *)
(* Blocks are written one at a time; a Sync makes everything written so    *)
(* far permanent; after a restart every block holds either its value at    *)
(* the last Sync or one of the values written to it since.                 *)
(***************************************************************************)
CONSTANTS Blocks,   \* the block numbers
          Values    \* the contents a block can have

VARIABLES mem,      \* mem[b]: what a read of block b returns
          may       \* may[b]: the values block b may have after a restart

vars == <<mem, may>>

Settled(m) == [b \in Blocks |-> {m[b]}]

TypeOK == /\ mem \in [Blocks -> Values]
          /\ may \in [Blocks -> SUBSET Values]

Init == /\ mem \in [Blocks -> Values]
        /\ may = Settled(mem)

Write(b, v) == /\ mem' = [mem EXCEPT ![b] = v]
               /\ may' = [may EXCEPT ![b] = @ \cup {v}]

Sync == /\ may' = Settled(mem)
        /\ UNCHANGED mem

Restart == /\ mem' \in [Blocks -> Values]
           /\ \A b \in Blocks : mem'[b] \in may[b]
           /\ may' = Settled(mem')

Next == \/ \E b \in Blocks, v \in Values : Write(b, v)
        \/ Sync
        \/ Restart

Spec == Init /\ [][Next]_vars
=============================================================================
