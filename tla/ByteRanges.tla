----------------------------- MODULE ByteRanges -----------------------------
(***************************************************************************)
(* Ranges of bytes on a backend of whole blocks, and how the loops of       *)
(* get_data, put_data and trim_zero cut a range into parts of blocks.       *)
(***************************************************************************)
EXTENDS Integers, FiniteSetsExt

CONSTANTS BlockSize,  \* block_size
          NumBlocks   \* size of the backend, in blocks

ASSUME BlockSizeAssumption == BlockSize \in Nat \ {0}
ASSUME VolumeSizeAssumption == NumBlocks \in Nat \ {0}

Size == NumBlocks * BlockSize
Bytes == 0 .. Size - 1

End(r) == r.offset + r.size
Span(r) == r.offset .. End(r) - 1
Block(o) == o \div BlockSize
BlockBytes(b) == b * BlockSize .. (b + 1) * BlockSize - 1
Touched(r) == {Block(o) : o \in Span(r)}

\* un_lock_block_group looks at every block_size-th byte of the request
Locked(r) == {Block(o) : o \in {p \in Span(r) : (p - r.offset) % BlockSize = 0}}

\* the end of the part of r in the block that work_offset o is in
PartEnd(r, o) == Min({End(r), (Block(o) + 1) * BlockSize})
Part(r, o) == o .. PartEnd(r, o) - 1
=============================================================================
