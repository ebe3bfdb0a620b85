----------------------------- MODULE ImapBuffer -----------------------------
(***************************************************************************)
(* The receive buffer of ImapStream (src/imap_stream.rs, struct Buffer).   *)
(*                                                                         *)
(* A buffer is a record: `block` is the backing BytesMut, a sequence whose *)
(* length is its size, and `offset` is the end of the used range.  A byte  *)
(* is named by its position (1, 2, ...) in the stream the server wrote, so *)
(* a lost, repeated or reordered byte is visible; 0 is a zeroed byte.      *)
(***************************************************************************)
EXTENDS Integers, Sequences

CONSTANTS
    BlockSize,      \* Buffer::BLOCK_SIZE, 4096 in the code
    MaxCapacity     \* Buffer::MAX_CAPACITY, 512 MiB in the code

ASSUME BufferAssumption ==
    /\ BlockSize \in Nat \ {0}
    /\ MaxCapacity \in Nat \ {0}
    /\ (MaxCapacity % BlockSize) = 0

Larger(m, n) == IF m >= n THEN m ELSE n

SaturatingSub(m, n) == IF m >= n THEN m - n ELSE 0

Zeroed(n) == [i \in 1..n |-> 0]

NewBuffer == [block |-> Zeroed(BlockSize), offset |-> 0]

Used(b) == b.offset

Free(b) == Len(b.block) - b.offset

\* buf[..used], the bytes the parser is given.
UsedBytes(b) == SubSeq(b.block, 1, b.offset)

\* What poll_read does to the free tail: bytes from+1 .. from+n of the stream
\* are copied to the front of the slice free_as_mut_slice() returned.
WriteFree(b, from, n) ==
    [b EXCEPT !.block = [i \in 1..Len(b.block) |->
        IF i \in b.offset + 1 .. b.offset + n THEN from + (i - b.offset) ELSE b.block[i]]]

ExtendUsed(b, n) ==
    [b EXCEPT !.offset = IF b.offset + n > Len(b.block) THEN Len(b.block) ELSE b.offset + n]

\* A successful poll_read of n bytes.
Receive(b, from, n) == ExtendUsed(WriteFree(b, from, n), n)

-----------------------------------------------------------------------------
\* The two ways the code rounds a size up to a multiple of BlockSize.
RoundUp(n) == IF (n % BlockSize) = 0 THEN n ELSE n + (BlockSize - (n % BlockSize))

RoundUpStrictly(n) == n + (BlockSize - (n % BlockSize))

Resize(block, size) ==
    [i \in 1..size |-> IF i <= Len(block) THEN block[i] ELSE 0]

\* The size of the block after grow(n), before the check against MaxCapacity.
GrownSize(b, n) == RoundUp(Len(b.block) + n)

ExtraNeeded(b, required) == SaturatingSub(required, Len(b.block))

\* Mutant: a full block is not a reason to grow.
MustGrowOnlyWhenAsked(b, required) == ExtraNeeded(b, required) > 0

MustGrow(b, required) == Free(b) = 0 \/ ExtraNeeded(b, required) > 0

\* The increase ensure_capacity(required) asks grow for.
Increase(b, required) == Larger(BlockSize, ExtraNeeded(b, required))

\* Mutant: the limit is checked against the size before the growth.
RefusedAtTheLimit(b, required) == MustGrow(b, required) /\ Len(b.block) > MaxCapacity

CapacityRefused(b, required) ==
    MustGrow(b, required) /\ GrownSize(b, Increase(b, required)) > MaxCapacity

\* The buffer after a successful ensure_capacity(required).
EnsureCapacity(b, required) ==
    IF MustGrow(b, required)
    THEN [b EXCEPT !.block = Resize(@, GrownSize(b, Increase(b, required)))]
    ELSE b

-----------------------------------------------------------------------------
\* take_block leaves the offset alone: until the block is returned or the
\* buffer is reset, `offset` describes a block the buffer does not hold.
TakeBlock(b) == [b EXCEPT !.block = Zeroed(BlockSize)]

ReturnBlock(b, block) == [b EXCEPT !.block = block]

\* Mutant: the bytes after the response are dropped.
ResetForgetting(data) == NewBuffer

\* Mutant: the copied range ends a byte early.
ResetShort(data) ==
    [block |-> Resize(data, RoundUpStrictly(Len(data))), offset |-> Len(data) - 1]

ResetWithData(data) ==
    [block  |-> Resize(data, RoundUpStrictly(Len(data))),
     offset |-> Len(data)]
=============================================================================
