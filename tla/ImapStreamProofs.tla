-------------------------- MODULE ImapStreamProofs --------------------------
(***************************************************************************)
(* ImapStream for every block size, capacity, byte stream and answer of    *)
(* the parser: its types, what its buffer holds, and that it implements    *)
(* ResponseStream.  What the operations of the buffer do comes first.      *)
(*                                                                         *)
(* The inductive invariant Inv is the conjunction of the invariants the    *)
(* run MCImapStream checks.  They lean on each other: the refused growth   *)
(* needs CapacityBounded and NeedsOnlyTheNext, a delivery and every reason *)
(* for not delivering need BufferIsUnread, and "pending" and "eof" need    *)
(* ReadsOnlyForMore and RoomBeforeRead.                                    *)
(***************************************************************************)
EXTENDS ImapStream, SequenceTheorems, TLAPS

(* What the operators of ImapBuffer return: the arithmetic of whole blocks, and *)
(* the effect of each operation on the bytes and on the size of the buffer.     *)
Buffers == [block : Seq(Nat), offset : Nat]

\* The quotient and the remainder that the rounding in grow() works with.
LEMMA DivMod ==
    ASSUME NEW n \in Nat
    PROVE  /\ n % BlockSize \in 0 .. BlockSize - 1
           /\ n \div BlockSize \in Nat
           /\ n = BlockSize * (n \div BlockSize) + (n % BlockSize)
BY BufferAssumption, Z3

LEMMA NothingIsWhole ==
    ASSUME NEW B \in Nat \ {0}
    PROVE  0 % B = 0
OBVIOUS

\* Adding what is missing from the last block makes it whole.
LEMMA RoundedIsWhole ==
    ASSUME NEW B \in Nat \ {0}, NEW n \in Nat
    PROVE  (n + (B - (n % B))) % B = 0
BY SMT

\* A smaller number of blocks is smaller by a block at least.
LEMMA BlocksMonotonic ==
    ASSUME NEW p \in Nat, NEW q \in Nat, p < q
    PROVE  BlockSize * p + BlockSize <= BlockSize * q
BY BufferAssumption, SMT

\* Between two different multiples of BLOCK_SIZE there is a whole block.
LEMMA WholeBlockGap ==
    ASSUME NEW m \in Nat, NEW n \in Nat,
           (m % BlockSize) = 0, (n % BlockSize) = 0, m < n
    PROVE  m + BlockSize <= n
<1> DEFINE p == m \div BlockSize
           q == n \div BlockSize
<1>1. p \in Nat /\ m = BlockSize * p
    BY DivMod, BufferAssumption
<1>2. q \in Nat /\ n = BlockSize * q
    BY DivMod, BufferAssumption
<1> HIDE DEF p, q
<1>3. ~(q < p)
    <2>1. SUFFICES ASSUME q < p PROVE FALSE
        OBVIOUS
    <2>2. BlockSize * q + BlockSize <= BlockSize * p
        BY <2>1, <1>1, <1>2, BlocksMonotonic
    <2> QED  BY <2>2, <1>1, <1>2, BufferAssumption
<1>4. p # q
    BY <1>1, <1>2
<1>5. p < q
    BY <1>1, <1>2, <1>3, <1>4
<1>6. BlockSize * p + BlockSize <= BlockSize * q
    BY <1>1, <1>2, <1>5, BlocksMonotonic
<1> QED  BY <1>1, <1>2, <1>6

\* grow() rounds up to a whole number of blocks, by less than one block.
LEMMA RoundUpProperties ==
    ASSUME NEW n \in Nat
    PROVE  /\ RoundUp(n) \in Nat
           /\ n <= RoundUp(n)
           /\ RoundUp(n) < n + BlockSize
           /\ (RoundUp(n) % BlockSize) = 0
<1>1. n % BlockSize \in 0 .. BlockSize - 1
    BY DivMod
<1>2. (n + (BlockSize - (n % BlockSize))) % BlockSize = 0
    BY BufferAssumption, RoundedIsWhole
<1> QED  BY <1>1, <1>2, BufferAssumption DEF RoundUp

\* What fits in MAX_CAPACITY still fits after rounding up.
LEMMA RoundUpFits ==
    ASSUME NEW n \in Nat, n <= MaxCapacity
    PROVE  RoundUp(n) <= MaxCapacity
<1>1. SUFFICES ASSUME MaxCapacity < RoundUp(n) PROVE FALSE
    BY RoundUpProperties, BufferAssumption
<1>2. MaxCapacity + BlockSize <= RoundUp(n)
    BY <1>1, RoundUpProperties, WholeBlockGap, BufferAssumption
<1> QED  BY <1>2, RoundUpProperties, BufferAssumption

\* reset_with_data rounds up to leave at least one byte free.
LEMMA RoundUpStrictlyProperties ==
    ASSUME NEW n \in Nat
    PROVE  /\ RoundUpStrictly(n) \in Nat
           /\ n < RoundUpStrictly(n)
           /\ RoundUpStrictly(n) <= n + BlockSize
           /\ (RoundUpStrictly(n) % BlockSize) = 0
<1>1. n % BlockSize \in 0 .. BlockSize - 1
    BY DivMod
<1>2. (n + (BlockSize - (n % BlockSize))) % BlockSize = 0
    BY BufferAssumption, RoundedIsWhole
<1> QED  BY <1>1, <1>2, BufferAssumption DEF RoundUpStrictly

\* Less than MAX_CAPACITY bytes fit in it with a byte to spare.
LEMMA RoundUpStrictlyFits ==
    ASSUME NEW n \in Nat, n < MaxCapacity
    PROVE  RoundUpStrictly(n) <= MaxCapacity
<1> DEFINE size == RoundUpStrictly(n)
<1>1. SUFFICES ASSUME MaxCapacity < size PROVE FALSE
    BY RoundUpStrictlyProperties, BufferAssumption
<1>2. MaxCapacity + BlockSize <= size
    BY <1>1, RoundUpStrictlyProperties, WholeBlockGap, BufferAssumption
<1> QED  BY <1>2, RoundUpStrictlyProperties, BufferAssumption

-----------------------------------------------------------------------------
\* Zeroed blocks and resized blocks are sequences of the size asked for.
LEMMA ZeroedProperties ==
    ASSUME NEW n \in Nat
    PROVE  Zeroed(n) \in Seq(Nat) /\ Len(Zeroed(n)) = n
BY SeqDef, LenProperties DEF Zeroed

\* resize and reset_with_data keep the bytes that fit.
LEMMA ResizeProperties ==
    ASSUME NEW block \in Seq(Nat), NEW size \in Nat
    PROVE  /\ Resize(block, size) \in Seq(Nat)
           /\ Len(Resize(block, size)) = size
           /\ \A i \in 1 .. size : i <= Len(block) => Resize(block, size)[i] = block[i]
<1>1. \A i \in 1 .. Len(block) : block[i] \in Nat
    BY ElementOfSeq
<1>2. Len(block) \in Nat
    BY LenProperties
<1>3. Resize(block, size) \in [1 .. size -> Nat]
    BY <1>1, <1>2 DEF Resize
<1>4. Resize(block, size) \in Seq(Nat)
    BY <1>3, SeqDef
<1>5. Len(Resize(block, size)) = size
    BY <1>3, <1>4, LenProperties
<1> QED  BY <1>4, <1>5 DEF Resize

\* reset_with_data: the data, in a block of the next larger whole size.
LEMMA ResetProperties ==
    ASSUME NEW data \in Seq(Nat)
    PROVE  /\ ResetWithData(data) \in Buffers
           /\ ResetWithData(data).offset = Len(data)
           /\ Len(ResetWithData(data).block) = RoundUpStrictly(Len(data))
           /\ \A i \in 1 .. Len(data) : ResetWithData(data).block[i] = data[i]
<1>1. Len(data) \in Nat
    BY LenProperties
<1>2. RoundUpStrictly(Len(data)) \in Nat /\ Len(data) < RoundUpStrictly(Len(data))
    BY <1>1, RoundUpStrictlyProperties
<1>3. Resize(data, RoundUpStrictly(Len(data))) \in Seq(Nat)
    BY <1>2, ResizeProperties
<1>4. Len(Resize(data, RoundUpStrictly(Len(data)))) = RoundUpStrictly(Len(data))
    BY <1>2, ResizeProperties
<1>5. \A i \in 1 .. Len(data) :
          Resize(data, RoundUpStrictly(Len(data)))[i] = data[i]
    <2> DEFINE size == RoundUpStrictly(Len(data))
    <2>1. size \in Nat /\ Len(data) < size
        BY <1>2
    <2> HIDE DEF size
    <2>2. \A i \in 1 .. size : i <= Len(data) => Resize(data, size)[i] = data[i]
        BY <2>1, ResizeProperties
    <2>3. \A i \in 1 .. Len(data) : Resize(data, size)[i] = data[i]
        BY <1>1, <2>1, <2>2
    <2> QED  BY <2>3 DEF size
<1> QED  BY <1>1, <1>3, <1>4, <1>5 DEF ResetWithData, Buffers

\* The increase ensure_capacity asks for is at least a block, and reaches
\* the size required.
LEMMA IncreaseProperties ==
    ASSUME NEW b \in Buffers, NEW required \in Nat
    PROVE  /\ Len(b.block) \in Nat
           /\ Increase(b, required) \in Nat
           /\ Increase(b, required) >= BlockSize
           /\ required <= Len(b.block) + Increase(b, required)
BY LenProperties, BufferAssumption
   DEF Buffers, Increase, ExtraNeeded, SaturatingSub, Larger

\* The size grow() computes is whole, and covers the increase.
LEMMA GrownProperties ==
    ASSUME NEW b \in Buffers, NEW required \in Nat
    PROVE  LET size == GrownSize(b, Increase(b, required)) IN
           /\ size \in Nat
           /\ (size % BlockSize) = 0
           /\ Len(b.block) + Increase(b, required) <= size
           /\ size < Len(b.block) + Increase(b, required) + BlockSize
<1>0. Len(b.block) \in Nat /\ Increase(b, required) \in Nat
    BY IncreaseProperties
<1>1. Len(b.block) + Increase(b, required) \in Nat
    BY <1>0
<1> QED  BY <1>1, RoundUpProperties DEF GrownSize

\* ensure_capacity, when it succeeds: room for one byte at least and for the
\* size required, and no used byte touched.
LEMMA EnsureCapacityProperties ==
    ASSUME NEW b \in Buffers, NEW required \in Nat,
           b.offset <= Len(b.block)
    PROVE  /\ EnsureCapacity(b, required) \in Buffers
           /\ EnsureCapacity(b, required).offset = b.offset
           /\ b.offset < Len(EnsureCapacity(b, required).block)
           /\ required <= Len(EnsureCapacity(b, required).block)
           /\ \A i \in 1 .. b.offset :
                  EnsureCapacity(b, required).block[i] = b.block[i]
<1>1. Len(b.block) \in Nat /\ b.block \in Seq(Nat) /\ b.offset \in Nat
    BY LenProperties DEF Buffers
<1>2. CASE MustGrow(b, required)
    <2> DEFINE size == GrownSize(b, Increase(b, required))
    <2>0. /\ Increase(b, required) \in Nat
          /\ Increase(b, required) >= BlockSize
          /\ required <= Len(b.block) + Increase(b, required)
        BY IncreaseProperties
    <2>1. size \in Nat /\ Len(b.block) + Increase(b, required) <= size
        BY GrownProperties
    <2> HIDE DEF size
    <2>2. size \in Nat /\ Len(b.block) < size /\ required <= size
        BY <1>1, <2>0, <2>1, BufferAssumption
    <2>3. /\ Resize(b.block, size) \in Seq(Nat)
          /\ Len(Resize(b.block, size)) = size
          /\ \A i \in 1 .. b.offset : Resize(b.block, size)[i] = b.block[i]
        <3>1. /\ Resize(b.block, size) \in Seq(Nat)
              /\ Len(Resize(b.block, size)) = size
              /\ \A i \in 1 .. size : i <= Len(b.block) => Resize(b.block, size)[i] = b.block[i]
            BY <1>1, <2>1, ResizeProperties
        <3> QED  BY <1>1, <2>2, <3>1
    <2>4. EnsureCapacity(b, required) = [b EXCEPT !.block = Resize(b.block, size)]
        BY <1>2 DEF EnsureCapacity, size
    <2>5. EnsureCapacity(b, required) = [block |-> Resize(b.block, size), offset |-> b.offset]
        BY <2>4 DEF Buffers
    <2> QED  BY <1>1, <2>2, <2>3, <2>5 DEF Buffers
<1>3. CASE ~MustGrow(b, required)
    <2>1. EnsureCapacity(b, required) = b
        BY <1>3 DEF EnsureCapacity
    <2>2. Len(b.block) - b.offset # 0 /\ ~(ExtraNeeded(b, required) > 0)
        BY <1>3 DEF MustGrow, Free
    <2> QED  BY <1>1, <2>1, <2>2 DEF ExtraNeeded, SaturatingSub
<1> QED  BY <1>2, <1>3

\* The block grows by whole blocks, to MAX_CAPACITY at most.
LEMMA EnsureCapacityBounded ==
    ASSUME NEW b \in Buffers, NEW required \in Nat,
           ~CapacityRefused(b, required),
           (Len(b.block) % BlockSize) = 0, Len(b.block) <= MaxCapacity
    PROVE  /\ (Len(EnsureCapacity(b, required).block) % BlockSize) = 0
           /\ Len(EnsureCapacity(b, required).block) <= MaxCapacity
<1>1. CASE MustGrow(b, required)
    <2> DEFINE size == GrownSize(b, Increase(b, required))
    <2>1. size \in Nat /\ (size % BlockSize) = 0
        BY GrownProperties
    <2>2. size <= MaxCapacity
        BY <1>1, <2>1, BufferAssumption DEF CapacityRefused
    <2> HIDE DEF size
    <2>3. Len(Resize(b.block, size)) = size
        BY <2>1, ResizeProperties DEF Buffers
    <2>4. EnsureCapacity(b, required) = [b EXCEPT !.block = Resize(b.block, size)]
        BY <1>1 DEF EnsureCapacity, size
    <2>5. EnsureCapacity(b, required).block = Resize(b.block, size)
        BY <2>4 DEF Buffers
    <2> QED  BY <2>1, <2>2, <2>3, <2>5
<1>2. CASE ~MustGrow(b, required)
    BY <1>2 DEF EnsureCapacity
<1> QED  BY <1>1, <1>2

\* "incoming data too large" is said only when more than MAX_CAPACITY bytes
\* are asked for, or the block is full at MAX_CAPACITY.
LEMMA RefusedOnlyAtTheLimit ==
    ASSUME NEW b \in Buffers, NEW required \in Nat,
           CapacityRefused(b, required),
           (Len(b.block) % BlockSize) = 0, Len(b.block) <= MaxCapacity
    PROVE  required > MaxCapacity \/ (b.offset = Len(b.block) /\ Len(b.block) = MaxCapacity)
<1> DEFINE len == Len(b.block)
           extra == ExtraNeeded(b, required)
<1>1. len \in Nat /\ b.offset \in Nat
    BY LenProperties DEF Buffers
<1>2. MustGrow(b, required) /\ RoundUp(len + Increase(b, required)) > MaxCapacity
    BY DEF CapacityRefused, GrownSize
<1>3. len + Increase(b, required) > MaxCapacity
    <2> DEFINE min == len + Increase(b, required)
    <2>1. min \in Nat
        <3>1. Increase(b, required) \in Nat
            BY IncreaseProperties
        <3> QED  BY <1>1, <3>1
    <2>2. RoundUp(min) \in Nat /\ RoundUp(min) > MaxCapacity
        BY <1>2, <2>1, RoundUpProperties
    <2> HIDE DEF min
    <2>3. ~(min <= MaxCapacity)
        BY <2>1, <2>2, RoundUpFits, BufferAssumption
    <2>4. min > MaxCapacity
        BY <2>1, <2>3, BufferAssumption
    <2> QED  BY <2>4 DEF min
<1>4. CASE extra > BlockSize
    <2>1. extra = IF required >= len THEN required - len ELSE 0
        BY DEF ExtraNeeded, SaturatingSub
    <2>2. Increase(b, required) = IF BlockSize >= extra THEN BlockSize ELSE extra
        BY DEF Increase, Larger
    <2> HIDE DEF len, extra
    <2>3. BlockSize \in Nat
        BY BufferAssumption
    <2>4. required >= len /\ extra = required - len
        BY <1>1, <1>4, <2>1, <2>3
    <2>5. len + Increase(b, required) = required
        BY <1>1, <1>4, <2>2, <2>3, <2>4
    <2> QED  BY <1>3, <2>5
<1>5. CASE ~(extra > BlockSize)
    <2>1. Increase(b, required) = BlockSize
        BY <1>1, <1>5, BufferAssumption DEF Increase, ExtraNeeded, SaturatingSub, Larger
    <2>2. len = MaxCapacity
        <3>1. SUFFICES ASSUME len < MaxCapacity PROVE FALSE
            BY <1>1, BufferAssumption
        <3>2. len + BlockSize <= MaxCapacity
            BY <1>1, <3>1, WholeBlockGap, BufferAssumption
        <3> QED  BY <1>1, <1>3, <2>1, <3>2, BufferAssumption
    <2>3. Free(b) = 0 \/ extra > 0
        BY <1>2 DEF MustGrow
    <2>4. CASE Free(b) = 0
        BY <1>1, <2>2, <2>4 DEF Free
    <2>5. CASE extra > 0
        BY <1>1, <2>2, <2>5 DEF ExtraNeeded, SaturatingSub
    <2> QED  BY <2>3, <2>4, <2>5
<1> QED  BY <1>4, <1>5

-----------------------------------------------------------------------------
\* poll_read into the free tail, then extend_used: the used bytes stay, the
\* new ones follow them.
LEMMA ReadProperties ==
    ASSUME NEW b \in Buffers, NEW from \in Nat, NEW n \in Nat,
           n <= Free(b)
    PROVE  /\ Receive(b, from, n) \in Buffers
           /\ Receive(b, from, n).offset = b.offset + n
           /\ Len(Receive(b, from, n).block) = Len(b.block)
           /\ \A i \in 1 .. b.offset : Receive(b, from, n).block[i] = b.block[i]
           /\ \A i \in b.offset + 1 .. b.offset + n :
                  Receive(b, from, n).block[i] = from + (i - b.offset)
<1> DEFINE block == [i \in 1..Len(b.block) |->
               IF i \in b.offset + 1 .. b.offset + n THEN from + (i - b.offset) ELSE b.block[i]]
           w == WriteFree(b, from, n)
           c == Receive(b, from, n)
<1>1. /\ Len(b.block) \in Nat /\ b.offset \in Nat
      /\ b.offset + n <= Len(b.block)
      /\ \A i \in 1 .. Len(b.block) : b.block[i] \in Nat
    BY LenProperties, ElementOfSeq DEF Buffers, Free
<1>2. block \in [1 .. Len(b.block) -> Nat]
    BY <1>1
<1>3. block \in Seq(Nat) /\ Len(block) = Len(b.block)
    <2>1. block \in Seq(Nat)
        BY <1>1, <1>2, SeqDef
    <2> QED  BY <1>1, <1>2, <2>1, LenProperties
<1>4. w = [block |-> block, offset |-> b.offset]
    <2>1. w = [b EXCEPT !.block = block]
        BY DEF WriteFree
    <2> HIDE DEF block, w
    <2> QED  BY <2>1 DEF Buffers
<1>5. c = [block |-> block, offset |-> b.offset + n]
    <2>1. c = ExtendUsed(w, n)
        BY DEF Receive
    <2> HIDE DEF block, w
    <2>2. c = [w EXCEPT !.offset = b.offset + n]
        BY <1>1, <1>3, <1>4, <2>1 DEF ExtendUsed
    <2> QED  BY <1>4, <2>2
<1>6. c \in Buffers
    BY <1>1, <1>3, <1>5 DEF Buffers
<1>7. \A i \in 1 .. b.offset : block[i] = b.block[i]
    BY <1>1
<1>8. \A i \in b.offset + 1 .. b.offset + n : block[i] = from + (i - b.offset)
    BY <1>1
<1> QED
    <2> HIDE DEF block, c
    <2> QED  BY <1>3, <1>5, <1>6, <1>7, <1>8 DEF c

\* A failed decode takes the block out and puts it back: nothing changed.
LEMMA PutBackProperties ==
    ASSUME NEW b \in Buffers
    PROVE  ReturnBlock(TakeBlock(b), b.block) = b
BY DEF ReturnBlock, TakeBlock, Buffers

-----------------------------------------------------------------------------
(* The invariant. *)
Inv ==
    /\ TypeOK
    /\ BufferIsUnread
    /\ RoomBeforeRead
    /\ CapacityBounded
    /\ NeedsOnlyTheNext
    /\ ReadsOnlyForMore

\* A stream of the server is a sequence of the three kinds of bytes.
LEMMA WireProperties ==
    ASSUME wire \in Wires
    PROVE  /\ wire \in Seq({"mid", "end", "bad"})
           /\ Len(wire) \in Nat
BY StreamAssumption, LenProperties

\* The outcomes poll_next returns have the type of `last`.
LEMMA OutcomeType ==
    ASSUME NEW kind \in Outcomes
    PROVE  Promise!Outcome(kind) \in [kind : Outcomes, bytes : Seq(Nat)]
BY EmptySeq DEF Promise!Outcome

\* The bytes decode gives to the parser are those that follow the last
\* response delivered.
LEMMA UsedBytesProperties ==
    ASSUME TypeOK, BufferIsUnread, CapacityBounded
    PROVE  /\ Len(UsedBytes(buffer)) = Used(buffer)
           /\ \A i \in 1 .. Used(buffer) :
                  /\ UsedBytes(buffer)[i] = taken + i
                  /\ taken + i \in 1 .. Len(wire)
                  /\ Kind(UsedBytes(buffer)[i]) = wire[taken + i]
<1>1. /\ buffer.block \in Seq(Nat) /\ buffer.offset \in Nat
      /\ Len(buffer.block) \in Nat
      /\ buffer.offset <= Len(buffer.block)
    BY LenProperties DEF TypeOK, CapacityBounded, Used
<1>2. \A i \in 1 .. buffer.offset : buffer.block[i] \in Nat
    BY <1>1, ElementOfSeq
<1>3. /\ Len(UsedBytes(buffer)) = buffer.offset
      /\ \A i \in 1 .. buffer.offset : UsedBytes(buffer)[i] = buffer.block[i]
    BY <1>1, <1>2, SubSeqProperties DEF UsedBytes
<1>4. \A i \in 1 .. buffer.offset : UsedBytes(buffer)[i] = taken + i
    BY <1>3 DEF BufferIsUnread, Used
<1>5. /\ taken \in Nat /\ got = taken + buffer.offset /\ got <= sent
      /\ sent \in 0 .. Len(wire) /\ Len(wire) \in Nat
    BY WireProperties DEF TypeOK, BufferIsUnread, Used
<1>6. \A i \in 1 .. buffer.offset : taken + i \in 1 .. Len(wire)
    BY <1>1, <1>5
<1> QED  BY <1>3, <1>4, <1>6 DEF Used, Kind

\* When all used bytes are inside the response, its end is still to be read.
LEMMA IncompleteMeansMore ==
    ASSUME TypeOK, BufferIsUnread, CapacityBounded,
           Incomplete(UsedBytes(buffer)),
           NEW e \in taken + 1 .. Len(wire),
           Promise!EndsAt(wire, taken, e)
    PROVE  e > got
<1>1. SUFFICES ASSUME e <= got PROVE FALSE
    BY WireProperties DEF TypeOK
<1>2. /\ taken \in Nat /\ got = taken + Used(buffer) /\ Used(buffer) \in Nat
      /\ Len(wire) \in Nat /\ e \in Int
    BY WireProperties DEF TypeOK, BufferIsUnread, Used
<1>3. e - taken \in 1 .. Used(buffer) /\ taken + (e - taken) = e
    BY <1>1, <1>2
<1>4. wire[e] = "mid"
    BY <1>3, UsedBytesProperties DEF Incomplete
<1> QED  BY <1>4 DEF Promise!EndsAt

-----------------------------------------------------------------------------
\* The invariant holds of a new ImapStream.
LEMMA InvInit == Init => Inv
<1> SUFFICES ASSUME Init PROVE Inv
    OBVIOUS
<1>1. /\ wire \in Wires /\ sent = 0 /\ open = TRUE /\ taken = 0 /\ got = 0
      /\ last = Promise!Outcome("unpolled")
      /\ ioErrors = 0 /\ decodeNeeds = 0 /\ pc = "idle"
      /\ buffer = [block |-> Zeroed(BlockSize), offset |-> 0]
    BY DEF Init, Promise!Init, NewBuffer
<1>2. Zeroed(BlockSize) \in Seq(Nat) /\ Len(Zeroed(BlockSize)) = BlockSize
    BY ZeroedProperties, BufferAssumption
<1>3. Len(wire) \in Nat
    BY <1>1, WireProperties
<1>4. TypeOK
    BY <1>1, <1>2, <1>3, OutcomeType, StreamAssumption DEF TypeOK, Outcomes
<1>5. BufferIsUnread
    BY <1>1 DEF BufferIsUnread, Used
<1>6. RoomBeforeRead /\ ReadsOnlyForMore
    BY <1>1 DEF RoomBeforeRead, ReadsOnlyForMore
<1>7. CapacityBounded
    <2>1. (BlockSize % BlockSize) = 0
        <3>1. BlockSize \in Nat /\ 0 \in Nat /\ RoundUpStrictly(0) = BlockSize + (0 - (0 % BlockSize))
            BY BufferAssumption DEF RoundUpStrictly
        <3>2. 0 % BlockSize = 0
            BY BufferAssumption, NothingIsWhole
        <3> QED  BY <3>1, <3>2, RoundUpStrictlyProperties, BufferAssumption
    <2>2. BlockSize <= MaxCapacity
        <3>1. 0 \in Nat /\ 0 % BlockSize = 0
            BY BufferAssumption, NothingIsWhole
        <3> QED  BY <3>1, WholeBlockGap, BufferAssumption
    <2>3. Len(buffer.block) = BlockSize
        BY <1>1, <1>2
    <2>4. Used(buffer) = 0
        BY <1>1 DEF Used
    <2>5. Used(buffer) <= Len(buffer.block)
        <3>1. 0 <= BlockSize
            BY BufferAssumption
        <3> QED  BY <2>3, <2>4, <3>1
    <2> QED  BY <2>1, <2>2, <2>3, <2>5 DEF CapacityBounded
<1>8. NeedsOnlyTheNext
    BY <1>1, <1>3 DEF NeedsOnlyTheNext
<1> QED  BY <1>4, <1>5, <1>6, <1>7, <1>8 DEF Inv

-----------------------------------------------------------------------------
\* The server and the network touch neither the buffer nor the poll.
LEMMA PeerKeepsInv == Inv /\ Peer => Inv'
<1> SUFFICES ASSUME Inv, Peer PROVE Inv'
    OBVIOUS
<1>1. /\ wire' = wire /\ taken' = taken /\ last' = last /\ got' = got
      /\ ioErrors' = ioErrors /\ buffer' = buffer /\ decodeNeeds' = decodeNeeds /\ pc' = pc
    BY DEF Peer, Send, Close, Reopen, Promise!Send, Promise!Close, Promise!Reopen
<1>2. sent' \in 0 .. Len(wire) /\ sent <= sent' /\ open' \in BOOLEAN
    <2>1. sent \in 0 .. Len(wire) /\ Len(wire) \in Nat /\ open \in BOOLEAN
        BY WireProperties DEF Inv, TypeOK
    <2>2. CASE Close \/ Reopen
        <3>1. sent' = sent /\ open' \in BOOLEAN
            BY <2>2 DEF Close, Reopen, Promise!Close, Promise!Reopen
        <3>2. sent' \in 0 .. Len(wire) /\ sent <= sent'
            BY <2>1, <3>1
        <3> QED  BY <3>1, <3>2
    <2>3. ASSUME NEW n \in 1 .. Len(wire), Send(n)
          PROVE  sent' \in 0 .. Len(wire) /\ sent <= sent' /\ open' \in BOOLEAN
        <3>1. n \in 1 .. Len(wire) - sent /\ sent' = sent + n /\ open' = open
            BY <2>3 DEF Send, Promise!Send
        <3> QED  BY <2>1, <3>1
    <2> QED  BY <2>2, <2>3 DEF Peer
<1>3. TypeOK'
    BY <1>1, <1>2 DEF Inv, TypeOK
<1>4. BufferIsUnread'
    BY <1>1, <1>2, WireProperties DEF Inv, TypeOK, BufferIsUnread, Used
<1>5. RoomBeforeRead' /\ CapacityBounded'
    BY <1>1 DEF Inv, RoomBeforeRead, CapacityBounded, Free, Used
<1>6. NeedsOnlyTheNext' /\ ReadsOnlyForMore'
    BY <1>1 DEF Inv, NeedsOnlyTheNext, ReadsOnlyForMore, Promise!EndsAt
<1> QED  BY <1>3, <1>4, <1>5, <1>6 DEF Inv

\* The steps that return or move on without touching the buffer.
LEMMA QuietStepKeepsInv ==
    ASSUME Inv,
           UNCHANGED <<wire, sent, open, taken, got, buffer, decodeNeeds>>,
           last' \in [kind : Outcomes, bytes : Seq(Nat)],
           ioErrors' \in 0 .. MaxIoErrors,
           pc' \in {"idle", "decode"}
    PROVE  Inv'
<1>1. TypeOK'
    BY DEF Inv, TypeOK
<1>2. BufferIsUnread' /\ CapacityBounded'
    BY DEF Inv, BufferIsUnread, CapacityBounded, Used
<1>3. RoomBeforeRead' /\ ReadsOnlyForMore'
    BY DEF RoomBeforeRead, ReadsOnlyForMore
<1>4. NeedsOnlyTheNext'
    BY DEF Inv, NeedsOnlyTheNext, Promise!EndsAt
<1> QED  BY <1>1, <1>2, <1>3, <1>4 DEF Inv

\* The steps of decode that find no response: the block is put back.
LEMMA PutBackKeepsBuffer == Inv /\ PutBack => buffer' = buffer
<1>1. Inv => buffer \in Buffers
    BY DEF Inv, TypeOK, Buffers
<1> QED  BY <1>1, PutBackProperties DEF PutBack

\* An attempt that finds the response incomplete leaves the bytes alone and
\* asks for no more than the response has.
LEMMA IncompleteKeepsInv ==
    ASSUME Inv,
           UNCHANGED <<wire, sent, open, taken, last, got, ioErrors, buffer>>,
           pc' = "fill",
           decodeNeeds' \in Nat,
           \A e \in taken + 1 .. Len(wire) :
               Promise!EndsAt(wire, taken, e) => e > got /\ decodeNeeds' <= e - taken
    PROVE  Inv'
<1>1. TypeOK'
    BY DEF Inv, TypeOK
<1>2. BufferIsUnread' /\ CapacityBounded'
    BY DEF Inv, BufferIsUnread, CapacityBounded, Used
<1>3. RoomBeforeRead'
    BY DEF RoomBeforeRead
<1>4. NeedsOnlyTheNext' /\ ReadsOnlyForMore'
    BY DEF NeedsOnlyTheNext, ReadsOnlyForMore, Promise!EndsAt
<1> QED  BY <1>1, <1>2, <1>3, <1>4 DEF Inv

LEMMA SkipDecodeKeepsInv == Inv /\ SkipDecode => Inv'
<1> SUFFICES ASSUME Inv, SkipDecode PROVE Inv'
    OBVIOUS
<1>1. /\ taken \in Nat /\ got = taken + Used(buffer) /\ Used(buffer) \in Nat
      /\ decodeNeeds \in Nat /\ Used(buffer) < decodeNeeds /\ Len(wire) \in Nat
    BY WireProperties DEF Inv, TypeOK, BufferIsUnread, Used, SkipDecode
<1>2. \A e \in taken + 1 .. Len(wire) :
          Promise!EndsAt(wire, taken, e) => e > got /\ decodeNeeds <= e - taken
    BY <1>1 DEF Inv, NeedsOnlyTheNext
<1> QED  BY <1>1, <1>2, IncompleteKeepsInv DEF SkipDecode, peerVars

LEMMA DecodeNeedsSizeKeepsInv ==
    ASSUME Inv, NEW min \in 1 .. MaxNeeded, DecodeNeedsSize(min)
    PROVE  Inv'
<1>1. buffer' = buffer
    BY PutBackKeepsBuffer DEF DecodeNeedsSize
<1>2. decodeNeeds' = Used(buffer) + min /\ Used(buffer) \in Nat /\ min \in Nat
    BY StreamAssumption DEF DecodeNeedsSize, Inv, TypeOK, Used
<1>3. \A e \in taken + 1 .. Len(wire) : Promise!EndsAt(wire, taken, e) => e > got
    BY IncompleteMeansMore DEF DecodeNeedsSize, Inv
<1>4. \A e \in taken + 1 .. Len(wire) :
          Promise!EndsAt(wire, taken, e) => decodeNeeds' <= e - taken
    BY <1>2 DEF DecodeNeedsSize, HonestNeed
<1> QED  BY <1>1, <1>2, <1>3, <1>4, IncompleteKeepsInv DEF DecodeNeedsSize, peerVars

LEMMA DecodeNeedsUnknownKeepsInv == Inv /\ DecodeNeedsUnknown => Inv'
<1> SUFFICES ASSUME Inv, DecodeNeedsUnknown PROVE Inv'
    OBVIOUS
<1>1. buffer' = buffer /\ decodeNeeds' = 0
    BY PutBackKeepsBuffer DEF DecodeNeedsUnknown
<1>2. \A e \in taken + 1 .. Len(wire) : Promise!EndsAt(wire, taken, e) => e > got
    BY IncompleteMeansMore DEF DecodeNeedsUnknown, Inv
<1>3. \A e \in taken + 1 .. Len(wire) : decodeNeeds' <= e - taken
    BY <1>1, WireProperties DEF Inv, TypeOK
<1> QED  BY <1>1, <1>2, <1>3, IncompleteKeepsInv DEF DecodeNeedsUnknown, peerVars

LEMMA DecodeFailsKeepsInv == Inv /\ DecodeFails => Inv'
<1> SUFFICES ASSUME Inv, DecodeFails PROVE Inv'
    OBVIOUS
<1>1. buffer' = buffer /\ decodeNeeds' = 0 /\ pc' = "idle"
      /\ UNCHANGED <<wire, sent, open, taken, got, ioErrors>>
    BY PutBackKeepsBuffer DEF DecodeFails, Return, peerVars
<1>2. last' \in [kind : Outcomes, bytes : Seq(Nat)]
    BY OutcomeType DEF DecodeFails, Return, Outcomes
<1>3. TypeOK'
    BY <1>1, <1>2 DEF Inv, TypeOK
<1>4. BufferIsUnread' /\ CapacityBounded'
    BY <1>1 DEF Inv, BufferIsUnread, CapacityBounded, Used
<1>5. RoomBeforeRead' /\ ReadsOnlyForMore'
    BY <1>1 DEF RoomBeforeRead, ReadsOnlyForMore
<1>6. NeedsOnlyTheNext'
    BY <1>1, WireProperties DEF Inv, TypeOK, NeedsOnlyTheNext
<1> QED  BY <1>3, <1>4, <1>5, <1>6 DEF Inv

\* A delivery: the bytes after the response move to a fresh block, which has
\* room, stays within MAX_CAPACITY, and starts at the next response.
LEMMA DecodeResponseKeepsInv ==
    ASSUME Inv, NEW n \in 1 .. Used(buffer), DecodeResponse(n)
    PROVE  Inv'
<1> DEFINE used == Used(buffer)
           data == SubSeq(buffer.block, n + 1, used)
<1>1. /\ buffer.block \in Seq(Nat) /\ used \in Nat /\ Len(buffer.block) \in Nat
      /\ used <= Len(buffer.block) /\ Len(buffer.block) <= MaxCapacity
      /\ taken \in Nat /\ got = taken + used
    BY LenProperties DEF Inv, TypeOK, CapacityBounded, BufferIsUnread, Used
<1>2. \A i \in 1 .. used : buffer.block[i] \in Nat /\ buffer.block[i] = taken + i
    <2> TAKE i \in 1 .. used
    <2>1. i \in 1 .. Len(buffer.block)
        BY <1>1
    <2>2. buffer.block[i] \in Nat
        BY <1>1, <2>1, ElementOfSeq
    <2>3. buffer.block[i] = taken + i
        BY DEF Inv, BufferIsUnread
    <2> QED  BY <2>2, <2>3
<1>3. /\ data \in Seq(Nat)
      /\ Len(data) = used - n
      /\ \A i \in 1 .. used - n : data[i] = buffer.block[n + i]
    <2>1. \A i \in n + 1 .. used : buffer.block[i] \in Nat
        BY <1>1, <1>2
    <2>2. n + 1 \in Int /\ used \in Int
        BY <1>1
    <2>3. /\ data \in Seq(Nat)
          /\ Len(data) = IF n + 1 <= used THEN used - (n + 1) + 1 ELSE 0
          /\ \A i \in 1 .. used - (n + 1) + 1 : data[i] = buffer.block[n + 1 + i - 1]
        BY <2>1, <2>2, SubSeqProperties
    <2> QED  BY <1>1, <2>3
<1>4. /\ buffer' = ResetWithData(data) /\ decodeNeeds' = 0 /\ taken' = taken + n
      /\ pc' = "idle" /\ last' = Promise!Item(SubSeq(buffer.block, 1, n))
      /\ UNCHANGED <<wire, sent, open, got, ioErrors>>
    BY DEF DecodeResponse, Return, peerVars
<1> HIDE DEF data
<1>5. /\ buffer' \in Buffers
      /\ Used(buffer') = used - n
      /\ Len(buffer'.block) = RoundUpStrictly(used - n)
      /\ \A i \in 1 .. used - n : buffer'.block[i] = buffer.block[n + i]
    <2>1. /\ ResetWithData(data) \in Buffers
          /\ ResetWithData(data).offset = Len(data)
          /\ Len(ResetWithData(data).block) = RoundUpStrictly(Len(data))
          /\ \A i \in 1 .. Len(data) : ResetWithData(data).block[i] = data[i]
        BY <1>3, ResetProperties
    <2> QED  BY <1>3, <1>4, <2>1 DEF Used
<1>6. TypeOK'
    <2>1. SubSeq(buffer.block, 1, n) \in Seq(Nat)
        <3>1. \A i \in 1 .. n : buffer.block[i] \in Nat
            BY <1>1, <1>2
        <3> QED  BY <3>1, <1>1, SubSeqProperties
    <2>2. last' \in [kind : Outcomes, bytes : Seq(Nat)]
        BY <1>4, <2>1 DEF Promise!Item, Outcomes
    <2> QED  BY <1>1, <1>4, <1>5, <2>2 DEF Inv, TypeOK, Buffers
<1>7. BufferIsUnread'
    <2>1. got' = taken' + Used(buffer') /\ got' <= sent'
        BY <1>1, <1>4, <1>5 DEF Inv, BufferIsUnread
    <2>2. \A i \in 1 .. Used(buffer') : buffer'.block[i] = taken' + i
        <3> SUFFICES ASSUME NEW i \in 1 .. Used(buffer') PROVE buffer'.block[i] = taken' + i
            OBVIOUS
        <3> HIDE DEF used
        <3>1. i \in 1 .. used - n /\ n + i \in 1 .. used
            BY <1>1, <1>5
        <3>2. buffer'.block[i] = buffer.block[n + i] /\ buffer.block[n + i] = taken + (n + i)
            BY <3>1, <1>2, <1>5
        <3> QED  BY <3>1, <3>2, <1>1, <1>4
    <2> QED  BY <2>1, <2>2 DEF BufferIsUnread, Used
<1>8. RoomBeforeRead' /\ ReadsOnlyForMore'
    BY <1>4 DEF RoomBeforeRead, ReadsOnlyForMore
<1>9. CapacityBounded'
    <2>1. used - n \in Nat /\ used - n < MaxCapacity
        <3>1. /\ used \in Nat /\ n \in Nat \ {0} /\ n <= used /\ used <= MaxCapacity
              /\ MaxCapacity \in Nat
            BY <1>1, BufferAssumption
        <3> HIDE DEF used
        <3> QED  BY <3>1
    <2>2. /\ RoundUpStrictly(used - n) \in Nat
          /\ used - n < RoundUpStrictly(used - n)
          /\ (RoundUpStrictly(used - n) % BlockSize) = 0
          /\ RoundUpStrictly(used - n) <= MaxCapacity
        BY <2>1, RoundUpStrictlyProperties, RoundUpStrictlyFits
    <2> QED  BY <1>5, <2>1, <2>2 DEF CapacityBounded, Used
<1>10. NeedsOnlyTheNext'
    <2>1. Len(wire) \in Nat
        BY WireProperties DEF Inv, TypeOK
    <2>2. \A e \in taken + n + 1 .. Len(wire) : 0 <= e - (taken + n)
        BY <1>1, <2>1
    <2> QED  BY <1>4, <2>2 DEF NeedsOnlyTheNext
<1> QED  BY <1>6, <1>7, <1>8, <1>9, <1>10 DEF Inv

-----------------------------------------------------------------------------
\* ensure_capacity makes the room that poll_read relies on.
LEMMA MakeRoomKeepsInv == Inv /\ MakeRoom => Inv'
<1> SUFFICES ASSUME Inv, MakeRoom PROVE Inv'
    OBVIOUS
<1>1. /\ buffer \in Buffers /\ decodeNeeds \in Nat
      /\ buffer.offset <= Len(buffer.block)
      /\ (Len(buffer.block) % BlockSize) = 0 /\ Len(buffer.block) <= MaxCapacity
    BY DEF Inv, TypeOK, CapacityBounded, Buffers, Used
<1>2. /\ buffer' = EnsureCapacity(buffer, decodeNeeds) /\ pc = "fill" /\ pc' = "read"
      /\ ~CapacityRefused(buffer, decodeNeeds)
      /\ UNCHANGED <<wire, sent, open, taken, last, got, ioErrors, decodeNeeds>>
    BY DEF MakeRoom, peerVars
<1>3. /\ buffer' \in Buffers
      /\ buffer'.offset = buffer.offset
      /\ buffer.offset < Len(buffer'.block)
      /\ decodeNeeds <= Len(buffer'.block)
      /\ \A i \in 1 .. buffer.offset : buffer'.block[i] = buffer.block[i]
    BY <1>1, <1>2, EnsureCapacityProperties
<1>4. (Len(buffer'.block) % BlockSize) = 0 /\ Len(buffer'.block) <= MaxCapacity
    BY <1>1, <1>2, EnsureCapacityBounded
<1>5. Len(buffer'.block) \in Nat /\ buffer.offset \in Nat
    BY <1>1, <1>3, LenProperties DEF Buffers
<1>6. TypeOK'
    BY <1>2, <1>3 DEF Inv, TypeOK, Buffers
<1>7. BufferIsUnread'
    BY <1>2, <1>3 DEF Inv, BufferIsUnread, Used
<1>8. RoomBeforeRead'
    BY <1>2, <1>3, <1>5 DEF RoomBeforeRead, Free
<1>9. CapacityBounded'
    BY <1>3, <1>4, <1>5 DEF CapacityBounded, Used
<1>10. NeedsOnlyTheNext' /\ ReadsOnlyForMore'
    BY <1>2 DEF Inv, NeedsOnlyTheNext, ReadsOnlyForMore, Promise!EndsAt
<1> QED  BY <1>6, <1>7, <1>8, <1>9, <1>10 DEF Inv

\* A read appends what it brought to the unread bytes.
LEMMA ReadKeepsInv ==
    ASSUME Inv, NEW n \in 1 .. Len(buffer.block), Read(n)
    PROVE  Inv'
<1>1. /\ buffer \in Buffers /\ buffer.offset \in Nat /\ Len(buffer.block) \in Nat
      /\ buffer.offset <= Len(buffer.block) /\ n \in Nat
      /\ taken \in Nat /\ got \in Nat /\ got = taken + buffer.offset
      /\ sent \in Nat /\ Len(wire) \in Nat
    BY LenProperties, WireProperties
       DEF Inv, TypeOK, CapacityBounded, BufferIsUnread, Buffers, Used
<1>2. /\ n <= sent - got /\ n <= Free(buffer) /\ got' = got + n /\ pc' = "decode"
      /\ buffer' = Receive(buffer, got, n)
      /\ UNCHANGED <<wire, sent, open, taken, last, ioErrors, decodeNeeds>>
    BY DEF Read, peerVars
<1>3. /\ buffer' \in Buffers
      /\ buffer'.offset = buffer.offset + n
      /\ Len(buffer'.block) = Len(buffer.block)
      /\ \A i \in 1 .. buffer.offset : buffer'.block[i] = buffer.block[i]
      /\ \A i \in buffer.offset + 1 .. buffer.offset + n :
             buffer'.block[i] = got + (i - buffer.offset)
    <2> DEFINE c == Receive(buffer, got, n)
    <2>1. /\ c \in Buffers
          /\ c.offset = buffer.offset + n
          /\ Len(c.block) = Len(buffer.block)
          /\ \A i \in 1 .. buffer.offset : c.block[i] = buffer.block[i]
          /\ \A i \in buffer.offset + 1 .. buffer.offset + n :
                 c.block[i] = got + (i - buffer.offset)
        <3>1. /\ buffer \in Buffers /\ got \in Nat /\ n \in Nat
              /\ n <= Free(buffer)
            BY <1>1, <1>2
        <3> QED  BY <3>1, ReadProperties
    <2> HIDE DEF c
    <2>2. buffer' = c
        BY <1>2 DEF c
    <2> QED  BY <2>1, <2>2
<1>4. TypeOK'
    <2>1. got' \in Nat
        BY <1>1, <1>2
    <2> QED  BY <1>2, <1>3, <2>1 DEF Inv, TypeOK, Buffers
<1>5. BufferIsUnread'
    <2>1. got' = taken' + buffer'.offset /\ got' <= sent'
        <3>1. /\ got' = got + n /\ taken' = taken /\ sent' = sent
              /\ buffer'.offset = buffer.offset + n /\ n <= sent - got
            BY <1>2, <1>3
        <3>2. /\ got \in Nat /\ n \in Nat /\ taken \in Nat /\ sent \in Nat
              /\ buffer.offset \in Nat /\ got = taken + buffer.offset
            BY <1>1
        <3>3. got + n = taken + (buffer.offset + n) /\ got + n <= sent
            BY <3>1, <3>2
        <3> QED  BY <3>1, <3>3
    <2>2. \A i \in 1 .. buffer.offset : buffer'.block[i] = taken' + i
        BY <1>2, <1>3 DEF Inv, BufferIsUnread, Used
    <2>3. \A i \in buffer.offset + 1 .. buffer.offset + n : buffer'.block[i] = taken' + i
        <3>1. \A i \in buffer.offset + 1 .. buffer.offset + n :
                  got + (i - buffer.offset) = taken + i
            BY <1>1
        <3> QED  BY <1>2, <1>3, <3>1
    <2> QED  BY <1>1, <1>3, <2>1, <2>2, <2>3 DEF BufferIsUnread, Used
<1>6. RoomBeforeRead' /\ ReadsOnlyForMore'
    BY <1>2 DEF RoomBeforeRead, ReadsOnlyForMore
<1>7. CapacityBounded'
    <2>1. buffer.offset + n <= Len(buffer.block)
        <3>1. n <= Len(buffer.block) - buffer.offset
            BY <1>2 DEF Free
        <3> QED  BY <1>1, <3>1
    <2> QED  BY <1>3, <2>1 DEF Inv, CapacityBounded, Used
<1>8. NeedsOnlyTheNext'
    BY <1>2 DEF Inv, NeedsOnlyTheNext, Promise!EndsAt
<1> QED  BY <1>4, <1>5, <1>6, <1>7, <1>8 DEF Inv

\* Every step of the system keeps the invariant.
LEMMA InvNext == Inv /\ [Next]_vars => Inv'
<1> SUFFICES ASSUME Inv, [Next]_vars PROVE Inv'
    OBVIOUS
<1>1. CASE Peer
    BY <1>1, PeerKeepsInv
<1>2. CASE Poll
    BY <1>2, QuietStepKeepsInv DEF Poll, peerVars, Inv, TypeOK
<1>3. CASE Decode
    BY <1>3, SkipDecodeKeepsInv, DecodeResponseKeepsInv, DecodeNeedsSizeKeepsInv,
       DecodeNeedsUnknownKeepsInv, DecodeFailsKeepsInv DEF Decode
<1>4. CASE Fill
    <2>1. CASE MakeRoom
        BY <2>1, MakeRoomKeepsInv
    <2>2. CASE RefuseRoom
        BY <2>2, QuietStepKeepsInv, OutcomeType
           DEF RefuseRoom, Return, peerVars, Inv, TypeOK, Outcomes
    <2>3. CASE \E n \in 1 .. Len(buffer.block) : Read(n)
        BY <2>3, ReadKeepsInv
    <2>4. CASE ReadPending
        BY <2>4, QuietStepKeepsInv, OutcomeType
           DEF ReadPending, Return, peerVars, Inv, TypeOK, Outcomes
    <2>5. CASE ReadZero
        BY <2>5, QuietStepKeepsInv, OutcomeType
           DEF ReadZero, Return, peerVars, Inv, TypeOK, Outcomes
    <2>6. CASE ReadError
        <3>1. ioErrors' \in 0 .. MaxIoErrors
            BY <2>6, StreamAssumption DEF ReadError, Inv, TypeOK
        <3> QED  BY <2>6, <3>1, QuietStepKeepsInv, OutcomeType
                 DEF ReadError, Return, peerVars, Outcomes
    <2> QED  BY <1>4, <2>1, <2>2, <2>3, <2>4, <2>5, <2>6 DEF Fill
<1>5. CASE UNCHANGED vars
    BY <1>5 DEF vars, Inv, TypeOK, BufferIsUnread, RoomBeforeRead, CapacityBounded,
                NeedsOnlyTheNext, ReadsOnlyForMore, Free, Used, Promise!EndsAt
<1> QED  BY <1>1, <1>2, <1>3, <1>4, <1>5 DEF Next

\* The invariant holds in every state an ImapStream can reach.
THEOREM Invariance == Spec => []Inv
BY InvInit, InvNext, PTL DEF Spec

\* Every variable of ImapStream always holds a value of its kind.
THEOREM TypeCorrect == Spec => []TypeOK
<1>1. Inv => TypeOK
    BY DEF Inv
<1> QED  BY <1>1, Invariance, PTL

\* The buffer never loses, repeats or reorders a byte between poll_read and
\* the parser, whatever the sizes of the reads and of the responses.
THEOREM BytesPreserved == Spec => []BufferIsUnread
<1>1. Inv => BufferIsUnread
    BY DEF Inv
<1> QED  BY <1>1, Invariance, PTL

\* poll_read never gets an empty slice, so reading 0 bytes always means EOF:
\* the regression described above test_ensure_capacity_loop cannot return.
THEOREM NoFalseEof == Spec => []RoomBeforeRead
<1>1. Inv => RoomBeforeRead
    BY DEF Inv
<1> QED  BY <1>1, Invariance, PTL

\* The block never exceeds MAX_CAPACITY, not even in reset_with_data, which
\* does not check.
THEOREM CapacityKept == Spec => []CapacityBounded
<1>1. Inv => CapacityBounded
    BY DEF Inv
<1> QED  BY <1>1, Invariance, PTL

\* decode never waits for bytes beyond the next response: decode_needs is no
\* left-over of an earlier one.
THEOREM NeverOverwaits == Spec => []NeedsOnlyTheNext
<1>1. Inv => NeedsOnlyTheNext
    BY DEF Inv
<1> QED  BY <1>1, Invariance, PTL

\* poll_next reads only when the response is not in the buffer already, so no
\* response is held back until bytes of a later one arrive.
THEOREM NeverStarves == Spec => []ReadsOnlyForMore
<1>1. Inv => ReadsOnlyForMore
    BY DEF Inv
<1> QED  BY <1>1, Invariance, PTL

-----------------------------------------------------------------------------
\* A response decode takes out of the buffer is the next one on the wire.
LEMMA DecodeResponseDelivers ==
    ASSUME Inv, NEW n \in 1 .. Used(buffer), DecodeResponse(n)
    PROVE  Promise!Next
<1> DEFINE e == taken + n
           bytes == SubSeq(buffer.block, 1, n)
<1>1. /\ buffer.block \in Seq(Nat) /\ Used(buffer) \in Nat
      /\ taken \in Nat /\ got = taken + Used(buffer) /\ got <= sent
      /\ sent \in Nat /\ sent <= Len(wire) /\ Len(wire) \in Nat /\ n \in Nat
      /\ Used(buffer) <= Len(buffer.block) /\ Len(buffer.block) \in Nat
    BY LenProperties, WireProperties DEF Inv, TypeOK, BufferIsUnread, CapacityBounded, Used
<1>2. /\ Len(UsedBytes(buffer)) = Used(buffer)
      /\ \A i \in 1 .. Used(buffer) : Kind(UsedBytes(buffer)[i]) = wire[taken + i]
    BY UsedBytesProperties DEF Inv
<1>3. wire[e] = "end" /\ \A i \in 1 .. n - 1 : wire[taken + i] = "mid"
    <2>1. /\ Kind(UsedBytes(buffer)[n]) = "end"
          /\ \A i \in 1 .. n - 1 : Kind(UsedBytes(buffer)[i]) = "mid"
        BY DEF DecodeResponse, Complete
    <2>2. \A i \in 1 .. n - 1 : i \in 1 .. Used(buffer)
        BY <1>1
    <2> QED  BY <1>2, <2>1, <2>2
<1>4. \A p \in taken + 1 .. e - 1 : wire[p] = "mid"
    <2> TAKE p \in taken + 1 .. e - 1
    <2>1. p - taken \in 1 .. n - 1 /\ taken + (p - taken) = p
        BY <1>1
    <2> QED  BY <1>3, <2>1
<1>5. e \in taken + 1 .. Len(wire) /\ e <= sent /\ e \in 1 .. Len(wire)
    BY <1>1
<1>6. Promise!EndsAt(wire, taken, e)
    BY <1>3, <1>4, <1>5 DEF Promise!EndsAt
<1>7. bytes = Promise!Positions(taken + 1, e)
    <2>1. \A i \in 1 .. n : buffer.block[i] \in Nat /\ buffer.block[i] = taken + i
        <3>1. \A i \in 1 .. n : i \in 1 .. Used(buffer) /\ i \in 1 .. Len(buffer.block)
            BY <1>1
        <3> QED  BY <1>1, <3>1, ElementOfSeq DEF Inv, BufferIsUnread
    <2>2. /\ bytes \in Seq(Nat) /\ Len(bytes) = n
          /\ \A i \in 1 .. n : bytes[i] = buffer.block[i]
        BY <1>1, <2>1, SubSeqProperties
    <2>3. bytes \in [1 .. n -> Nat]
        BY <2>2, LenProperties
    <2> HIDE DEF bytes
    <2>4. bytes = [i \in 1 .. n |-> taken + i]
        BY <2>1, <2>2, <2>3
    <2>5. Promise!Positions(taken + 1, e) = [i \in 1 .. n |-> taken + i]
        <3>1. e - (taken + 1) + 1 = n /\ \A i \in 1 .. n : taken + 1 + i - 1 = taken + i
            BY <1>1
        <3> QED  BY <3>1 DEF Promise!Positions
    <2> QED  BY <2>4, <2>5
<1>8. taken' = e /\ last' = Promise!Item(bytes) /\ UNCHANGED <<wire, sent, open>>
    BY DEF DecodeResponse, Return, peerVars
<1>9. Promise!Deliver(e)
    BY <1>5, <1>6, <1>7, <1>8 DEF Promise!Deliver
<1> QED  BY <1>5, <1>9 DEF Promise!Next

\* A parse error is returned only where the bytes sent are no response.
LEMMA DecodeFailsIsMalformed == Inv /\ DecodeFails => Promise!Next
<1> SUFFICES ASSUME Inv, DecodeFails PROVE Promise!Next
    OBVIOUS
<1>1. PICK n \in 1 .. Used(buffer) :
          /\ wire[taken + n] = "bad"
          /\ \A i \in 1 .. n - 1 : wire[taken + i] = "mid"
    <2>1. Used(buffer) \in Nat
        BY DEF Inv, TypeOK, Used
    <2>2. /\ Len(UsedBytes(buffer)) = Used(buffer)
          /\ \A i \in 1 .. Used(buffer) : Kind(UsedBytes(buffer)[i]) = wire[taken + i]
        BY UsedBytesProperties DEF Inv
    <2>3. PICK n \in 1 .. Used(buffer) :
              /\ Kind(UsedBytes(buffer)[n]) = "bad"
              /\ \A i \in 1 .. n - 1 : Kind(UsedBytes(buffer)[i]) = "mid"
        BY <2>2 DEF DecodeFails, Rejected
    <2>4. \A i \in 1 .. n - 1 : i \in 1 .. Used(buffer)
        BY <2>1
    <2> QED  BY <2>2, <2>3, <2>4
<1>2. /\ taken \in Nat /\ Used(buffer) \in Nat /\ got = taken + Used(buffer) /\ got <= sent
      /\ sent \in Nat /\ sent <= Len(wire) /\ Len(wire) \in Nat
    BY WireProperties DEF Inv, TypeOK, BufferIsUnread, Used
<1> DEFINE b == taken + n
<1>3. b \in taken + 1 .. sent /\ b \in taken + 1 .. Len(wire)
    BY <1>2
<1>4. \A p \in taken + 1 .. b - 1 : wire[p] = "mid"
    <2> TAKE p \in taken + 1 .. b - 1
    <2>1. p - taken \in 1 .. n - 1 /\ taken + (p - taken) = p
        BY <1>2
    <2> QED  BY <1>1, <2>1
<1>5. Promise!BreaksAt(wire, taken, b)
    BY <1>1, <1>3, <1>4 DEF Promise!BreaksAt
<1>6. Promise!NoItem("parse")
    BY DEF DecodeFails, Return, peerVars, Promise!NoItem
<1> QED  BY <1>3, <1>5, <1>6 DEF Promise!Malformed, Promise!Next

\* "incoming data too large" is returned only for a response that does not
\* fit in MAX_CAPACITY bytes.
LEMMA RefuseRoomIsTooLarge == Inv /\ RefuseRoom => Promise!Next
<1> SUFFICES ASSUME Inv, RefuseRoom PROVE Promise!Next
    OBVIOUS
<1>1. buffer \in Buffers /\ decodeNeeds \in Nat
    BY DEF Inv, TypeOK, Buffers
<1>2. decodeNeeds > MaxCapacity \/ Used(buffer) = MaxCapacity
    BY <1>1, RefusedOnlyAtTheLimit DEF Inv, CapacityBounded, RefuseRoom, Used
<1>3. /\ taken \in Nat /\ Used(buffer) \in Nat /\ got = taken + Used(buffer)
      /\ Len(wire) \in Nat
    BY WireProperties DEF Inv, TypeOK, BufferIsUnread, Used
<1>4. ASSUME NEW e \in taken + 1 .. Len(wire), Promise!EndsAt(wire, taken, e)
      PROVE  e - taken > MaxCapacity
    <2>1. decodeNeeds <= e - taken /\ e > got
        BY <1>4 DEF Inv, NeedsOnlyTheNext, ReadsOnlyForMore, RefuseRoom
    <2> QED  BY <1>1, <1>2, <1>3, <2>1, BufferAssumption
<1>5. Promise!NoItem("large")
    BY DEF RefuseRoom, Return, peerVars, Promise!NoItem
<1> QED  BY <1>4, <1>5 DEF Promise!TooLarge, Promise!Next

\* When all that arrived was read, the next response is not among it.
LEMMA NothingArrived ==
    ASSUME Inv, pc = "read", got = sent
    PROVE  ~Promise!NextHasArrived
<1>1. SUFFICES ASSUME NEW e \in taken + 1 .. sent, Promise!EndsAt(wire, taken, e)
               PROVE  FALSE
    BY DEF Promise!NextHasArrived
<1>2. /\ taken \in Nat /\ sent \in Nat /\ sent <= Len(wire) /\ Len(wire) \in Nat
    BY WireProperties DEF Inv, TypeOK
<1>3. e \in taken + 1 .. Len(wire)
    BY <1>2
<1>4. e > got
    BY <1>1, <1>3 DEF Inv, ReadsOnlyForMore
<1> QED  BY <1>2, <1>4

\* A read of 0 bytes is reported as what it is.
LEMMA ReadZeroIsEof == Inv /\ ReadZero => Promise!Next
<1> SUFFICES ASSUME Inv, ReadZero PROVE Promise!Next
    OBVIOUS
<1>1. ~open /\ got = sent /\ pc = "read"
    BY DEF ReadZero, Inv, RoomBeforeRead
<1>2. taken \in Nat /\ Used(buffer) \in Nat /\ sent = taken + Used(buffer)
    BY <1>1 DEF Inv, TypeOK, BufferIsUnread, Used
<1>3. CASE Used(buffer) > 0
    <2>1. taken < sent
        BY <1>2, <1>3
    <2>2. Promise!NoItem("eof")
        BY <1>3 DEF ReadZero, Return, peerVars, Promise!NoItem
    <2> QED  BY <1>1, <2>1, <2>2, NothingArrived DEF Promise!Truncated, Promise!Next
<1>4. CASE ~(Used(buffer) > 0)
    <2>1. taken = sent
        BY <1>2, <1>4
    <2>2. Promise!NoItem("end")
        BY <1>4 DEF ReadZero, Return, peerVars, Promise!NoItem
    <2> QED  BY <1>1, <2>1, <2>2 DEF Promise!EndOfStream, Promise!Next
<1> QED  BY <1>3, <1>4

\* Every step of the detailed stream is a step of the promise or changes
\* nothing the promise speaks of.
LEMMA StepSimulation == Inv /\ [Next]_vars => [Promise!Next]_Promise!vars
<1> SUFFICES ASSUME Inv, [Next]_vars PROVE Promise!Next \/ UNCHANGED Promise!vars
    OBVIOUS
<1>1. CASE Peer
    BY <1>1 DEF Peer, Send, Close, Reopen, Promise!Next
<1>2. CASE Poll
    BY <1>2 DEF Poll, peerVars, Promise!vars
<1>3. CASE Decode
    <2>1. CASE SkipDecode
        BY <2>1 DEF SkipDecode, peerVars, Promise!vars
    <2>2. CASE \E n \in 1 .. Used(buffer) : DecodeResponse(n)
        BY <2>2, DecodeResponseDelivers
    <2>3. CASE \E min \in 1 .. MaxNeeded : DecodeNeedsSize(min)
        BY <2>3 DEF DecodeNeedsSize, peerVars, Promise!vars
    <2>4. CASE DecodeNeedsUnknown
        BY <2>4 DEF DecodeNeedsUnknown, peerVars, Promise!vars
    <2>5. CASE DecodeFails
        BY <2>5, DecodeFailsIsMalformed
    <2> QED  BY <1>3, <2>1, <2>2, <2>3, <2>4, <2>5 DEF Decode
<1>4. CASE Fill
    <2>1. CASE MakeRoom
        BY <2>1 DEF MakeRoom, peerVars, Promise!vars
    <2>2. CASE RefuseRoom
        BY <2>2, RefuseRoomIsTooLarge
    <2>3. CASE \E n \in 1 .. Len(buffer.block) : Read(n)
        BY <2>3 DEF Read, peerVars, Promise!vars
    <2>4. CASE ReadPending
        BY <2>4, NothingArrived
           DEF ReadPending, Return, peerVars, Promise!NoItem, Promise!Wait, Promise!Next
    <2>5. CASE ReadZero
        BY <2>5, ReadZeroIsEof
    <2>6. CASE ReadError
        BY <2>6 DEF ReadError, Return, peerVars, Promise!NoItem, Promise!TransportError,
                    Promise!Next
    <2> QED  BY <1>4, <2>1, <2>2, <2>3, <2>4, <2>5, <2>6 DEF Fill
<1>5. CASE UNCHANGED vars
    BY <1>5 DEF vars, Promise!vars
<1> QED  BY <1>1, <1>2, <1>3, <1>4, <1>5 DEF Next

\* ImapStream implements ResponseStream: the caller gets the responses of the
\* server in order and whole, and is told of an end, a truncation, a
\* malformed or an oversized response only when there is one.
THEOREM Refinement == Spec => KeepsPromise
<1>1. Init => Promise!Init
    BY DEF Init
<1> QED  BY <1>1, StepSimulation, Invariance, PTL DEF Spec, KeepsPromise, Promise!Spec

-----------------------------------------------------------------------------
(* Errors persist.  What an error leaves behind: a rejected response at the *)
(* front of the buffer, or a block that may not grow.                       *)

\* decode, called again on the same bytes, finds no response and no error.
Stalled == Used(buffer) >= decodeNeeds => Incomplete(UsedBytes(buffer))

ErrorState ==
    /\ pc \in {"fill", "read"} \/ last.kind = "large" => Stalled
    /\ last.kind = "parse" =>
           /\ last = Promise!Outcome("parse")
           /\ pc \in {"idle", "decode"}
           /\ decodeNeeds = 0
           /\ Rejected(UsedBytes(buffer))
    /\ last.kind = "large" =>
           /\ last = Promise!Outcome("large")
           /\ pc # "read"
           /\ CapacityRefused(buffer, decodeNeeds)

\* What every step makes of the outcome of the poll before it.
ErrorStays == last.kind \in {"parse", "large"} => last' = last

\* The parser has one verdict on the bytes it is given.
LEMMA OneVerdict ==
    ASSUME NEW bytes \in Seq(Nat)
    PROVE  /\ ~(Rejected(bytes) /\ Incomplete(bytes))
           /\ \A n \in Nat : Complete(bytes, n) => ~Rejected(bytes) /\ ~Incomplete(bytes)
<1>1. Len(bytes) \in Nat
    BY LenProperties
<1>2. ~(Rejected(bytes) /\ Incomplete(bytes))
    BY DEF Rejected, Incomplete
<1>3. ASSUME NEW n \in Nat, Complete(bytes, n) PROVE ~Rejected(bytes)
    <2>1. SUFFICES ASSUME NEW b \in 1 .. Len(bytes), Kind(bytes[b]) = "bad",
                          \A i \in 1 .. b - 1 : Kind(bytes[i]) = "mid"
                   PROVE  FALSE
        BY DEF Rejected
    <2>2. /\ n \in 1 .. Len(bytes) /\ Kind(bytes[n]) = "end"
          /\ \A i \in 1 .. n - 1 : Kind(bytes[i]) = "mid"
        BY <1>3 DEF Complete
    <2>3. CASE n = b
        BY <2>1, <2>2, <2>3
    <2>4. CASE n < b
        <3>1. n \in 1 .. b - 1
            BY <1>1, <2>2, <2>4
        <3> QED  BY <2>1, <2>2, <3>1
    <2>5. CASE b < n
        <3>1. b \in 1 .. n - 1
            BY <1>1, <2>2, <2>5
        <3> QED  BY <2>1, <2>2, <3>1
    <2> QED  BY <1>1, <2>2, <2>3, <2>4, <2>5
<1>4. ASSUME NEW n \in Nat, Complete(bytes, n) PROVE ~Incomplete(bytes)
    BY <1>4 DEF Complete, Incomplete
<1> QED  BY <1>2, <1>3, <1>4

\* The parser is given a sequence of bytes.
LEMMA UsedBytesType ==
    ASSUME Inv
    PROVE  UsedBytes(buffer) \in Seq(Nat)
<1>1. /\ buffer.block \in Seq(Nat) /\ buffer.offset \in Nat
      /\ Len(buffer.block) \in Nat
      /\ buffer.offset <= Len(buffer.block)
    BY LenProperties DEF Inv, TypeOK, CapacityBounded, Used
<1>2. \A i \in 1 .. buffer.offset : buffer.block[i] \in Nat
    BY <1>1, ElementOfSeq
<1> QED  BY <1>1, <1>2, SubSeqProperties DEF UsedBytes

\* Growth changes nothing for the parser.
LEMMA SameUsedBytes ==
    ASSUME NEW b \in Buffers, NEW c \in Buffers,
           c.offset = b.offset, b.offset <= Len(b.block), c.offset <= Len(c.block),
           \A i \in 1 .. b.offset : c.block[i] = b.block[i]
    PROVE  UsedBytes(c) = UsedBytes(b)
<1>1. /\ b.block \in Seq(Nat) /\ c.block \in Seq(Nat) /\ b.offset \in Nat
      /\ Len(b.block) \in Nat /\ Len(c.block) \in Nat
    BY LenProperties DEF Buffers
<1>2. \A i \in 1 .. b.offset : b.block[i] \in Nat /\ c.block[i] \in Nat
    <2> TAKE i \in 1 .. b.offset
    <2>1. i \in 1 .. Len(b.block) /\ i \in 1 .. Len(c.block)
        BY <1>1
    <2>2. b.block[i] \in Nat
        BY <1>1, <2>1, ElementOfSeq
    <2>3. c.block[i] \in Nat
        BY <1>1, <2>1, ElementOfSeq
    <2> QED  BY <2>2, <2>3
<1> DEFINE left == SubSeq(b.block, 1, b.offset)
           right == SubSeq(c.block, 1, b.offset)
<1>3. /\ left \in Seq(Nat) /\ Len(left) = b.offset
      /\ \A i \in 1 .. b.offset : left[i] = b.block[i]
    BY <1>1, <1>2, SubSeqProperties
<1>4. /\ right \in Seq(Nat) /\ Len(right) = b.offset
      /\ \A i \in 1 .. b.offset : right[i] = c.block[i]
    BY <1>1, <1>2, SubSeqProperties
<1> HIDE DEF left, right
<1>5. left \in [1 .. b.offset -> Nat] /\ right \in [1 .. b.offset -> Nat]
    BY <1>3, <1>4, LenProperties
<1>6. left = right
    BY <1>3, <1>4, <1>5
<1> QED  BY <1>6 DEF UsedBytes, left, right

\* A full block of MAX_CAPACITY may not grow, whatever decode asks for.
LEMMA FullIsRefused ==
    ASSUME NEW b \in Buffers, NEW required \in Nat,
           b.offset = Len(b.block), Len(b.block) = MaxCapacity
    PROVE  CapacityRefused(b, required)
<1>1. /\ Increase(b, required) \in Nat /\ Increase(b, required) >= BlockSize
      /\ Len(b.block) \in Nat
    BY IncreaseProperties
<1>2. /\ GrownSize(b, Increase(b, required)) \in Nat
      /\ Len(b.block) + Increase(b, required) <= GrownSize(b, Increase(b, required))
    BY GrownProperties
<1>3. GrownSize(b, Increase(b, required)) > MaxCapacity
    BY <1>1, <1>2, BufferAssumption
<1>4. MustGrow(b, required)
    BY <1>1 DEF MustGrow, Free
<1> QED  BY <1>3, <1>4 DEF CapacityRefused

-----------------------------------------------------------------------------
\* The parser's verdict depends on the bytes alone.
LEMMA SameVerdict ==
    ASSUME wire' = wire, UsedBytes(buffer') = UsedBytes(buffer)
    PROVE  /\ Rejected(UsedBytes(buffer))' <=> Rejected(UsedBytes(buffer))
           /\ Incomplete(UsedBytes(buffer))' <=> Incomplete(UsedBytes(buffer))
<1>1. UsedBytes(buffer)' = UsedBytes(buffer)
    BY DEF UsedBytes
<1> QED  BY <1>1 DEF Rejected, Incomplete, Kind

\* The server and the network: what they do changes nothing an error rests on.
LEMMA PeerKeepsErrors == Inv /\ ErrorState /\ Peer => ErrorState' /\ ErrorStays
<1> SUFFICES ASSUME Inv, ErrorState, Peer PROVE ErrorState' /\ ErrorStays
    OBVIOUS
<1>1. UNCHANGED <<wire, last, got, buffer, decodeNeeds, pc>>
    BY DEF Peer, Send, Close, Reopen, Promise!Send, Promise!Close, Promise!Reopen
<1>2. Stalled' <=> Stalled
    BY <1>1, SameVerdict DEF Stalled, Used
<1>3. ErrorState'
    BY <1>1, <1>2, SameVerdict DEF ErrorState, Promise!Outcome
<1>4. ErrorStays
    BY <1>1 DEF ErrorStays
<1> QED  BY <1>3, <1>4

\* The steps that begin a poll, or that decode nothing.
LEMMA PollKeepsErrors == Inv /\ ErrorState /\ Poll => ErrorState' /\ ErrorStays
<1> SUFFICES ASSUME Inv, ErrorState, Poll PROVE ErrorState' /\ ErrorStays
    OBVIOUS
<1>1. /\ UNCHANGED <<wire, sent, open, last, got, buffer, decodeNeeds>>
      /\ pc = "idle" /\ pc' = "decode"
    BY DEF Poll, peerVars
<1>2. Stalled' <=> Stalled
    BY <1>1, SameVerdict DEF Stalled, Used
<1>3. ErrorState'
    BY <1>1, <1>2, SameVerdict DEF ErrorState, Promise!Outcome, Used
<1> QED  BY <1>1, <1>3 DEF ErrorStays

LEMMA SkipDecodeKeepsErrors ==
    Inv /\ ErrorState /\ SkipDecode => ErrorState' /\ ErrorStays
<1> SUFFICES ASSUME Inv, ErrorState, SkipDecode PROVE ErrorState' /\ ErrorStays
    OBVIOUS
<1>1. /\ UNCHANGED <<wire, sent, open, last, got, buffer, decodeNeeds>>
      /\ pc = "decode" /\ pc' = "fill" /\ Used(buffer) < decodeNeeds
    BY DEF SkipDecode, peerVars
<1>2. Used(buffer) \in Nat /\ decodeNeeds \in Nat
    BY DEF Inv, TypeOK, Used
<1>3. Stalled'
    BY <1>1, <1>2 DEF Stalled, Used
<1>4. last.kind # "parse"
    BY <1>1, <1>2 DEF ErrorState
<1>5. ErrorState'
    BY <1>1, <1>3, <1>4 DEF ErrorState, Promise!Outcome, Used
<1> QED  BY <1>1, <1>5 DEF ErrorStays

-----------------------------------------------------------------------------
\* No response is found in bytes that were rejected, or that stalled.
LEMMA DecodeResponseKeepsErrors ==
    ASSUME Inv, ErrorState, NEW n \in 1 .. Used(buffer), DecodeResponse(n)
    PROVE  ErrorState' /\ ErrorStays
<1>1. /\ Complete(UsedBytes(buffer), n) /\ Used(buffer) >= decodeNeeds
      /\ last'.kind = "item" /\ pc' = "idle"
    BY DEF DecodeResponse, Decodes, Return, Promise!Item
<1>2. n \in Nat
    BY DEF Inv, TypeOK, Used
<1>3. ~Rejected(UsedBytes(buffer)) /\ ~Incomplete(UsedBytes(buffer))
    BY <1>1, <1>2, UsedBytesType, OneVerdict
<1>4. last.kind \notin {"parse", "large"}
    BY <1>1, <1>3 DEF ErrorState, Stalled
<1> QED  BY <1>1, <1>4 DEF ErrorState, ErrorStays

\* An attempt that finds the bytes incomplete: what was refused is refused
\* again, however much more the parser asks for this time.
LEMMA IncompleteKeepsErrors ==
    ASSUME Inv, ErrorState, Decodes, PutBack,
           Incomplete(UsedBytes(buffer)),
           UNCHANGED <<wire, sent, open, last, got>>,
           decodeNeeds' \in Nat, pc' = "fill"
    PROVE  ErrorState' /\ ErrorStays
<1>1. buffer' = buffer
    BY PutBackKeepsBuffer
<1>2. Stalled'
    BY <1>1, SameVerdict DEF Stalled
<1>3. last.kind # "parse"
    BY UsedBytesType, OneVerdict DEF ErrorState
<1>4. ASSUME last.kind = "large" PROVE CapacityRefused(buffer, decodeNeeds')
    <2>1. /\ buffer \in Buffers /\ decodeNeeds \in Nat
          /\ (Len(buffer.block) % BlockSize) = 0 /\ Len(buffer.block) <= MaxCapacity
          /\ CapacityRefused(buffer, decodeNeeds)
        BY <1>4 DEF Inv, TypeOK, CapacityBounded, Buffers, ErrorState
    <2>2. decodeNeeds > MaxCapacity
              \/ (buffer.offset = Len(buffer.block) /\ Len(buffer.block) = MaxCapacity)
        BY <2>1, RefusedOnlyAtTheLimit
    <2>3. decodeNeeds <= buffer.offset /\ buffer.offset <= MaxCapacity
        <3>1. /\ buffer.offset \in Nat /\ Len(buffer.block) \in Nat
              /\ buffer.offset <= Len(buffer.block) /\ buffer.offset >= decodeNeeds
            BY <2>1, LenProperties DEF Inv, CapacityBounded, Decodes, Used, Buffers
        <3> QED  BY <2>1, <3>1, BufferAssumption
    <2>4. buffer.offset = Len(buffer.block) /\ Len(buffer.block) = MaxCapacity
        <3>1. buffer.offset \in Nat
            BY <2>1 DEF Buffers
        <3> QED  BY <2>1, <2>2, <2>3, <3>1, BufferAssumption
    <2> QED  BY <2>1, <2>4, FullIsRefused
<1>5. ErrorState'
    <2>1. last'.kind = "large" =>
              last' = Promise!Outcome("large") /\ pc' # "read" /\ CapacityRefused(buffer', decodeNeeds')
        BY <1>1, <1>4 DEF ErrorState, Promise!Outcome
    <2>2. CapacityRefused(buffer, decodeNeeds)' <=> CapacityRefused(buffer', decodeNeeds')
        OBVIOUS
    <2> QED  BY <1>2, <1>3, <2>1, <2>2 DEF ErrorState, Promise!Outcome
<1> QED  BY <1>5 DEF ErrorStays

\* Bytes that were rejected are rejected again.
LEMMA DecodeFailsKeepsErrors ==
    Inv /\ ErrorState /\ DecodeFails => ErrorState' /\ ErrorStays
<1> SUFFICES ASSUME Inv, ErrorState, DecodeFails PROVE ErrorState' /\ ErrorStays
    OBVIOUS
<1>1. /\ UNCHANGED <<wire, sent, open, got>> /\ Used(buffer) >= decodeNeeds
      /\ Rejected(UsedBytes(buffer)) /\ decodeNeeds' = 0 /\ pc' = "idle"
      /\ last' = Promise!Outcome("parse") /\ buffer' = buffer
    BY PutBackKeepsBuffer DEF DecodeFails, Decodes, Return, peerVars
<1>2. ~Incomplete(UsedBytes(buffer))
    BY <1>1, UsedBytesType, OneVerdict
<1>3. last.kind # "large" /\ (last.kind = "parse" => last' = last)
    BY <1>1, <1>2 DEF ErrorState, Stalled
<1>4. Rejected(UsedBytes(buffer))'
    BY <1>1, SameVerdict
<1>5. last'.kind = "parse"
    BY <1>1 DEF Promise!Outcome
<1>6. ErrorState'
    BY <1>1, <1>4, <1>5 DEF ErrorState, Promise!Outcome
<1> QED  BY <1>3, <1>6 DEF ErrorStays

-----------------------------------------------------------------------------
\* Room is made only for bytes that stalled, and not where it was refused.
LEMMA MakeRoomKeepsErrors ==
    Inv /\ ErrorState /\ MakeRoom => ErrorState' /\ ErrorStays
<1> SUFFICES ASSUME Inv, ErrorState, MakeRoom PROVE ErrorState' /\ ErrorStays
    OBVIOUS
<1>1. /\ UNCHANGED <<wire, sent, open, last, got, decodeNeeds>>
      /\ pc = "fill" /\ pc' = "read"
      /\ ~CapacityRefused(buffer, decodeNeeds)
      /\ buffer' = EnsureCapacity(buffer, decodeNeeds)
    BY DEF MakeRoom, peerVars
<1>2. /\ buffer \in Buffers /\ decodeNeeds \in Nat
      /\ buffer.offset \in Nat /\ Len(buffer.block) \in Nat
      /\ buffer.offset <= Len(buffer.block)
    BY LenProperties DEF Inv, TypeOK, CapacityBounded, Buffers, Used
<1>3. /\ buffer' \in Buffers
      /\ buffer'.offset = buffer.offset
      /\ buffer.offset < Len(buffer'.block)
      /\ \A i \in 1 .. buffer.offset : buffer'.block[i] = buffer.block[i]
    BY <1>1, <1>2, EnsureCapacityProperties
<1>4. buffer'.offset <= Len(buffer'.block)
    <2>1. Len(buffer'.block) \in Nat
        BY <1>3, LenProperties DEF Buffers
    <2> QED  BY <1>2, <1>3, <2>1
<1>5. UsedBytes(buffer') = UsedBytes(buffer)
    BY <1>2, <1>3, <1>4, SameUsedBytes
<1>6. Stalled'
    <2>1. Stalled
        BY <1>1 DEF ErrorState
    <2> QED  BY <1>1, <1>3, <1>5, <2>1, SameVerdict DEF Stalled, Used
<1>7. last.kind # "parse" /\ last.kind # "large"
    BY <1>1 DEF ErrorState
<1>8. ErrorState'
    BY <1>1, <1>3, <1>6, <1>7 DEF ErrorState, Used
<1> QED  BY <1>1, <1>8 DEF ErrorStays

\* The steps of a poll that end it without a response.
LEMMA RefuseRoomKeepsErrors ==
    Inv /\ ErrorState /\ RefuseRoom => ErrorState' /\ ErrorStays
<1> SUFFICES ASSUME Inv, ErrorState, RefuseRoom PROVE ErrorState' /\ ErrorStays
    OBVIOUS
<1>1. /\ UNCHANGED <<wire, sent, open, got, buffer, decodeNeeds>>
      /\ pc = "fill" /\ pc' = "idle" /\ last' = Promise!Outcome("large")
      /\ CapacityRefused(buffer, decodeNeeds)
    BY DEF RefuseRoom, Return, peerVars
<1>2. last'.kind = "large"
    BY <1>1 DEF Promise!Outcome
<1>3. Stalled'
    <2>1. Stalled
        BY <1>1 DEF ErrorState
    <2> QED  BY <1>1, <2>1, SameVerdict DEF Stalled, Used
<1>4. CapacityRefused(buffer, decodeNeeds)'
    BY <1>1
<1>5. ErrorState'
    BY <1>1, <1>2, <1>3, <1>4 DEF ErrorState, Promise!Outcome
<1>6. ErrorStays
    BY <1>1, <1>2 DEF ErrorState, ErrorStays
<1> QED  BY <1>5, <1>6

\* A poll reads only where no error was returned before it.
LEMMA ReadKeepsErrors ==
    ASSUME Inv, ErrorState, NEW n \in 1 .. Len(buffer.block), Read(n)
    PROVE  ErrorState' /\ ErrorStays
<1>1. last' = last /\ pc = "read" /\ pc' = "decode"
    BY DEF Read
<1>2. last.kind \notin {"parse", "large"}
    BY <1>1 DEF ErrorState
<1> QED  BY <1>1, <1>2 DEF ErrorState, ErrorStays

LEMMA ReadZeroKeepsErrors ==
    Inv /\ ErrorState /\ ReadZero => ErrorState' /\ ErrorStays
<1> SUFFICES ASSUME Inv, ErrorState, ReadZero PROVE ErrorState' /\ ErrorStays
    OBVIOUS
<1>1. pc = "read" /\ pc' = "idle" /\ last'.kind \in {"eof", "end"}
    BY DEF ReadZero, Return, Promise!Outcome
<1>2. last.kind \notin {"parse", "large"}
    BY <1>1 DEF ErrorState
<1> QED  BY <1>1, <1>2 DEF ErrorState, ErrorStays

\* A read that waits or fails says nothing of a response.
LEMMA OtherReadsKeepErrors ==
    Inv /\ ErrorState /\ (ReadPending \/ ReadError) => ErrorState' /\ ErrorStays
<1> SUFFICES ASSUME Inv, ErrorState, ReadPending \/ ReadError
             PROVE  ErrorState' /\ ErrorStays
    OBVIOUS
<1>1. /\ pc = "read" /\ pc' = "idle" /\ last'.kind \in {"pending", "io"}
    BY DEF ReadPending, ReadError, Return, Promise!Outcome
<1>2. last.kind \notin {"parse", "large"}
    BY <1>1 DEF ErrorState
<1> QED  BY <1>1, <1>2 DEF ErrorState, ErrorStays

-----------------------------------------------------------------------------
\* No error was returned yet.
LEMMA ErrorStateInit == Init => ErrorState
<1> SUFFICES ASSUME Init PROVE ErrorState
    OBVIOUS
<1>1. last = Promise!Outcome("unpolled") /\ pc = "idle"
    BY DEF Init, Promise!Init
<1>2. last.kind = "unpolled"
    BY <1>1 DEF Promise!Outcome
<1> QED  BY <1>1, <1>2 DEF ErrorState

\* Every step keeps what an error left behind, and so repeats the error.
LEMMA ErrorStateNext == Inv /\ ErrorState /\ [Next]_vars => ErrorState' /\ [ErrorStays]_vars
<1> SUFFICES ASSUME Inv, ErrorState, [Next]_vars
             PROVE  ErrorState' /\ [ErrorStays]_vars
    OBVIOUS
<1>1. CASE Peer
    BY <1>1, PeerKeepsErrors
<1>2. CASE Poll
    BY <1>2, PollKeepsErrors
<1>3. CASE Decode
    <2>1. CASE SkipDecode
        BY <2>1, SkipDecodeKeepsErrors
    <2>2. CASE \E n \in 1 .. Used(buffer) : DecodeResponse(n)
        BY <2>2, DecodeResponseKeepsErrors
    <2>3. ASSUME NEW min \in 1 .. MaxNeeded, DecodeNeedsSize(min)
          PROVE  ErrorState' /\ ErrorStays
        <3>1. decodeNeeds' = Used(buffer) + min /\ Used(buffer) \in Nat /\ min \in Nat
            BY <2>3, StreamAssumption DEF DecodeNeedsSize, Inv, TypeOK, Used
        <3>2. decodeNeeds' \in Nat
            BY <3>1
        <3> QED  BY <2>3, <3>2, IncompleteKeepsErrors DEF DecodeNeedsSize, peerVars
    <2>4. CASE DecodeNeedsUnknown
        BY <2>4, IncompleteKeepsErrors DEF DecodeNeedsUnknown, peerVars
    <2>5. CASE DecodeFails
        BY <2>5, DecodeFailsKeepsErrors
    <2> QED  BY <1>3, <2>1, <2>2, <2>3, <2>4, <2>5 DEF Decode
<1>4. CASE Fill
    BY <1>4, MakeRoomKeepsErrors, RefuseRoomKeepsErrors, ReadKeepsErrors,
       ReadZeroKeepsErrors, OtherReadsKeepErrors DEF Fill
<1>5. CASE UNCHANGED vars
    <2>1. UNCHANGED <<wire, sent, open, last, got, buffer, decodeNeeds, pc>>
        BY <1>5 DEF vars
    <2>2. Stalled' <=> Stalled
        BY <2>1, SameVerdict DEF Stalled, Used
    <2>3. ErrorState'
        BY <2>1, <2>2, SameVerdict DEF ErrorState, Promise!Outcome, Used
    <2> QED  BY <1>5, <2>3
<1> QED  BY <1>1, <1>2, <1>3, <1>4, <1>5 DEF Next

\* There is no way past a malformed or an oversized response: whatever the
\* server sends, the parser asks for and the reads bring, and however often the
\* transport ends and goes on, every later poll reports the error again.
THEOREM ErrorsStay == Spec => ErrorsPersist
<1>1. Spec => []ErrorState /\ [][ErrorStays]_vars
    BY ErrorStateInit, ErrorStateNext, Invariance, PTL DEF Spec
<1>2. [ErrorStays]_vars => [last.kind \in {"parse", "large"} => last' = last]_vars
    BY DEF ErrorStays
<1> QED  BY <1>1, <1>2, PTL DEF ErrorsPersist
=============================================================================
