-------------------------- MODULE MockStreamProofs --------------------------
(***************************************************************************)
(* The mock of the unit tests is a transport of ImapStream, whatever its   *)
(* builders were given: all that is proved of ImapStream holds in a test.  *)
(*                                                                         *)
(* The builders and the errors of a mock are restricted steps of the       *)
(* server and the transport as they stand.  A read is one only because the *)
(* used range lies in the block, which the invariant of ImapStream says;   *)
(* so the two are proved together.                                         *)
(***************************************************************************)
EXTENDS MockStream, ImapStreamProofs

\* What the mock reads fits into the block.
LEMMA MockReads ==
    ASSUME Inv, MockData
    PROVE  \E n \in 1 .. Len(buffer.block) : Read(n)
<1> DEFINE n == WriteLen
<1>1. Read(n)
    BY DEF MockData
<1> HIDE DEF n
<1>2. n \in 1 .. sent - got /\ n <= Free(buffer)
    BY <1>1 DEF Read
<1>3. /\ got \in Nat /\ sent \in Nat /\ Len(buffer.block) \in Nat
      /\ Free(buffer) <= Len(buffer.block) /\ Free(buffer) \in Int
    <2>1. buffer.block \in Seq(Nat) /\ buffer.offset \in Nat /\ wire \in Wires
        BY DEF Inv, TypeOK
    <2>2. Len(buffer.block) \in Nat /\ Len(wire) \in Nat
        BY <2>1, WireProperties, LenProperties
    <2> QED  BY <2>1, <2>2 DEF Inv, TypeOK, Free, Used
<1>4. n \in 1 .. Len(buffer.block)
    BY <1>2, <1>3
<1> QED  BY <1>1, <1>4

\* Every step of a test is one ImapStream may take, or none of it.
LEMMA MockStep ==
    ASSUME Inv, [MockNext]_<<vars, mockVars>>
    PROVE  [Next]_vars
<1>1. CASE WithBuf
    <2>1. Len(wire) \in Nat /\ sent \in Nat
        BY WireProperties DEF Inv, TypeOK
    <2>2. Send(Len(wire)) /\ Len(wire) \in 1 .. Len(wire)
        BY <1>1, <2>1 DEF WithBuf, Send, Promise!Send
    <2> QED  BY <2>2 DEF Next, Peer
<1>2. CASE WithEof
    BY <1>2 DEF WithEof, Next, Peer
<1>3. CASE WithErr \/ WithDelay \/ Connect \/ UNCHANGED <<vars, mockVars>>
    BY <1>3 DEF WithErr, WithDelay, Connect
<1>4. CASE MockPoll
    BY <1>4 DEF MockPoll, Next
<1>5. CASE MockDecode
    BY <1>5 DEF MockDecode, Next
<1>6. CASE (MakeRoom \/ RefuseRoom) /\ UNCHANGED mockVars
    BY <1>6 DEF Next, Fill
<1>7. CASE MockEof
    BY <1>7 DEF MockEof, Next, Fill
<1>8. CASE MockErr \/ MockEnd
    BY <1>8 DEF MockErr, MockEnd, Next, Fill
<1>9. CASE MockData
    BY <1>9, MockReads DEF Next, Fill
<1> QED  BY <1>1, <1>2, <1>3, <1>4, <1>5, <1>6, <1>7, <1>8, <1>9 DEF MockNext, MockFill

\* The mock does nothing a transport may not do, for every read_buf, delay and
\* error its builders set: what poll_next promises, it promises to a test too.
THEOREM MockImplements == MockSpec => MockIsATransport
<1>1. MockInit => Init /\ Inv
    BY InvInit DEF MockInit
<1>2. Inv /\ [MockNext]_<<vars, mockVars>> => [Next]_vars /\ Inv'
    BY MockStep, InvNext
<1> QED  BY <1>1, <1>2, PTL DEF MockSpec, MockIsATransport, Spec
=============================================================================
