----------------------------- MODULE MockStream -----------------------------
(***************************************************************************)
(* The transport of the unit tests (src/mock_stream.rs) under ImapStream:  *)
(* what a test on it can show of poll_next.                                *)
(*                                                                         *)
(* read_buf is the `wire` of ImapStream and read_pos its `got`.  The read  *)
(* of a mock never waits; behind its last byte it fails, and only a mock   *)
(* made with with_eof ever ends.                                           *)
(***************************************************************************)
EXTENDS ImapStream

VARIABLES
    errOnRead,  \* MockStream.err_on_read
    readDelay,  \* MockStream.read_delay
    built       \* the mock was handed to Client::new

mockVars == <<errOnRead, readDelay, built>>

MockInit ==
    /\ Init
    /\ errOnRead = FALSE
    /\ readDelay = 0
    /\ built = FALSE

-----------------------------------------------------------------------------
\* The builders.  A mock with both data and with_eof never gives the data; no
\* test makes one.
WithBuf == ~built /\ open /\ Send(Len(wire)) /\ UNCHANGED mockVars

WithEof == ~built /\ sent = 0 /\ Close /\ UNCHANGED mockVars

WithErr == ~built /\ errOnRead' = TRUE /\ UNCHANGED <<vars, readDelay, built>>

WithDelay == ~built /\ readDelay' = 1 /\ UNCHANGED <<vars, errOnRead, built>>

Connect == ~built /\ built' = TRUE /\ UNCHANGED <<vars, errOnRead, readDelay>>

-----------------------------------------------------------------------------
(* poll_read, the same for both runtimes. *)
AtEnd == got >= sent

MockEof == ~open /\ ReadZero /\ UNCHANGED mockVars

MockErr == open /\ errOnRead /\ ReadError /\ UNCHANGED mockVars

\* Mutant: the end of the data is the end of the stream.
MockEndSilent ==
    /\ open /\ ~errOnRead /\ AtEnd
    /\ pc = "read"
    /\ Return(Promise!Outcome(IF Used(buffer) > 0 THEN "eof" ELSE "end"))
    /\ UNCHANGED <<peerVars, taken, got, ioErrors, buffer, decodeNeeds, mockVars>>

\* ErrorKind::UnexpectedEof
MockEnd == open /\ ~errOnRead /\ AtEnd /\ ReadError /\ UNCHANGED mockVars

\* Mutant: a delayed read takes nothing.
WriteLenNothing ==
    LET fits == IF Free(buffer) < sent - got THEN Free(buffer) ELSE sent - got
    IN  IF readDelay > 0 THEN 0 ELSE fits

\* As much as fits; a delayed read takes one byte.
WriteLen ==
    LET fits == IF Free(buffer) < sent - got THEN Free(buffer) ELSE sent - got
    IN  IF readDelay > 0 /\ fits > 1 THEN 1 ELSE fits

MockData ==
    /\ open /\ ~errOnRead /\ ~AtEnd
    /\ Read(WriteLen)
    /\ readDelay' = 0
    /\ UNCHANGED <<errOnRead, built>>

-----------------------------------------------------------------------------
MockPoll == built /\ Poll /\ UNCHANGED mockVars

MockDecode == Decode /\ UNCHANGED mockVars

MockFill ==
    \/ (MakeRoom \/ RefuseRoom) /\ UNCHANGED mockVars
    \/ MockEof \/ MockErr \/ MockEnd \/ MockData

MockNext ==
    \/ WithBuf \/ WithEof \/ WithErr \/ WithDelay \/ Connect
    \/ MockPoll \/ MockDecode \/ MockFill

MockSpec == MockInit /\ [][MockNext]_<<vars, mockVars>>

\* A test calls read_response until it has what it wants, and never waits for
\* the transport.
MockFairSpec ==
    MockSpec /\ WF_vars(MockPoll) /\ WF_vars(MockDecode) /\ WF_vars(MockFill)

-----------------------------------------------------------------------------
\* A mock does nothing that a transport of ImapStream may not do, so what the
\* other runs show holds in the tests; of what a transport may do it leaves out
\* the read that waits and the connection that closes behind its data.
MockIsATransport == Spec

\* A test reads all the responses it put into read_buf, delayed or not, but for
\* those behind one that is malformed or too large.
TestGetsItsResponses ==
    []<>(built /\ ~errOnRead => \A e \in 1 .. sent : Deliverable(e) => taken >= e)
=============================================================================
