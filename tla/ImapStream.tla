----------------------------- MODULE ImapStream -----------------------------
(***************************************************************************)
(* ImapStream::poll_next and decode (src/imap_stream.rs), the only place   *)
(* where the bytes of the server become responses.                         *)
(*                                                                         *)
(* A poll is synchronous up to poll_read, so only the transport and the    *)
(* server run beside it; `pc` cuts a poll into its steps.  imap_proto's    *)
(* parse_response and the transport's poll_read are not in src/: they are  *)
(* modelled from what poll_next relies on.                                 *)
(***************************************************************************)
EXTENDS ImapBuffer, FiniteSets

CONSTANTS
    Wires,          \* the byte streams the server may write (see ResponseStream)
    MaxNeeded,      \* bound: the largest Needed::Size the parser answers
    MaxIoErrors     \* bound: transient errors of the transport

ASSUME StreamAssumption ==
    /\ Wires \subseteq Seq({"mid", "end", "bad"})
    /\ MaxNeeded \in Nat \ {0}
    /\ MaxIoErrors \in Nat

VARIABLES
    wire, sent, open,   \* the server, as in ResponseStream
    taken, last,        \* what the caller got, as in ResponseStream
    got,                \* bytes the transport has handed over so far
    ioErrors,           \* transport errors so far
    buffer,             \* ImapStream.buffer
    decodeNeeds,        \* ImapStream.decode_needs
    pc                  \* "idle" between polls, else the next step of poll_next

peerVars   == <<wire, sent, open>>
vars       == <<wire, sent, open, taken, last, got, ioErrors, buffer, decodeNeeds, pc>>

Promise == INSTANCE ResponseStream

Init ==
    /\ Promise!Init
    /\ got = 0
    /\ ioErrors = 0
    /\ buffer = NewBuffer
    /\ decodeNeeds = 0
    /\ pc = "idle"

-----------------------------------------------------------------------------
\* The server and the network.
Send(n) == Promise!Send(n) /\ UNCHANGED <<got, ioErrors, buffer, decodeNeeds, pc>>

\* The transport comes to its end, and goes on: poll_next keeps no record of it.
Close == Promise!Close /\ UNCHANGED <<got, ioErrors, buffer, decodeNeeds, pc>>

Reopen == Promise!Reopen /\ UNCHANGED <<got, ioErrors, buffer, decodeNeeds, pc>>

-----------------------------------------------------------------------------
(* imap_proto's parse_response, given the used bytes.  A byte that is not   *)
(* the server's (a zeroed one) belongs to no response.                      *)
Kind(p) == IF p \in 1 .. Len(wire) THEN wire[p] ELSE "bad"

Complete(bytes, n) ==
    /\ n \in 1 .. Len(bytes)
    /\ Kind(bytes[n]) = "end"
    /\ \A i \in 1 .. n - 1 : Kind(bytes[i]) = "mid"

Rejected(bytes) ==
    \E n \in 1 .. Len(bytes) :
        Kind(bytes[n]) = "bad" /\ \A i \in 1 .. n - 1 : Kind(bytes[i]) = "mid"

Incomplete(bytes) == \A i \in 1 .. Len(bytes) : Kind(bytes[i]) = "mid"

\* Needed::Size(min) is a lower bound of what the next response still lacks;
\* with no byte of it seen, the parser does not ask for more than a block.
HonestNeed(min) ==
    /\ Used(buffer) = 0 => min <= BlockSize
    /\ \A e \in taken + 1 .. Len(wire) :
        Promise!EndsAt(wire, taken, e) => Used(buffer) + min <= e - taken

-----------------------------------------------------------------------------
\* poll_next returns `outcome`; the caller may poll again.
Return(outcome) == pc' = "idle" /\ last' = outcome

Poll ==
    /\ pc = "idle"
    /\ pc' = "decode"
    /\ UNCHANGED <<peerVars, taken, last, got, ioErrors, buffer, decodeNeeds>>

\* decode gives up early: earlier attempts showed the bytes do not suffice.
SkipDecode ==
    /\ pc = "decode"
    /\ Used(buffer) < decodeNeeds
    /\ pc' = "fill"
    /\ UNCHANGED <<peerVars, taken, last, got, ioErrors, buffer, decodeNeeds>>

Decodes == pc = "decode" /\ Used(buffer) >= decodeNeeds

\* The closure of try_new_or_recover failed: the block goes back.
PutBack == buffer' = ReturnBlock(TakeBlock(buffer), buffer.block)

\* Mutant: decode_needs outlives the response it was computed for.
DecodeKeepingNeeds(n) ==
    /\ Decodes
    /\ Complete(UsedBytes(buffer), n)
    /\ buffer' = ResetWithData(SubSeq(buffer.block, n + 1, Used(buffer)))
    /\ taken' = taken + n
    /\ Return(Promise!Item(SubSeq(buffer.block, 1, n)))
    /\ UNCHANGED <<peerVars, got, ioErrors, decodeNeeds>>

DecodeResponse(n) ==
    /\ Decodes
    /\ Complete(UsedBytes(buffer), n)
    /\ decodeNeeds' = 0
    /\ buffer' = ResetWithData(SubSeq(buffer.block, n + 1, Used(buffer)))
    /\ taken' = taken + n
    /\ Return(Promise!Item(SubSeq(buffer.block, 1, n)))
    /\ UNCHANGED <<peerVars, got, ioErrors>>

DecodeNeedsSize(min) ==
    /\ Decodes
    /\ Incomplete(UsedBytes(buffer))
    /\ HonestNeed(min)
    /\ decodeNeeds' = Used(buffer) + min
    /\ PutBack
    /\ pc' = "fill"
    /\ UNCHANGED <<peerVars, taken, last, got, ioErrors>>

DecodeNeedsUnknown ==
    /\ Decodes
    /\ Incomplete(UsedBytes(buffer))
    /\ decodeNeeds' = 0
    /\ PutBack
    /\ pc' = "fill"
    /\ UNCHANGED <<peerVars, taken, last, got, ioErrors>>

\* Mutant: what does not parse is thrown away.
DecodeFailsAndSkips ==
    /\ Decodes
    /\ Rejected(UsedBytes(buffer))
    /\ decodeNeeds' = 0
    /\ buffer' = ResetWithData(<< >>)
    /\ taken' = taken + Used(buffer)
    /\ Return(Promise!Outcome("parse"))
    /\ UNCHANGED <<peerVars, got, ioErrors>>

DecodeFails ==
    /\ Decodes
    /\ Rejected(UsedBytes(buffer))
    /\ decodeNeeds' = 0
    /\ PutBack
    /\ Return(Promise!Outcome("parse"))
    /\ UNCHANGED <<peerVars, taken, got, ioErrors>>

-----------------------------------------------------------------------------
MakeRoom ==
    /\ pc = "fill"
    /\ ~CapacityRefused(buffer, decodeNeeds)
    /\ buffer' = EnsureCapacity(buffer, decodeNeeds)
    /\ pc' = "read"
    /\ UNCHANGED <<peerVars, taken, last, got, ioErrors, decodeNeeds>>

RefuseRoom ==
    /\ pc = "fill"
    /\ CapacityRefused(buffer, decodeNeeds)
    /\ Return(Promise!Outcome("large"))
    /\ UNCHANGED <<peerVars, taken, got, ioErrors, buffer, decodeNeeds>>

\* Mutant: the loop reads on without a decode of what it read.
ReadWithoutDecode(n) ==
    /\ pc = "read"
    /\ n \in 1 .. sent - got
    /\ n <= Free(buffer)
    /\ got' = got + n
    /\ buffer' = Receive(buffer, got, n)
    /\ pc' = "fill"
    /\ UNCHANGED <<peerVars, taken, last, ioErrors, decodeNeeds>>

\* poll_read hands over any non-empty part of what has arrived and fits.
Read(n) ==
    /\ pc = "read"
    /\ n \in 1 .. sent - got
    /\ n <= Free(buffer)
    /\ got' = got + n
    /\ buffer' = Receive(buffer, got, n)
    /\ pc' = "decode"
    /\ UNCHANGED <<peerVars, taken, last, ioErrors, decodeNeeds>>

ReadPending ==
    /\ pc = "read"
    /\ open /\ got = sent /\ Free(buffer) > 0
    /\ Return(Promise!Outcome("pending"))
    /\ UNCHANGED <<peerVars, taken, got, ioErrors, buffer, decodeNeeds>>

\* Mutant: bytes that are left over at the end are forgotten.
ReadZeroSilently ==
    /\ pc = "read"
    /\ Free(buffer) > 0 => ~open /\ got = sent
    /\ Return(Promise!Outcome("end"))
    /\ UNCHANGED <<peerVars, taken, got, ioErrors, buffer, decodeNeeds>>

\* Mutant: at the end the loop tries again.
ReadZeroAgain ==
    /\ pc = "read"
    /\ Free(buffer) > 0 => ~open /\ got = sent
    /\ pc' = "fill"
    /\ UNCHANGED <<peerVars, taken, last, got, ioErrors, buffer, decodeNeeds>>

\* Mutant: the part of a response that was cut off is given up.
ReadZeroForgetting ==
    /\ pc = "read"
    /\ Free(buffer) > 0 => ~open /\ got = sent
    /\ Return(Promise!Outcome(IF Used(buffer) > 0 THEN "eof" ELSE "end"))
    /\ buffer' = NewBuffer
    /\ UNCHANGED <<peerVars, taken, got, ioErrors, decodeNeeds>>

\* No byte was read: the transport is at its end, or the slice was empty.
ReadZero ==
    /\ pc = "read"
    /\ Free(buffer) > 0 => ~open /\ got = sent
    /\ Return(Promise!Outcome(IF Used(buffer) > 0 THEN "eof" ELSE "end"))
    /\ UNCHANGED <<peerVars, taken, got, ioErrors, buffer, decodeNeeds>>

ReadError ==
    /\ pc = "read"
    /\ ioErrors < MaxIoErrors
    /\ ioErrors' = ioErrors + 1
    /\ Return(Promise!Outcome("io"))
    /\ UNCHANGED <<peerVars, taken, got, buffer, decodeNeeds>>

-----------------------------------------------------------------------------
Peer == (\E n \in 1 .. Len(wire) : Send(n)) \/ Close \/ Reopen

Decode ==
    \/ SkipDecode
    \/ \E n \in 1 .. Used(buffer) : DecodeResponse(n)
    \/ \E min \in 1 .. MaxNeeded : DecodeNeedsSize(min)
    \/ DecodeNeedsUnknown
    \/ DecodeFails

Fill ==
    \/ MakeRoom
    \/ RefuseRoom
    \/ \E n \in 1 .. Len(buffer.block) : Read(n)
    \/ ReadPending
    \/ ReadZero
    \/ ReadError

Next == Peer \/ Poll \/ Decode \/ Fill

Spec == Init /\ [][Next]_vars

\* The caller keeps polling (it is woken when bytes arrive) and a poll runs
\* to its return.  The server and the transport owe nothing: they may stop,
\* end and go on anywhere.
FairSpec == Spec /\ WF_vars(Poll) /\ WF_vars(Decode) /\ WF_vars(Fill)

-----------------------------------------------------------------------------
Outcomes == {"unpolled", "item", "pending", "end", "eof", "parse", "large", "io"}

\* Every variable holds a value of its kind: struct ImapStream and Buffer, and
\* the results poll_next can return.
TypeOK ==
    /\ wire \in Wires
    /\ sent \in 0 .. Len(wire)
    /\ open \in BOOLEAN
    /\ taken \in Nat
    /\ last \in [kind : Outcomes, bytes : Seq(Nat)]
    /\ got \in Nat
    /\ ioErrors \in 0 .. MaxIoErrors
    /\ buffer \in [block : Seq(Nat), offset : Nat]
    /\ decodeNeeds \in Nat
    /\ pc \in {"idle", "decode", "fill", "read"}

\* The used range holds exactly the bytes that were read and not yet given to
\* the caller, in order: over partial reads, growth, failed decodes (which
\* take the block out and put it back) and resets, no byte is lost or doubled.
BufferIsUnread ==
    /\ got = taken + Used(buffer)
    /\ got <= sent
    /\ \A i \in 1 .. Used(buffer) : buffer.block[i] = taken + i

\* poll_read gets a slice that is not empty, so that 0 bytes mean EOF (the
\* debug_assert of poll_next), and the block has room for what decode asked.
RoomBeforeRead ==
    pc = "read" => Free(buffer) > 0 /\ Len(buffer.block) >= decodeNeeds

\* The block is made of whole BLOCK_SIZE units and stays within MAX_CAPACITY,
\* though reset_with_data does not check: what it copies is less than what was
\* there before.  Between polls the offset lies in the block.
CapacityBounded ==
    /\ Used(buffer) <= Len(buffer.block)
    /\ (Len(buffer.block) % BlockSize) = 0
    /\ Len(buffer.block) <= MaxCapacity

\* decode_needs is never a left-over of an earlier response: decode does not
\* wait for more bytes than the next response has.
NeedsOnlyTheNext ==
    \A e \in taken + 1 .. Len(wire) :
        Promise!EndsAt(wire, taken, e) => decodeNeeds <= e - taken

\* poll_next reads only when the response is not in the buffer already: no
\* response waits for bytes of a later one.
ReadsOnlyForMore ==
    pc \in {"fill", "read"} =>
        \A e \in taken + 1 .. Len(wire) : Promise!EndsAt(wire, taken, e) => e > got

\* Every poll does what ResponseStream allows: responses in order and whole,
\* an end, an error or a wait only when it is true.
KeepsPromise == Promise!Spec

\* Byte e ends a response that has arrived, with nothing before it that stops
\* the stream: no malformed response, none larger than MaxCapacity.
Deliverable(e) ==
    /\ wire[e] = "end"
    /\ \A p \in 1 .. e : wire[p] # "bad"
    /\ \A s \in 0 .. e - MaxCapacity - 1 :
            \E p \in s + 1 .. s + MaxCapacity : wire[p] = "end"

\* Every response that has arrived is given to a caller that keeps polling,
\* however the reads were cut, whatever the parser answered on the way, and
\* though an end of the transport was reported in the middle of the response.
EveryResponseArrives ==
    []<>(\A e \in 1 .. sent : Deliverable(e) => taken >= e)

\* A transport that stays at its end is reported to the caller, as the end of
\* the stream if the last byte ended a response and as an error if it did not.
ClosureIsReported ==
    []<>(\/ open
         \/ last.kind \in IF sent = 0 \/ Deliverable(sent)
                          THEN {"end"} ELSE {"eof", "parse", "large"})

\* There is no way past a response that is malformed or too large: every later
\* poll reports it again, whatever arrives, ends or goes on behind it, and
\* nothing after it is handed out as if it were a response.  (A cut response
\* is not like that: it is completed if the transport goes on.)
ErrorsPersist ==
    [][last.kind \in {"parse", "large"} => last' = last]_vars
=============================================================================
