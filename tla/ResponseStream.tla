--------------------------- MODULE ResponseStream ---------------------------
(***************************************************************************)
(* What the Stream implementation of ImapStream promises to its caller,    *)
(* with no buffer in it.                                                   *)
(*                                                                         *)
(* The server writes the bytes of `wire` in order and stops where it       *)
(* likes.  The transport may come to its end anywhere and may become open  *)
(* again later.  A response is a run of "mid" bytes closed by an "end"     *)
(* byte; at a "bad" byte what was sent is no IMAP response.  A poll that   *)
(* completes yields the next response whole, or says truthfully why not.   *)
(***************************************************************************)
EXTENDS Integers, Sequences

CONSTANTS
    Wires,          \* the byte streams the server may write
    MaxCapacity     \* the largest response a client must take

VARIABLES
    wire,   \* the bytes this server has to write
    sent,   \* how many of them have reached the client's transport
    open,   \* the transport is not at its end
    taken,  \* how many of them belong to responses given to the caller
    last    \* the outcome of the last poll

vars == <<wire, sent, open, taken, last>>

Item(bytes) == [kind |-> "item", bytes |-> bytes]

Outcome(kind) == [kind |-> kind, bytes |-> << >>]

\* The run of positions first .. last of the stream.
Positions(first, final) == [i \in 1 .. final - first + 1 |-> first + i - 1]

\* e is the last byte of the response that starts after byte `from`.
EndsAt(w, from, e) ==
    /\ e \in from + 1 .. Len(w)
    /\ w[e] = "end"
    /\ \A p \in from + 1 .. e - 1 : w[p] = "mid"

\* b is the byte at which the response that starts after `from` goes wrong.
BreaksAt(w, from, b) ==
    /\ b \in from + 1 .. Len(w)
    /\ w[b] = "bad"
    /\ \A p \in from + 1 .. b - 1 : w[p] = "mid"

\* The next response is among the bytes that have arrived.
NextHasArrived == \E e \in taken + 1 .. sent : EndsAt(wire, taken, e)

Init ==
    /\ wire \in Wires
    /\ sent = 0
    /\ open = TRUE
    /\ taken = 0
    /\ last = Outcome("unpolled")

-----------------------------------------------------------------------------
Send(n) ==
    /\ open
    /\ n \in 1 .. Len(wire) - sent
    /\ sent' = sent + n
    /\ UNCHANGED <<wire, open, taken, last>>

Close ==
    /\ open
    /\ open' = FALSE
    /\ UNCHANGED <<wire, sent, taken, last>>

\* An end need not be the last word: the stream may be read on later.
Reopen ==
    /\ ~open
    /\ open' = TRUE
    /\ UNCHANGED <<wire, sent, taken, last>>

Deliver(e) ==
    /\ e <= sent
    /\ EndsAt(wire, taken, e)
    /\ taken' = e
    /\ last' = Item(Positions(taken + 1, e))
    /\ UNCHANGED <<wire, sent, open>>

NoItem(kind) ==
    /\ last' = Outcome(kind)
    /\ UNCHANGED <<wire, sent, open, taken>>

\* The caller is made to wait only while the next response is incomplete.
Wait == ~NextHasArrived /\ NoItem("pending")

\* The stream ends only where every byte the server wrote was delivered.
EndOfStream == ~open /\ taken = sent /\ NoItem("end")

\* The transport is at its end inside a response.
Truncated == ~open /\ taken < sent /\ ~NextHasArrived /\ NoItem("eof")

Malformed == (\E b \in taken + 1 .. sent : BreaksAt(wire, taken, b)) /\ NoItem("parse")

\* Only a response that does not fit in MaxCapacity bytes may be refused.
TooLarge ==
    /\ \A e \in taken + 1 .. Len(wire) : EndsAt(wire, taken, e) => e - taken > MaxCapacity
    /\ NoItem("large")

TransportError == NoItem("io")

Next ==
    \/ \E n \in 1 .. Len(wire) : Send(n)
    \/ Close
    \/ Reopen
    \/ \E e \in 1 .. Len(wire) : Deliver(e)
    \/ Wait
    \/ EndOfStream
    \/ Truncated
    \/ Malformed
    \/ TooLarge
    \/ TransportError

Spec == Init /\ [][Next]_vars
=============================================================================
