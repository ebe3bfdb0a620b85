----------------------------- MODULE LineWriter -----------------------------
(***************************************************************************)
(* The outgoing half of a connection: ImapStream::encode and flush, under  *)
(* run_command, run_command_untagged and the literal of append.            *)
(*                                                                         *)
(* A command is written piece by piece with an await at each: the tag, the *)
(* space, the line, its end, then a flush.  Session takes all that for one *)
(* step; this module is about what the server sees when a transport takes  *)
(* a few bytes at a time, keeps them back until a flush, fails, or when    *)
(* the future of a command is dropped between two of the writes.           *)
(*                                                                         *)
(* The transport is not in src/: a write takes some bytes, fails, or takes *)
(* none, and then it takes none later either.                              *)
(***************************************************************************)
EXTENDS Integers, SequencesExt

CONSTANTS
    TagWidth,       \* bytes of a tag
    BodyWidths,     \* bytes of a line; 0 is an APPEND of nothing
    MaxCommands     \* bound: commands

ASSUME WriterAssumption ==
    /\ TagWidth \in Nat \ {0}
    /\ BodyWidths \subseteq Nat
    /\ MaxCommands \in Nat

VARIABLES
    commands,       \* what was written so far, the last one perhaps unfinished
    todo,           \* the bytes of the last one that are still to be written
    accepted,       \* the bytes the transport has taken
    delivered,      \* how many of them have left for the server
    full            \* the transport takes no more

vars == <<commands, todo, accepted, delivered, full>>

Kinds == {"tagged", "untagged"}

\* The bytes of one of the writes: the at-th byte of that part of command c.
Part(c, part, width) == [i \in 1 .. width |-> [cmd |-> c, part |-> part, at |-> i]]

\* The bytes of command c, in the order encode writes them.
Text(c, kind, width) ==
    (IF kind = "tagged" THEN Part(c, "tag", TagWidth) \o Part(c, "space", 1) ELSE << >>)
        \o Part(c, "body", width) \o Part(c, "crlf", 2)

TextOf(c) == Text(c, commands[c].kind, commands[c].width)

Writing == commands # << >> /\ Last(commands).outcome = "writing"

Init ==
    /\ commands = << >>
    /\ todo = << >>
    /\ accepted = << >>
    /\ delivered = 0
    /\ full = FALSE

-----------------------------------------------------------------------------
\* Mutant: the rest of the line is kept for later.
FinishAndKeep(outcome) ==
    /\ commands' = [commands EXCEPT ![Len(commands)].outcome = outcome]
    /\ UNCHANGED todo

\* encode or flush returns, or its future is dropped: nobody keeps the rest.
Finish(outcome) ==
    /\ commands' = [commands EXCEPT ![Len(commands)].outcome = outcome]
    /\ todo' = << >>

\* run_command ("tagged"), run_command_untagged or append's literal.
Encode(kind, width) ==
    /\ ~Writing
    /\ Len(commands) < MaxCommands
    /\ kind = "tagged" => width > 0
    /\ commands' = Append(commands, [kind |-> kind, width |-> width, outcome |-> "writing"])
    /\ todo' = Text(Len(commands) + 1, kind, width)
    /\ UNCHANGED <<accepted, delivered, full>>

\* The rest of the piece that is being written.
Piece == SelectSeq(todo, LAMBDA b : b.part = Head(todo).part)

\* write_all is at work.
InPiece == Writing /\ todo # << >> /\ Head(todo).part # "space"

\* Mutant: write instead of write_all.
WriteOnce(n) ==
    /\ InPiece
    /\ ~full
    /\ n <= Len(Piece)
    /\ accepted' = accepted \o SubSeq(todo, 1, n)
    /\ todo' = SubSeq(todo, Len(Piece) + 1, Len(todo))
    /\ UNCHANGED <<commands, delivered, full>>

\* The transport takes n bytes; write_all goes on with the others.
WriteSome(n) ==
    /\ InPiece
    /\ ~full
    /\ n <= Len(Piece)
    /\ accepted' = accepted \o SubSeq(todo, 1, n)
    /\ todo' = SubSeq(todo, n + 1, Len(todo))
    /\ UNCHANGED <<commands, delivered, full>>

\* Mutant: write_all tries again.
WriteZeroAgain ==
    /\ InPiece
    /\ full' = TRUE
    /\ UNCHANGED <<commands, todo, accepted, delivered>>

\* The transport takes nothing: an error of write_all.
WriteZero ==
    /\ InPiece
    /\ full' = TRUE
    /\ Finish("failed")
    /\ UNCHANGED <<accepted, delivered>>

\* The space is written with write, whose count nobody looks at.
WriteSpace ==
    /\ Writing /\ todo # << >> /\ Head(todo).part = "space"
    /\ todo' = Tail(todo)
    /\ \/ ~full /\ accepted' = Append(accepted, Head(todo)) /\ UNCHANGED full
       \/ full' = TRUE /\ UNCHANGED accepted
    /\ UNCHANGED <<commands, delivered>>

\* Mutant: a command that returns without a flush.
FlushForgotten ==
    /\ Writing /\ todo = << >>
    /\ Finish("ok")
    /\ UNCHANGED <<accepted, delivered, full>>

Flush ==
    /\ Writing /\ todo = << >>
    /\ delivered' = Len(accepted)
    /\ Finish("ok")
    /\ UNCHANGED <<accepted, full>>

\* The ? of a write or of the flush.
WriteFails ==
    /\ Writing
    /\ Finish("failed")
    /\ UNCHANGED <<accepted, delivered, full>>

\* The caller drops the future.
Drop ==
    /\ Writing
    /\ Finish("dropped")
    /\ UNCHANGED <<accepted, delivered, full>>

\* The transport need not wait for the flush.
Deliver ==
    /\ \E d \in delivered + 1 .. Len(accepted) : delivered' = d
    /\ UNCHANGED <<commands, todo, accepted, full>>

-----------------------------------------------------------------------------
Write ==
    \/ \E n \in 1 .. Len(todo) : WriteSome(n)
    \/ WriteZero
    \/ WriteSpace
    \/ Flush

Next ==
    \/ \E kind \in Kinds, width \in BodyWidths : Encode(kind, width)
    \/ Write
    \/ WriteFails
    \/ Drop
    \/ Deliver

Spec == Init /\ [][Next]_vars

\* The transport answers every write in the end (a server that stops reading
\* for good may keep a command waiting), and the future is polled then.  It owes
\* no error.
FairSpec == Spec /\ WF_vars(Write)

-----------------------------------------------------------------------------
GaveUp(c) == commands[c].outcome \in {"failed", "dropped"}

EndsLine(b) == b.part = "crlf" /\ b.at = 2

\* Every variable holds a value of its kind, and only a command at work has
\* bytes to write: the end of its text.
TypeOK ==
    /\ commands \in Seq([kind : Kinds, width : BodyWidths,
                         outcome : {"writing", "ok", "failed", "dropped"}])
    /\ \A c \in DOMAIN commands : commands[c].outcome = "writing" => c = Len(commands)
    /\ todo # << >> => Writing /\ IsSuffix(todo, TextOf(Len(commands)))
    /\ delivered \in 0 .. Len(accepted)
    /\ full \in BOOLEAN

\* A command that was written without an error has left for the server, whole,
\* and as a line of its own, unless the one before it gave up in the middle of
\* its line: only then does the caller wait for an answer to a line the server
\* did not see.
OkMeansSent ==
    \A c \in DOMAIN commands : commands[c].outcome = "ok" =>
        \E i \in 0 .. delivered - Len(TextOf(c)) :
            /\ SubSeq(accepted, i + 1, i + Len(TextOf(c))) = TextOf(c)
            /\ i > 0 => EndsLine(accepted[i]) \/ GaveUp(accepted[i].cmd)

\* The end of a line never reaches the server without all of the command
\* before it, whatever write took and however the command ended: a lost space
\* would make another tag of the first word of the line.
EndedLineIsComplete ==
    \A i \in 1 .. Len(accepted) :
        LET text == TextOf(accepted[i].cmd) IN
        EndsLine(accepted[i]) =>
            i >= Len(text) /\ SubSeq(accepted, i - Len(text) + 1, i) = text

\* Writing ends, also when the transport stops taking bytes.
EncodeReturns == Writing ~> ~Writing
=============================================================================
