-------------------------- MODULE LineWriterProofs --------------------------
(***************************************************************************)
(* What the server is sent, for tags and lines of any width, any number of *)
(* commands and every way the transport cuts them: that a command that was *)
(* written without an error has left whole, and that the end of a line is  *)
(* only sent after all of it.                                              *)
(*                                                                         *)
(* A write that takes nothing could leave a hole in a line, but such a     *)
(* transport takes nothing later either.  So while it still takes bytes,   *)
(* the last of them are the beginning of the command at work, and what was *)
(* written before is a line or was given up (InARow); and once it does     *)
(* not, no command is ever written to its end (FullBeforeTheEnd).          *)
(***************************************************************************)
EXTENDS LineWriter, QueueProofs

Parts == {"tag", "space", "body", "crlf"}

Bytes == [cmd : Nat, part : Parts, at : Nat]

Records == [kind : Kinds, width : BodyWidths,
            outcome : {"writing", "ok", "failed", "dropped"}]

Typed ==
    /\ commands \in Seq(Records)
    /\ \A c \in DOMAIN commands : commands[c].outcome = "writing" => c = Len(commands)
    /\ todo \in Seq(Bytes)
    /\ accepted \in Seq(Bytes)
    /\ delivered \in 0 .. Len(accepted)
    /\ full \in BOOLEAN

\* How much of the command at work was written.
Written == IF Writing THEN Len(TextOf(Len(commands))) - Len(todo) ELSE 0

\* What is to be written is the end of the text of the command at work.
TodoIsRest ==
    /\ todo # << >> => Writing
    /\ Writing =>
           LET text == TextOf(Len(commands)) IN
           /\ Len(todo) <= Len(text)
           /\ \A k \in 1 .. Len(todo) : todo[k] = text[Len(text) - Len(todo) + k]

FullBeforeTheEnd == full /\ Writing => todo # << >>

\* The p bytes after the first i are the first p bytes of command c.
Holds(c, i, p) == \A k \in 1 .. p : accepted[i + k] = TextOf(c)[k]

\* A command that starts after the first i bytes starts a line, or follows one
\* that gave up.
Boundary(i) == i > 0 => EndsLine(accepted[i]) \/ GaveUp(accepted[i].cmd)

\* A byte is preceded by all of its command that comes before it.
IsPreceded(i) ==
    LET c == accepted[i].cmd IN
    /\ c \in DOMAIN commands
    /\ \E p \in 1 .. Len(TextOf(c)) : p <= i /\ Holds(c, i - p, p)

FromTheStart == \A i \in 1 .. Len(accepted) : IsPreceded(i)

InARow ==
    ~full => /\ Written <= Len(accepted)
             /\ Holds(Len(commands), Len(accepted) - Written, Written)
             /\ Boundary(Len(accepted) - Written)

\* Command c is among the bytes that have left, from a boundary.
IsSent(c) ==
    \E i \in 0 .. delivered - Len(TextOf(c)) : Holds(c, i, Len(TextOf(c))) /\ Boundary(i)

Sent == \A c \in DOMAIN commands : commands[c].outcome = "ok" => IsSent(c)

Inv ==
    /\ Typed
    /\ TodoIsRest
    /\ FullBeforeTheEnd
    /\ FromTheStart
    /\ InARow
    /\ Sent

-----------------------------------------------------------------------------
\* The bytes of one part.
LEMMA PartShape ==
    ASSUME NEW c \in Nat, NEW part \in Parts, NEW width \in Nat
    PROVE  /\ Part(c, part, width) \in Seq(Bytes)
           /\ Len(Part(c, part, width)) = width
           /\ \A k \in 1 .. width :
                  Part(c, part, width)[k] = [cmd |-> c, part |-> part, at |-> k]
<1> DEFINE s == [i \in 1 .. width |-> [cmd |-> c, part |-> part, at |-> i]]
<1>1. \A i \in 1 .. width : s[i] \in Bytes /\ s[i] = [cmd |-> c, part |-> part, at |-> i]
    BY DEF Bytes
<1>2. DOMAIN s = 1 .. width /\ s = [i \in 1 .. width |-> s[i]]
    OBVIOUS
<1> HIDE DEF s
<1>3. s \in Seq(Bytes)
    BY <1>1, <1>2
<1>4. Len(s) = width
    BY <1>2, <1>3, LenProperties
<1> QED  BY <1>1, <1>3, <1>4 DEF s, Part

\* The text of a command is of that command, and its last byte, and no other,
\* is the end of a line.
LEMMA TextShape ==
    ASSUME NEW c \in Nat, NEW kind \in Kinds, NEW width \in Nat
    PROVE  /\ Text(c, kind, width) \in Seq(Bytes)
           /\ Len(Text(c, kind, width)) \in Nat
           /\ Len(Text(c, kind, width)) >= 2
           /\ \A k \in 1 .. Len(Text(c, kind, width)) :
                  /\ Text(c, kind, width)[k].cmd = c
                  /\ EndsLine(Text(c, kind, width)[k]) <=> k = Len(Text(c, kind, width))
<1> DEFINE Inner(s) == /\ s \in Seq(Bytes) /\ Len(s) \in Nat
                       /\ \A k \in 1 .. Len(s) : s[k].cmd = c /\ ~EndsLine(s[k])
<1>1. ASSUME NEW s, NEW t, Inner(s), Inner(t) PROVE Inner(s \o t)
    <2> DEFINE u == s \o t
    <2>1. u \in Seq(Bytes) /\ Len(u) = Len(s) + Len(t)
          /\ \A i \in 1 .. Len(s) + Len(t) : u[i] = IF i <= Len(s) THEN s[i] ELSE t[i - Len(s)]
        BY <1>1, ConcatProperties
    <2> HIDE DEF u
    <2>2. ASSUME NEW k \in 1 .. Len(u) PROVE u[k].cmd = c /\ ~EndsLine(u[k])
        <3>1. CASE k <= Len(s)
            BY <1>1, <2>1, <3>1
        <3>2. CASE ~(k <= Len(s))
            <4>1. u[k] = t[k - Len(s)] /\ k - Len(s) \in 1 .. Len(t)
                BY <1>1, <2>1, <3>2
            <4> QED  BY <1>1, <4>1
        <3> QED  BY <3>1, <3>2
    <2>3. Len(u) \in Nat
        BY <1>1, <2>1
    <2> QED  BY <2>1, <2>2, <2>3 DEF u
<1>2. ASSUME NEW part \in Parts, part # "crlf", NEW w \in Nat
      PROVE  Inner(Part(c, part, w))
    <2> DEFINE s == Part(c, part, w)
    <2>1. /\ s \in Seq(Bytes) /\ Len(s) = w
          /\ \A k \in 1 .. w : s[k] = [cmd |-> c, part |-> part, at |-> k]
        BY PartShape
    <2> HIDE DEF s
    <2> QED  BY <1>2, <2>1 DEF EndsLine, s
<1>3. Inner(<< >>)
    OBVIOUS
<1> DEFINE lead == IF kind = "tagged" THEN Part(c, "tag", TagWidth) \o Part(c, "space", 1)
                   ELSE << >>
           line == lead \o Part(c, "body", width)
           crlf == Part(c, "crlf", 2)
           text == line \o crlf
<1>4. Inner(line)
    <2>1. Inner(Part(c, "tag", TagWidth)) /\ Inner(Part(c, "space", 1))
          /\ Inner(Part(c, "body", width))
        BY <1>2, WriterAssumption DEF Parts
    <2>2. Inner(lead)
        <3> HIDE DEF Inner
        <3> QED  BY <1>1, <1>3, <2>1
    <2> HIDE DEF Inner, lead
    <2> QED  BY <1>1, <2>1, <2>2
<1>5. text = Text(c, kind, width)
    BY DEF Text
<1>6. /\ crlf \in Seq(Bytes) /\ Len(crlf) = 2
      /\ \A k \in 1 .. 2 : crlf[k].cmd = c /\ (EndsLine(crlf[k]) <=> k = 2)
    <2>1. /\ crlf \in Seq(Bytes) /\ Len(crlf) = 2
          /\ \A k \in 1 .. 2 : crlf[k] = [cmd |-> c, part |-> "crlf", at |-> k]
        BY PartShape DEF Parts
    <2> HIDE DEF crlf
    <2> QED  BY <2>1 DEF EndsLine
<1> HIDE DEF lead, line, crlf
<1>7. /\ line \in Seq(Bytes) /\ Len(line) \in Nat
      /\ \A k \in 1 .. Len(line) : line[k].cmd = c /\ ~EndsLine(line[k])
    BY <1>4
<1>8. text \in Seq(Bytes) /\ Len(text) = Len(line) + 2
      /\ \A i \in 1 .. Len(line) + 2 :
             text[i] = IF i <= Len(line) THEN line[i] ELSE crlf[i - Len(line)]
    <2>1. /\ text \in Seq(Bytes) /\ Len(text) = Len(line) + Len(crlf)
          /\ \A i \in 1 .. Len(line) + Len(crlf) :
                 text[i] = IF i <= Len(line) THEN line[i] ELSE crlf[i - Len(line)]
        <3>1. line \in Seq(Bytes) /\ crlf \in Seq(Bytes)
            BY <1>6, <1>7
        <3> QED  BY <3>1, ConcatProperties
    <2> HIDE DEF text
    <2> QED  BY <1>6, <2>1
<1> HIDE DEF text
<1>9. ASSUME NEW k \in 1 .. Len(text)
      PROVE  text[k].cmd = c /\ (EndsLine(text[k]) <=> k = Len(text))
    <2>1. CASE k <= Len(line)
        <3>1. text[k] = line[k] /\ k \in 1 .. Len(line) /\ k # Len(text)
            BY <1>7, <1>8, <2>1
        <3> QED  BY <1>7, <3>1
    <2>2. CASE ~(k <= Len(line))
        <3>1. /\ text[k] = crlf[k - Len(line)] /\ k - Len(line) \in 1 .. 2
              /\ k - Len(line) = 2 <=> k = Len(text)
            BY <1>7, <1>8, <2>2
        <3> QED  BY <1>6, <3>1
    <2> QED  BY <2>1, <2>2
<1>10. Len(text) \in Nat /\ Len(text) >= 2
    BY <1>7, <1>8
<1> QED  BY <1>5, <1>8, <1>9, <1>10
-----------------------------------------------------------------------------
LEMMA Numbers ==
    ASSUME Typed
    PROVE  /\ Len(commands) \in Nat /\ DOMAIN commands = 1 .. Len(commands)
           /\ Len(todo) \in Nat /\ (todo = << >> <=> Len(todo) = 0)
           /\ Len(accepted) \in Nat /\ delivered \in Nat /\ delivered <= Len(accepted)
           /\ \A c \in DOMAIN commands : commands[c] \in Records
           /\ Writing <=> /\ Len(commands) \in DOMAIN commands
                          /\ commands[Len(commands)].outcome = "writing"
<1>1. Len(commands) \in Nat /\ DOMAIN commands = 1 .. Len(commands)
    BY LenProperties DEF Typed
<1>2. /\ Len(todo) \in Nat /\ (todo = << >> <=> Len(todo) = 0)
      /\ commands = << >> <=> Len(commands) = 0
      /\ Len(accepted) \in Nat
    BY LenProperties, EmptySeq DEF Typed
<1>3. delivered \in Nat /\ delivered <= Len(accepted)
    BY <1>2 DEF Typed
<1>4. \A c \in DOMAIN commands : commands[c] \in Records
    BY <1>1, ElementOfSeq DEF Typed
<1>5. commands # << >> <=> Len(commands) \in DOMAIN commands
    BY <1>1, <1>2
<1> QED  BY <1>1, <1>2, <1>3, <1>4, <1>5 DEF Writing, Last

LEMMA TextOfCommand ==
    ASSUME Typed, NEW c \in DOMAIN commands
    PROVE  /\ TextOf(c) \in Seq(Bytes)
           /\ Len(TextOf(c)) \in Nat /\ Len(TextOf(c)) >= 2
           /\ \A k \in 1 .. Len(TextOf(c)) :
                  /\ TextOf(c)[k].cmd = c
                  /\ EndsLine(TextOf(c)[k]) <=> k = Len(TextOf(c))
<1>1. c \in Nat /\ commands[c] \in Records
    BY Numbers
<1>2. commands[c].kind \in Kinds /\ commands[c].width \in Nat
    BY <1>1, WriterAssumption DEF Records
<1> QED  BY <1>1, <1>2, TextShape DEF TextOf

\* What no step undoes: commands keep their text, and an outcome is for good;
\* what the transport took stays taken, and what left has left.
CommandsStay ==
    \A c \in DOMAIN commands :
        /\ c \in DOMAIN commands'
        /\ commands'[c].kind = commands[c].kind /\ commands'[c].width = commands[c].width
        /\ commands[c].outcome # "writing" => commands'[c].outcome = commands[c].outcome

Grows ==
    /\ CommandsStay
    /\ Len(accepted) <= Len(accepted')
    /\ \A i \in 1 .. Len(accepted) : accepted'[i] = accepted[i]
    /\ delivered <= delivered'

LEMMA TextStays ==
    ASSUME Grows, NEW c \in DOMAIN commands
    PROVE  TextOf(c)' = TextOf(c)
BY DEF Grows, CommandsStay, TextOf

LEMMA HoldsStays ==
    ASSUME Typed, Grows, NEW c \in DOMAIN commands, NEW i \in Nat, NEW p \in Nat,
           i + p <= Len(accepted), Holds(c, i, p)
    PROVE  Holds(c, i, p)'
<1>1. Len(accepted) \in Nat
    BY Numbers
<1>2. ASSUME NEW k \in 1 .. p PROVE accepted'[i + k] = accepted[i + k]
    <2>1. i + k \in 1 .. Len(accepted)
        BY <1>1
    <2> QED  BY <2>1 DEF Grows
<1> QED  BY <1>2, TextStays DEF Holds

LEMMA BoundaryStays ==
    ASSUME Typed, Grows, FromTheStart, NEW i \in 0 .. Len(accepted), Boundary(i)
    PROVE  Boundary(i)'
<1> SUFFICES ASSUME i > 0 PROVE (EndsLine(accepted[i]) \/ GaveUp(accepted[i].cmd))'
    BY DEF Boundary
<1>1. i \in 1 .. Len(accepted)
    BY Numbers
<1> PICK c \in DOMAIN commands : c = accepted[i].cmd
    BY <1>1 DEF FromTheStart, IsPreceded
<1>2. accepted'[i] = accepted[i]
    BY <1>1 DEF Grows
<1>3. GaveUp(c) => GaveUp(c)'
    BY DEF GaveUp, Grows, CommandsStay
<1> QED  BY <1>2, <1>3 DEF Boundary, GaveUp

LEMMA PrecededStays ==
    ASSUME Typed, Grows, FromTheStart, NEW i \in 1 .. Len(accepted)
    PROVE  IsPreceded(i)'
<1>1. i \in Nat /\ Len(accepted) \in Nat /\ accepted'[i] = accepted[i]
    BY Numbers DEF Grows
<1> PICK c \in DOMAIN commands : c = accepted[i].cmd
    BY DEF FromTheStart, IsPreceded
<1>2. PICK p \in 1 .. Len(TextOf(c)) : p <= i /\ Holds(c, i - p, p)
    BY DEF FromTheStart, IsPreceded
<1>3. c \in DOMAIN commands' /\ TextOf(c)' = TextOf(c)
    BY TextStays DEF Grows, CommandsStay
<1>4. p \in Nat /\ i - p \in Nat /\ (i - p) + p <= Len(accepted)
    BY <1>1, <1>2, TextOfCommand
<1>5. Holds(c, i - p, p)'
    BY <1>2, <1>4, HoldsStays
<1> QED  BY <1>1, <1>2, <1>3, <1>5 DEF IsPreceded

\* len bytes after the first i, among the first left ones.
LEMMA StillFits ==
    ASSUME NEW left \in Nat, NEW later \in Nat, NEW size \in Nat, NEW len \in Nat,
           left <= later, left <= size, NEW i \in 0 .. left - len
    PROVE  i \in Nat /\ i + len <= size /\ i \in 0 .. size /\ i \in 0 .. later - len
OBVIOUS

LEMMA SentStays ==
    ASSUME Typed, Grows, FromTheStart, delivered' \in Nat, NEW c \in DOMAIN commands, IsSent(c)
    PROVE  IsSent(c)'
<1>1. PICK i \in 0 .. delivered - Len(TextOf(c)) : Holds(c, i, Len(TextOf(c))) /\ Boundary(i)
    BY DEF IsSent
<1> DEFINE len == Len(TextOf(c))
<1>2. len \in Nat /\ TextOf(c)' = TextOf(c) /\ delivered <= delivered'
      /\ delivered \in Nat /\ Len(accepted) \in Nat /\ delivered <= Len(accepted)
    BY TextOfCommand, TextStays, Numbers DEF Grows
<1>3. i \in Nat /\ i + len <= Len(accepted) /\ i \in 0 .. Len(accepted)
      /\ i \in 0 .. delivered' - len
    <2>1. /\ i \in 0 .. delivered - len
          /\ len \in Nat /\ delivered <= delivered' /\ delivered \in Nat /\ delivered' \in Nat
          /\ Len(accepted) \in Nat /\ delivered <= Len(accepted)
        BY <1>1, <1>2
    <2> HIDE DEF len
    <2> QED  BY <2>1, StillFits
<1>4. Holds(c, i, len)' /\ Boundary(i)'
    BY <1>1, <1>2, <1>3, HoldsStays, BoundaryStays
<1> QED  BY <1>2, <1>3, <1>4 DEF IsSent

\* A step that writes nothing, and after which no other command is confirmed,
\* keeps what was said of the bytes.
LEMMA BytesKept ==
    ASSUME Inv, Grows, UNCHANGED accepted, delivered' \in Nat,
           \A c \in DOMAIN commands' : commands'[c].outcome = "ok" =>
               c \in DOMAIN commands /\ commands[c].outcome = "ok"
    PROVE  FromTheStart' /\ Sent'
<1>1. FromTheStart'
    BY PrecededStays DEF Inv, FromTheStart
<1>2. Sent'
    BY SentStays DEF Inv, Sent
<1> QED  BY <1>1, <1>2
-----------------------------------------------------------------------------
\* encode or flush returned, or its future was dropped.
LEMMA FinishCommand ==
    ASSUME Typed, Writing, NEW outcome \in {"ok", "failed", "dropped"}, Finish(outcome)
    PROVE  /\ commands' \in Seq(Records) /\ Len(commands') = Len(commands)
           /\ DOMAIN commands' = DOMAIN commands
           /\ CommandsStay
           /\ \A c \in DOMAIN commands : c # Len(commands) => commands'[c] = commands[c]
           /\ commands'[Len(commands)].outcome = outcome
           /\ todo' = << >>
           /\ ~Writing'
<1> DEFINE l == Len(commands)
           last == [commands[l] EXCEPT !.outcome = outcome]
<1>1. /\ l \in Nat /\ DOMAIN commands = 1 .. l /\ l \in 1 .. l /\ commands[l] \in Records
      /\ commands \in Seq(Records) /\ commands[l].outcome = "writing"
    BY Numbers DEF Typed
<1>2. commands' = [commands EXCEPT ![l] = last] /\ todo' = << >>
    BY DEF Finish
<1>3. /\ last \in Records /\ last.outcome = outcome
      /\ last.kind = commands[l].kind /\ last.width = commands[l].width
    BY <1>1 DEF Records
<1> HIDE DEF last
<1>4. commands' \in Seq(Records) /\ Len(commands') = Len(commands)
    BY <1>1, <1>2, <1>3, ExceptSeq
<1>5. /\ DOMAIN commands' = 1 .. l /\ commands'[l] = last
      /\ \A c \in 1 .. l : c # l => commands'[c] = commands[c]
    BY <1>1, <1>2
<1>6. CommandsStay
    BY <1>1, <1>3, <1>5 DEF CommandsStay
<1>7. ~Writing'
    BY <1>3, <1>4, <1>5 DEF Writing, Last
<1> QED  BY <1>1, <1>2, <1>3, <1>4, <1>5, <1>6, <1>7

\* A command that is given up, with bytes of it still to be written or not.
Abandons(outcome) ==
    /\ Writing
    /\ Finish(outcome)
    /\ full' \in {full, TRUE}
    /\ UNCHANGED <<accepted, delivered>>

LEMMA AbandonKeepsInv ==
    ASSUME Inv, NEW outcome \in {"failed", "dropped"}, Abandons(outcome)
    PROVE  Inv'
<1>1. /\ Typed /\ Writing /\ Finish(outcome) /\ UNCHANGED <<accepted, delivered>>
      /\ full' \in {full, TRUE}
    BY DEF Inv, Abandons
<1>2. /\ commands' \in Seq(Records) /\ Len(commands') = Len(commands)
      /\ DOMAIN commands' = DOMAIN commands
      /\ CommandsStay
      /\ \A c \in DOMAIN commands : c # Len(commands) => commands'[c] = commands[c]
      /\ commands'[Len(commands)].outcome = outcome
      /\ todo' = << >>
      /\ ~Writing'
    BY <1>1, FinishCommand
<1>3. /\ Len(commands) \in DOMAIN commands /\ Len(accepted) \in Nat /\ delivered \in Nat
    BY <1>1, Numbers
<1>4. Grows
    BY <1>1, <1>2, <1>3 DEF Grows
<1>5. Typed'
    <2>1. \A c \in DOMAIN commands' : commands'[c].outcome # "writing"
        BY <1>1, <1>2 DEF Typed
    <2>2. todo' \in Seq(Bytes)
        BY <1>2
    <2> QED  BY <1>1, <1>2, <2>1, <2>2 DEF Typed
<1>6. TodoIsRest' /\ FullBeforeTheEnd'
    BY <1>2 DEF TodoIsRest, FullBeforeTheEnd
<1>7. FromTheStart' /\ Sent'
    <2>1. \A c \in DOMAIN commands' : commands'[c].outcome = "ok" =>
              c \in DOMAIN commands /\ commands[c].outcome = "ok"
        BY <1>2
    <2> QED  BY <1>1, <1>3, <1>4, <2>1, BytesKept
<1>8. InARow'
    <2> SUFFICES ASSUME ~full PROVE Boundary(Len(accepted))'
        <3>1. Written' = 0
            BY <1>2 DEF Written
        <3>2. Len(accepted') - 0 = Len(accepted') /\ 0 <= Len(accepted') /\ 1 .. 0 = {}
            BY <1>1, <1>3
        <3>3. Holds(Len(commands), Len(accepted) - Written, Written)'
            BY <3>1, <3>2 DEF Holds
        <3>4. Boundary(Len(accepted))' => Boundary(Len(accepted) - Written)'
            BY <3>1, <3>2 DEF Boundary
        <3>5. ~full' => ~full
            BY <1>1
        <3> QED  BY <3>1, <3>2, <3>3, <3>4, <3>5 DEF InARow
    <2> DEFINE text == TextOf(Len(commands))
               n == Len(accepted)
    <2>1. /\ Written = Len(text) - Len(todo) /\ Written <= n /\ Written \in Nat
          /\ Holds(Len(commands), n - Written, Written) /\ Boundary(n - Written)
        <3>1. Written = Len(text) - Len(todo)
            BY <1>1 DEF Written
        <3>2. Len(todo) <= Len(text) /\ Len(text) \in Nat /\ Len(todo) \in Nat
            BY <1>1, <1>3, Numbers, TextOfCommand DEF Inv, TodoIsRest
        <3> HIDE DEF text
        <3>3. Written \in Nat
            BY <3>1, <3>2
        <3> QED  BY <3>1, <3>3 DEF Inv, InARow
    <2>2. CASE Written = 0
        <3>1. Boundary(n) /\ n \in 0 .. n
            BY <1>3, <2>1, <2>2
        <3> QED  BY <1>1, <1>4, <3>1, BoundaryStays DEF Inv
    <2>3. CASE Written # 0
        <3>1. Written \in 1 .. Written /\ (n - Written) + Written = n /\ Written \in 1 .. Len(text)
            <4>1. Len(todo) \in Nat /\ Len(text) \in Nat
                BY <1>1, <1>3, Numbers, TextOfCommand
            <4> HIDE DEF text
            <4> QED  BY <1>3, <2>1, <2>3, <4>1
        <3>2. accepted[n].cmd = Len(commands)
            <4>1. accepted[n] = text[Written]
                BY <2>1, <3>1 DEF Holds
            <4> QED  BY <1>1, <1>3, <3>1, <4>1, TextOfCommand
        <3> QED  BY <1>1, <1>2, <3>2 DEF Boundary, GaveUp
    <2> QED  BY <2>2, <2>3
<1> QED  BY <1>5, <1>6, <1>7, <1>8 DEF Inv

\* The command at work, when bytes are taken or it is flushed.
LEMMA AtWork ==
    ASSUME Inv, Writing, ~full
    PROVE  LET l == Len(commands)  text == TextOf(l)  n == Len(accepted)
               w == Len(text) - Len(todo)
           IN  /\ l \in DOMAIN commands /\ commands[l].outcome = "writing"
               /\ Len(text) \in Nat /\ Len(todo) \in Nat /\ n \in Nat /\ w \in Nat
               /\ w <= n /\ n - w \in Nat
               /\ Holds(l, n - w, w) /\ Boundary(n - w)
               /\ \A k \in 1 .. Len(todo) : todo[k] = text[w + k]
<1> DEFINE l == Len(commands)
           text == TextOf(l)
           n == Len(accepted)
           w == Len(text) - Len(todo)
<1>1. /\ l \in DOMAIN commands /\ commands[l].outcome = "writing"
      /\ Len(todo) \in Nat /\ n \in Nat
    BY Numbers DEF Inv
<1>2. Len(text) \in Nat
    BY <1>1, TextOfCommand DEF Inv
<1>3. /\ Len(todo) <= Len(text)
      /\ \A k \in 1 .. Len(todo) : todo[k] = text[w + k]
    BY DEF Inv, TodoIsRest
<1>4. Written = w
    BY DEF Written
<1>5. w <= n /\ Holds(l, n - w, w) /\ Boundary(n - w)
    BY <1>4 DEF Inv, InARow
<1>6. w \in Nat /\ n - w \in Nat
    <2> HIDE DEF text
    <2> QED  BY <1>1, <1>2, <1>3, <1>5
<1> QED  BY <1>1, <1>2, <1>3, <1>5, <1>6

LEMMA FlushKeepsInv ==
    ASSUME Inv, Flush
    PROVE  Inv'
<1> DEFINE l == Len(commands)
           text == TextOf(l)
           n == Len(accepted)
<1>1. /\ Typed /\ Writing /\ todo = << >> /\ Finish("ok") /\ UNCHANGED <<accepted, full>>
      /\ delivered' = n /\ ~full /\ full \in BOOLEAN
    BY DEF Inv, Typed, Flush, FullBeforeTheEnd
<1>2. /\ commands' \in Seq(Records) /\ Len(commands') = l
      /\ DOMAIN commands' = DOMAIN commands
      /\ CommandsStay
      /\ \A c \in DOMAIN commands : c # l => commands'[c] = commands[c]
      /\ commands'[l].outcome = "ok"
      /\ todo' = << >>
      /\ ~Writing'
    BY <1>1, FinishCommand
<1>3. /\ l \in DOMAIN commands /\ n \in Nat /\ delivered \in Nat /\ delivered <= n
      /\ Len(todo) = 0
    BY <1>1, Numbers
<1>4. Grows
    BY <1>1, <1>2, <1>3 DEF Grows
<1>5. /\ Len(text) \in Nat /\ Len(text) >= 2 /\ Len(text) <= n /\ n - Len(text) \in Nat
      /\ Holds(l, n - Len(text), Len(text)) /\ Boundary(n - Len(text))
      /\ EndsLine(text[Len(text)])
    <2>1. Len(text) \in Nat /\ Len(text) >= 2 /\ Len(text) - Len(todo) = Len(text)
          /\ Len(text) \in 1 .. Len(text)
        <3>1. Len(text) \in Nat /\ Len(text) >= 2
            BY <1>1, <1>3, TextOfCommand
        <3> HIDE DEF text
        <3> QED  BY <1>3, <3>1
    <2>2. EndsLine(text[Len(text)])
        BY <1>1, <1>3, <2>1, TextOfCommand
    <2>3. /\ Len(text) - Len(todo) <= n /\ n - (Len(text) - Len(todo)) \in Nat
          /\ Holds(l, n - (Len(text) - Len(todo)), Len(text) - Len(todo))
          /\ Boundary(n - (Len(text) - Len(todo)))
        BY <1>1, AtWork
    <2> HIDE DEF text
    <2> QED  BY <2>1, <2>2, <2>3
<1>6. Typed'
    <2>1. \A c \in DOMAIN commands' : commands'[c].outcome # "writing"
        BY <1>1, <1>2 DEF Typed
    <2>2. todo' \in Seq(Bytes)
        BY <1>2
    <2>3. delivered' \in 0 .. Len(accepted')
        BY <1>1, <1>3
    <2> QED  BY <1>1, <1>2, <2>1, <2>2, <2>3 DEF Typed
<1>7. TodoIsRest' /\ FullBeforeTheEnd'
    BY <1>2 DEF TodoIsRest, FullBeforeTheEnd
<1>8. FromTheStart'
    BY <1>1, <1>4, PrecededStays DEF Inv, FromTheStart
<1>9. Sent'
    <2>1. ASSUME NEW c \in DOMAIN commands, c = l PROVE IsSent(c)'
        <3> PICK p \in Nat : p = Len(text)
            BY <1>5
        <3> PICK i \in Nat : i = n - p
            BY <1>5
        <3>1. TextOf(c) = text /\ TextOf(c)' = text
            BY <1>4, <2>1, TextStays
        <3>2. Holds(c, i, p) /\ Boundary(i) /\ Len(TextOf(c)') = p
            BY <1>5, <2>1, <3>1
        <3> HIDE DEF text
        <3>3. i + p <= n /\ i \in 0 .. n /\ i \in 0 .. n - p
            BY <1>3, <1>5
        <3>4. Boundary(i)'
            BY <1>1, <1>4, <3>2, <3>3, BoundaryStays DEF Inv
        <3>5. Holds(c, i, p)'
            BY <1>1, <1>4, <3>2, <3>3, HoldsStays
        <3>6. i \in 0 .. delivered' - p
            BY <1>1, <3>3
        <3> QED  BY <3>2, <3>4, <3>5, <3>6 DEF IsSent
    <2>2. \A c \in DOMAIN commands : IsSent(c) => IsSent(c)'
        BY <1>1, <1>3, <1>4, SentStays DEF Inv
    <2> QED  BY <1>2, <2>1, <2>2 DEF Inv, Sent
<1>10. InARow'
    <2>1. Written' = 0
        BY <1>2 DEF Written
    <2>2. n - 0 = n /\ 0 <= n /\ 1 .. 0 = {}
        BY <1>3
    <2>3. Holds(Len(commands), Len(accepted) - Written, Written)'
        BY <2>1, <2>2 DEF Holds
    <2>4. EndsLine(accepted[n])
        <3>1. accepted[(n - Len(text)) + Len(text)] = text[Len(text)]
              /\ (n - Len(text)) + Len(text) = n
            <4>1. Len(text) \in 1 .. Len(text)
                BY <1>5
            <4> QED  BY <1>3, <1>5, <4>1 DEF Holds
        <3> QED  BY <1>5, <3>1
    <2>5. Boundary(Len(accepted) - Written)'
        BY <1>1, <2>1, <2>2, <2>4 DEF Boundary
    <2> QED  BY <1>1, <2>1, <2>2, <2>3, <2>5 DEF InARow
<1> QED  BY <1>6, <1>7, <1>8, <1>9, <1>10 DEF Inv

\* The j-th of n bytes that follow the m first ones, of which the w last are of
\* the same command.
LEMMA PlaceOfByte ==
    ASSUME NEW m \in Nat, NEW w \in Nat, NEW l \in Nat, NEW n \in 1 .. l, w <= m,
           NEW j \in 1 .. n, NEW i, i = m + j, NEW p, p = w + j
    PROVE  /\ j \in 1 .. l /\ p \in 1 .. w + n
           /\ i - p = m - w /\ p <= i
OBVIOUS

\* The transport takes the next n bytes.
Takes(n) ==
    /\ Writing /\ ~full /\ n \in 1 .. Len(todo)
    /\ accepted' \in Seq(Bytes)
    /\ Len(accepted') = Len(accepted) + n
    /\ \A i \in 1 .. Len(accepted) : accepted'[i] = accepted[i]
    /\ \A k \in 1 .. n : accepted'[Len(accepted) + k] = todo[k]
    /\ todo' \in Seq(Bytes)
    /\ Len(todo') = Len(todo) - n
    /\ \A k \in 1 .. Len(todo) - n : todo'[k] = todo[n + k]
    /\ UNCHANGED <<commands, delivered, full>>

LEMMA WriteSomeTakes ==
    ASSUME Inv, NEW n \in 1 .. Len(todo), WriteSome(n)
    PROVE  Takes(n)
<1> DEFINE first == SubSeq(todo, 1, n)
           rest == SubSeq(todo, n + 1, Len(todo))
<1>1. /\ Writing /\ ~full /\ UNCHANGED <<commands, delivered, full>>
      /\ accepted' = accepted \o first /\ todo' = rest
    BY DEF WriteSome, InPiece
<1>2. /\ todo \in Seq(Bytes) /\ accepted \in Seq(Bytes)
      /\ Len(todo) \in Nat /\ Len(accepted) \in Nat
      /\ \A i \in 1 .. Len(todo) : todo[i] \in Bytes
    BY Numbers, ElementOfSeq DEF Inv, Typed
<1>3. n \in Nat /\ n <= Len(todo) /\ 1 \in Int /\ n \in Int /\ n + 1 \in Int /\ Len(todo) \in Int
      /\ 1 <= n
    BY <1>2
<1>4. /\ first \in Seq(Bytes) /\ Len(first) = n
      /\ \A k \in 1 .. n : first[k] = todo[k]
    <2>1. \A i \in 1 .. n : todo[i] \in Bytes
        BY <1>2, <1>3
    <2>2. /\ first \in Seq(Bytes) /\ Len(first) = IF 1 <= n THEN (n - 1) + 1 ELSE 0
          /\ \A k \in 1 .. (n - 1) + 1 : first[k] = todo[(1 + k) - 1]
        BY <1>3, <2>1, SubSeqProperties
    <2> HIDE DEF first
    <2> QED  BY <1>3, <2>2
<1>5. /\ rest \in Seq(Bytes) /\ Len(rest) = Len(todo) - n
      /\ \A k \in 1 .. Len(todo) - n : rest[k] = todo[n + k]
    <2>1. \A i \in n + 1 .. Len(todo) : todo[i] \in Bytes
        BY <1>2, <1>3
    <2>2. /\ rest \in Seq(Bytes)
          /\ Len(rest) = IF n + 1 <= Len(todo) THEN (Len(todo) - (n + 1)) + 1 ELSE 0
          /\ \A k \in 1 .. (Len(todo) - (n + 1)) + 1 : rest[k] = todo[((n + 1) + k) - 1]
        BY <1>3, <2>1, SubSeqProperties
    <2> HIDE DEF rest
    <2>3. (Len(todo) - (n + 1)) + 1 = Len(todo) - n
        BY <1>3
    <2>4. \A k \in 1 .. Len(todo) - n : ((n + 1) + k) - 1 = n + k
        BY <1>3
    <2>5. Len(rest) = Len(todo) - n
        BY <1>3, <2>2
    <2> QED  BY <2>2, <2>3, <2>4, <2>5
<1> HIDE DEF first, rest
<1>6. /\ accepted' \in Seq(Bytes) /\ Len(accepted') = Len(accepted) + n
      /\ \A i \in 1 .. Len(accepted) + n :
             accepted'[i] = IF i <= Len(accepted) THEN accepted[i] ELSE first[i - Len(accepted)]
    <2>1. /\ accepted \o first \in Seq(Bytes) /\ Len(accepted \o first) = Len(accepted) + Len(first)
          /\ \A i \in 1 .. Len(accepted) + Len(first) : (accepted \o first)[i] =
                 IF i <= Len(accepted) THEN accepted[i] ELSE first[i - Len(accepted)]
        BY <1>2, <1>4, ConcatProperties
    <2> QED  BY <1>1, <1>4, <2>1
<1>7. \A i \in 1 .. Len(accepted) : accepted'[i] = accepted[i]
    BY <1>2, <1>3, <1>6
<1>8. ASSUME NEW k \in 1 .. n PROVE accepted'[Len(accepted) + k] = todo[k]
    <2>1. /\ Len(accepted) + k \in 1 .. Len(accepted) + n
          /\ ~(Len(accepted) + k <= Len(accepted)) /\ (Len(accepted) + k) - Len(accepted) = k
        BY <1>2, <1>3
    <2> QED  BY <1>4, <1>6, <2>1
<1> QED  BY <1>1, <1>5, <1>6, <1>7, <1>8 DEF Takes

LEMMA WriteSpaceTakes ==
    ASSUME Inv, WriteSpace, ~full, accepted' = Append(accepted, Head(todo)), UNCHANGED full
    PROVE  Takes(1)
<1>1. /\ Writing /\ todo # << >> /\ todo' = Tail(todo) /\ UNCHANGED <<commands, delivered>>
    BY DEF WriteSpace
<1>2. todo \in Seq(Bytes) /\ accepted \in Seq(Bytes)
    BY DEF Inv, Typed
<1>3. /\ todo' \in Seq(Bytes) /\ Head(todo) \in Bytes /\ Len(todo) \in Nat \ {0}
      /\ Len(todo') = Len(todo) - 1 /\ Head(todo) = todo[1] /\ DOMAIN todo' = 1 .. Len(todo')
      /\ \A i \in DOMAIN todo' : i \in Nat /\ todo'[i] = todo[i + 1]
    BY <1>1, <1>2, QueueTail, LenProperties
<1>4. /\ accepted' \in Seq(Bytes) /\ Len(accepted') = Len(accepted) + 1
      /\ \A i \in DOMAIN accepted : accepted'[i] = accepted[i]
      /\ accepted'[Len(accepted) + 1] = todo[1]
      /\ DOMAIN accepted = 1 .. Len(accepted)
    BY <1>2, <1>3, QueueAppend, LenProperties
<1>5. 1 .. 1 = {1} /\ 1 \in 1 .. Len(todo) /\ \A k \in 1 .. Len(todo) - 1 : k + 1 = 1 + k
    BY <1>3
<1> QED  BY <1>1, <1>3, <1>4, <1>5 DEF Takes

LEMMA TakesKeepsInv ==
    ASSUME Inv, NEW n, Takes(n)
    PROVE  Inv'
<1>1. /\ Typed /\ Writing /\ ~full /\ n \in 1 .. Len(todo) /\ FromTheStart
      /\ UNCHANGED <<commands, delivered, full>>
    BY DEF Inv, Takes
<1> PICK c \in DOMAIN commands : c = Len(commands)
    BY <1>1, Numbers
<1> PICK text : text = TextOf(c)
    OBVIOUS
<1> PICK w \in Nat : w = Len(text) - Len(todo)
    BY <1>1, AtWork
<1> PICK m \in Nat : m = Len(accepted)
    BY <1>1, Numbers
<1>2. /\ Len(text) \in Nat /\ Len(todo) \in Nat
      /\ w <= m /\ m - w \in Nat
      /\ Holds(c, m - w, w) /\ Boundary(m - w)
      /\ \A k \in 1 .. Len(todo) : todo[k] = text[w + k]
    BY <1>1, AtWork
<1>3. n \in Nat /\ n >= 1 /\ w + n \in Nat /\ w + n <= Len(text) /\ w + Len(todo) = Len(text)
    BY <1>1, <1>2
<1>4. /\ accepted' \in Seq(Bytes) /\ Len(accepted') = m + n
      /\ \A i \in 1 .. m : accepted'[i] = accepted[i]
      /\ \A k \in 1 .. n : accepted'[m + k] = todo[k]
      /\ todo' \in Seq(Bytes) /\ Len(todo') = Len(todo) - n
      /\ \A k \in 1 .. Len(todo) - n : todo'[k] = todo[n + k]
    BY DEF Takes
<1>5. Grows
    <2>1. CommandsStay
        BY <1>1 DEF CommandsStay
    <2>2. Len(accepted) <= Len(accepted') /\ delivered <= delivered' /\ delivered' \in Nat
        BY <1>1, <1>3, <1>4, Numbers
    <2> QED  BY <1>4, <2>1, <2>2 DEF Grows
<1>6. TextOf(c)' = text
    BY <1>5, TextStays
<1>7. Typed'
    <2>1. delivered' \in 0 .. Len(accepted')
        BY <1>1, <1>3, <1>4, Numbers
    <2> QED  BY <1>1, <1>4, <2>1 DEF Typed
<1>8. TodoIsRest'
    <2>1. Writing' /\ Len(commands') = c
        BY <1>1 DEF Writing
    <2>2. Len(todo') <= Len(text)
        BY <1>2, <1>3, <1>4
    <2>3. ASSUME NEW k \in 1 .. Len(todo') PROVE todo'[k] = text[(Len(text) - Len(todo')) + k]
        <3>1. k \in 1 .. Len(todo) - n /\ n + k \in 1 .. Len(todo)
              /\ (Len(text) - Len(todo')) + k = w + (n + k)
            BY <1>2, <1>3, <1>4
        <3> QED  BY <1>2, <1>4, <3>1
    <2> QED  BY <1>6, <2>1, <2>2, <2>3 DEF TodoIsRest
<1>9. FullBeforeTheEnd'
    BY <1>1 DEF FullBeforeTheEnd
<1>10. \A k \in 1 .. w + n : accepted'[(m - w) + k] = text[k]
    <2> TAKE k \in 1 .. w + n
    <2>1. CASE k <= w
        <3>1. k \in 1 .. w /\ (m - w) + k \in 1 .. m
            BY <1>2, <2>1
        <3> QED  BY <1>2, <1>4, <3>1 DEF Holds
    <2>2. CASE ~(k <= w)
        <3>1. /\ k - w \in 1 .. n /\ (m - w) + k = m + (k - w) /\ w + (k - w) = k
              /\ k - w \in 1 .. Len(todo)
            BY <1>2, <1>3, <2>2
        <3>2. accepted'[m + (k - w)] = todo[k - w] /\ todo[k - w] = text[w + (k - w)]
            BY <1>2, <1>4, <3>1
        <3> QED  BY <3>1, <3>2
    <2> QED  BY <2>1, <2>2
<1>11. Boundary(m - w)'
    <2> PICK i \in Nat : i = m - w
        BY <1>2
    <2>1. i \in 0 .. Len(accepted) /\ Boundary(i)
        BY <1>2
    <2> QED  BY <1>1, <1>5, <2>1, BoundaryStays
<1>12. FromTheStart'
    <2> SUFFICES ASSUME NEW i \in 1 .. m + n PROVE IsPreceded(i)'
        BY <1>4 DEF FromTheStart
    <2>1. CASE i <= m
        <3>1. i \in 1 .. Len(accepted)
            BY <2>1
        <3> QED  BY <1>1, <1>5, <3>1, PrecededStays
    <2>2. CASE ~(i <= m)
        <3> PICK j \in 1 .. n : i = m + j
            <4>1. i - m \in 1 .. n /\ i = m + (i - m)
                BY <1>3, <2>2
            <4> QED  BY <4>1
        <3> PICK p \in Nat : p = w + j
            <4>1. n \in Nat
                BY <1>3
            <4>2. w + j \in Nat
                BY <4>1
            <4> QED  BY <4>2
        <3>1. /\ j \in 1 .. Len(todo) /\ p \in 1 .. w + n
              /\ i - p = m - w /\ p <= i
            <4>1. n \in 1 .. Len(todo) /\ Len(todo) \in Nat /\ w <= m
                BY <1>1, <1>2
            <4> QED  BY <4>1, PlaceOfByte
        <3>2. accepted'[i] = text[p] /\ p \in 1 .. Len(text)
            <4>1. accepted'[m + j] = todo[j]
                BY <1>4
            <4>2. todo[j] = text[w + j]
                BY <1>2, <3>1
            <4>3. p \in 1 .. Len(text)
                BY <1>2, <1>3, <3>1
            <4> QED  BY <4>1, <4>2, <4>3
        <3>3. text[p].cmd = c
            BY <1>1, <3>2, TextOfCommand
        <3>4. \A k \in 1 .. p : accepted'[(i - p) + k] = text[k]
            <4> TAKE k \in 1 .. p
            <4>1. k \in 1 .. w + n
                BY <1>3, <3>1
            <4>2. accepted'[(m - w) + k] = text[k]
                BY <1>10, <4>1
            <4> QED  BY <3>1, <4>2
        <3>5. accepted'[i].cmd = c /\ c \in DOMAIN commands'
            BY <1>1, <3>2, <3>3
        <3>6. Holds(c, i - p, p)'
            BY <1>6, <3>4 DEF Holds
        <3> QED  BY <1>6, <3>1, <3>2, <3>5, <3>6 DEF IsPreceded
    <2> QED  BY <2>1, <2>2
<1>13. InARow'
    <2>1. Written' = w + n
        <3>1. Writing' /\ Len(commands') = c
            BY <1>1 DEF Writing
        <3>2. Len(text) - Len(todo') = w + n
            BY <1>2, <1>3, <1>4
        <3> QED  BY <1>6, <3>1, <3>2 DEF Written
    <2>2. (m + n) - (w + n) = m - w /\ w + n <= m + n
        BY <1>2, <1>3
    <2>3. Holds(Len(commands), Len(accepted) - Written, Written)'
        <3>1. Len(commands') = c /\ Len(accepted') - Written' = m - w
            BY <1>1, <1>4, <2>1, <2>2
        <3>2. \A k \in 1 .. Written' : accepted'[(Len(accepted') - Written') + k] = TextOf(c)'[k]
            BY <1>6, <1>10, <2>1, <3>1
        <3>3. TextOf(Len(commands))' = TextOf(c)'
            BY <1>1 DEF TextOf
        <3> QED  BY <3>2, <3>3 DEF Holds
    <2>4. Boundary(Len(accepted) - Written)'
        BY <1>4, <1>11, <2>1, <2>2 DEF Boundary
    <2> QED  BY <1>4, <2>1, <2>2, <2>3, <2>4 DEF InARow
<1>14. Sent'
    <2>1. delivered' \in Nat
        BY <1>1, Numbers
    <2> QED  BY <1>1, <1>5, <2>1, SentStays DEF Inv, Sent
<1> QED  BY <1>7, <1>8, <1>9, <1>12, <1>13, <1>14 DEF Inv

\* The space finds a transport that takes no more: the line has a hole, but
\* nothing will follow it.
LEMMA RefusedKeepsInv ==
    ASSUME Inv, WriteSpace, full' = TRUE, UNCHANGED accepted
    PROVE  Inv'
<1>1. /\ Typed /\ Writing /\ todo # << >> /\ Head(todo).part = "space" /\ todo' = Tail(todo)
      /\ UNCHANGED <<commands, delivered>>
    BY DEF Inv, WriteSpace
<1>2. /\ todo' \in Seq(Bytes) /\ Len(todo) \in Nat \ {0} /\ Len(todo') = Len(todo) - 1
      /\ Head(todo) = todo[1] /\ DOMAIN todo' = 1 .. Len(todo')
      /\ \A i \in DOMAIN todo' : i \in Nat /\ todo'[i] = todo[i + 1]
    BY <1>1, QueueTail, LenProperties DEF Typed
<1> PICK c \in DOMAIN commands : c = Len(commands)
    BY <1>1, Numbers
<1> PICK text : text = TextOf(c)
    OBVIOUS
<1> PICK len \in Nat : len = Len(text)
    BY <1>1, TextOfCommand
<1>3. /\ Len(todo) <= len
      /\ \A k \in 1 .. Len(todo) : todo[k] = text[(len - Len(todo)) + k]
    BY <1>1 DEF Inv, TodoIsRest
<1>4. Writing' /\ Len(commands') = c /\ TextOf(c)' = text
    BY <1>1 DEF Writing, TextOf
<1>5. Typed'
    BY <1>1, <1>2 DEF Typed
<1>6. TodoIsRest'
    <2>1. ASSUME NEW k \in 1 .. Len(todo') PROVE todo'[k] = text[(len - Len(todo')) + k]
        <3>1. k + 1 \in 1 .. Len(todo) /\ (len - Len(todo)) + (k + 1) = (len - Len(todo')) + k
            BY <1>2
        <3>2. todo'[k] = todo[k + 1] /\ todo[k + 1] = text[(len - Len(todo)) + (k + 1)]
            BY <1>2, <1>3, <3>1
        <3> QED  BY <3>1, <3>2
    <2>2. Len(todo') <= len
        BY <1>2, <1>3
    <2> QED  BY <1>4, <2>1, <2>2 DEF TodoIsRest
<1>7. FullBeforeTheEnd'
    <2>1. Len(todo) # 1
        <3> SUFFICES ASSUME Len(todo) = 1 PROVE FALSE
            OBVIOUS
        <3>1. todo[1] = text[len]
            BY <1>2, <1>3
        <3>2. len \in 1 .. len
            BY <1>2, <1>3
        <3>3. EndsLine(todo[1])
            BY <1>1, <3>1, <3>2, TextOfCommand
        <3> QED  BY <1>1, <1>2, <3>3 DEF EndsLine
    <2>2. Len(todo') # 0
        BY <1>2, <2>1
    <2>3. todo' # << >>
        BY <1>2, <2>2, EmptySeq
    <2> QED  BY <2>3 DEF FullBeforeTheEnd
<1>8. FromTheStart' /\ Sent'
    <2>1. delivered' \in Nat /\ delivered <= delivered' /\ Len(accepted) <= Len(accepted')
        BY <1>1, Numbers
    <2>2. Grows
        BY <1>1, <2>1 DEF Grows, CommandsStay
    <2> QED  BY <1>1, <2>1, <2>2, BytesKept
<1>9. InARow'
    BY DEF InARow
<1> QED  BY <1>5, <1>6, <1>7, <1>8, <1>9 DEF Inv

LEMMA EncodeKeepsInv ==
    ASSUME Inv, NEW kind \in Kinds, NEW width \in BodyWidths, Encode(kind, width)
    PROVE  Inv'
<1> PICK record : record = [kind |-> kind, width |-> width, outcome |-> "writing"]
    OBVIOUS
<1> PICK c \in Nat : c = Len(commands) + 1
    BY Numbers DEF Inv
<1> PICK text : text = Text(c, kind, width)
    OBVIOUS
<1>1. /\ Typed /\ ~Writing /\ commands' = Append(commands, record) /\ todo' = text
      /\ UNCHANGED <<accepted, delivered, full>> /\ record \in Records
      /\ record.kind = kind /\ record.width = width /\ record.outcome = "writing"
    BY DEF Inv, Encode, Records
<1>2. /\ text \in Seq(Bytes) /\ Len(text) \in Nat /\ Len(text) >= 2
    BY TextShape, WriterAssumption
<1>3. /\ commands' \in Seq(Records) /\ commands' # << >> /\ Len(commands') = c
      /\ \A i \in DOMAIN commands : i \in DOMAIN commands' /\ commands'[i] = commands[i]
      /\ \A i \in DOMAIN commands' :
             \/ i \in DOMAIN commands /\ commands'[i] = commands[i]
             \/ i = c /\ commands'[i] = record
      /\ commands'[c] = record /\ c \in DOMAIN commands'
    BY <1>1, QueueAppend DEF Typed
<1>4. Writing' /\ TextOf(c)' = text
    BY <1>1, <1>3 DEF Writing, Last, TextOf
<1>5. \A i \in DOMAIN commands : commands[i].outcome # "writing"
    BY <1>1, Numbers DEF Typed
<1>6. Len(accepted) \in Nat /\ delivered \in Nat
    BY <1>1, Numbers
<1>7. Grows
    BY <1>1, <1>3, <1>6 DEF Grows, CommandsStay
<1>8. Typed'
    <2>1. \A i \in DOMAIN commands' : commands'[i].outcome = "writing" => i = Len(commands')
        BY <1>3, <1>5
    <2> QED  BY <1>1, <1>2, <1>3, <2>1 DEF Typed
<1>9. TodoIsRest'
    <2>1. \A k \in 1 .. Len(text) : (Len(text) - Len(text)) + k = k
        BY <1>2
    <2>2. Len(text) <= Len(text)
        BY <1>2
    <2> QED  BY <1>1, <1>3, <1>4, <2>1, <2>2 DEF TodoIsRest
<1>10. FullBeforeTheEnd'
    <2>1. text # << >>
        BY <1>2, EmptySeq
    <2> QED  BY <1>1, <2>1 DEF FullBeforeTheEnd
<1>11. FromTheStart' /\ Sent'
    <2>1. \A i \in DOMAIN commands' : commands'[i].outcome = "ok" =>
              i \in DOMAIN commands /\ commands[i].outcome = "ok"
        BY <1>1, <1>3
    <2> QED  BY <1>1, <1>6, <1>7, <2>1, BytesKept
<1>12. InARow'
    <2>1. Written = 0
        BY <1>1 DEF Written
    <2>2. Written' = 0
        <3>1. Len(text) - Len(text) = 0
            BY <1>2
        <3> QED  BY <1>1, <1>3, <1>4, <3>1 DEF Written
    <2>3. Len(accepted) - 0 = Len(accepted) /\ 0 <= Len(accepted) /\ 1 .. 0 = {}
          /\ Len(accepted) \in 0 .. Len(accepted)
        BY <1>6
    <2>4. Holds(Len(commands), Len(accepted) - Written, Written)'
        BY <2>2, <2>3 DEF Holds
    <2>5. ASSUME ~full PROVE Boundary(Len(accepted) - Written)'
        <3> PICK m \in Nat : m = Len(accepted)
            BY <1>6
        <3>1. Boundary(m) /\ m \in 0 .. Len(accepted)
            BY <2>1, <2>3, <2>5 DEF Inv, InARow
        <3>2. Boundary(m)'
            BY <1>1, <1>7, <3>1, BoundaryStays DEF Inv
        <3>3. Len(accepted') - Written' = m
            BY <1>1, <2>2
        <3> QED  BY <3>2, <3>3 DEF Boundary
    <2> QED  BY <1>1, <2>2, <2>3, <2>4, <2>5 DEF InARow
<1> QED  BY <1>8, <1>9, <1>10, <1>11, <1>12 DEF Inv

LEMMA DeliverKeepsInv ==
    ASSUME Inv, Deliver
    PROVE  Inv'
<1>1. /\ Typed /\ UNCHANGED <<commands, todo, accepted, full>>
      /\ delivered' \in delivered + 1 .. Len(accepted)
    BY DEF Inv, Deliver
<1>2. delivered' \in Nat /\ delivered <= delivered' /\ Len(accepted) <= Len(accepted')
      /\ delivered' \in 0 .. Len(accepted')
    BY <1>1, Numbers
<1>3. Grows
    BY <1>1, <1>2 DEF Grows, CommandsStay
<1>4. FromTheStart' /\ Sent'
    BY <1>1, <1>2, <1>3, BytesKept
<1>5. Typed'
    BY <1>1, <1>2 DEF Typed
<1>6. TodoIsRest' /\ FullBeforeTheEnd'
    BY <1>1 DEF Inv, TodoIsRest, FullBeforeTheEnd, Writing, TextOf
<1>7. InARow'
    BY <1>1 DEF Inv, InARow, Written, Writing, TextOf, Holds, Boundary, GaveUp
<1> QED  BY <1>4, <1>5, <1>6, <1>7 DEF Inv
-----------------------------------------------------------------------------
LEMMA InitInv == Init => Inv
<1> SUFFICES ASSUME Init PROVE Inv
    OBVIOUS
<1>1. /\ commands = << >> /\ todo = << >> /\ accepted = << >> /\ delivered = 0 /\ full = FALSE
      /\ Len(<< >>) = 0 /\ DOMAIN << >> = {} /\ 1 .. 0 = {} /\ 0 - 0 = 0
    BY DEF Init
<1>2. Typed
    <2>1. commands \in Seq(Records) /\ todo \in Seq(Bytes) /\ accepted \in Seq(Bytes)
        BY <1>1
    <2>2. DOMAIN commands = {} /\ full \in BOOLEAN
        BY <1>1
    <2>3. Len(accepted) = 0 /\ 0 \in 0 .. 0
        BY <1>1
    <2>4. delivered \in 0 .. Len(accepted)
        BY <1>1, <2>3
    <2> QED  BY <2>1, <2>2, <2>4 DEF Typed
<1>3. ~Writing
    BY <1>1 DEF Writing
<1>4. TodoIsRest /\ FullBeforeTheEnd /\ FromTheStart /\ Sent
    BY <1>1, <1>3 DEF TodoIsRest, FullBeforeTheEnd, FromTheStart, Sent
<1>5. InARow
    <2>1. Written = 0
        BY <1>3 DEF Written
    <2> QED  BY <1>1, <2>1 DEF InARow, Holds, Boundary
<1> QED  BY <1>2, <1>4, <1>5 DEF Inv

LEMMA NextInv == Inv /\ [Next]_vars => Inv'
<1> SUFFICES ASSUME Inv, [Next]_vars PROVE Inv'
    OBVIOUS
<1>1. ASSUME NEW kind \in Kinds, NEW width \in BodyWidths, Encode(kind, width) PROVE Inv'
    BY <1>1, EncodeKeepsInv
<1>2. ASSUME NEW n \in 1 .. Len(todo), WriteSome(n) PROVE Inv'
    BY <1>2, WriteSomeTakes, TakesKeepsInv
<1>3. CASE WriteZero
    <2>1. Abandons("failed")
        BY <1>3 DEF WriteZero, InPiece, Abandons
    <2> QED  BY <2>1, AbandonKeepsInv
<1>4. CASE WriteSpace
    <2>1. CASE ~full /\ accepted' = Append(accepted, Head(todo)) /\ UNCHANGED full
        BY <1>4, <2>1, WriteSpaceTakes, TakesKeepsInv
    <2>2. CASE full' = TRUE /\ UNCHANGED accepted
        BY <1>4, <2>2, RefusedKeepsInv
    <2> QED  BY <1>4, <2>1, <2>2 DEF WriteSpace
<1>5. CASE Flush
    BY <1>5, FlushKeepsInv
<1>6. CASE WriteFails
    <2>1. Abandons("failed")
        BY <1>6 DEF WriteFails, Abandons
    <2> QED  BY <2>1, AbandonKeepsInv
<1>7. CASE Drop
    <2>1. Abandons("dropped")
        BY <1>7 DEF Drop, Abandons
    <2> QED  BY <2>1, AbandonKeepsInv
<1>8. CASE Deliver
    BY <1>8, DeliverKeepsInv
<1>9. CASE UNCHANGED vars
    <2>1. UNCHANGED <<commands, todo, accepted, delivered, full>>
        BY <1>9 DEF vars
    <2>2. Typed' /\ TodoIsRest' /\ FullBeforeTheEnd'
        BY <2>1 DEF Inv, Typed, TodoIsRest, FullBeforeTheEnd, Writing, TextOf
    <2>3. InARow'
        BY <2>1 DEF Inv, InARow, Written, Writing, TextOf, Holds, Boundary, GaveUp
    <2>4. FromTheStart' /\ Sent'
        <3>1. Len(accepted) <= Len(accepted') /\ delivered <= delivered' /\ delivered' \in Nat
            BY <2>1, Numbers DEF Inv
        <3>2. Grows
            BY <2>1, <3>1 DEF Grows, CommandsStay
        <3> QED  BY <2>1, <3>1, <3>2, BytesKept
    <2> QED  BY <2>2, <2>3, <2>4 DEF Inv
<1> QED  BY <1>1, <1>2, <1>3, <1>4, <1>5, <1>6, <1>7, <1>8, <1>9 DEF Next, Write

\* The inductive invariant: while the transport takes bytes, the last ones are
\* the beginning of the command at work, after a line or a command that gave up.
THEOREM Invariance == Spec => []Inv
BY InitInv, NextInv, PTL DEF Spec

-----------------------------------------------------------------------------
\* A sequence whose elements are the last ones of another is its suffix.
LEMMA LastElementsAreSuffix ==
    ASSUME NEW S, NEW s \in Seq(S), NEW t \in Seq(S), Len(s) <= Len(t),
           \A k \in 1 .. Len(s) : s[k] = t[(Len(t) - Len(s)) + k]
    PROVE  IsSuffix(s, t)
<1> DEFINE rs == Reverse(s)
           rt == Reverse(t)
           m == Len(s)
           n == Len(t)
<1>1. /\ m \in Nat /\ n \in Nat /\ m <= n
      /\ (\A k \in 1 .. m : s[k] \in S) /\ (\A k \in 1 .. n : t[k] \in S)
    BY LenProperties, ElementOfSeq
<1>2. /\ rs = [i \in 1 .. m |-> s[(m - i) + 1]]
      /\ rt = [i \in 1 .. n |-> t[(n - i) + 1]]
    BY DEF Reverse
<1> HIDE DEF rs, rt
<1>3. \A k \in 1 .. m : s[k] = t[(n - m) + k]
    OBVIOUS
<1> HIDE DEF m, n
<1>4. ASSUME NEW i \in 1 .. m
      PROVE  rs[i] = rt[i] /\ rs[i] \in S
    <2>1. (m - i) + 1 \in 1 .. m /\ (n - i) + 1 = (n - m) + ((m - i) + 1) /\ i \in 1 .. n
        BY <1>1
    <2>2. rs[i] = s[(m - i) + 1] /\ rt[i] = t[(n - i) + 1]
        BY <1>2, <2>1
    <2>3. s[(m - i) + 1] = t[(n - m) + ((m - i) + 1)] /\ s[(m - i) + 1] \in S
        BY <1>1, <1>3, <2>1
    <2> QED  BY <2>1, <2>2, <2>3
<1>5. \A i \in 1 .. n : rt[i] \in S
    <2> TAKE i \in 1 .. n
    <2>1. (n - i) + 1 \in 1 .. n /\ rt[i] = t[(n - i) + 1]
        BY <1>1, <1>2
    <2> QED  BY <1>1, <2>1
<1>6. /\ rs \in Seq(S) /\ Len(rs) = m
      /\ rt \in Seq(S) /\ Len(rt) = n
    <2>1. DOMAIN rs = 1 .. m /\ rs = [i \in 1 .. m |-> rs[i]]
        BY <1>2
    <2>2. DOMAIN rt = 1 .. n /\ rt = [i \in 1 .. n |-> rt[i]]
        BY <1>2
    <2>3. rs \in Seq(S)
        <3>1. \A i \in 1 .. m : rs[i] \in S
            BY <1>4
        <3>2. m \in Nat
            BY <1>1
        <3> QED  BY <2>1, <3>1, <3>2
    <2>4. rt \in Seq(S)
        <3>1. n \in Nat
            BY <1>1
        <3> QED  BY <1>5, <2>2, <3>1
    <2>5. m \in Nat /\ n \in Nat
        BY <1>1
    <2>6. Len(rs) = m
        BY <2>1, <2>3, <2>5, LenProperties
    <2>7. Len(rt) = n
        BY <2>2, <2>4, <2>5, LenProperties
    <2> QED  BY <2>3, <2>4, <2>6, <2>7
<1>7. SubSeq(rs, 1, m) = SubSeq(rt, 1, m)
    <2>1. 1 \in Int /\ m \in Int /\ (\A i \in 1 .. m : rs[i] \in S /\ rt[i] \in S)
          /\ (m - 1) + 1 = m /\ (IF 1 <= m THEN (m - 1) + 1 ELSE 0) = m
          /\ \A i \in 1 .. m : (1 + i) - 1 = i
        BY <1>1, <1>4
    <2> DEFINE u == SubSeq(rs, 1, m)
               v == SubSeq(rt, 1, m)
    <2>2. u \in Seq(S) /\ Len(u) = m /\ \A i \in 1 .. m : u[i] = rs[i]
        BY <2>1, SubSeqProperties
    <2>3. v \in Seq(S) /\ Len(v) = m /\ \A i \in 1 .. m : v[i] = rt[i]
        BY <2>1, SubSeqProperties
    <2> HIDE DEF u, v
    <2>4. u = v
        BY <1>4, <2>2, <2>3, SeqEqual
    <2> QED  BY <2>4 DEF u, v
<1> QED  BY <1>1, <1>6, <1>7 DEF IsSuffix, IsPrefix, rs, rt, m, n

LEMMA InvImpliesTypeOK == Inv => TypeOK
<1> SUFFICES ASSUME Inv PROVE TypeOK
    OBVIOUS
<1>1. ASSUME todo # << >> PROVE Writing /\ IsSuffix(todo, TextOf(Len(commands)))
    <2>1. Writing /\ Typed
        BY <1>1 DEF Inv, TodoIsRest
    <2>2. TextOf(Len(commands)) \in Seq(Bytes) /\ todo \in Seq(Bytes)
        BY <2>1, Numbers, TextOfCommand DEF Typed
    <2> PICK text : text = TextOf(Len(commands))
        OBVIOUS
    <2>3. /\ Len(todo) <= Len(text)
          /\ \A k \in 1 .. Len(todo) : todo[k] = text[(Len(text) - Len(todo)) + k]
        BY <2>1 DEF Inv, TodoIsRest
    <2> QED  BY <2>1, <2>2, <2>3, LastElementsAreSuffix
<1> QED  BY <1>1 DEF Inv, Typed, Records, TypeOK

\* len bytes that are those of a text are the text.
LEMMA TheText ==
    ASSUME NEW queue \in Seq(Bytes), NEW text \in Seq(Bytes), NEW i \in Nat,
           i + Len(text) <= Len(queue),
           \A k \in 1 .. Len(text) : queue[i + k] = text[k]
    PROVE  SubSeq(queue, i + 1, i + Len(text)) = text
<1> DEFINE len == Len(text)
           s == SubSeq(queue, i + 1, i + len)
<1>1. /\ len \in Nat /\ Len(queue) \in Nat /\ i + len <= Len(queue)
      /\ \A k \in 1 .. Len(queue) : queue[k] \in Bytes
    BY LenProperties, ElementOfSeq
<1>2. /\ i + 1 \in Int /\ i + len \in Int
      /\ \A k \in i + 1 .. i + len : queue[k] \in Bytes
    <2> HIDE DEF len
    <2> QED  BY <1>1
<1>3. /\ s \in Seq(Bytes)
      /\ Len(s) = IF i + 1 <= i + len THEN ((i + len) - (i + 1)) + 1 ELSE 0
      /\ \A k \in 1 .. ((i + len) - (i + 1)) + 1 : s[k] = queue[((i + 1) + k) - 1]
    BY <1>2, SubSeqProperties
<1>4. \A k \in 1 .. len : queue[i + k] = text[k]
    OBVIOUS
<1> HIDE DEF s, len
<1>5. Len(s) = len /\ ((i + len) - (i + 1)) + 1 = len
    BY <1>1, <1>3
<1>6. \A k \in 1 .. len : s[k] = text[k]
    <2> TAKE k \in 1 .. len
    <2>1. ((i + 1) + k) - 1 = i + k
        BY <1>1
    <2>2. s[k] = queue[((i + 1) + k) - 1]
        BY <1>3, <1>5
    <2> QED  BY <1>4, <2>1, <2>2
<1>7. s = text
    <2>1. Len(s) = Len(text) /\ \A k \in 1 .. Len(s) : s[k] = text[k]
        BY <1>5, <1>6 DEF len
    <2> QED  BY <1>3, <2>1, SeqEqual
<1> QED  BY <1>7 DEF s, len

LEMMA InvImpliesOkMeansSent == Inv => OkMeansSent
<1> SUFFICES ASSUME Inv, NEW c \in DOMAIN commands, commands[c].outcome = "ok"
             PROVE  \E i \in 0 .. delivered - Len(TextOf(c)) :
                        /\ SubSeq(accepted, i + 1, i + Len(TextOf(c))) = TextOf(c)
                        /\ i > 0 => EndsLine(accepted[i]) \/ GaveUp(accepted[i].cmd)
    BY DEF OkMeansSent
<1>1. PICK i \in 0 .. delivered - Len(TextOf(c)) : Holds(c, i, Len(TextOf(c))) /\ Boundary(i)
    BY DEF Inv, Sent, IsSent
<1>2. /\ accepted \in Seq(Bytes) /\ TextOf(c) \in Seq(Bytes)
      /\ delivered \in Nat /\ Len(accepted) \in Nat /\ delivered <= Len(accepted)
      /\ Len(TextOf(c)) \in Nat
    BY Numbers, TextOfCommand DEF Inv, Typed
<1>3. i \in Nat /\ i + Len(TextOf(c)) <= Len(accepted)
    <2>1. delivered <= delivered
        BY <1>2
    <2> QED  BY <1>1, <1>2, <2>1, StillFits
<1>4. SubSeq(accepted, i + 1, i + Len(TextOf(c))) = TextOf(c)
    BY <1>1, <1>2, <1>3, TheText DEF Holds
<1> QED  BY <1>1, <1>4 DEF Boundary

LEMMA InvImpliesEndedLineIsComplete == Inv => EndedLineIsComplete
<1> SUFFICES ASSUME Inv, NEW i \in 1 .. Len(accepted), EndsLine(accepted[i])
             PROVE  LET text == TextOf(accepted[i].cmd) IN
                    i >= Len(text) /\ SubSeq(accepted, (i - Len(text)) + 1, i) = text
    BY DEF EndedLineIsComplete
<1> PICK c \in DOMAIN commands : c = accepted[i].cmd
    BY DEF Inv, FromTheStart, IsPreceded
<1> PICK text : text = TextOf(c)
    OBVIOUS
<1>1. PICK p \in 1 .. Len(text) : p <= i /\ Holds(c, i - p, p)
    BY DEF Inv, FromTheStart, IsPreceded
<1>2. /\ accepted \in Seq(Bytes) /\ text \in Seq(Bytes) /\ Len(text) \in Nat
      /\ Len(accepted) \in Nat /\ i \in Nat /\ i <= Len(accepted)
    BY Numbers, TextOfCommand DEF Inv, Typed
<1>3. p = Len(text)
    <2>1. p \in 1 .. p /\ (i - p) + p = i
        BY <1>1, <1>2
    <2>2. accepted[i] = text[p]
        BY <1>1, <2>1 DEF Holds
    <2> QED  BY <1>1, <2>2, TextOfCommand DEF Inv
<1>4. /\ i - Len(text) \in Nat /\ (i - Len(text)) + Len(text) = i
      /\ (i - Len(text)) + Len(text) <= Len(accepted) /\ i >= Len(text)
    BY <1>1, <1>2, <1>3
<1>5. \A k \in 1 .. Len(text) : accepted[(i - Len(text)) + k] = text[k]
    BY <1>1, <1>3 DEF Holds
<1>6. SubSeq(accepted, (i - Len(text)) + 1, (i - Len(text)) + Len(text)) = text
    BY <1>2, <1>4, <1>5, TheText
<1> QED  BY <1>4, <1>6

\* What is to be written is always the end of the text of the last command.
THEOREM TypeCorrect == Spec => []TypeOK
BY Invariance, InvImpliesTypeOK, PTL

\* A command that encode and flush confirmed has left for the server, whole, and
\* as a line of its own unless the one before it gave up: for every width of
\* tags and lines, and every way they are cut into writes.
THEOREM OkIsSent == Spec => []OkMeansSent
BY Invariance, InvImpliesOkMeansSent, PTL

\* The end of a line is only written after all of its command: write, whose
\* count encode ignores for the space, loses it only to a transport that takes
\* nothing after it.
THEOREM EndedLinesComplete == Spec => []EndedLineIsComplete
BY Invariance, InvImpliesEndedLineIsComplete, PTL
=============================================================================
