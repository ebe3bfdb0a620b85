----------------------------- MODULE IdleProofs -----------------------------
(***************************************************************************)
(* IDLE for every capacity of the channel and every number of updates and  *)
(* keepalives: the types, that no update is lost or given twice, and that  *)
(* done() gives back a session that is out of IDLE.                        *)
(*                                                                         *)
(* The futures of init and wait may be dropped anywhere, so the client may *)
(* be ahead of the server: DONE may be sent before IDLE was received.      *)
(* SessionIsClean holds all the same, as the server's OK is the last thing *)
(* it says of this IDLE (OkIsLast) and DONE the last line (LinesInOrder).  *)
(***************************************************************************)
EXTENDS Idle, QueueProofs

Lines == {"idle", "done"}

\* IDLE, then DONE, each once; DONE only when no call is to come.
LinesInOrder ==
    /\ toServer \in {<< >>, <<"idle">>, <<"idle", "done">>, <<"done">>}
    /\ phase = "new" => toServer = << >>
    /\ phase \in {"init", "ready", "wait"} => toServer \in {<< >>, <<"idle">>}

\* The answer that makes done() give the session back.
IsOk(response) == response.kind = "done" /\ response.status = "ok" /\ response.own

\* Neither side has anything more to say of this IDLE.
Ended == server = "free" /\ toServer = << >> /\ phase \in {"done", "session", "failed"}

OkIsLast ==
    \A i \in DOMAIN toClient : IsOk(toClient[i]) =>
        Ended /\ \A j \in DOMAIN toClient : j > i => toClient[j].kind = "note"

\* The updates that are somewhere were sent.
AreSent(queue) == \A i \in DOMAIN queue : queue[i].kind = "note" => queue[i].n \in 1 .. notes

NotesAreSent == AreSent(reported) /\ AreSent(unsolicited) /\ AreSent(toClient)

\* An update is on the wire once.
EachNoteOnce ==
    \A i, j \in DOMAIN toClient :
        /\ toClient[i].kind = "note" /\ toClient[j].kind = "note"
        /\ toClient[i].n = toClient[j].n
        => i = j

Inv ==
    /\ TypeOK
    /\ LinesInOrder
    /\ OkIsLast
    /\ SessionIsClean
    /\ NotesAreSent
    /\ EachNoteOnce
    /\ NoUpdateLost

-----------------------------------------------------------------------------
LEMMA Types ==
    ASSUME TypeOK
    PROVE  /\ reported \in Seq(Responses)
           /\ unsolicited \in Seq(Responses) /\ toClient \in Seq(Responses)
           /\ Len(unsolicited) \in Nat /\ Len(unsolicited) <= ChannelCap
           /\ toServer \in Seq(Lines)
           /\ notes \in Nat /\ notes <= MaxNotes
           /\ ChannelCap \in Nat /\ MaxNotes \in Nat /\ MaxKeepalives \in Nat
BY LenProperties, IdleAssumption DEF TypeOK, Lines

\* Where an update is found, when a response is put behind or in front.
LEMMA HoldsAppend ==
    ASSUME NEW q \in Seq(Responses), NEW e \in Responses, NEW n
    PROVE  Holds(Append(q, e), n) <=> Holds(q, n) \/ (e.kind = "note" /\ e.n = n)
<1>1. /\ \A i \in DOMAIN q : i \in DOMAIN Append(q, e) /\ Append(q, e)[i] = q[i]
      /\ \A i \in DOMAIN Append(q, e) :
             \/ i \in DOMAIN q /\ Append(q, e)[i] = q[i]
             \/ i = Len(q) + 1 /\ Append(q, e)[i] = e
      /\ Len(q) + 1 \in DOMAIN Append(q, e)
      /\ Append(q, e)[Len(q) + 1] = e
    BY QueueAppend
<1> QED  BY <1>1 DEF Holds

LEMMA HoldsTail ==
    ASSUME NEW q \in Seq(Responses), q # << >>, NEW n
    PROVE  Holds(q, n) <=> Holds(Tail(q), n) \/ (Head(q).kind = "note" /\ Head(q).n = n)
<1>1. /\ 1 \in DOMAIN q /\ Head(q) = q[1]
      /\ \A i \in DOMAIN Tail(q) : i + 1 \in DOMAIN q /\ Tail(q)[i] = q[i + 1]
      /\ \A i \in DOMAIN q : i # 1 => i - 1 \in DOMAIN Tail(q) /\ Tail(q)[i - 1] = q[i]
    BY QueueTail
<1>2. ASSUME NEW i \in DOMAIN q, q[i].kind = "note", q[i].n = n
      PROVE  Holds(Tail(q), n) \/ (Head(q).kind = "note" /\ Head(q).n = n)
    <2>1. CASE i = 1
        BY <1>1, <1>2, <2>1
    <2>2. CASE i # 1
        BY <1>1, <1>2, <2>2 DEF Holds
    <2> QED  BY <2>1, <2>2
<1> QED  BY <1>1, <1>2 DEF Holds

LEMMA HoldsConcat ==
    ASSUME NEW p \in Seq(Responses), NEW q \in Seq(Responses), NEW n
    PROVE  Holds(p \o q, n) <=> Holds(p, n) \/ Holds(q, n)
<1> DEFINE both == p \o q
<1>1. /\ both \in Seq(Responses)
      /\ Len(both) = Len(p) + Len(q)
      /\ \A i \in 1 .. Len(p) + Len(q) : both[i] =
             IF i <= Len(p) THEN p[i] ELSE q[i - Len(p)]
    BY ConcatProperties
<1> HIDE DEF both
<1>2. /\ Len(p) \in Nat /\ DOMAIN p = 1 .. Len(p)
      /\ Len(q) \in Nat /\ DOMAIN q = 1 .. Len(q)
      /\ DOMAIN both = 1 .. Len(p) + Len(q)
    BY <1>1, LenProperties
<1>3. ASSUME NEW i \in DOMAIN p PROVE i \in DOMAIN both /\ both[i] = p[i]
    BY <1>1, <1>2
<1>4. ASSUME NEW i \in DOMAIN q
      PROVE  i + Len(p) \in DOMAIN both /\ both[i + Len(p)] = q[i]
    <2>1. i + Len(p) \in 1 .. Len(p) + Len(q) /\ ~(i + Len(p) <= Len(p))
          /\ (i + Len(p)) - Len(p) = i
        BY <1>2
    <2> QED  BY <1>1, <1>2, <2>1
<1>5. ASSUME NEW i \in DOMAIN both
      PROVE  \/ i \in DOMAIN p /\ both[i] = p[i]
             \/ i - Len(p) \in DOMAIN q /\ both[i] = q[i - Len(p)]
    <2>1. CASE i <= Len(p)
        <3>1. i \in 1 .. Len(p)
            BY <1>2, <2>1
        <3> QED  BY <1>1, <1>2, <2>1, <3>1
    <2>2. CASE ~(i <= Len(p))
        <3>1. i - Len(p) \in 1 .. Len(q)
            BY <1>2, <2>2
        <3> QED  BY <1>1, <1>2, <2>2, <3>1
    <2> QED  BY <2>1, <2>2
<1>6. Holds(both, n) => Holds(p, n) \/ Holds(q, n)
    BY <1>5 DEF Holds
<1>7. Holds(p, n) => Holds(both, n)
    BY <1>3 DEF Holds
<1>8. Holds(q, n) => Holds(both, n)
    BY <1>4 DEF Holds
<1> QED  BY <1>6, <1>7, <1>8 DEF both

\* What NoUpdateLost asks for one update: it is in one place, and in one only.
Placed(given, kept, wire, n) ==
    /\ Holds(given, n) \/ Holds(kept, n) \/ Holds(wire, n) \/ Len(kept) = ChannelCap
    /\ ~(Holds(given, n) /\ Holds(kept, n))
    /\ ~(Holds(given, n) /\ Holds(wire, n))
    /\ ~(Holds(kept, n) /\ Holds(wire, n))

LEMMA PlacedIsNotLost ==
    ASSUME NEW given, NEW kept \in Seq(Responses), NEW wire \in Seq(Responses), NEW n
    PROVE  Placed(given, kept, wire, n) <=>
               /\ Holds(given, n) \/ Holds(kept, n) \/ Holds(wire, n) \/ Len(kept) = ChannelCap
               /\ ~(Holds(given, n) /\ Holds(kept \o wire, n))
               /\ ~(Holds(kept, n) /\ Holds(wire, n))
<1>1. Holds(kept \o wire, n) <=> Holds(kept, n) \/ Holds(wire, n)
    BY HoldsConcat
<1> QED  BY <1>1 DEF Placed

-----------------------------------------------------------------------------
\* The invariant holds of a new Handle.
LEMMA InvInit == Init => Inv
<1> SUFFICES ASSUME Init PROVE Inv
    OBVIOUS
<1>1. /\ phase = "new" /\ stopped = FALSE /\ outcome = "none" /\ answered = FALSE
      /\ reported = << >> /\ unsolicited = << >> /\ toServer = << >> /\ toClient = << >>
      /\ server = "free" /\ notes = 0 /\ keepalives = 0 /\ conn = "up"
    BY DEF Init
<1>2. /\ reported \in Seq(Responses) /\ unsolicited \in Seq(Responses)
      /\ toClient \in Seq(Responses) /\ toServer \in Seq(Lines) /\ Len(unsolicited) = 0
    BY <1>1, EmptySeq
<1>3. TypeOK
    <2>1. notes \in 0 .. MaxNotes /\ keepalives \in 0 .. MaxKeepalives
        BY <1>1, IdleAssumption
    <2>2. Len(unsolicited) <= ChannelCap
        BY <1>2, IdleAssumption
    <2> QED  BY <1>1, <1>2, <2>1, <2>2 DEF TypeOK, Lines
<1>4. LinesInOrder /\ SessionIsClean
    BY <1>1 DEF LinesInOrder, SessionIsClean
<1>5. DOMAIN << >> = {}
    OBVIOUS
<1>6. OkIsLast /\ EachNoteOnce /\ NotesAreSent
    BY <1>1, <1>5 DEF OkIsLast, EachNoteOnce, NotesAreSent, AreSent
<1>7. NoUpdateLost
    BY <1>1 DEF NoUpdateLost
<1> QED  BY <1>3, <1>4, <1>6, <1>7 DEF Inv

-----------------------------------------------------------------------------
\* A call begins or ends and no response is read: the queues stay.
LEMMA QuietStepKeepsInv ==
    ASSUME Inv,
           UNCHANGED <<reported, answered, unsolicited, toServer, toClient,
                       server, notes, keepalives, conn>>,
           \/ phase' = phase
           \/ phase' = "failed"
           \/ phase \in {"init", "ready", "wait"} /\ phase' \in {"ready", "wait"},
           stopped' \in BOOLEAN,
           outcome' \in {"none", "ok", "no", "bad", "refused", "io", "lost",
                         "interrupt", "timeout", "newdata"}
    PROVE  Inv'
<1>1. TypeOK'
    BY DEF Inv, TypeOK
<1>2. LinesInOrder'
    BY DEF Inv, LinesInOrder
<1>3. OkIsLast'
    <2>1. Ended => Ended'
        BY DEF Ended
    <2> QED  BY <2>1 DEF Inv, OkIsLast
<1>4. SessionIsClean'
    BY DEF Inv, SessionIsClean
<1>5. NotesAreSent' /\ EachNoteOnce' /\ NoUpdateLost'
    BY DEF Inv, NotesAreSent, AreSent, EachNoteOnce, NoUpdateLost
<1> QED  BY <1>1, <1>2, <1>3, <1>4, <1>5 DEF Inv

\* A line is written: IDLE first, DONE when no call is to come.
LEMMA StartInitKeepsInv == Inv /\ StartInit => Inv'
<1> SUFFICES ASSUME Inv, StartInit PROVE Inv'
    OBVIOUS
<1>1. /\ phase = "new" /\ phase' = "init" /\ toServer' = Append(toServer, "idle")
      /\ UNCHANGED <<stopped, outcome, reported, answered, unsolicited, toClient,
                     server, notes, keepalives, conn>>
    BY DEF StartInit, resultVars, serverVars
<1>2. toServer = << >>
    BY <1>1 DEF Inv, LinesInOrder
<1>3. toServer' = <<"idle">> /\ toServer' \in Seq(Lines)
    BY <1>1, <1>2 DEF Lines
<1>4. TypeOK'
    BY <1>1, <1>3 DEF Inv, TypeOK, Lines
<1>5. LinesInOrder' /\ SessionIsClean'
    BY <1>1, <1>3 DEF LinesInOrder, SessionIsClean
<1>6. OkIsLast'
    <2>1. ~Ended
        BY <1>1 DEF Ended
    <2> QED  BY <1>1, <2>1 DEF Inv, OkIsLast
<1>7. NotesAreSent' /\ EachNoteOnce' /\ NoUpdateLost'
    BY <1>1 DEF Inv, NotesAreSent, AreSent, EachNoteOnce, NoUpdateLost
<1> QED  BY <1>4, <1>5, <1>6, <1>7 DEF Inv

LEMMA StartDoneKeepsInv == Inv /\ StartDone => Inv'
<1> SUFFICES ASSUME Inv, StartDone PROVE Inv'
    OBVIOUS
<1>1. /\ phase = "ready" /\ phase' = "done" /\ toServer' = Append(toServer, "done")
      /\ UNCHANGED <<stopped, outcome, reported, answered, unsolicited, toClient,
                     server, notes, keepalives, conn>>
    BY DEF StartDone, resultVars, serverVars
<1>2. toServer \in {<< >>, <<"idle">>}
    BY <1>1 DEF Inv, LinesInOrder
<1>3. toServer' \in {<<"done">>, <<"idle", "done">>} /\ toServer' \in Seq(Lines)
    <2>1. CASE toServer = << >>
        <3>1. toServer' = <<"done">>
            BY <1>1, <2>1
        <3> QED  BY <3>1 DEF Lines
    <2>2. CASE toServer = <<"idle">>
        <3>1. toServer' = <<"idle", "done">>
            BY <1>1, <2>2, QueueOfTwo
        <3> QED  BY <3>1 DEF Lines
    <2> QED  BY <1>2, <2>1, <2>2
<1>4. TypeOK'
    BY <1>1, <1>3 DEF Inv, TypeOK, Lines
<1>5. LinesInOrder' /\ SessionIsClean'
    BY <1>1, <1>3 DEF LinesInOrder, SessionIsClean
<1>6. OkIsLast'
    <2>1. ~Ended
        BY <1>1 DEF Ended
    <2> QED  BY <1>1, <2>1 DEF Inv, OkIsLast
<1>7. NotesAreSent' /\ EachNoteOnce' /\ NoUpdateLost'
    BY <1>1 DEF Inv, NotesAreSent, AreSent, EachNoteOnce, NoUpdateLost
<1> QED  BY <1>4, <1>5, <1>6, <1>7 DEF Inv

-----------------------------------------------------------------------------
\* What is left on the wire when the client has read a response.
LEMMA ResponseRead ==
    ASSUME Inv, toClient # << >>, toClient' = Tail(toClient)
    PROVE  /\ toClient' \in Seq(Responses)
           /\ r \in Responses /\ 1 \in DOMAIN toClient /\ r = toClient[1]
           /\ \A i \in DOMAIN toClient' :
                  /\ i \in Nat \ {0} /\ i + 1 \in DOMAIN toClient
                  /\ toClient'[i] = toClient[i + 1]
           /\ \A n : Holds(toClient, n) <=>
                  Holds(toClient', n) \/ (r.kind = "note" /\ r.n = n)
           /\ \A n : r.kind = "note" /\ r.n = n => ~Holds(toClient', n)
<1>1. toClient \in Seq(Responses)
    BY Types DEF Inv
<1>2. /\ Tail(toClient) \in Seq(Responses)
      /\ Head(toClient) \in Responses /\ 1 \in DOMAIN toClient /\ Head(toClient) = toClient[1]
      /\ \A i \in DOMAIN Tail(toClient) :
             /\ i \in Nat \ {0} /\ i + 1 \in DOMAIN toClient
             /\ Tail(toClient)[i] = toClient[i + 1]
    BY <1>1, QueueTail
<1>3. \A n : Holds(toClient, n) <=>
          Holds(Tail(toClient), n) \/ (Head(toClient).kind = "note" /\ Head(toClient).n = n)
    BY <1>1, HoldsTail
<1>4. ASSUME NEW n, toClient[1].kind = "note", toClient[1].n = n, Holds(toClient', n)
      PROVE  FALSE
    <2>1. PICK i \in DOMAIN toClient' : toClient'[i].kind = "note" /\ toClient'[i].n = n
        BY <1>4 DEF Holds
    <2>2. /\ i \in Nat \ {0} /\ i + 1 \in DOMAIN toClient
          /\ toClient[i + 1].kind = "note" /\ toClient[i + 1].n = n
        BY <1>2, <2>1
    <2>3. i + 1 = 1
        BY <1>2, <1>4, <2>2 DEF Inv, EachNoteOnce
    <2> QED  BY <2>2, <2>3
<1> QED  BY <1>2, <1>3, <1>4 DEF r

\* The response that is read goes to the caller, or to the channel if that has
\* room, or, if it is no update, anywhere.
Handled ==
    \/ reported' = Append(reported, r) /\ unsolicited' = unsolicited
    \/ /\ unsolicited' = IF Len(unsolicited) >= ChannelCap THEN unsolicited
                                                           ELSE Append(unsolicited, r)
       /\ reported' = reported
    \/ r.kind # "note" /\ UNCHANGED <<reported, unsolicited>>

\* An update that is read leaves the wire for one other place.
LEMMA UpdateMoves ==
    ASSUME Inv, toClient # << >>, toClient' = Tail(toClient), notes' = notes, Handled
    PROVE  /\ reported' \in Seq(Responses)
           /\ unsolicited' \in Seq(Responses) /\ Len(unsolicited') <= ChannelCap
           /\ NotesAreSent' /\ EachNoteOnce' /\ NoUpdateLost'
<1>1. /\ reported \in Seq(Responses)
      /\ unsolicited \in Seq(Responses) /\ toClient \in Seq(Responses)
      /\ Len(unsolicited) \in Nat /\ Len(unsolicited) <= ChannelCap /\ ChannelCap \in Nat
    BY Types DEF Inv
<1>2. /\ toClient' \in Seq(Responses)
      /\ r \in Responses /\ 1 \in DOMAIN toClient /\ r = toClient[1]
      /\ \A i \in DOMAIN toClient' :
             /\ i \in Nat \ {0} /\ i + 1 \in DOMAIN toClient
             /\ toClient'[i] = toClient[i + 1]
      /\ \A n : Holds(toClient, n) <=>
             Holds(toClient', n) \/ (r.kind = "note" /\ r.n = n)
      /\ \A n : r.kind = "note" /\ r.n = n => ~Holds(toClient', n)
    BY ResponseRead
<1>3. ASSUME NEW queue \in Seq(Responses)
      PROVE  /\ Append(queue, r) \in Seq(Responses)
             /\ Len(Append(queue, r)) = Len(queue) + 1
             /\ AreSent(queue) => AreSent(Append(queue, r))
             /\ \A n : Holds(Append(queue, r), n) <=>
                    Holds(queue, n) \/ (r.kind = "note" /\ r.n = n)
    <2>1. /\ Append(queue, r) \in Seq(Responses)
          /\ Len(Append(queue, r)) = Len(queue) + 1
          /\ \A i \in DOMAIN Append(queue, r) :
                 \/ i \in DOMAIN queue /\ Append(queue, r)[i] = queue[i]
                 \/ i = Len(queue) + 1 /\ Append(queue, r)[i] = r
        BY <1>2, QueueAppend
    <2>2. r.kind = "note" => r.n \in 1 .. notes
        BY <1>2 DEF Inv, NotesAreSent, AreSent
    <2>3. AreSent(queue) => AreSent(Append(queue, r))
        BY <2>1, <2>2 DEF AreSent
    <2>4. \A n : Holds(Append(queue, r), n) <=>
              Holds(queue, n) \/ (r.kind = "note" /\ r.n = n)
        BY <1>2, HoldsAppend
    <2> QED  BY <2>1, <2>3, <2>4
<1>4. AreSent(reported) /\ AreSent(unsolicited) /\ AreSent(toClient)
    BY DEF Inv, NotesAreSent
<1>5. /\ reported' \in Seq(Responses)
      /\ unsolicited' \in Seq(Responses) /\ Len(unsolicited') <= ChannelCap
      /\ AreSent(reported') /\ AreSent(unsolicited')
    <2>1. CASE reported' = Append(reported, r) /\ unsolicited' = unsolicited
        BY <1>1, <1>3, <1>4, <2>1
    <2>2. CASE UNCHANGED <<reported, unsolicited>>
        BY <1>1, <1>4, <2>2
    <2>3. CASE /\ Len(unsolicited) < ChannelCap
               /\ unsolicited' = Append(unsolicited, r) /\ reported' = reported
        <3>1. Len(Append(unsolicited, r)) <= ChannelCap
            BY <1>1, <1>3, <2>3
        <3> QED  BY <1>1, <1>3, <1>4, <2>3, <3>1
    <2> QED  BY <1>1, <2>1, <2>2, <2>3 DEF Handled
<1>6. NotesAreSent'
    <2>1. AreSent(toClient')
        BY <1>2, <1>4 DEF AreSent
    <2> QED  BY <1>5, <2>1 DEF NotesAreSent, AreSent
<1>7. EachNoteOnce'
    <2> SUFFICES ASSUME NEW i \in DOMAIN toClient', NEW j \in DOMAIN toClient',
                        toClient'[i].kind = "note", toClient'[j].kind = "note",
                        toClient'[i].n = toClient'[j].n
                 PROVE  i = j
        BY DEF EachNoteOnce
    <2>1. /\ i \in Nat /\ i + 1 \in DOMAIN toClient /\ toClient'[i] = toClient[i + 1]
          /\ j \in Nat /\ j + 1 \in DOMAIN toClient /\ toClient'[j] = toClient[j + 1]
        BY <1>2
    <2>2. i + 1 = j + 1
        BY <2>1 DEF Inv, EachNoteOnce
    <2> QED  BY <2>1, <2>2
<1>8. ASSUME NEW n \in 1 .. notes PROVE Placed(reported', unsolicited', toClient', n)
    <2>1. Placed(reported, unsolicited, toClient, n)
        BY <1>1, PlacedIsNotLost DEF Inv, NoUpdateLost
    <2>2. /\ Holds(toClient, n) <=> Holds(toClient', n) \/ (r.kind = "note" /\ r.n = n)
          /\ r.kind = "note" /\ r.n = n => ~Holds(toClient', n)
        BY <1>2
    <2>3. CASE reported' = Append(reported, r) /\ unsolicited' = unsolicited
        <3>1. Holds(reported', n) <=> Holds(reported, n) \/ (r.kind = "note" /\ r.n = n)
            BY <1>1, <1>3, <2>3
        <3> QED  BY <2>1, <2>2, <2>3, <3>1 DEF Placed
    <2>4. CASE /\ Len(unsolicited) < ChannelCap
               /\ unsolicited' = Append(unsolicited, r) /\ reported' = reported
        <3>1. Holds(unsolicited', n) <=> Holds(unsolicited, n) \/ (r.kind = "note" /\ r.n = n)
            BY <1>1, <1>3, <2>4
        <3>2. Len(unsolicited) # ChannelCap
            BY <1>1, <2>4
        <3> QED  BY <2>1, <2>2, <2>4, <3>1, <3>2 DEF Placed
    <2>5. CASE Len(unsolicited) >= ChannelCap /\ UNCHANGED <<reported, unsolicited>>
        <3>1. Len(unsolicited) = ChannelCap
            BY <1>1, <2>5
        <3> QED  BY <2>1, <2>2, <2>5, <3>1 DEF Placed
    <2>6. CASE r.kind # "note" /\ UNCHANGED <<reported, unsolicited>>
        BY <2>1, <2>2, <2>6 DEF Placed
    <2> QED  BY <1>1, <2>3, <2>4, <2>5, <2>6 DEF Handled
<1>9. NoUpdateLost'
    BY <1>2, <1>5, <1>8, PlacedIsNotLost DEF NoUpdateLost
<1> QED  BY <1>5, <1>6, <1>7, <1>9

\* A response is read: only the answer OK of this IDLE gives the session back.
LEMMA ReadStepKeepsInv ==
    ASSUME Inv, toClient # << >>, toClient' = Tail(toClient), Handled,
           UNCHANGED <<stopped, toServer, server, notes, keepalives, conn>>,
           answered' \in BOOLEAN,
           outcome' \in {"none", "ok", "no", "bad", "refused", "io", "lost",
                         "interrupt", "timeout", "newdata"},
           \/ phase \in {"init", "wait"} /\ phase' \in {phase, "ready"}
           \/ phase = "ready" /\ phase' = "ready"
           \/ phase = "done" /\ phase' \in {"done", "failed"}
           \/ phase = "done" /\ phase' = "session" /\ IsOk(r)
    PROVE  Inv'
<1>1. /\ toClient' \in Seq(Responses)
      /\ r \in Responses /\ 1 \in DOMAIN toClient /\ r = toClient[1]
      /\ \A i \in DOMAIN toClient' :
             /\ i \in Nat \ {0} /\ i + 1 \in DOMAIN toClient
             /\ toClient'[i] = toClient[i + 1]
    BY ResponseRead
<1>2. /\ reported' \in Seq(Responses)
      /\ unsolicited' \in Seq(Responses) /\ Len(unsolicited') <= ChannelCap
      /\ NotesAreSent' /\ EachNoteOnce' /\ NoUpdateLost'
    BY UpdateMoves
<1>3. phase' \in {"init", "ready", "wait", "done", "session", "failed"}
    OBVIOUS
<1>4. TypeOK'
    BY <1>1, <1>2, <1>3 DEF Inv, TypeOK
<1>5. LinesInOrder'
    BY DEF Inv, LinesInOrder
<1>6. OkIsLast'
    <2> SUFFICES ASSUME NEW i \in DOMAIN toClient', IsOk(toClient'[i])
                 PROVE  /\ Ended'
                        /\ \A j \in DOMAIN toClient' : j > i => toClient'[j].kind = "note"
        BY DEF OkIsLast, IsOk
    <2>1. i \in Nat /\ i + 1 \in DOMAIN toClient /\ IsOk(toClient[i + 1])
        BY <1>1
    <2>2. Ended /\ \A j \in DOMAIN toClient : j > i + 1 => toClient[j].kind = "note"
        BY <2>1 DEF Inv, OkIsLast
    <2>3. Ended'
        BY <2>2 DEF Ended
    <2>4. ASSUME NEW j \in DOMAIN toClient', j > i PROVE toClient'[j].kind = "note"
        <3>1. j \in Nat /\ j + 1 \in DOMAIN toClient /\ toClient'[j] = toClient[j + 1]
            BY <1>1
        <3>2. j + 1 > i + 1
            BY <2>1, <2>4, <3>1
        <3> QED  BY <2>2, <3>1, <3>2
    <2> QED  BY <2>3, <2>4
<1>7. SessionIsClean'
    <2> SUFFICES ASSUME phase' = "session"
                 PROVE  /\ server' = "free" /\ toServer' = << >>
                        /\ \A i \in DOMAIN toClient' : toClient'[i].kind = "note"
        BY DEF SessionIsClean
    <2>1. IsOk(toClient[1])
        BY <1>1
    <2>2. Ended /\ \A j \in DOMAIN toClient : j > 1 => toClient[j].kind = "note"
        BY <1>1, <2>1 DEF Inv, OkIsLast
    <2>3. ASSUME NEW i \in DOMAIN toClient' PROVE toClient'[i].kind = "note"
        <3>1. i \in Nat \ {0} /\ i + 1 \in DOMAIN toClient /\ toClient'[i] = toClient[i + 1]
            BY <1>1
        <3>2. i + 1 > 1
            BY <3>1
        <3> QED  BY <2>2, <3>1, <3>2
    <2> QED  BY <2>2, <2>3 DEF Ended
<1> QED  BY <1>2, <1>4, <1>5, <1>6, <1>7 DEF Inv

-----------------------------------------------------------------------------
\* The server says something, which is an update if and only if it is the next
\* one, and after its OK nothing but updates.
LEMMA SayStepKeepsInv ==
    ASSUME Inv, NEW e \in Responses, Say(e),
           UNCHANGED <<phase, stopped, outcome, reported, answered, unsolicited, conn>>,
           notes' \in 0 .. MaxNotes, keepalives' \in 0 .. MaxKeepalives,
           \/ e.kind # "note" /\ notes' = notes /\ ~Ended
           \/ e.kind = "note" /\ e.n = notes + 1 /\ notes' = notes + 1,
           IsOk(e) => Ended',
           Ended => Ended',
           server' \in {"free", "idling"}, toServer' \in Seq(Lines), LinesInOrder',
           phase = "session" => UNCHANGED <<server, toServer>>
    PROVE  Inv'
<1> DEFINE queue == Append(toClient, e)
<1>1. /\ toClient \in Seq(Responses) /\ unsolicited \in Seq(Responses)
      /\ reported \in Seq(Responses) /\ notes \in Nat
    BY Types DEF Inv
<1>2. /\ queue \in Seq(Responses)
      /\ Len(toClient) \in Nat /\ DOMAIN toClient = 1 .. Len(toClient)
      /\ DOMAIN queue = 1 .. Len(toClient) + 1
      /\ \A i \in DOMAIN toClient : queue[i] = toClient[i]
      /\ \A i \in DOMAIN queue :
             \/ i \in DOMAIN toClient /\ queue[i] = toClient[i]
             \/ i = Len(toClient) + 1 /\ queue[i] = e
    <2>1. /\ queue \in Seq(Responses) /\ Len(queue) = Len(toClient) + 1
          /\ \A i \in DOMAIN toClient : queue[i] = toClient[i]
          /\ \A i \in DOMAIN queue :
                 \/ i \in DOMAIN toClient /\ queue[i] = toClient[i]
                 \/ i = Len(toClient) + 1 /\ queue[i] = e
        BY <1>1, QueueAppend
    <2> HIDE DEF queue
    <2>2. /\ Len(toClient) \in Nat /\ DOMAIN toClient = 1 .. Len(toClient)
          /\ DOMAIN queue = 1 .. Len(queue)
        BY <1>1, <2>1, LenProperties
    <2> QED  BY <2>1, <2>2
<1>3. \A n : Holds(queue, n) <=> Holds(toClient, n) \/ (e.kind = "note" /\ e.n = n)
    BY <1>1, HoldsAppend
<1>4. toClient' = queue
    BY DEF Say
<1> HIDE DEF queue
<1>5. TypeOK'
    BY <1>2, <1>4 DEF Inv, TypeOK, Lines
<1>6. OkIsLast'
    <2> SUFFICES ASSUME NEW i \in DOMAIN queue, IsOk(queue[i])
                 PROVE  Ended' /\ \A j \in DOMAIN queue : j > i => queue[j].kind = "note"
        BY <1>4 DEF OkIsLast, IsOk
    <2>1. CASE i \in DOMAIN toClient
        <3>1. IsOk(toClient[i])
            BY <1>2, <2>1
        <3>2. Ended /\ \A j \in DOMAIN toClient : j > i => toClient[j].kind = "note"
            BY <2>1, <3>1 DEF Inv, OkIsLast
        <3> QED  BY <1>2, <3>2
    <2>2. CASE i = Len(toClient) + 1 /\ queue[i] = e
        <3>1. \A j \in DOMAIN queue : ~(j > i)
            BY <1>2, <2>2
        <3> QED  BY <2>2, <3>1
    <2> QED  BY <1>2, <2>1, <2>2
<1>7. SessionIsClean'
    <2> SUFFICES ASSUME phase' = "session"
                 PROVE  /\ server' = "free" /\ toServer' = << >>
                        /\ \A i \in DOMAIN queue : queue[i].kind = "note"
        BY <1>4 DEF SessionIsClean
    <2>1. /\ server = "free" /\ toServer = << >>
          /\ \A i \in DOMAIN toClient : toClient[i].kind = "note"
        BY DEF Inv, SessionIsClean
    <2>2. e.kind = "note"
        BY <2>1 DEF Ended
    <2> QED  BY <1>2, <2>1, <2>2
<1>8. NotesAreSent'
    <2>1. 1 .. notes \subseteq 1 .. notes'
        BY <1>1
    <2>2. e.kind = "note" => e.n \in 1 .. notes'
        BY <1>1
    <2>3. \A i \in DOMAIN queue : queue[i].kind = "note" => queue[i].n \in 1 .. notes'
        BY <1>2, <2>1, <2>2 DEF Inv, NotesAreSent, AreSent
    <2> QED  BY <1>4, <2>1, <2>3 DEF Inv, NotesAreSent, AreSent
<1>9. e.kind = "note" =>
          /\ ~Holds(reported, e.n) /\ ~Holds(unsolicited, e.n) /\ ~Holds(toClient, e.n)
          /\ e.n \notin 1 .. notes
    <2>1. e.kind = "note" => e.n \notin 1 .. notes
        BY <1>1
    <2> QED  BY <2>1 DEF Inv, NotesAreSent, AreSent, Holds
<1>10. EachNoteOnce'
    <2> SUFFICES ASSUME NEW i \in DOMAIN queue, NEW j \in DOMAIN queue,
                        queue[i].kind = "note", queue[j].kind = "note",
                        queue[i].n = queue[j].n
                 PROVE  i = j
        BY <1>4 DEF EachNoteOnce
    <2>1. CASE i \in DOMAIN toClient /\ j \in DOMAIN toClient
        BY <1>2, <2>1 DEF Inv, EachNoteOnce
    <2>2. CASE i \notin DOMAIN toClient /\ j \notin DOMAIN toClient
        BY <1>2, <2>2
    <2>3. CASE i \in DOMAIN toClient /\ j \notin DOMAIN toClient
        BY <1>2, <1>9, <2>3 DEF Holds
    <2>4. CASE i \notin DOMAIN toClient /\ j \in DOMAIN toClient
        BY <1>2, <1>9, <2>4 DEF Holds
    <2> QED  BY <2>1, <2>2, <2>3, <2>4
<1>11. NoUpdateLost'
    <2>1. ASSUME NEW n \in 1 .. notes' PROVE Placed(reported, unsolicited, queue, n)
        <3>1. CASE n \in 1 .. notes
            <4>1. Placed(reported, unsolicited, toClient, n)
                BY <1>1, <3>1, PlacedIsNotLost DEF Inv, NoUpdateLost
            <4>2. ~(e.kind = "note" /\ e.n = n)
                BY <1>9, <3>1
            <4> QED  BY <1>3, <4>1, <4>2 DEF Placed
        <3>2. CASE n \notin 1 .. notes
            <4>1. e.kind = "note" /\ e.n = n
                BY <1>1, <2>1, <3>2
            <4> QED  BY <1>3, <1>9, <4>1 DEF Placed
        <3> QED  BY <3>1, <3>2
    <2> QED  BY <1>1, <1>2, <1>4, <2>1, PlacedIsNotLost DEF NoUpdateLost
<1> QED  BY <1>5, <1>6, <1>7, <1>8, <1>10, <1>11 DEF Inv

\* The server takes a line and answers it.
LEMMA ServerReceivesKeepsInv == Inv /\ ServerReceives => Inv'
<1> SUFFICES ASSUME Inv, ServerReceives PROVE Inv'
    OBVIOUS
<1>1. /\ toServer # << >> /\ toServer' = Tail(toServer)
      /\ UNCHANGED <<phase, stopped, outcome, reported, answered, unsolicited,
                     notes, keepalives, conn>>
    BY DEF ServerReceives, resultVars
<1>2. /\ toServer \in {<<"idle">>, <<"idle", "done">>, <<"done">>}
      /\ phase = "new" => toServer = << >>
      /\ phase \in {"init", "ready", "wait"} => toServer \in {<< >>, <<"idle">>}
    BY <1>1 DEF Inv, LinesInOrder
<1>3. phase \in {"init", "ready", "wait", "done", "session", "failed"}
    BY <1>1, <1>2 DEF Inv, TypeOK
<1>4. phase # "session" /\ ~Ended
    BY <1>1 DEF Inv, SessionIsClean, Ended
<1>5. /\ notes \in Nat /\ notes <= MaxNotes /\ 0 \in 0 .. MaxNotes
      /\ notes' \in 0 .. MaxNotes /\ keepalives' \in 0 .. MaxKeepalives
    <2>1. notes' \in 0 .. MaxNotes /\ keepalives' \in 0 .. MaxKeepalives
        BY <1>1 DEF Inv, TypeOK
    <2> QED  BY <2>1, Types DEF Inv
<1>6. \/ toServer' = << >> /\ toServer \in {<<"idle">>, <<"done">>}
      \/ toServer' = <<"done">> /\ toServer = <<"idle", "done">>
    BY <1>1, <1>2, QueueOfTwo
<1>7. toServer' \in Seq(Lines)
    <2>1. toServer \in Seq(Lines)
        BY Types DEF Inv
    <2> QED  BY <1>1, <2>1, QueueTail
<1>8. LinesInOrder'
    <2>1. toServer' \in {<< >>, <<"done">>}
        BY <1>6
    <2>2. phase \in {"init", "ready", "wait"} => toServer' = << >>
        <3>1. <<"idle", "done">> \notin {<< >>, <<"idle">>}
            OBVIOUS
        <3> QED  BY <1>2, <1>6, <3>1
    <2> QED  BY <1>1, <1>3, <2>1, <2>2 DEF LinesInOrder
<1>9. CASE \E e \in Responses :
             /\ Say(e) /\ e.kind # "note" /\ ~IsOk(e) /\ server' \in {"free", "idling"}
    BY <1>1, <1>4, <1>5, <1>7, <1>8, <1>9, SayStepKeepsInv
<1>10. CASE /\ Head(toServer) = "done" /\ server' = "free"
            /\ \E e \in Responses : Say(e) /\ e.kind = "done"
    <2>1. toServer = <<"done">>
        <3>1. Head(<<"idle">>) = "idle" /\ Head(<<"idle", "done">>) = "idle"
            BY QueueOfTwo
        <3> QED  BY <1>2, <1>10, <3>1
    <2>2. toServer' = << >> /\ phase \in {"done", "failed"}
        <3>1. <<"done">> \notin {<< >>, <<"idle">>} /\ <<"done">> # <<"idle", "done">>
            <4>1. <<"done">>[1] = "done" /\ <<"idle">>[1] = "idle" /\ <<"idle", "done">>[1] = "idle"
                OBVIOUS
            <4>2. <<"done">> # << >>
                OBVIOUS
            <4> QED  BY <4>1, <4>2
        <3>2. toServer' = << >>
            BY <1>6, <2>1, <3>1
        <3> QED  BY <1>2, <1>3, <1>4, <2>1, <3>1, <3>2
    <2>3. Ended'
        BY <1>1, <1>10, <2>2 DEF Ended
    <2> QED  BY <1>1, <1>4, <1>5, <1>7, <1>8, <1>10, <2>3, SayStepKeepsInv
<1>11. server \in {"free", "idling"}
    BY DEF Inv, TypeOK
<1>12. CASE Say(Response("cont", "none", TRUE, 0)) /\ server' = "idling"
    <2>1. Response("cont", "none", TRUE, 0) \in Responses
          /\ Response("cont", "none", TRUE, 0).kind = "cont"
        BY <1>5 DEF Response, Responses
    <2> QED  BY <1>9, <1>12, <2>1 DEF IsOk
<1>13. CASE /\ \E status \in {"no", "bad"} : Say(Response("done", status, TRUE, 0))
            /\ UNCHANGED server
    <2>1. PICK status \in {"no", "bad"} : Say(Response("done", status, TRUE, 0))
        BY <1>13
    <2>2. /\ Response("done", status, TRUE, 0) \in Responses
          /\ Response("done", status, TRUE, 0).kind = "done"
          /\ Response("done", status, TRUE, 0).status = status
        BY <1>5 DEF Response, Responses
    <2> QED  BY <1>9, <1>11, <1>13, <2>1, <2>2 DEF IsOk
<1>14. CASE /\ Head(toServer) = "done" /\ Say(Response("done", "ok", TRUE, 0))
            /\ server' = "free"
    <2>1. /\ Response("done", "ok", TRUE, 0) \in Responses
          /\ Response("done", "ok", TRUE, 0).kind = "done"
        BY <1>5 DEF Response, Responses
    <2> QED  BY <1>10, <1>14, <2>1
<1>15. CASE /\ \E kind \in {"done", "status"} : Say(Response(kind, "bad", FALSE, 0))
            /\ UNCHANGED server
    <2>1. PICK kind \in {"done", "status"} : Say(Response(kind, "bad", FALSE, 0))
        BY <1>15
    <2>2. /\ Response(kind, "bad", FALSE, 0) \in Responses
          /\ Response(kind, "bad", FALSE, 0).kind = kind
          /\ Response(kind, "bad", FALSE, 0).status = "bad"
        BY <1>5 DEF Response, Responses
    <2> QED  BY <1>9, <1>11, <1>15, <2>1, <2>2 DEF IsOk
<1> QED  BY <1>12, <1>13, <1>14, <1>15 DEF ServerReceives

\* What the server says of its own.
LEMMA ServerNotesKeepsInv == Inv /\ ServerNotes => Inv'
<1> SUFFICES ASSUME Inv, ServerNotes PROVE Inv'
    OBVIOUS
<1> DEFINE note == Response("note", "none", FALSE, notes + 1)
<1>1. /\ notes < MaxNotes /\ notes' = notes + 1 /\ Say(note)
      /\ UNCHANGED <<phase, stopped, outcome, reported, answered, unsolicited,
                     toServer, server, keepalives, conn>>
    BY DEF ServerNotes, resultVars
<1>2. notes' \in 0 .. MaxNotes /\ keepalives' \in 0 .. MaxKeepalives
    <2>1. notes \in Nat /\ MaxNotes \in Nat
        BY Types DEF Inv
    <2>2. keepalives' \in 0 .. MaxKeepalives
        BY <1>1 DEF Inv, TypeOK
    <2> QED  BY <1>1, <2>1, <2>2
<1>3. note \in Responses /\ note.kind = "note" /\ note.n = notes + 1
    BY <1>1, <1>2 DEF Response, Responses
<1> HIDE DEF note
<1>4. server' \in {"free", "idling"} /\ toServer' \in Seq(Lines) /\ LinesInOrder'
    BY <1>1, Types DEF Inv, TypeOK, LinesInOrder
<1>5. (Ended => Ended') /\ ~IsOk(note)
    BY <1>1, <1>3 DEF Ended, IsOk
<1> QED  BY <1>1, <1>2, <1>3, <1>4, <1>5, SayStepKeepsInv

LEMMA ServerKeepsAliveKeepsInv == Inv /\ ServerKeepsAlive => Inv'
<1> SUFFICES ASSUME Inv, ServerKeepsAlive PROVE Inv'
    OBVIOUS
<1> DEFINE alive == Response("keepalive", "ok", FALSE, 0)
<1>1. /\ server = "idling" /\ keepalives < MaxKeepalives /\ keepalives' = keepalives + 1
      /\ Say(alive)
      /\ UNCHANGED <<phase, stopped, outcome, reported, answered, unsolicited,
                     toServer, server, notes, conn>>
    BY DEF ServerKeepsAlive, resultVars
<1>2. notes' \in 0 .. MaxNotes /\ keepalives' \in 0 .. MaxKeepalives /\ 0 \in 0 .. MaxNotes
    <2>1. keepalives \in 0 .. MaxKeepalives /\ notes' \in 0 .. MaxNotes
        BY <1>1 DEF Inv, TypeOK
    <2> QED  BY <1>1, <2>1, IdleAssumption
<1>3. alive \in Responses /\ alive.kind = "keepalive"
    BY <1>2 DEF Response, Responses
<1> HIDE DEF alive
<1>4. server' \in {"free", "idling"} /\ toServer' \in Seq(Lines) /\ LinesInOrder'
    BY <1>1, Types DEF Inv, TypeOK, LinesInOrder
<1>5. ~Ended /\ ~IsOk(alive)
    BY <1>1, <1>3 DEF Ended, IsOk
<1> QED  BY <1>1, <1>2, <1>3, <1>4, <1>5, SayStepKeepsInv

LEMMA ServerGivesUpKeepsInv == Inv /\ ServerGivesUp => Inv'
<1> SUFFICES ASSUME Inv, ServerGivesUp PROVE Inv'
    OBVIOUS
<1> DEFINE answer == Response("done", "no", TRUE, 0)
<1>1. /\ server = "idling" /\ server' = "free" /\ Say(answer)
      /\ UNCHANGED <<phase, stopped, outcome, reported, answered, unsolicited,
                     toServer, notes, keepalives, conn>>
    BY DEF ServerGivesUp, resultVars
<1>2. notes' \in 0 .. MaxNotes /\ keepalives' \in 0 .. MaxKeepalives /\ 0 \in 0 .. MaxNotes
    BY <1>1, IdleAssumption DEF Inv, TypeOK
<1>3. answer \in Responses /\ answer.kind = "done" /\ answer.status = "no"
    BY <1>2 DEF Response, Responses
<1> HIDE DEF answer
<1>4. toServer' \in Seq(Lines) /\ LinesInOrder'
    BY <1>1, Types DEF Inv, LinesInOrder
<1>5. ~Ended /\ ~IsOk(answer) /\ phase # "session"
    BY <1>1, <1>3 DEF Inv, Ended, IsOk, SessionIsClean
<1> QED  BY <1>1, <1>2, <1>3, <1>4, <1>5, SayStepKeepsInv

LEMMA ServerClosesKeepsInv ==
    ASSUME Inv, NEW how \in {"closed", "cut"}, ServerCloses(how)
    PROVE  Inv'
<1>1. /\ conn' = how
      /\ UNCHANGED <<phase, stopped, outcome, reported, answered, unsolicited, toServer,
                     toClient, server, notes, keepalives>>
    BY DEF ServerCloses, resultVars
<1>2. TypeOK'
    BY <1>1 DEF Inv, TypeOK
<1>3. LinesInOrder' /\ SessionIsClean' /\ OkIsLast'
    BY <1>1 DEF Inv, LinesInOrder, SessionIsClean, OkIsLast, Ended
<1>4. NotesAreSent' /\ EachNoteOnce' /\ NoUpdateLost'
    BY <1>1 DEF Inv, NotesAreSent, AreSent, EachNoteOnce, NoUpdateLost
<1> QED  BY <1>2, <1>3, <1>4 DEF Inv

-----------------------------------------------------------------------------
\* The steps of a call that read nothing.
LEMMA NoReadKeepsInv ==
    ASSUME Inv,
           \/ InitEof \/ WaitEof \/ DoneEof
           \/ WaitInterrupted \/ WaitTimeout \/ Cancel
           \/ StartInitFails \/ StartDoneFails \/ StartWait \/ Stop
    PROVE  Inv'
<1>1. UNCHANGED <<reported, answered, unsolicited, toServer, toClient,
                  server, notes, keepalives, conn>>
    BY DEF InitEof, WaitEof, DoneEof, WaitInterrupted, WaitTimeout, Cancel, StartInitFails,
           StartDoneFails, StartWait, Stop, NoRead, ReadEof, Return, serverVars
<1>2. \/ phase' = phase
      \/ phase' = "failed"
      \/ phase \in {"init", "ready", "wait"} /\ phase' \in {"ready", "wait"}
    BY DEF InitEof, WaitEof, DoneEof, WaitInterrupted, WaitTimeout, Cancel, StartInitFails,
           StartDoneFails, StartWait, Stop, Return
<1>3. stopped' \in BOOLEAN
    BY DEF Inv, TypeOK, InitEof, WaitEof, DoneEof, WaitInterrupted, WaitTimeout, Cancel,
           StartInitFails, StartDoneFails, StartWait, Stop, Return
<1>4. outcome' \in {"none", "ok", "no", "bad", "refused", "io", "lost",
                    "interrupt", "timeout", "newdata"}
    BY DEF Inv, TypeOK, InitEof, WaitEof, DoneEof, WaitInterrupted, WaitTimeout, Cancel,
           StartInitFails, StartDoneFails, StartWait, Stop, Return
<1> QED  BY <1>1, <1>2, <1>3, <1>4, QuietStepKeepsInv

\* The steps that read a response.
LEMMA ReadKeepsInv ==
    ASSUME Inv, InitRead \/ WaitRead \/ ReadHandle \/ DoneRead
    PROVE  Inv'
<1>1. /\ toClient # << >> /\ toClient' = Tail(toClient)
      /\ UNCHANGED <<stopped, toServer, server, notes, keepalives, conn>>
    BY DEF InitRead, WaitRead, ReadHandle, DoneRead, Read, Return, Unilateral, Ignore,
           resultVars, serverVars
<1>2. r \in Responses
    BY <1>1, ResponseRead
<1>3. Handled
    BY DEF InitRead, WaitRead, ReadHandle, DoneRead, Return, Unilateral, Ignore,
           resultVars, OwnAnswer, Handled
<1>4. answered' \in BOOLEAN
    <2>1. answered \in BOOLEAN /\ r.own \in BOOLEAN
        BY <1>2 DEF Inv, TypeOK, Responses
    <2>2. OwnAnswer \in BOOLEAN
        BY DEF OwnAnswer
    <2> QED  BY <2>1, <2>2 DEF InitRead, WaitRead, ReadHandle, DoneRead, Unilateral, Ignore
<1>5. outcome' \in {"none", "ok", "no", "bad", "refused", "io", "lost",
                    "interrupt", "timeout", "newdata"}
    <2>1. r.status \in {"ok", "no", "bad", "none"}
        BY <1>2 DEF Responses
    <2> QED  BY <2>1 DEF Inv, TypeOK, InitRead, WaitRead, ReadHandle, DoneRead, Return,
                        Unilateral, Ignore, resultVars
<1>6. \/ phase \in {"init", "wait"} /\ phase' \in {phase, "ready"}
      \/ phase = "ready" /\ phase' = "ready"
      \/ phase = "done" /\ phase' \in {"done", "failed"}
      \/ phase = "done" /\ phase' = "session" /\ IsOk(r)
    BY DEF InitRead, WaitRead, ReadHandle, DoneRead, Return, Unilateral, Ignore,
           resultVars, IsOk
<1> QED  BY <1>1, <1>3, <1>4, <1>5, <1>6, ReadStepKeepsInv

-----------------------------------------------------------------------------
\* Every step keeps the invariant.
LEMMA InvNext == Inv /\ [Next]_vars => Inv'
<1> SUFFICES ASSUME Inv, [Next]_vars PROVE Inv'
    OBVIOUS
<1>1. CASE InitStep
    BY <1>1, ReadKeepsInv, NoReadKeepsInv DEF InitStep
<1>2. CASE WaitStep
    BY <1>2, ReadKeepsInv, NoReadKeepsInv DEF WaitStep
<1>3. CASE DoneStep
    BY <1>3, ReadKeepsInv, NoReadKeepsInv DEF DoneStep
<1>4. CASE Caller
    BY <1>4, ReadKeepsInv, NoReadKeepsInv, StartInitKeepsInv, StartDoneKeepsInv DEF Caller
<1>5. CASE Server
    BY <1>5, ServerReceivesKeepsInv, ServerNotesKeepsInv, ServerKeepsAliveKeepsInv,
       ServerGivesUpKeepsInv, ServerClosesKeepsInv DEF Server
<1>6. CASE UNCHANGED vars
    <2>1. UNCHANGED <<phase, stopped, outcome, reported, answered, unsolicited, toServer,
                      toClient, server, notes, keepalives, conn>>
        BY <1>6 DEF vars
    <2>2. TypeOK' /\ LinesInOrder' /\ SessionIsClean' /\ OkIsLast'
        BY <2>1 DEF Inv, TypeOK, LinesInOrder, SessionIsClean, OkIsLast, Ended
    <2>3. NotesAreSent' /\ EachNoteOnce' /\ NoUpdateLost'
        BY <2>1 DEF Inv, NotesAreSent, AreSent, EachNoteOnce, NoUpdateLost
    <2> QED  BY <2>2, <2>3 DEF Inv
<1> QED  BY <1>1, <1>2, <1>3, <1>4, <1>5, <1>6 DEF Next

\* The invariant holds in every state a Handle can reach.
THEOREM Invariance == Spec => []Inv
BY InvInit, InvNext, PTL DEF Spec

\* Every variable of the Handle always holds a value of its kind, and the
\* channel of unsolicited responses keeps its capacity.
THEOREM TypeCorrect == Spec => []TypeOK
<1>1. Inv => TypeOK
    BY DEF Inv
<1> QED  BY <1>1, Invariance, PTL

\* No update is lost or given twice, whichever way wait_with_timeout ended and
\* whatever calls were dropped; only a full channel loses one.
THEOREM NothingLost == Spec => []NoUpdateLost
<1>1. Inv => NoUpdateLost
    BY DEF Inv
<1> QED  BY <1>1, Invariance, PTL

\* The session that done() gives back is out of IDLE.
THEOREM CleanSession == Spec => []SessionIsClean
<1>1. Inv => SessionIsClean
    BY DEF Inv
<1> QED  BY <1>1, Invariance, PTL
=============================================================================
