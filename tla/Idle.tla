-------------------------------- MODULE Idle --------------------------------
(***************************************************************************)
(* The IDLE command, src/extensions/idle.rs: a Handle that owns the        *)
(* session, init(), wait_with_timeout() with its stop source and its       *)
(* timer, done(), which gives the session back, and the Handle as a        *)
(* Stream.                                                                 *)
(*                                                                         *)
(* The futures of init and wait may be dropped at any point; the handle    *)
(* stays usable.  The caller follows the documented order: init before     *)
(* wait and done.  The stop token, the timer and the server are not in     *)
(* src/: timeout_at looks at the token before the stream, timeout at the   *)
(* stream before the clock.                                                *)
(***************************************************************************)
EXTENDS Integers, Sequences

CONSTANTS
    ChannelCap,     \* capacity of the unsolicited channel, 100 in the code
    MaxNotes,       \* bound: mailbox updates the server sends
    MaxKeepalives   \* bound: `* OK Still here` responses

ASSUME IdleAssumption ==
    /\ ChannelCap \in Nat \ {0}
    /\ MaxNotes \in Nat /\ MaxKeepalives \in Nat

VARIABLES
    phase,          \* the call in progress: "init", "wait", "done"; or "new" or
                    \* "ready" between calls; or "session", "failed" after done
    stopped,        \* the StopSource of the current wait was dropped
    outcome,        \* what the last init or wait returned
    reported,       \* the responses wait (as NewData) or the Handle gave the caller
    answered,       \* IDLE's tagged answer has been read
    unsolicited,    \* the content of the unsolicited channel
    toServer,       \* lines on their way to the server
    toClient,       \* responses on their way to the client
    server,         \* "free", or "idling" from its "+" on
    notes,          \* updates sent so far
    keepalives,     \* keepalives sent so far
    conn            \* "up", "closed" between two responses, or "cut" inside one

resultVars == <<stopped, outcome, reported>>
serverVars == <<server, notes, keepalives, conn>>
vars == <<phase, stopped, outcome, reported, answered, unsolicited, toServer,
          toClient, server, notes, keepalives, conn>>

\* `own` tells a tagged response of this IDLE from one of another tag.
Response(kind, status, own, n) == [kind |-> kind, status |-> status, own |-> own, n |-> n]

Init ==
    /\ phase = "new"
    /\ stopped = FALSE
    /\ outcome = "none"
    /\ reported = << >>
    /\ answered = FALSE
    /\ unsolicited = << >>
    /\ toServer = << >>
    /\ toClient = << >>
    /\ server = "free"
    /\ notes = 0
    /\ keepalives = 0
    /\ conn = "up"

r == Head(toClient)

\* stream.next() yields a response.
Read ==
    /\ toClient # << >>
    /\ toClient' = Tail(toClient)
    /\ UNCHANGED <<toServer, serverVars>>

\* stream.next() yields None, or an error if the connection broke off inside a
\* response.
ReadEof ==
    /\ toClient = << >> /\ conn # "up"
    /\ UNCHANGED <<answered, unsolicited, toServer, toClient, serverVars>>

\* A call that ends without touching the connection.
NoRead == UNCHANGED <<answered, unsolicited, toServer, toClient, serverVars>>

OwnAnswer == r.kind = "done" /\ r.own

\* Mutant: no look at is_full.
UnilateralUnbounded ==
    /\ unsolicited' = Append(unsolicited, r)
    /\ answered' = (answered \/ OwnAnswer)
    /\ UNCHANGED <<phase, resultVars>>

\* handle_unilateral, and the call goes on.
Unilateral ==
    /\ unsolicited' = IF Len(unsolicited) >= ChannelCap THEN unsolicited
                                                        ELSE Append(unsolicited, r)
    /\ answered' = (answered \/ OwnAnswer)
    /\ UNCHANGED <<phase, resultVars>>

\* The response is not looked at any further.
Ignore == UNCHANGED <<phase, resultVars, answered, unsolicited>>

Return(next, result) ==
    /\ phase' = next
    /\ outcome' = result
    /\ UNCHANGED <<stopped, reported>>

-----------------------------------------------------------------------------
(* init *)

\* The id is kept before the first response is read.
StartInit ==
    /\ phase = "new"
    /\ toServer' = Append(toServer, "idle")
    /\ phase' = "init"
    /\ UNCHANGED <<resultVars, answered, unsolicited, toClient, serverVars>>

\* The write fails: there is no id, and neither wait nor done may be called.
StartInitFails ==
    /\ phase = "new" /\ conn # "up"
    /\ Return("failed", "io")
    /\ NoRead

\* Of the tagged answers only BAD is an error.
InitRead ==
    /\ phase = "init"
    /\ Read
    /\ \/ /\ r.kind = "cont"
          /\ Return("ready", "ok") /\ UNCHANGED <<answered, unsolicited>>
       \/ /\ OwnAnswer /\ r.status = "bad"
          /\ Return("ready", "refused") /\ answered' = TRUE /\ UNCHANGED unsolicited
       \/ /\ r.kind # "cont" /\ ~(OwnAnswer /\ r.status = "bad")
          /\ Unilateral

InitEof ==
    /\ phase = "init"
    /\ ReadEof
    /\ Return("ready", IF conn = "closed" THEN "refused" ELSE "io")

-----------------------------------------------------------------------------
(* wait_with_timeout *)

StartWait ==
    /\ phase = "ready"
    /\ phase' = "wait"
    /\ stopped' = FALSE
    /\ UNCHANGED <<outcome, reported>> /\ NoRead

Stop ==
    /\ phase = "wait" /\ ~stopped
    /\ stopped' = TRUE
    /\ UNCHANGED <<phase, outcome, reported>> /\ NoRead

\* Mutant: the response that was about to be read goes with the future.
InterruptedWithLoss ==
    /\ phase = "wait" /\ stopped
    /\ Return("ready", "interrupt")
    /\ toClient' = SubSeq(toClient, 2, Len(toClient))
    /\ UNCHANGED <<answered, unsolicited, toServer, serverVars>>

WaitInterrupted ==
    /\ phase = "wait" /\ stopped
    /\ Return("ready", "interrupt")
    /\ NoRead

\* Nothing came for `dur`; every response read starts the clock again.
WaitTimeout ==
    /\ phase = "wait" /\ ~stopped
    /\ toClient = << >> /\ conn = "up"
    /\ Return("ready", "timeout")
    /\ NoRead

\* A keepalive or a late "+" is passed over, a tagged response goes to the
\* channel, and anything else is what the caller waits for.
WaitRead ==
    /\ phase = "wait" /\ ~stopped
    /\ Read
    /\ \/ r.kind \in {"keepalive", "cont"} /\ Ignore
       \/ r.kind = "done" /\ Unilateral
       \/ /\ r.kind \in {"note", "status"}
          /\ phase' = "ready"
          /\ outcome' = "newdata"
          /\ reported' = Append(reported, r)
          /\ UNCHANGED <<stopped, answered, unsolicited>>

\* The end of the stream has the same result as the stop token.
WaitEof ==
    /\ phase = "wait" /\ ~stopped
    /\ ReadEof
    /\ Return("ready", IF conn = "closed" THEN "interrupt" ELSE "io")

\* The future of init or wait is dropped.
Cancel ==
    /\ phase \in {"init", "wait"}
    /\ Return("ready", "none")
    /\ NoRead

-----------------------------------------------------------------------------
\* Between two calls the caller may read the Handle, a Stream, by itself: it
\* gets the responses as they come, the tagged ones and the "+" as well.
ReadHandle ==
    /\ phase = "ready"
    /\ Read
    /\ reported' = Append(reported, r)
    /\ answered' = (answered \/ OwnAnswer)
    /\ UNCHANGED <<phase, stopped, outcome, unsolicited>>

-----------------------------------------------------------------------------
(* done *)

StartDone ==
    /\ phase = "ready"
    /\ toServer' = Append(toServer, "done")
    /\ phase' = "done"
    /\ UNCHANGED <<resultVars, answered, unsolicited, toClient, serverVars>>

StartDoneFails ==
    /\ phase = "ready" /\ conn # "up"
    /\ Return("failed", "io")
    /\ NoRead

\* Mutant: DONE is sent and the answer is left to the next command.
DoneAtOnce ==
    /\ phase = "done"
    /\ Return("session", "ok")
    /\ NoRead

\* check_done_ok_from: the status of any tagged response, then the tag.
DoneRead ==
    /\ phase = "done"
    /\ Read
    /\ \/ /\ r.kind = "done" /\ r.status # "ok"
          /\ Return("failed", r.status)
          /\ answered' = (answered \/ OwnAnswer) /\ UNCHANGED unsolicited
       \/ /\ r.kind = "done" /\ r.status = "ok" /\ r.own
          /\ Return("session", "ok") /\ answered' = TRUE /\ UNCHANGED unsolicited
       \/ r.kind # "done" /\ Unilateral

\* Mutant: at the end of the stream the loop polls it again.
DoneEofAgain == phase = "done" /\ ReadEof /\ UNCHANGED <<phase, resultVars>>

DoneEof ==
    /\ phase = "done"
    /\ ReadEof
    /\ Return("failed", IF conn = "closed" THEN "lost" ELSE "io")

-----------------------------------------------------------------------------
(* The server.  It refuses IDLE, or idles until DONE unless it gives up; a  *)
(* DONE it does not expect is an unknown command.                           *)

Say(response) == toClient' = Append(toClient, response)

ServerReceives ==
    /\ conn = "up"
    /\ toServer # << >>
    /\ toServer' = Tail(toServer)
    /\ \/ /\ Head(toServer) = "idle"
          /\ \/ Say(Response("cont", "none", TRUE, 0)) /\ server' = "idling"
             \/ /\ \E status \in {"no", "bad"} : Say(Response("done", status, TRUE, 0))
                /\ UNCHANGED server
       \/ /\ Head(toServer) = "done" /\ server = "idling"
          /\ Say(Response("done", "ok", TRUE, 0))
          /\ server' = "free"
       \/ /\ Head(toServer) = "done" /\ server = "free"
          /\ \E kind \in {"done", "status"} : Say(Response(kind, "bad", FALSE, 0))
          /\ UNCHANGED server
    /\ UNCHANGED <<phase, resultVars, answered, unsolicited, notes, keepalives, conn>>

ServerNotes ==
    /\ conn = "up" /\ notes < MaxNotes
    /\ notes' = notes + 1
    /\ Say(Response("note", "none", FALSE, notes + 1))
    /\ UNCHANGED <<phase, resultVars, answered, unsolicited, toServer, server, keepalives, conn>>

ServerKeepsAlive ==
    /\ conn = "up" /\ server = "idling" /\ keepalives < MaxKeepalives
    /\ keepalives' = keepalives + 1
    /\ Say(Response("keepalive", "ok", FALSE, 0))
    /\ UNCHANGED <<phase, resultVars, answered, unsolicited, toServer, server, notes, conn>>

\* The server ends IDLE on its own.
ServerGivesUp ==
    /\ conn = "up" /\ server = "idling"
    /\ server' = "free"
    /\ Say(Response("done", "no", TRUE, 0))
    /\ UNCHANGED <<phase, resultVars, answered, unsolicited, toServer, notes, keepalives, conn>>

ServerCloses(how) ==
    /\ conn = "up"
    /\ conn' = how
    /\ UNCHANGED <<phase, resultVars, answered, unsolicited, toServer, toClient,
                   server, notes, keepalives>>

-----------------------------------------------------------------------------
InitStep == InitRead \/ InitEof

WaitStep == WaitInterrupted \/ WaitTimeout \/ WaitRead \/ WaitEof

DoneStep == DoneRead \/ DoneEof

Caller ==
    \/ StartInit \/ StartInitFails
    \/ StartWait \/ Stop \/ ReadHandle
    \/ StartDone \/ StartDoneFails
    \/ Cancel

Server ==
    \/ ServerReceives
    \/ ServerNotes
    \/ ServerKeepsAlive
    \/ ServerGivesUp
    \/ \E how \in {"closed", "cut"} : ServerCloses(how)

Next == InitStep \/ WaitStep \/ DoneStep \/ Caller \/ Server

Spec == Init /\ [][Next]_vars

\* A future is polled when there is something for it, the timer fires, and
\* the server answers the lines it receives.  The caller owes nothing.
FairSpec ==
    Spec /\ WF_vars(InitStep) /\ WF_vars(WaitStep) /\ WF_vars(DoneStep) /\ WF_vars(ServerReceives)

-----------------------------------------------------------------------------
Responses == [kind : {"done", "cont", "note", "status", "keepalive"},
              status : {"ok", "no", "bad", "none"}, own : BOOLEAN, n : 0 .. MaxNotes]

\* Every variable holds a value of its kind; the channel keeps its capacity.
TypeOK ==
    /\ phase \in {"new", "init", "ready", "wait", "done", "session", "failed"}
    /\ stopped \in BOOLEAN /\ answered \in BOOLEAN
    /\ outcome \in {"none", "ok", "no", "bad", "refused", "io", "lost",
                    "interrupt", "timeout", "newdata"}
    /\ reported \in Seq(Responses)
    /\ unsolicited \in Seq(Responses) /\ Len(unsolicited) <= ChannelCap
    /\ toServer \in Seq({"idle", "done"})
    /\ toClient \in Seq(Responses)
    /\ server \in {"free", "idling"}
    /\ notes \in 0 .. MaxNotes /\ keepalives \in 0 .. MaxKeepalives
    /\ conn \in {"up", "closed", "cut"}

Holds(seq, n) == \E i \in DOMAIN seq : seq[i].kind = "note" /\ seq[i].n = n

\* An update of the mailbox is given to the caller of wait or is in the
\* channel or is still to be read, exactly one of them, whichever way a wait
\* ended, whatever calls were dropped or read around; only a full channel loses one.
NoUpdateLost ==
    \A n \in 1 .. notes :
        /\ \/ Holds(reported, n) \/ Holds(unsolicited, n) \/ Holds(toClient, n)
           \/ Len(unsolicited) = ChannelCap
        /\ ~(Holds(reported, n) /\ Holds(unsolicited \o toClient, n))
        /\ ~(Holds(unsolicited, n) /\ Holds(toClient, n))

\* A session that done() gave back is out of IDLE: the server took DONE, and
\* neither a tagged answer nor a "+" is left for the next command to read.
SessionIsClean ==
    phase = "session" =>
        /\ server = "free"
        /\ toServer = << >>
        /\ \A i \in DOMAIN toClient : toClient[i].kind = "note"

\* init, wait and done return, whatever the server sends and however late it
\* is, unless the tagged answer of IDLE was read already: init hands a NO to
\* the channel, wait every status, and then done has nothing to wait for.
CallsReturn ==
    \A call \in {"init", "wait", "done"} : phase = call ~> (phase # call \/ answered)

\* "The manual interrupt was used to interrupt the idle connection" (the
\* documentation of IdleResponse::ManualInterrupt): a wait that returned it was
\* stopped by its caller.
InterruptIsManual == phase = "ready" /\ outcome = "interrupt" => stopped
=============================================================================
