-------------------------------- MODULE Auth --------------------------------
(***************************************************************************)
(* The unauthenticated Client of src/client.rs: login and authenticate,    *)
(* which turn it into a Session or give it back with an error, for another *)
(* try on the same connection.                                             *)
(*                                                                         *)
(* A challenge is named by its number; `process` and the base64 encoding   *)
(* of its result are one answer that carries that number.  The server is   *)
(* not in src/: it answers in order, takes any line for an answer while    *)
(* it waits for one, and accepts only answers to its own challenges.       *)
(***************************************************************************)
EXTENDS Integers, Sequences, FiniteSets

CONSTANTS
    MaxAttempts,    \* bound: calls of login and authenticate
    MaxChallenges,  \* bound: challenges over all attempts
    MaxNotes        \* bound: untagged responses

ASSUME AuthAssumption ==
    /\ MaxAttempts \in Nat /\ MaxChallenges \in Nat /\ MaxNotes \in Nat

VARIABLES
    attempts,   \* IdGenerator.next: the number, and tag, of the last attempt
    phase,      \* "client", "challenge" in the loop of do_auth_handshake,
                \* "done" in check_done_ok_from, or "session"
    outcome,    \* what the last attempt returned
    looked,     \* the challenges do_auth_handshake looked at: those that decode
                \* are passed to Authenticator::process
    toServer,   \* lines on their way to the server
    toClient,   \* responses on their way to the client
    exchange,   \* what the server works on
    asked,      \* the challenges the server sent, and whether each was base64
    granted,    \* the attempt the server answered with OK, 0 for none
    notes,      \* untagged responses sent so far
    conn        \* "up", "closed" between two responses, or "cut" inside one

clientVars == <<attempts, phase, outcome, looked>>
serverVars == <<exchange, asked, granted, notes, conn>>
vars == <<attempts, phase, outcome, looked, toServer, toClient,
          exchange, asked, granted, notes, conn>>

Attempts == 1 .. MaxAttempts

\* `req` is the attempt a tagged response answers and `n` names a challenge.
Response(kind, status, req, n) == [kind |-> kind, status |-> status, req |-> req, n |-> n]

Line(kind, n) == [kind |-> kind, n |-> n]

NoExchange == [step |-> "free", kind |-> "none", req |-> 0, honest |-> TRUE]

Init ==
    /\ attempts = 0
    /\ phase = "client"
    /\ outcome = "none"
    /\ looked = {}
    /\ toServer = << >>
    /\ toClient = << >>
    /\ exchange = NoExchange
    /\ asked = << >>
    /\ granted = 0
    /\ notes = 0
    /\ conn = "up"

r == Head(toClient)

\* read_response or stream.next() yields a response.
Read ==
    /\ toClient # << >>
    /\ toClient' = Tail(toClient)
    /\ UNCHANGED <<attempts, serverVars>>

\* The attempt ends: with a Session, or with an error and the Client.
Return(next, result) == phase' = next /\ outcome' = result

-----------------------------------------------------------------------------
\* run_command, then check_done_ok or do_auth_handshake.
Start(kind) ==
    /\ phase = "client" /\ attempts < MaxAttempts
    /\ attempts' = attempts + 1
    /\ toServer' = Append(toServer, Line(kind, attempts + 1))
    /\ phase' = IF kind = "login" THEN "done" ELSE "challenge"
    /\ UNCHANGED <<outcome, looked, toClient, serverVars>>

StartFails ==
    /\ phase = "client" /\ attempts < MaxAttempts /\ conn # "up"
    /\ attempts' = attempts + 1
    /\ Return("client", "io")
    /\ UNCHANGED <<looked, toServer, toClient, serverVars>>

\* A challenge that decodes is processed and answered.
Process ==
    /\ phase = "challenge"
    /\ Read
    /\ r.kind = "cont" /\ asked[r.n]
    /\ looked' = looked \cup {r.n}
    /\ \/ toServer' = Append(toServer, Line("answer", r.n)) /\ UNCHANGED <<phase, outcome>>
       \/ conn # "up" /\ Return("client", "io") /\ UNCHANGED toServer

\* One that does not ends the attempt; the exchange stays open on the server.
Undecodable ==
    /\ phase = "challenge"
    /\ Read
    /\ r.kind = "cont" /\ ~asked[r.n]
    /\ looked' = looked \cup {r.n}
    /\ Return("client", "authentication")
    /\ UNCHANGED toServer

\* Mutant: the status of the tagged response is not looked at.
CheckTagOnly ==
    /\ \/ phase = "done"
       \/ phase = "challenge" /\ toClient # << >> /\ r.kind # "cont"
    /\ Read
    /\ \/ r.kind = "done" /\ r.req = attempts /\ Return("session", "ok")
       \/ ~(r.kind = "done" /\ r.req = attempts) /\ phase' = "done" /\ UNCHANGED outcome
    /\ UNCHANGED <<looked, toServer>>

\* check_done_ok_from.  Any response that is no challenge leads here from the
\* handshake, and there is no way back: a later challenge is passed over.
Check ==
    /\ \/ phase = "done"
       \/ phase = "challenge" /\ toClient # << >> /\ r.kind # "cont"
    /\ Read
    /\ \/ r.kind = "done" /\ r.status # "ok" /\ Return("client", r.status)
       \/ r.kind = "done" /\ r.status = "ok" /\ r.req = attempts /\ Return("session", "ok")
       \/ /\ ~(r.kind = "done" /\ (r.status # "ok" \/ r.req = attempts))
          /\ phase' = "done" /\ UNCHANGED outcome
    /\ UNCHANGED <<looked, toServer>>

\* Mutant: at the end of the stream the loop polls it again.
EofAgain ==
    /\ phase \in {"challenge", "done"}
    /\ toClient = << >> /\ conn # "up"
    /\ UNCHANGED vars

\* Mutant: the end of the stream is not turned into ConnectionLost.
EofAsItIs ==
    /\ phase \in {"challenge", "done"}
    /\ toClient = << >> /\ conn # "up"
    /\ Return("client", conn)
    /\ UNCHANGED <<attempts, looked, toServer, toClient, serverVars>>

Eof ==
    /\ phase \in {"challenge", "done"}
    /\ toClient = << >> /\ conn # "up"
    /\ Return("client", IF conn = "closed" THEN "lost" ELSE "io")
    /\ UNCHANGED <<attempts, looked, toServer, toClient, serverVars>>

-----------------------------------------------------------------------------
(* The server. *)

Say(response) == toClient' = Append(toClient, response)

ServerReceives ==
    /\ conn = "up"
    /\ toServer # << >>
    /\ toServer' = Tail(toServer)
    /\ \/ /\ exchange.step = "free" /\ Head(toServer).kind # "answer"
          /\ exchange' = [step |-> "run", kind |-> Head(toServer).kind,
                          req |-> Head(toServer).n, honest |-> TRUE]
       \/ /\ exchange.step = "await"
          /\ exchange' = [exchange EXCEPT !.step = "run",
                 !.honest = @ /\ Head(toServer) = Line("answer", Len(asked))]
    /\ UNCHANGED <<clientVars, toClient, asked, granted, notes, conn>>

ServerChallenges(base64) ==
    /\ conn = "up"
    /\ exchange.step = "run" /\ exchange.kind = "authenticate"
    /\ Len(asked) < MaxChallenges
    /\ asked' = Append(asked, base64)
    /\ exchange' = [exchange EXCEPT !.step = "await"]
    /\ Say(Response("cont", "none", exchange.req, Len(asked) + 1))
    /\ UNCHANGED <<clientVars, toServer, granted, notes, conn>>

ServerDone(status) ==
    /\ conn = "up"
    /\ exchange.step = "run"
    /\ status = "ok" => exchange.honest /\ granted = 0
    /\ granted' = IF status = "ok" THEN exchange.req ELSE granted
    /\ exchange' = NoExchange
    /\ Say(Response("done", status, exchange.req, 0))
    /\ UNCHANGED <<clientVars, toServer, asked, notes, conn>>

\* The greeting, capabilities, an untagged status.
ServerNotes ==
    /\ conn = "up" /\ notes < MaxNotes
    /\ notes' = notes + 1
    /\ Say(Response("note", "none", 0, 0))
    /\ UNCHANGED <<clientVars, toServer, exchange, asked, granted, conn>>

ServerCloses(how) ==
    /\ conn = "up"
    /\ conn' = how
    /\ UNCHANGED <<clientVars, toServer, toClient, exchange, asked, granted, notes>>

-----------------------------------------------------------------------------
Attempt == Process \/ Undecodable \/ Check \/ Eof

ServerWork ==
    \/ ServerReceives
    \/ \E base64 \in BOOLEAN : ServerChallenges(base64)
    \/ \E status \in {"ok", "no"} : ServerDone(status)

Next ==
    \/ \E kind \in {"login", "authenticate"} : Start(kind)
    \/ StartFails
    \/ Attempt
    \/ ServerWork
    \/ ServerNotes
    \/ \E how \in {"closed", "cut"} : ServerCloses(how)

Spec == Init /\ [][Next]_vars

\* A future is polled when a response arrives; the server goes on with what it
\* was asked as long as it is not itself waiting for an answer.
FairSpec == Spec /\ WF_vars(Attempt) /\ WF_vars(ServerWork)

-----------------------------------------------------------------------------
\* Every variable holds a value of its kind.
TypeOK ==
    /\ attempts \in 0 .. MaxAttempts
    /\ phase \in {"client", "challenge", "done", "session"}
    /\ outcome \in {"none", "ok", "no", "io", "lost", "authentication"}
    /\ looked \subseteq DOMAIN asked
    /\ toServer \in Seq([kind : {"login", "authenticate", "answer"}, n : Nat])
    /\ toClient \in Seq([kind : {"done", "cont", "note"}, status : {"ok", "no", "none"},
                         req : 0 .. MaxAttempts, n : 0 .. MaxChallenges])
    /\ exchange.step \in {"free", "run", "await"} /\ exchange.req \in 0 .. MaxAttempts
    /\ asked \in Seq(BOOLEAN) /\ Len(asked) <= MaxChallenges
    /\ granted \in 0 .. MaxAttempts
    /\ notes \in 0 .. MaxNotes
    /\ conn \in {"up", "closed", "cut"}

\* Challenges that were read and not looked at.
Skipped ==
    {n \in DOMAIN asked : n \notin looked
        /\ \A i \in DOMAIN toClient : toClient[i].kind = "cont" => toClient[i].n # n}

\* There is a Session only if the server granted the attempt that returned it,
\* and never through a handshake that passed over a challenge: not after an
\* earlier attempt was abandoned half way, nor with answers to it outstanding.
SessionIsGranted ==
    phase = "session" => granted = attempts /\ Skipped = {}

\* login and authenticate return, unless a challenge was passed over: then the
\* server waits for an answer and the client for a tagged response.
AttemptReturns ==
    phase \in {"challenge", "done"} ~> (phase \in {"client", "session"} \/ Skipped # {})

\* "Each base64-decoded server challenge is passed to `process`" (Authenticator):
\* the first untagged response makes authenticate pass over all that follow.
EachChallengeProcessed ==
    outcome = "none" /\ phase \in {"challenge", "done"} => \A n \in Skipped : ~asked[n]
=============================================================================
