----------------------------- MODULE AuthProofs -----------------------------
(***************************************************************************)
(* Login and authenticate for every number of attempts, challenges and     *)
(* untagged responses: the types, and that a Session is what the server    *)
(* granted to this attempt, with every challenge looked at.                *)
(*                                                                         *)
(* SessionIsGranted is far from inductive.  It holds because client and    *)
(* server work in lockstep: while the connection lives, one thing only is  *)
(* under way between them, a line, an exchange the server runs, or a reply *)
(* (Lockstep).  A challenge that was passed over takes it away for good:   *)
(* each side then waits for the other until the connection is gone, and no *)
(* tagged response can come any more (SkippingIsStuck).                    *)
(***************************************************************************)
EXTENDS Auth, QueueProofs

Lines == [kind : {"login", "authenticate", "answer"}, n : Nat]

Responses == [kind : {"done", "cont", "note"}, status : {"ok", "no", "none"},
              req : 0 .. MaxAttempts, n : 0 .. MaxChallenges]

Exchanges == [step : {"free", "run", "await"},
              kind : {"none", "login", "authenticate"},
              req : 0 .. MaxAttempts, honest : BOOLEAN]

\* A response that answers a line, with a tag or with a challenge.
IsReply(response) == response.kind # "note"

NoReply(queue) == \A i \in DOMAIN queue : ~IsReply(queue[i])

AtMostOneReply(queue) ==
    \A i, j \in DOMAIN queue : IsReply(queue[i]) /\ IsReply(queue[j]) => i = j

Awaiting == phase \in {"challenge", "done"}

\* The numbers in lines, responses and the exchange are those of attempts and
\* challenges that were made.
Numbered ==
    /\ exchange \in Exchanges
    /\ exchange.step # "free" => exchange.req # 0
    /\ \A i \in DOMAIN toServer :
           toServer[i].kind # "answer" => toServer[i].n \in 1 .. MaxAttempts
    /\ \A i \in DOMAIN toClient : toClient[i].kind = "cont" => toClient[i].n \in DOMAIN asked

\* One thing is under way at most, and while the connection lives none but
\* for a client that waits.
Lockstep ==
    /\ AtMostOneReply(toClient)
    /\ ~Awaiting => NoReply(toClient)
    /\ conn = "up" =>
        /\ Len(toServer) <= 1
        /\ toServer # << >> => Awaiting /\ NoReply(toClient) /\ exchange.step # "run"
        /\ exchange.step = "run" => Awaiting /\ toServer = << >> /\ NoReply(toClient)
        /\ \A i \in DOMAIN toClient : toClient[i].kind = "cont" => exchange.step = "await"

\* The OK on the wire is that of the one attempt the server granted.
OkIsGranted ==
    /\ \A i \in DOMAIN toClient :
           toClient[i].kind = "done" /\ toClient[i].status = "ok" =>
               granted = toClient[i].req /\ granted # 0
    /\ phase = "session" => granted = attempts

\* When a challenge was passed over, nothing is under way and nothing will be.
SkippingIsStuck ==
    Skipped # {} =>
        /\ NoReply(toClient)
        /\ phase # "session"
        /\ conn = "up" => toServer = << >> /\ exchange.step = "await" /\ phase = "done"

Inv == TypeOK /\ Numbered /\ Lockstep /\ OkIsGranted /\ SkippingIsStuck

-----------------------------------------------------------------------------
\* What the types say of the two queues and of the challenges.
LEMMA Types ==
    ASSUME TypeOK
    PROVE  /\ toClient \in Seq(Responses)
           /\ toServer \in Seq(Lines)
           /\ DOMAIN asked = 1 .. Len(asked) /\ Len(asked) \in Nat
           /\ attempts \in Nat /\ attempts <= MaxAttempts
           /\ MaxAttempts \in Nat /\ MaxChallenges \in Nat /\ MaxNotes \in Nat
BY LenProperties, AuthAssumption DEF TypeOK, Responses, Lines

\* Taking a response leaves at most as many replies, and none after a reply.
LEMMA ReplyTaken ==
    ASSUME NEW q \in Seq(Responses), q # << >>
    PROVE  /\ AtMostOneReply(q) => AtMostOneReply(Tail(q))
           /\ AtMostOneReply(q) /\ IsReply(Head(q)) => NoReply(Tail(q))
           /\ NoReply(q) => NoReply(Tail(q)) /\ ~IsReply(Head(q))
<1>1. /\ 1 \in DOMAIN q /\ Head(q) = q[1]
      /\ \A i \in DOMAIN Tail(q) : i \in Nat \ {0} /\ i + 1 \in DOMAIN q /\ Tail(q)[i] = q[i + 1]
    BY QueueTail
<1>2. ASSUME AtMostOneReply(q) PROVE AtMostOneReply(Tail(q))
    <2> SUFFICES ASSUME NEW i \in DOMAIN Tail(q), NEW j \in DOMAIN Tail(q),
                        IsReply(Tail(q)[i]), IsReply(Tail(q)[j])
                 PROVE  i = j
        BY DEF AtMostOneReply
    <2>1. i + 1 \in DOMAIN q /\ j + 1 \in DOMAIN q /\ IsReply(q[i + 1]) /\ IsReply(q[j + 1])
        BY <1>1
    <2>2. i + 1 = j + 1
        BY <1>2, <2>1 DEF AtMostOneReply
    <2> QED  BY <1>1, <2>2
<1>3. ASSUME AtMostOneReply(q), IsReply(Head(q)) PROVE NoReply(Tail(q))
    <2> SUFFICES ASSUME NEW i \in DOMAIN Tail(q), IsReply(Tail(q)[i]) PROVE FALSE
        BY DEF NoReply
    <2>1. i + 1 \in DOMAIN q /\ IsReply(q[i + 1]) /\ IsReply(q[1])
        BY <1>1, <1>3
    <2>2. i + 1 = 1
        BY <1>1, <1>3, <2>1 DEF AtMostOneReply
    <2> QED  BY <1>1, <2>2
<1>4. ASSUME NoReply(q) PROVE NoReply(Tail(q)) /\ ~IsReply(Head(q))
    BY <1>1, <1>4 DEF NoReply
<1> QED  BY <1>2, <1>3, <1>4

\* A response may follow others: any behind notes only, a note behind any.
LEMMA ReplyGiven ==
    ASSUME NEW q \in Seq(Responses), NEW e \in Responses
    PROVE  /\ NoReply(q) => AtMostOneReply(Append(q, e))
           /\ AtMostOneReply(q) /\ ~IsReply(e) => AtMostOneReply(Append(q, e))
           /\ NoReply(q) /\ ~IsReply(e) => NoReply(Append(q, e))
<1>1. \A i \in DOMAIN Append(q, e) :
          \/ i \in DOMAIN q /\ Append(q, e)[i] = q[i]
          \/ i = Len(q) + 1 /\ Append(q, e)[i] = e
    BY QueueAppend
<1> QED  BY <1>1 DEF NoReply, AtMostOneReply

-----------------------------------------------------------------------------
\* The invariant holds of a new Client.
LEMMA InvInit == Init => Inv
<1> SUFFICES ASSUME Init PROVE Inv
    OBVIOUS
<1>1. /\ toClient = << >> /\ toServer = << >> /\ asked = << >> /\ looked = {}
      /\ exchange = NoExchange /\ attempts = 0 /\ granted = 0 /\ notes = 0
      /\ phase = "client" /\ outcome = "none" /\ conn = "up"
    BY DEF Init
<1>2. DOMAIN << >> = {}
    OBVIOUS
<1>3. /\ toClient \in Seq(Responses) /\ toServer \in Seq(Lines) /\ asked \in Seq(BOOLEAN)
      /\ Len(asked) = 0 /\ Len(toServer) = 0
    BY <1>1, EmptySeq
<1>4. TypeOK
    BY <1>1, <1>3, AuthAssumption DEF TypeOK, NoExchange, Responses, Lines
<1>5. Numbered
    BY <1>1, <1>2, AuthAssumption DEF Numbered, Exchanges, NoExchange
<1>6. Lockstep
    BY <1>1, <1>2, <1>3 DEF Lockstep, NoReply, AtMostOneReply, NoExchange
<1>7. OkIsGranted
    BY <1>1, <1>2 DEF OkIsGranted
<1>8. SkippingIsStuck
    BY <1>1, <1>2 DEF SkippingIsStuck, Skipped
<1> QED  BY <1>4, <1>5, <1>6, <1>7, <1>8 DEF Inv

-----------------------------------------------------------------------------
\* A line is written while nothing else is under way.
LEMMA StartKeepsInv ==
    ASSUME Inv, NEW kind \in {"login", "authenticate"}, Start(kind)
    PROVE  Inv'
<1>1. /\ phase = "client" /\ attempts < MaxAttempts /\ attempts' = attempts + 1
      /\ toServer' = Append(toServer, Line(kind, attempts + 1))
      /\ phase' \in {"done", "challenge"}
      /\ UNCHANGED <<outcome, looked, toClient, exchange, asked, granted, notes, conn>>
    BY DEF Start, serverVars
<1>2. attempts + 1 \in 1 .. MaxAttempts
    BY <1>1, Types DEF Inv
<1>3. Line(kind, attempts + 1) \in Lines
    BY <1>2 DEF Line, Lines
<1>4. /\ toServer' \in Seq(Lines)
      /\ Len(toServer') = Len(toServer) + 1 /\ Len(toServer) \in Nat
      /\ \A i \in DOMAIN toServer' :
             \/ i \in DOMAIN toServer /\ toServer'[i] = toServer[i]
             \/ toServer'[i] = Line(kind, attempts + 1)
    BY <1>1, <1>3, Types, QueueAppend DEF Inv
<1>5. TypeOK'
    BY <1>1, <1>2, <1>4 DEF Inv, TypeOK, Lines
<1>6. Numbered'
    BY <1>1, <1>2, <1>4 DEF Inv, Numbered, Line
<1>7. Lockstep'
    <2>1. NoReply(toClient) /\ AtMostOneReply(toClient)
        BY <1>1 DEF Inv, Lockstep, Awaiting
    <2>2. conn = "up" => toServer = << >> /\ exchange.step # "run"
        BY <1>1 DEF Inv, Lockstep, Awaiting
    <2>3. conn = "up" => Len(toServer') <= 1
        BY <1>4, <2>2, EmptySeq
    <2>4. \A i \in DOMAIN toClient : toClient[i].kind # "cont"
        BY <2>1 DEF NoReply, IsReply
    <2> QED  BY <1>1, <2>1, <2>2, <2>3, <2>4 DEF Lockstep, Awaiting
<1>8. OkIsGranted'
    BY <1>1 DEF Inv, OkIsGranted
<1>9. SkippingIsStuck'
    <2>1. Skipped' = Skipped
        BY <1>1 DEF Skipped
    <2> QED  BY <1>1, <2>1 DEF Inv, SkippingIsStuck
<1> QED  BY <1>5, <1>6, <1>7, <1>8, <1>9 DEF Inv

\* An attempt that fails on a connection that is gone.
LEMMA GoneKeepsInv ==
    ASSUME Inv, conn # "up", NoReply(toClient),
           attempts' \in 0 .. MaxAttempts, phase' = "client", outcome' \in {"io", "lost"},
           UNCHANGED <<looked, toServer, toClient, exchange, asked, granted, notes, conn>>
    PROVE  Inv'
<1>1. TypeOK'
    BY DEF Inv, TypeOK
<1>2. Numbered'
    BY DEF Inv, Numbered
<1>3. Lockstep'
    BY DEF Inv, Lockstep
<1>4. OkIsGranted'
    BY DEF Inv, OkIsGranted
<1>5. SkippingIsStuck'
    <2>1. Skipped' = Skipped
        BY DEF Skipped
    <2> QED  BY <2>1 DEF Inv, SkippingIsStuck
<1> QED  BY <1>1, <1>2, <1>3, <1>4, <1>5 DEF Inv

LEMMA StartFailsKeepsInv == Inv /\ StartFails => Inv'
<1> SUFFICES ASSUME Inv, StartFails PROVE Inv'
    OBVIOUS
<1>1. attempts + 1 \in 0 .. MaxAttempts
    BY Types DEF Inv, StartFails
<1>2. NoReply(toClient)
    BY DEF Inv, Lockstep, Awaiting, StartFails
<1> QED  BY <1>1, <1>2, GoneKeepsInv DEF StartFails, Return, serverVars

LEMMA EofKeepsInv == Inv /\ Eof => Inv'
<1> SUFFICES ASSUME Inv, Eof PROVE Inv'
    OBVIOUS
<1>1. NoReply(toClient)
    BY DEF Eof, NoReply
<1>2. attempts \in 0 .. MaxAttempts
    BY DEF Inv, TypeOK
<1> QED  BY <1>1, <1>2, GoneKeepsInv DEF Eof, Return, serverVars

-----------------------------------------------------------------------------
\* What is left on the wire when the client has read a response.
LEMMA ResponseRead ==
    ASSUME Inv, toClient # << >>, toClient' = Tail(toClient)
    PROVE  /\ toClient' \in Seq(Responses)
           /\ r \in Responses /\ 1 \in DOMAIN toClient /\ r = toClient[1]
           /\ \A i \in DOMAIN toClient' : \E j \in DOMAIN toClient : toClient'[i] = toClient[j]
           /\ AtMostOneReply(toClient')
           /\ IsReply(r) => NoReply(toClient')
           /\ NoReply(toClient) => NoReply(toClient') /\ ~IsReply(r)
<1>1. toClient \in Seq(Responses) /\ AtMostOneReply(toClient)
    BY Types DEF Inv, Lockstep
<1>2. /\ Tail(toClient) \in Seq(Responses)
      /\ Head(toClient) \in Responses /\ 1 \in DOMAIN toClient /\ Head(toClient) = toClient[1]
      /\ \A i \in DOMAIN Tail(toClient) :
             i + 1 \in DOMAIN toClient /\ Tail(toClient)[i] = toClient[i + 1]
    BY <1>1, QueueTail
<1>3. /\ AtMostOneReply(Tail(toClient))
      /\ IsReply(Head(toClient)) => NoReply(Tail(toClient))
      /\ NoReply(toClient) => NoReply(Tail(toClient)) /\ ~IsReply(Head(toClient))
    BY <1>1, ReplyTaken
<1> QED  BY <1>2, <1>3 DEF r

\* A read passes over nothing when it looks at the challenge it takes.
LEMMA ReadSkipsNothing ==
    ASSUME Inv, toClient # << >>, toClient' = Tail(toClient), asked' = asked,
           looked \subseteq looked',
           r.kind = "cont" => r.n \in looked'
    PROVE  Skipped' \subseteq Skipped
<1>1. toClient \in Seq(Responses)
    BY Types DEF Inv
<1>2. /\ Head(toClient) = toClient[1]
      /\ \A i \in DOMAIN toClient :
             i # 1 => i - 1 \in DOMAIN Tail(toClient) /\ Tail(toClient)[i - 1] = toClient[i]
    BY <1>1, QueueTail
<1>3. SUFFICES ASSUME NEW n \in Skipped' PROVE n \in Skipped
    OBVIOUS
<1>4. /\ n \in DOMAIN asked /\ n \notin looked'
      /\ \A i \in DOMAIN Tail(toClient) : Tail(toClient)[i].kind = "cont" => Tail(toClient)[i].n # n
    BY <1>3 DEF Skipped
<1>5. ASSUME NEW i \in DOMAIN toClient, toClient[i].kind = "cont" PROVE toClient[i].n # n
    <2>1. CASE i = 1
        BY <1>2, <1>4, <1>5, <2>1 DEF r
    <2>2. CASE i # 1
        BY <1>2, <1>4, <1>5, <2>2
    <2> QED  BY <2>1, <2>2
<1> QED  BY <1>4, <1>5 DEF Skipped

\* A challenge is read, looked at, and answered or given up.
LEMMA ChallengeKeepsInv ==
    ASSUME Inv, phase = "challenge", Read, r.kind = "cont",
           looked' = looked \cup {r.n},
           \/ /\ toServer' = Append(toServer, Line("answer", r.n))
              /\ UNCHANGED <<phase, outcome>>
           \/ /\ phase' = "client" /\ outcome' \in {"io", "authentication"}
              /\ UNCHANGED toServer
    PROVE  Inv'
<1>1. /\ toClient # << >> /\ toClient' = Tail(toClient)
      /\ UNCHANGED <<attempts, exchange, asked, granted, notes, conn>>
    BY DEF Read, serverVars
<1>2. /\ toClient' \in Seq(Responses) /\ r \in Responses
      /\ 1 \in DOMAIN toClient /\ r = toClient[1]
      /\ \A i \in DOMAIN toClient' : \E j \in DOMAIN toClient : toClient'[i] = toClient[j]
      /\ AtMostOneReply(toClient') /\ NoReply(toClient') /\ ~NoReply(toClient)
    BY <1>1, ResponseRead DEF IsReply
<1>3. Skipped = {} /\ Skipped' = {}
    <2>1. Skipped' \subseteq Skipped
        BY <1>1, ReadSkipsNothing
    <2>2. Skipped = {}
        BY <1>2 DEF Inv, SkippingIsStuck
    <2> QED  BY <2>1, <2>2
<1>4. /\ r.n \in DOMAIN asked /\ r.n \in Nat
      /\ conn = "up" => toServer = << >> /\ exchange.step = "await"
    <2>1. r.n \in DOMAIN asked /\ (conn = "up" => exchange.step = "await")
        BY <1>2 DEF Inv, Numbered, Lockstep
    <2>2. conn = "up" => toServer = << >>
        BY <1>2 DEF Inv, Lockstep
    <2>3. r.n \in Nat
        BY <1>2, Types DEF Inv, Responses
    <2> QED  BY <2>1, <2>2, <2>3
<1>5. /\ toServer' \in Seq(Lines)
      /\ conn = "up" => Len(toServer') <= 1 /\ (phase' = "client" => toServer' = << >>)
      /\ \A i \in DOMAIN toServer' :
             \/ i \in DOMAIN toServer /\ toServer'[i] = toServer[i]
             \/ toServer'[i].kind = "answer"
    <2>1. toServer \in Seq(Lines) /\ Line("answer", r.n) \in Lines
        BY <1>4, Types DEF Inv, Line, Lines
    <2>2. CASE toServer' = toServer
        BY <1>4, <2>1, <2>2, EmptySeq
    <2>3. CASE toServer' = Append(toServer, Line("answer", r.n)) /\ phase' = phase
        <3>1. /\ toServer' \in Seq(Lines)
              /\ Len(toServer') = Len(toServer) + 1
              /\ \A i \in DOMAIN toServer' :
                     \/ i \in DOMAIN toServer /\ toServer'[i] = toServer[i]
                     \/ toServer'[i] = Line("answer", r.n)
            BY <2>1, <2>3, QueueAppend
        <3>2. conn = "up" => Len(toServer') <= 1
            BY <1>4, <3>1, EmptySeq
        <3> QED  BY <2>3, <3>1, <3>2 DEF Line
    <2> QED  BY <2>2, <2>3
<1>6. TypeOK'
    <2>1. looked' \subseteq DOMAIN asked
        BY <1>4 DEF Inv, TypeOK
    <2> QED  BY <1>1, <1>2, <1>5, <2>1 DEF Inv, TypeOK, Lines, Responses
<1>7. Numbered'
    BY <1>1, <1>2, <1>5 DEF Inv, Numbered
<1>8. Lockstep'
    <2>1. \A i \in DOMAIN toClient' : toClient'[i].kind # "cont"
        BY <1>2 DEF NoReply, IsReply
    <2>2. phase' = "client" \/ phase' = "challenge"
        OBVIOUS
    <2>3. conn = "up" => exchange.step # "run"
        BY <1>4
    <2> QED  BY <1>1, <1>2, <1>5, <2>1, <2>2, <2>3 DEF Lockstep, Awaiting
<1>9. OkIsGranted'
    BY <1>1, <1>2 DEF Inv, OkIsGranted
<1>10. SkippingIsStuck'
    BY <1>3 DEF SkippingIsStuck
<1> QED  BY <1>6, <1>7, <1>8, <1>9, <1>10 DEF Inv

\* check_done_ok_from reads a response: a challenge it passes over was the one
\* thing under way, and the OK it takes for the Session's is the granted one.
LEMMA CheckKeepsInv == Inv /\ Check => Inv'
<1> SUFFICES ASSUME Inv, Check PROVE Inv'
    OBVIOUS
<1>1. /\ toClient # << >> /\ toClient' = Tail(toClient) /\ Awaiting
      /\ UNCHANGED <<attempts, looked, toServer, exchange, asked, granted, notes, conn>>
    BY DEF Check, Read, serverVars, Awaiting
<1>2. /\ toClient' \in Seq(Responses) /\ r \in Responses
      /\ 1 \in DOMAIN toClient /\ r = toClient[1]
      /\ \A i \in DOMAIN toClient' : \E j \in DOMAIN toClient : toClient'[i] = toClient[j]
      /\ AtMostOneReply(toClient')
      /\ IsReply(r) => NoReply(toClient')
      /\ NoReply(toClient) => NoReply(toClient') /\ ~IsReply(r)
    BY <1>1, ResponseRead
<1>3. \/ r.kind = "done" /\ r.status = "no" /\ phase' = "client" /\ outcome' = "no"
      \/ r.kind = "done" /\ r.status = "none" /\ phase' = "client" /\ outcome' = "none"
      \/ /\ r.kind = "done" /\ r.status = "ok" /\ r.req = attempts
         /\ phase' = "session" /\ outcome' = "ok"
      \/ phase' = "done" /\ outcome' = outcome
    BY <1>2 DEF Check, Return, Responses
<1>4. TypeOK'
    BY <1>1, <1>2, <1>3 DEF Inv, TypeOK, Responses
<1>5. Numbered'
    BY <1>1, <1>2 DEF Inv, Numbered
<1>6. Lockstep'
    <2>1. phase' \in {"client", "session"} => NoReply(toClient')
        BY <1>2, <1>3 DEF IsReply
    <2>2. conn = "up" /\ phase' \in {"client", "session"} =>
              toServer = << >> /\ exchange.step # "run"
        BY <1>2, <1>3 DEF Inv, Lockstep, IsReply
    <2>3. phase' \in {"client", "session", "done"}
        BY <1>3
    <2> QED  BY <1>1, <1>2, <2>1, <2>2, <2>3 DEF Inv, Lockstep, Awaiting
<1>7. OkIsGranted'
    <2>1. phase' = "session" => granted = attempts
        BY <1>2, <1>3 DEF Inv, OkIsGranted
    <2> QED  BY <1>1, <1>2, <2>1 DEF Inv, OkIsGranted
<1>8. SkippingIsStuck'
    <2>1. CASE r.kind = "cont"
        <3>1. phase' = "done" /\ NoReply(toClient')
            BY <1>2, <1>3, <2>1 DEF IsReply
        <3>2. conn = "up" => toServer = << >> /\ exchange.step = "await"
            BY <1>2, <2>1 DEF Inv, Lockstep, NoReply, IsReply
        <3> QED  BY <1>1, <3>1, <3>2 DEF SkippingIsStuck
    <2>2. CASE r.kind # "cont"
        <3>1. Skipped' \subseteq Skipped
            BY <1>1, <2>2, ReadSkipsNothing
        <3>2. Skipped # {} => phase' = "done"
            BY <1>2, <1>3 DEF Inv, SkippingIsStuck, IsReply
        <3> QED  BY <1>1, <1>2, <3>1, <3>2 DEF Inv, SkippingIsStuck
    <2> QED  BY <2>1, <2>2
<1> QED  BY <1>4, <1>5, <1>6, <1>7, <1>8 DEF Inv

-----------------------------------------------------------------------------
\* The server takes a line: as the answer it waits for, or as a new command.
LEMMA ServerReceivesKeepsInv == Inv /\ ServerReceives => Inv'
<1> SUFFICES ASSUME Inv, ServerReceives PROVE Inv'
    OBVIOUS
<1>1. /\ conn = "up" /\ toServer # << >> /\ toServer' = Tail(toServer)
      /\ UNCHANGED <<attempts, phase, outcome, looked, toClient, asked, granted, notes, conn>>
    BY DEF ServerReceives, clientVars
<1>2. /\ Awaiting /\ NoReply(toClient) /\ Len(toServer) <= 1
    BY <1>1 DEF Inv, Lockstep
<1>3. /\ toServer \in Seq(Lines) /\ toServer' \in Seq(Lines)
      /\ Len(toServer') = Len(toServer) - 1 /\ Len(toServer) \in Nat \ {0}
      /\ Head(toServer) \in Lines /\ 1 \in DOMAIN toServer /\ Head(toServer) = toServer[1]
    BY <1>1, Types, QueueTail DEF Inv
<1>4. toServer' = << >>
    <2>1. Len(toServer') = 0
        BY <1>2, <1>3
    <2> QED  BY <1>3, <2>1, EmptySeq
<1>5. exchange' \in Exchanges /\ exchange'.step = "run" /\ exchange'.req # 0
    <2>1. exchange \in Exchanges /\ (exchange.step # "free" => exchange.req # 0)
        BY DEF Inv, Numbered
    <2>2. CASE /\ exchange.step = "free" /\ Head(toServer).kind # "answer"
               /\ exchange' = [step |-> "run", kind |-> Head(toServer).kind,
                               req |-> Head(toServer).n, honest |-> TRUE]
        <3>1. Head(toServer).n \in 1 .. MaxAttempts
            BY <1>3, <2>2 DEF Inv, Numbered
        <3>2. Head(toServer).n \in 0 .. MaxAttempts /\ Head(toServer).n # 0
            BY <3>1, Types DEF Inv
        <3>3. Head(toServer).kind \in {"login", "authenticate"}
            BY <1>3, <2>2 DEF Lines
        <3> QED  BY <2>2, <3>2, <3>3 DEF Exchanges
    <2>3. CASE /\ exchange.step = "await"
               /\ exchange' = [exchange EXCEPT !.step = "run",
                      !.honest = @ /\ Head(toServer) = Line("answer", Len(asked))]
        BY <2>1, <2>3 DEF Exchanges
    <2> QED  BY <2>2, <2>3 DEF ServerReceives
<1>6. TypeOK'
    BY <1>1, <1>3, <1>5 DEF Inv, TypeOK, Lines, Exchanges
<1>7. Numbered'
    BY <1>1, <1>4, <1>5 DEF Inv, Numbered
<1>8. Lockstep'
    <2>1. \A i \in DOMAIN toClient : toClient[i].kind # "cont"
        BY <1>2 DEF NoReply, IsReply
    <2>2. Len(toServer') <= 1
        BY <1>4, EmptySeq
    <2> QED  BY <1>1, <1>2, <1>4, <2>1, <2>2 DEF Inv, Lockstep, Awaiting
<1>9. OkIsGranted'
    BY <1>1 DEF Inv, OkIsGranted
<1>10. SkippingIsStuck'
    <2>1. Skipped' = Skipped
        BY <1>1 DEF Skipped
    <2> QED  BY <1>1, <2>1 DEF Inv, SkippingIsStuck
<1> QED  BY <1>6, <1>7, <1>8, <1>9, <1>10 DEF Inv

\* What the wire holds when the server has said something.
LEMMA ResponseSaid ==
    ASSUME Inv, NEW response \in Responses, Say(response)
    PROVE  /\ toClient' \in Seq(Responses)
           /\ \A i \in DOMAIN toClient' :
                  \/ i \in DOMAIN toClient /\ toClient'[i] = toClient[i]
                  \/ toClient'[i] = response
           /\ \A i \in DOMAIN toClient : i \in DOMAIN toClient' /\ toClient'[i] = toClient[i]
           /\ \E i \in DOMAIN toClient' : toClient'[i] = response
           /\ NoReply(toClient) => AtMostOneReply(toClient')
           /\ ~IsReply(response) => AtMostOneReply(toClient')
           /\ NoReply(toClient) /\ ~IsReply(response) => NoReply(toClient')
<1>1. toClient \in Seq(Responses) /\ AtMostOneReply(toClient)
    BY Types DEF Inv, Lockstep
<1> DEFINE queue == Append(toClient, response)
<1>2. /\ queue \in Seq(Responses)
      /\ \A i \in DOMAIN toClient : i \in DOMAIN queue /\ queue[i] = toClient[i]
      /\ \A i \in DOMAIN queue :
             \/ i \in DOMAIN toClient /\ queue[i] = toClient[i]
             \/ i = Len(toClient) + 1 /\ queue[i] = response
      /\ Len(toClient) + 1 \in DOMAIN queue /\ queue[Len(toClient) + 1] = response
    BY <1>1, QueueAppend
<1>3. /\ NoReply(toClient) => AtMostOneReply(queue)
      /\ AtMostOneReply(toClient) /\ ~IsReply(response) => AtMostOneReply(queue)
      /\ NoReply(toClient) /\ ~IsReply(response) => NoReply(queue)
    BY <1>1, ReplyGiven
<1>4. toClient' = queue
    BY DEF Say
<1> HIDE DEF queue
<1> QED  BY <1>1, <1>2, <1>3, <1>4

\* A challenge ends the server's turn.
LEMMA ServerChallengesKeepsInv ==
    ASSUME Inv, NEW base64 \in BOOLEAN, ServerChallenges(base64)
    PROVE  Inv'
<1> DEFINE challenge == Response("cont", "none", exchange.req, Len(asked) + 1)
<1>1. /\ conn = "up" /\ exchange.step = "run" /\ Len(asked) < MaxChallenges
      /\ asked' = Append(asked, base64)
      /\ exchange' = [exchange EXCEPT !.step = "await"]
      /\ Say(challenge)
      /\ UNCHANGED <<attempts, phase, outcome, looked, toServer, granted, notes, conn>>
    BY DEF ServerChallenges, clientVars
<1>2. Awaiting /\ toServer = << >> /\ NoReply(toClient)
    BY <1>1 DEF Inv, Lockstep
<1>3. exchange \in Exchanges /\ exchange.req # 0
    BY <1>1 DEF Inv, Numbered
<1>4. challenge \in Responses
    BY <1>1, <1>3, Types DEF Inv, Response, Responses, Exchanges
<1>5. challenge.kind = "cont" /\ challenge.n = Len(asked) + 1
    BY DEF Response
<1> HIDE DEF challenge
<1>6. /\ toClient' \in Seq(Responses)
      /\ \A i \in DOMAIN toClient' :
             \/ i \in DOMAIN toClient /\ toClient'[i] = toClient[i]
             \/ toClient'[i] = challenge
      /\ \A i \in DOMAIN toClient : i \in DOMAIN toClient' /\ toClient'[i] = toClient[i]
      /\ \E i \in DOMAIN toClient' : toClient'[i] = challenge
      /\ AtMostOneReply(toClient')
    BY <1>1, <1>2, <1>4, ResponseSaid
<1>7. /\ asked' \in Seq(BOOLEAN) /\ Len(asked') = Len(asked) + 1 /\ Len(asked) \in Nat
      /\ DOMAIN asked = 1 .. Len(asked) /\ DOMAIN asked' = 1 .. Len(asked) + 1
    <2>1. asked \in Seq(BOOLEAN)
        BY DEF Inv, TypeOK
    <2>2. asked' \in Seq(BOOLEAN) /\ Len(asked') = Len(asked) + 1
        BY <1>1, <2>1, QueueAppend
    <2> QED  BY <2>1, <2>2, LenProperties
<1>8. exchange' \in Exchanges /\ exchange'.step = "await" /\ exchange'.req # 0
    BY <1>1, <1>3 DEF Exchanges
<1>9. TypeOK'
    <2>1. looked' \subseteq DOMAIN asked'
        BY <1>1, <1>7 DEF Inv, TypeOK
    <2>2. Len(asked') <= MaxChallenges
        BY <1>1, <1>7, Types DEF Inv
    <2> QED  BY <1>1, <1>6, <1>7, <1>8, <2>1, <2>2 DEF Inv, TypeOK, Responses, Exchanges
<1>10. Numbered'
    <2>1. \A i \in DOMAIN toClient' : toClient'[i].kind = "cont" => toClient'[i].n \in DOMAIN asked'
        BY <1>5, <1>6, <1>7 DEF Inv, Numbered
    <2> QED  BY <1>1, <1>2, <1>8, <2>1 DEF Inv, Numbered
<1>11. Lockstep'
    BY <1>1, <1>2, <1>6, <1>8, EmptySeq DEF Inv, Lockstep, Awaiting
<1>12. OkIsGranted'
    BY <1>1, <1>5, <1>6 DEF Inv, OkIsGranted
<1>13. SkippingIsStuck'
    <2>1. Skipped = {}
        BY <1>1 DEF Inv, SkippingIsStuck
    <2>2. Skipped' = {}
        <3>1. SUFFICES ASSUME NEW n \in Skipped' PROVE FALSE
            OBVIOUS
        <3>2. /\ n \in 1 .. Len(asked) + 1 /\ n \notin looked
              /\ \A i \in DOMAIN toClient' : toClient'[i].kind = "cont" => toClient'[i].n # n
            BY <1>1, <1>7, <3>1 DEF Skipped
        <3>3. n # Len(asked) + 1
            BY <1>5, <1>6, <3>2
        <3>4. n \in DOMAIN asked
            BY <1>7, <3>2, <3>3
        <3>5. \A i \in DOMAIN toClient : toClient[i].kind = "cont" => toClient[i].n # n
            BY <1>6, <3>2
        <3> QED  BY <2>1, <3>2, <3>4, <3>5 DEF Skipped
    <2> QED  BY <2>2 DEF SkippingIsStuck
<1> QED  BY <1>9, <1>10, <1>11, <1>12, <1>13 DEF Inv

\* No response but a challenge changes what was skipped.
LEMMA SaidSkipsNothing ==
    ASSUME Inv, NEW response \in Responses, Say(response),
           UNCHANGED <<asked, looked>>
    PROVE  Skipped' \subseteq Skipped
<1>1. \A i \in DOMAIN toClient : i \in DOMAIN toClient' /\ toClient'[i] = toClient[i]
    BY ResponseSaid
<1> QED  BY <1>1 DEF Skipped

\* A tagged response ends the exchange; an OK is the first and the only one.
LEMMA ServerDoneKeepsInv ==
    ASSUME Inv, NEW status \in {"ok", "no"}, ServerDone(status)
    PROVE  Inv'
<1> DEFINE answer == Response("done", status, exchange.req, 0)
<1>1. /\ conn = "up" /\ exchange.step = "run" /\ exchange' = NoExchange
      /\ status = "ok" => granted = 0
      /\ granted' = IF status = "ok" THEN exchange.req ELSE granted
      /\ Say(answer)
      /\ UNCHANGED <<attempts, phase, outcome, looked, toServer, asked, notes, conn>>
    BY DEF ServerDone, clientVars
<1>2. Awaiting /\ toServer = << >> /\ NoReply(toClient)
    BY <1>1 DEF Inv, Lockstep
<1>3. exchange \in Exchanges /\ exchange.req # 0 /\ exchange.req \in 0 .. MaxAttempts
    BY <1>1 DEF Inv, Numbered, Exchanges
<1>4. answer \in Responses
    BY <1>3, Types DEF Inv, Response, Responses
<1>5. answer.kind = "done" /\ answer.status = status /\ answer.req = exchange.req
    BY DEF Response
<1> HIDE DEF answer
<1>6. /\ toClient' \in Seq(Responses)
      /\ \A i \in DOMAIN toClient' :
             \/ i \in DOMAIN toClient /\ toClient'[i] = toClient[i]
             \/ toClient'[i] = answer
      /\ AtMostOneReply(toClient')
    BY <1>1, <1>2, <1>4, ResponseSaid
<1>7. TypeOK'
    BY <1>1, <1>3, <1>6, Types DEF Inv, TypeOK, Responses, NoExchange
<1>8. Numbered'
    <2>1. exchange' \in Exchanges /\ exchange'.step = "free"
        BY <1>1, Types DEF Inv, NoExchange, Exchanges
    <2> QED  BY <1>1, <1>5, <1>6, <2>1 DEF Inv, Numbered
<1>9. Lockstep'
    <2>1. \A i \in DOMAIN toClient' : toClient'[i].kind # "cont"
        BY <1>2, <1>5, <1>6 DEF NoReply, IsReply
    <2> QED  BY <1>1, <1>2, <1>6, <2>1, EmptySeq DEF Inv, Lockstep, Awaiting, NoExchange
<1>10. OkIsGranted'
    <2>1. \A i \in DOMAIN toClient' :
              toClient'[i].kind = "done" => status = toClient'[i].status /\ toClient'[i].req = exchange.req
        BY <1>2, <1>5, <1>6 DEF NoReply, IsReply
    <2>2. phase' # "session"
        BY <1>1, <1>2 DEF Awaiting
    <2> QED  BY <1>1, <1>3, <2>1, <2>2 DEF OkIsGranted
<1>11. SkippingIsStuck'
    <2>1. Skipped = {}
        BY <1>1 DEF Inv, SkippingIsStuck
    <2>2. Skipped' \subseteq Skipped
        BY <1>1, <1>4, SaidSkipsNothing
    <2> QED  BY <2>1, <2>2 DEF SkippingIsStuck
<1> QED  BY <1>7, <1>8, <1>9, <1>10, <1>11 DEF Inv

\* An untagged response is no reply.
LEMMA ServerNotesKeepsInv == Inv /\ ServerNotes => Inv'
<1> SUFFICES ASSUME Inv, ServerNotes PROVE Inv'
    OBVIOUS
<1> DEFINE note == Response("note", "none", 0, 0)
<1>1. /\ conn = "up" /\ notes < MaxNotes /\ notes' = notes + 1 /\ Say(note)
      /\ UNCHANGED <<attempts, phase, outcome, looked, toServer, exchange, asked, granted, conn>>
    BY DEF ServerNotes, clientVars
<1>2. note \in Responses /\ note.kind = "note"
    BY Types DEF Inv, Response, Responses
<1> HIDE DEF note
<1>3. /\ toClient' \in Seq(Responses)
      /\ \A i \in DOMAIN toClient' :
             \/ i \in DOMAIN toClient /\ toClient'[i] = toClient[i]
             \/ toClient'[i] = note
      /\ AtMostOneReply(toClient')
      /\ NoReply(toClient) => NoReply(toClient')
    BY <1>1, <1>2, ResponseSaid DEF IsReply
<1>4. TypeOK'
    <2>1. notes' \in 0 .. MaxNotes
        BY <1>1, Types DEF Inv, TypeOK
    <2> QED  BY <1>1, <1>3, <2>1 DEF Inv, TypeOK, Responses
<1>5. Numbered'
    BY <1>1, <1>2, <1>3 DEF Inv, Numbered
<1>6. Lockstep'
    BY <1>1, <1>2, <1>3 DEF Inv, Lockstep, Awaiting
<1>7. OkIsGranted'
    BY <1>1, <1>2, <1>3 DEF Inv, OkIsGranted
<1>8. SkippingIsStuck'
    <2>1. Skipped' \subseteq Skipped
        BY <1>1, <1>2, SaidSkipsNothing
    <2> QED  BY <1>1, <1>3, <2>1 DEF Inv, SkippingIsStuck
<1> QED  BY <1>4, <1>5, <1>6, <1>7, <1>8 DEF Inv

LEMMA ServerClosesKeepsInv ==
    ASSUME Inv, NEW how \in {"closed", "cut"}, ServerCloses(how)
    PROVE  Inv'
<1>1. /\ conn' = how /\ conn' # "up"
      /\ UNCHANGED <<attempts, phase, outcome, looked, toServer, toClient, exchange, asked,
                     granted, notes>>
    BY DEF ServerCloses, clientVars
<1>2. TypeOK'
    BY <1>1 DEF Inv, TypeOK
<1>3. Numbered' /\ OkIsGranted'
    BY <1>1 DEF Inv, Numbered, OkIsGranted
<1>4. Lockstep'
    BY <1>1 DEF Inv, Lockstep, Awaiting
<1>5. SkippingIsStuck'
    <2>1. Skipped' = Skipped
        BY <1>1 DEF Skipped
    <2> QED  BY <1>1, <2>1 DEF Inv, SkippingIsStuck
<1> QED  BY <1>2, <1>3, <1>4, <1>5 DEF Inv

-----------------------------------------------------------------------------
\* Every step keeps the invariant.
LEMMA InvNext == Inv /\ [Next]_vars => Inv'
<1> SUFFICES ASSUME Inv, [Next]_vars PROVE Inv'
    OBVIOUS
<1>1. CASE \E kind \in {"login", "authenticate"} : Start(kind)
    BY <1>1, StartKeepsInv
<1>2. CASE StartFails
    BY <1>2, StartFailsKeepsInv
<1>3. CASE Attempt
    <2>1. CASE Process
        BY <2>1, ChallengeKeepsInv DEF Process, Return
    <2>2. CASE Undecodable
        BY <2>2, ChallengeKeepsInv DEF Undecodable, Return
    <2>3. CASE Check
        BY <2>3, CheckKeepsInv
    <2>4. CASE Eof
        BY <2>4, EofKeepsInv
    <2> QED  BY <1>3, <2>1, <2>2, <2>3, <2>4 DEF Attempt
<1>4. CASE ServerWork
    BY <1>4, ServerReceivesKeepsInv, ServerChallengesKeepsInv, ServerDoneKeepsInv DEF ServerWork
<1>5. CASE ServerNotes
    BY <1>5, ServerNotesKeepsInv
<1>6. CASE \E how \in {"closed", "cut"} : ServerCloses(how)
    BY <1>6, ServerClosesKeepsInv
<1>7. CASE UNCHANGED vars
    <2>1. UNCHANGED <<attempts, phase, outcome, looked, toServer, toClient,
                      exchange, asked, granted, notes, conn>>
        BY <1>7 DEF vars
    <2>2. TypeOK' /\ Numbered' /\ Lockstep' /\ OkIsGranted'
        BY <2>1 DEF Inv, TypeOK, Numbered, Lockstep, OkIsGranted, Awaiting
    <2>3. SkippingIsStuck'
        BY <2>1 DEF Inv, SkippingIsStuck, Skipped
    <2> QED  BY <2>2, <2>3 DEF Inv
<1> QED  BY <1>1, <1>2, <1>3, <1>4, <1>5, <1>6, <1>7 DEF Next

\* The invariant holds in every state a Client can reach.
THEOREM Invariance == Spec => []Inv
BY InvInit, InvNext, PTL DEF Spec

\* Every variable of the Client always holds a value of its kind.
THEOREM TypeCorrect == Spec => []TypeOK
<1>1. Inv => TypeOK
    BY DEF Inv
<1> QED  BY <1>1, Invariance, PTL

\* login and authenticate give a Session only for the attempt the server
\* granted, and only when do_auth_handshake looked at every challenge.
THEOREM GrantedOnly == Spec => []SessionIsGranted
<1>1. Inv => SessionIsGranted
    BY DEF Inv, OkIsGranted, SkippingIsStuck, SessionIsGranted
<1> QED  BY <1>1, Invariance, PTL
=============================================================================
