------------------------- MODULE SessionOrderProofs -------------------------
(***************************************************************************)
(* Which response belongs to which command, for every history of a         *)
(* session: that a confirmed command was answered itself, that success     *)
(* leaves nothing behind, and that the result of an answered command is    *)
(* complete.                                                               *)
(*                                                                         *)
(* The argument is the order of the pipeline.  Seen from the client, the   *)
(* responses on the wire, the command the server works on, and the lines   *)
(* it has not read are of ascending requests, and a tagged response is the *)
(* last of its request (Ordered).  So when a command reads its own tagged  *)
(* response, all the earlier requests, answered or given up, are past.     *)
(***************************************************************************)
EXTENDS SessionProofs

\* Nothing of the request of y comes before x; nothing of x after its answer.
Precedes(x, y) ==
    y.req # 0 => x.req <= y.req /\ (x.kind = "done" => x.req < y.req)

IsLine(message) == message.part = "line"

\* The k-th result is that of the k-th request.
Counted ==
    /\ cur = Idle => Len(results) = next
    /\ cur # Idle => cur.req = next /\ Len(results) = next - 1

WireInOrder == \A i, j \in DOMAIN toClient : i < j => Precedes(toClient[i], toClient[j])

ServingIsLater == \A i \in DOMAIN toClient : Precedes(toClient[i], serving)

LinesAreLater ==
    \A i \in DOMAIN toServer : IsLine(toServer[i]) =>
        /\ serving.req < toServer[i].req
        /\ \A j \in DOMAIN toClient : toClient[j].req < toServer[i].req

LinesInOrder ==
    \A i, j \in DOMAIN toServer :
        i < j /\ IsLine(toServer[i]) /\ IsLine(toServer[j]) => toServer[i].req < toServer[j].req

UpToNext ==
    /\ serving.req <= next
    /\ \A i \in DOMAIN toClient : toClient[i].req <= next
    /\ \A i \in DOMAIN toServer : toServer[i].req <= next

Ordered == WireInOrder /\ ServingIsLater /\ LinesAreLater /\ LinesInOrder /\ UpToNext

\* Nothing of the requests up to p is under way any more.
Past(p) ==
    /\ serving.req \notin 1 .. p
    /\ \A i \in DOMAIN toClient : toClient[i].req \notin 1 .. p
    /\ \A i \in DOMAIN toServer : IsLine(toServer[i]) => toServer[i].req \notin 1 .. p

AnsweredIsPast == \A q \in DOMAIN results : EndedByAnswer(q) => Past(q)

OrderInv == Typed /\ Counted /\ Ordered /\ AnsweredIsPast /\ OkIsItsOwn

-----------------------------------------------------------------------------
\* The ids of two requests are the same only a whole round apart.
LEMMA TagsRepeat ==
    ASSUME NEW a \in Nat, NEW b \in Nat, a < b, Tag(a) = Tag(b)
    PROVE  a <= b - TagModulus
<1> DEFINE m == TagModulus
<1>1. m \in Nat \ {0}
    BY SessionAssumption
<1> HIDE DEF m
<1>2. a % m = b % m
    BY DEF Tag, m
<1>3. /\ a = m * (a \div m) + (a % m) /\ (a \div m) \in Int /\ (a % m) \in Int
      /\ b = m * (b \div m) + (b % m) /\ (b \div m) \in Int /\ (b % m) \in Int
    BY <1>1
<1> DEFINE k == (b \div m) - (a \div m)
<1>4. k \in Int /\ b - a = m * k
    BY <1>1, <1>2, <1>3
<1> HIDE DEF k
<1>5. k >= 1
    BY <1>1, <1>4
<1>6. m * k >= m
    BY <1>1, <1>4, <1>5
<1> QED  BY <1>1, <1>4, <1>6 DEF m

\* The requests of what is under way are numbers.
LEMMA Numbers ==
    ASSUME Typed
    PROVE  /\ next \in Nat
           /\ serving.req \in Nat
           /\ serving # Nothing => serving.req # 0
           /\ serving = Nothing => serving.req = 0
           /\ \A i \in DOMAIN toClient : i \in Nat /\ toClient[i].req \in Nat
           /\ \A i \in DOMAIN toServer : i \in Nat /\ toServer[i].req \in Nat \ {0}
           /\ DOMAIN results = 1 .. Len(results) /\ Len(results) \in Nat
<1>1. /\ next \in Nat /\ MaxRequests \in Nat /\ results \in Seq(Records)
      /\ toClient \in Seq(Responses) /\ toServer \in Seq(Lines)
    BY Types
<1>2. /\ 0 .. MaxRequests \subseteq Nat /\ Requests \subseteq Nat \ {0}
    BY <1>1 DEF Requests
<1>3. /\ serving.req \in Nat
      /\ serving # Nothing => serving.req # 0
      /\ serving = Nothing => serving.req = 0
    BY <1>2 DEF Typed, TypeOK, Servings, Nothing
<1>4. ASSUME NEW i \in DOMAIN toClient PROVE i \in Nat /\ toClient[i].req \in Nat
    <2>1. i \in Nat /\ toClient[i] \in Responses
        BY <1>1, LenProperties, ElementOfSeq
    <2> QED  BY <1>2, <2>1 DEF Responses
<1>5. ASSUME NEW i \in DOMAIN toServer PROVE i \in Nat /\ toServer[i].req \in Nat \ {0}
    <2>1. i \in Nat /\ toServer[i] \in Lines
        BY <1>1, LenProperties, ElementOfSeq
    <2> QED  BY <1>2, <2>1 DEF Lines
<1>6. DOMAIN results = 1 .. Len(results) /\ Len(results) \in Nat
    BY <1>1, LenProperties
<1> QED  BY <1>1, <1>3, <1>4, <1>5, <1>6

-----------------------------------------------------------------------------
(* The order is kept.                                                        *)

\* The lines that wait after a step are those that waited before, or fewer.
LinesStay ==
    \A i \in DOMAIN toServer' :
        /\ toServer'[i].req <= next
        /\ IsLine(toServer'[i]) => i \in DOMAIN toServer /\ toServer'[i] = toServer[i]

\* A client that takes a response, and adds a literal at most.
LEMMA ReadKeepsOrder ==
    ASSUME Typed, Ordered, Read, LinesStay
    PROVE  Ordered' /\ \A p \in Nat : Past(p) => Past(p)'
<1>1. /\ \A i \in DOMAIN toClient' :
             /\ i \in Nat \ {0} /\ i + 1 \in DOMAIN toClient
             /\ toClient'[i] = toClient[i + 1]
      /\ next' = next /\ serving' = serving
    BY ResponseRead
<1>2. WireInOrder'
    <2> SUFFICES ASSUME NEW i \in DOMAIN toClient', NEW j \in DOMAIN toClient', i < j
                 PROVE  Precedes(toClient'[i], toClient'[j])
        BY DEF WireInOrder, Precedes
    <2>1. /\ i + 1 \in DOMAIN toClient /\ j + 1 \in DOMAIN toClient /\ i + 1 < j + 1
          /\ toClient'[i] = toClient[i + 1] /\ toClient'[j] = toClient[j + 1]
        BY <1>1
    <2> QED  BY <2>1 DEF Ordered, WireInOrder
<1>3. ServingIsLater'
    BY <1>1 DEF Ordered, ServingIsLater, Precedes
<1>4. LinesAreLater'
    BY <1>1 DEF Ordered, LinesAreLater, LinesStay, IsLine
<1>5. LinesInOrder'
    BY DEF Ordered, LinesInOrder, LinesStay, IsLine
<1>6. UpToNext'
    BY <1>1 DEF Ordered, UpToNext, LinesStay
<1>7. ASSUME NEW p \in Nat, Past(p) PROVE Past(p)'
    BY <1>1, <1>7 DEF Past, LinesStay, IsLine
<1> QED  BY <1>2, <1>3, <1>4, <1>5, <1>6, <1>7 DEF Ordered

\* A step that leaves the wire, the server and the lines as they are.
LEMMA QuietKeepsOrder ==
    ASSUME Typed, Ordered, UNCHANGED <<toServer, toClient, serving>>, next' \in {next, next + 1}
    PROVE  Ordered' /\ \A p \in Nat : Past(p) => Past(p)'
<1>1. next <= next' /\ next' \in Nat /\ next \in Nat
    BY Numbers
<1>2. UpToNext'
    BY <1>1, Numbers DEF Ordered, UpToNext
<1>3. WireInOrder' /\ ServingIsLater' /\ LinesAreLater' /\ LinesInOrder'
    BY DEF Ordered, WireInOrder, ServingIsLater, LinesAreLater, LinesInOrder, Precedes, IsLine
<1>4. \A p \in Nat : Past(p) => Past(p)'
    BY DEF Past, IsLine
<1> QED  BY <1>2, <1>3, <1>4 DEF Ordered

\* A line is written: its request is later than all others.
LEMMA IssueKeepsOrder ==
    ASSUME Typed, Ordered, NEW name \in Commands, NEW box \in Boxes, Issue(name, box)
    PROVE  Ordered' /\ \A p \in 0 .. next : Past(p) => Past(p)'
<1> DEFINE line == Line(name, box, next + 1)
<1>1. /\ next < MaxRequests /\ next' = next + 1
      /\ toServer' = Append(toServer, line)
      /\ UNCHANGED <<toClient, serving>>
    BY DEF Issue, serverVars
<1>2. /\ next \in Nat /\ next <= MaxRequests /\ MaxRequests \in Nat
      /\ toServer \in Seq(Lines)
    BY Types
<1>3. line \in Lines /\ line.req = next + 1
    BY <1>1, <1>2 DEF Line, Lines, Requests
<1> HIDE DEF line
<1>4. /\ Len(toServer) \in Nat /\ DOMAIN toServer = 1 .. Len(toServer)
      /\ \A i \in DOMAIN toServer' :
             \/ i \in DOMAIN toServer /\ toServer'[i] = toServer[i]
             \/ i = Len(toServer) + 1 /\ toServer'[i] = line
    BY <1>1, <1>2, <1>3, QueueAppend, LenProperties
<1>5. /\ serving.req \in Nat /\ serving.req <= next
      /\ \A i \in DOMAIN toClient : toClient[i].req \in Nat /\ toClient[i].req <= next
      /\ \A i \in DOMAIN toServer : toServer[i].req \in Nat /\ toServer[i].req <= next
    BY Numbers DEF Ordered, UpToNext
<1>6. WireInOrder' /\ ServingIsLater'
    BY <1>1 DEF Ordered, WireInOrder, ServingIsLater, Precedes
<1>7. LinesAreLater'
    <2> SUFFICES ASSUME NEW i \in DOMAIN toServer', IsLine(toServer'[i])
                 PROVE  /\ serving.req < toServer'[i].req
                        /\ \A j \in DOMAIN toClient : toClient[j].req < toServer'[i].req
        BY <1>1 DEF LinesAreLater, IsLine
    <2>1. CASE i \in DOMAIN toServer /\ toServer'[i] = toServer[i]
        BY <2>1 DEF Ordered, LinesAreLater
    <2>2. CASE toServer'[i] = line
        BY <1>2, <1>3, <1>5, <2>2
    <2> QED  BY <1>4, <2>1, <2>2
<1>8. LinesInOrder'
    <2> SUFFICES ASSUME NEW i \in DOMAIN toServer', NEW j \in DOMAIN toServer', i < j,
                        IsLine(toServer'[i]), IsLine(toServer'[j])
                 PROVE  toServer'[i].req < toServer'[j].req
        BY DEF LinesInOrder, IsLine
    <2>1. CASE i \in DOMAIN toServer /\ j \in DOMAIN toServer
        <3>1. toServer'[i] = toServer[i] /\ toServer'[j] = toServer[j]
            BY <1>4, <2>1
        <3> QED  BY <2>1, <3>1 DEF Ordered, LinesInOrder
    <2>2. CASE i \in DOMAIN toServer /\ toServer'[j] = line
        BY <1>2, <1>3, <1>4, <1>5, <2>2
    <2>3. CASE i = Len(toServer) + 1
        BY <1>4, <2>3
    <2> QED  BY <1>4, <2>1, <2>2, <2>3
<1>9. UpToNext'
    <2>1. serving'.req <= next' /\ \A i \in DOMAIN toClient' : toClient'[i].req <= next'
        BY <1>1, <1>2, <1>5
    <2>2. \A i \in DOMAIN toServer' : toServer'[i].req <= next'
        BY <1>1, <1>2, <1>3, <1>4, <1>5
    <2> QED  BY <2>1, <2>2 DEF UpToNext
<1>10. ASSUME NEW p \in 0 .. next, Past(p) PROVE Past(p)'
    <2>1. next + 1 \notin 1 .. p
        BY <1>2
    <2> QED  BY <1>1, <1>3, <1>4, <1>10, <2>1 DEF Past, IsLine
<1> QED  BY <1>6, <1>7, <1>8, <1>9, <1>10 DEF Ordered

\* The server says something of the request it works on, or of none; when it is
\* the answer the request is over.
LEMMA SayKeepsOrder ==
    ASSUME Typed, Ordered, NEW e \in Responses, Say(e),
           next' = next, toServer' = toServer,
           e.req \in {0, serving.req}, e.kind = "done" => serving' = Nothing,
           serving' = Nothing \/ serving'.req = serving.req
    PROVE  Ordered' /\ \A p \in Nat : Past(p) => Past(p)'
<1>1. /\ Len(toClient) \in Nat /\ DOMAIN toClient = 1 .. Len(toClient)
      /\ \A i \in DOMAIN toClient' :
             \/ i \in DOMAIN toClient /\ toClient'[i] = toClient[i]
             \/ i = Len(toClient) + 1 /\ toClient'[i] = e
      /\ DOMAIN toClient' = 1 .. Len(toClient) + 1
    BY ResponseSaid
<1>2. /\ next \in Nat /\ serving.req \in Nat /\ e.req \in Nat /\ e.req <= serving.req
      /\ \A i \in DOMAIN toClient : toClient[i].req \in Nat
      /\ \A i \in DOMAIN toServer : toServer[i].req \in Nat
    BY Numbers
<1>3. serving'.req \in {0, serving.req}
    BY DEF Nothing
<1>4. \A i \in DOMAIN toClient : Precedes(toClient[i], e)
    BY <1>2 DEF Ordered, ServingIsLater, Precedes
<1>5. WireInOrder'
    <2> SUFFICES ASSUME NEW i \in DOMAIN toClient', NEW j \in DOMAIN toClient', i < j
                 PROVE  Precedes(toClient'[i], toClient'[j])
        BY DEF WireInOrder, Precedes
    <2>1. CASE i \in DOMAIN toClient /\ j \in DOMAIN toClient
        <3>1. toClient'[i] = toClient[i] /\ toClient'[j] = toClient[j]
            BY <1>1, <2>1
        <3> QED  BY <2>1, <3>1 DEF Ordered, WireInOrder
    <2>2. CASE i \in DOMAIN toClient /\ j = Len(toClient) + 1
        <3>1. toClient'[i] = toClient[i] /\ toClient'[j] = e
            BY <1>1, <2>2
        <3> QED  BY <1>4, <2>2, <3>1
    <2>3. CASE i = Len(toClient) + 1
        BY <1>1, <2>3
    <2> QED  BY <1>1, <2>1, <2>2, <2>3
<1>6. ServingIsLater'
    <2>1. ASSUME NEW i \in DOMAIN toClient' PROVE Precedes(toClient'[i], serving')
        <3>1. CASE serving'.req = 0
            BY <3>1 DEF Precedes
        <3>2. CASE serving'.req = serving.req /\ serving.req # 0
            <4>1. serving' # Nothing /\ e.kind # "done"
                BY <3>2 DEF Nothing
            <4>2. CASE i \in DOMAIN toClient /\ toClient'[i] = toClient[i]
                BY <3>2, <4>2 DEF Ordered, ServingIsLater, Precedes
            <4>3. CASE toClient'[i] = e
                BY <1>2, <3>2, <4>1, <4>3 DEF Precedes
            <4> QED  BY <1>1, <4>2, <4>3
        <3> QED  BY <1>3, <3>1, <3>2
    <2> QED  BY <2>1 DEF ServingIsLater, Precedes
<1>7. LinesAreLater'
    <2> SUFFICES ASSUME NEW i \in DOMAIN toServer, IsLine(toServer[i])
                 PROVE  /\ serving'.req < toServer[i].req
                        /\ \A j \in DOMAIN toClient' : toClient'[j].req < toServer[i].req
        BY DEF LinesAreLater, IsLine
    <2>1. /\ serving.req < toServer[i].req
          /\ \A j \in DOMAIN toClient : toClient[j].req < toServer[i].req
        BY DEF Ordered, LinesAreLater
    <2>2. serving'.req < toServer[i].req /\ e.req < toServer[i].req
        BY <1>2, <1>3, <2>1
    <2> QED  BY <1>1, <2>1, <2>2
<1>8. LinesInOrder'
    BY DEF Ordered, LinesInOrder, IsLine
<1>9. UpToNext'
    <2>1. serving'.req <= next /\ e.req <= next
        BY <1>2, <1>3 DEF Ordered, UpToNext
    <2> QED  BY <1>1, <2>1 DEF Ordered, UpToNext
<1>10. ASSUME NEW p \in Nat, Past(p) PROVE Past(p)'
    <2>1. serving'.req \notin 1 .. p /\ e.req \notin 1 .. p
        BY <1>3, <1>10 DEF Past
    <2> QED  BY <1>1, <1>10, <2>1 DEF Past, IsLine
<1> QED  BY <1>5, <1>6, <1>7, <1>8, <1>9, <1>10 DEF Ordered

\* The server takes a line: it is the earliest of those that wait.
LEMMA TakeKeepsOrder ==
    ASSUME Typed, Ordered, toServer # << >>, toServer' = Tail(toServer),
           next' = next, toClient' = toClient,
           \/ serving'.req = serving.req
           \/ IsLine(Head(toServer)) /\ serving'.req = Head(toServer).req
    PROVE  Ordered' /\ \A p \in Nat : Past(p) => Past(p)'
<1>1. toServer \in Seq(Lines)
    BY Types
<1>2. /\ 1 \in DOMAIN toServer /\ Head(toServer) = toServer[1]
      /\ \A i \in DOMAIN toServer' :
             /\ i \in Nat \ {0} /\ i + 1 \in DOMAIN toServer
             /\ toServer'[i] = toServer[i + 1]
    BY <1>1, QueueTail
<1>3. WireInOrder'
    BY DEF Ordered, WireInOrder, Precedes
<1>4. ServingIsLater'
    <2>1. CASE serving'.req = serving.req
        BY <2>1 DEF Ordered, ServingIsLater, Precedes
    <2>2. CASE IsLine(Head(toServer)) /\ serving'.req = Head(toServer).req
        <3>1. \A j \in DOMAIN toClient : toClient[j].req < serving'.req
            BY <1>2, <2>2 DEF Ordered, LinesAreLater
        <3>2. serving'.req \in Nat /\ \A j \in DOMAIN toClient : toClient[j].req \in Nat
            BY <1>2, <2>2, Numbers
        <3>3. \A j \in DOMAIN toClient : toClient[j].req <= serving'.req
            BY <3>1, <3>2
        <3> QED  BY <3>1, <3>3 DEF ServingIsLater, Precedes
    <2> QED  BY <2>1, <2>2
<1>5. LinesAreLater'
    <2> SUFFICES ASSUME NEW i \in DOMAIN toServer', IsLine(toServer'[i])
                 PROVE  /\ serving'.req < toServer'[i].req
                        /\ \A j \in DOMAIN toClient : toClient[j].req < toServer'[i].req
        BY DEF LinesAreLater, IsLine
    <2>1. /\ i + 1 \in DOMAIN toServer /\ IsLine(toServer[i + 1]) /\ 1 < i + 1
          /\ toServer'[i] = toServer[i + 1]
        BY <1>2
    <2>2. CASE serving'.req = serving.req
        BY <2>1, <2>2 DEF Ordered, LinesAreLater
    <2>3. CASE IsLine(Head(toServer)) /\ serving'.req = Head(toServer).req
        BY <1>2, <2>1, <2>3 DEF Ordered, LinesAreLater, LinesInOrder
    <2> QED  BY <2>2, <2>3
<1>6. LinesInOrder'
    <2> SUFFICES ASSUME NEW i \in DOMAIN toServer', NEW j \in DOMAIN toServer', i < j,
                        IsLine(toServer'[i]), IsLine(toServer'[j])
                 PROVE  toServer'[i].req < toServer'[j].req
        BY DEF LinesInOrder, IsLine
    <2>1. /\ i + 1 \in DOMAIN toServer /\ j + 1 \in DOMAIN toServer /\ i + 1 < j + 1
          /\ toServer'[i] = toServer[i + 1] /\ toServer'[j] = toServer[j + 1]
        BY <1>2
    <2> QED  BY <2>1 DEF Ordered, LinesInOrder
<1>7. UpToNext'
    BY <1>2 DEF Ordered, UpToNext
<1>8. ASSUME NEW p \in Nat, Past(p) PROVE Past(p)'
    BY <1>2, <1>8 DEF Past, IsLine
<1> QED  BY <1>3, <1>4, <1>5, <1>6, <1>7, <1>8 DEF Ordered

-----------------------------------------------------------------------------
(* The results.                                                              *)

LEMMA ResultAdded ==
    ASSUME Typed, NEW record \in Records, results' = Append(results, record)
    PROVE  /\ Len(results) \in Nat /\ DOMAIN results = 1 .. Len(results)
           /\ Len(results') = Len(results) + 1
           /\ DOMAIN results' = 1 .. Len(results) + 1
           /\ \A q \in DOMAIN results : q \in DOMAIN results' /\ results'[q] = results[q]
           /\ \A q \in DOMAIN results' : q \in DOMAIN results \/ q = Len(results) + 1
           /\ results'[Len(results) + 1] = record
<1>1. results \in Seq(Records)
    BY Types
<1>2. /\ results' \in Seq(Records) /\ Len(results') = Len(results) + 1
      /\ \A q \in DOMAIN results : q \in DOMAIN results' /\ results'[q] = results[q]
      /\ results'[Len(results) + 1] = record
    BY <1>1, QueueAppend
<1>3. /\ Len(results) \in Nat /\ DOMAIN results = 1 .. Len(results)
      /\ DOMAIN results' = 1 .. Len(results')
    BY <1>1, <1>2, LenProperties
<1> QED  BY <1>2, <1>3

LEMMA NoResultKeepsAnswers ==
    ASSUME Typed, AnsweredIsPast, OkIsItsOwn, results' = results,
           \A q \in DOMAIN results : Past(q) => Past(q)'
    PROVE  AnsweredIsPast' /\ OkIsItsOwn'
<1>1. \A q \in DOMAIN results : EndedByAnswer(q)' <=> EndedByAnswer(q)
    BY DEF EndedByAnswer
<1>2. AnsweredIsPast'
    BY <1>1 DEF AnsweredIsPast
<1>3. OkIsItsOwn'
    BY DEF OkIsItsOwn, EndedByAnswer
<1> QED  BY <1>2, <1>3

\* A command returns: nothing of it is left if it read its own answer, and
\* success is its own or an answer no one waited for.
LEMMA ResultKeepsAnswers ==
    ASSUME Typed, AnsweredIsPast, OkIsItsOwn,
           NEW record \in Records, results' = Append(results, record),
           NEW n \in Nat, n = Len(results) + 1,
           \A q \in DOMAIN results : Past(q) => Past(q)',
           record.answer = n => Past(n)',
           record.outcome = "ok" /\ record.name \in Checked /\ record.answer # n =>
               /\ record.answer \in 1 .. n - TagModulus
               /\ \A q \in DOMAIN results : q >= record.answer => ~EndedByAnswer(q)
    PROVE  AnsweredIsPast' /\ OkIsItsOwn'
<1>1. /\ Len(results) \in Nat /\ DOMAIN results = 1 .. Len(results)
      /\ \A q \in DOMAIN results : q \in DOMAIN results' /\ results'[q] = results[q]
      /\ \A q \in DOMAIN results' : q \in DOMAIN results \/ q = n
      /\ results'[n] = record
    BY ResultAdded
<1>2. \A q \in DOMAIN results : EndedByAnswer(q)' <=> EndedByAnswer(q)
    BY <1>1 DEF EndedByAnswer
<1>3. AnsweredIsPast'
    <2> SUFFICES ASSUME NEW q \in DOMAIN results', results'[q].answer = q PROVE Past(q)'
        BY DEF AnsweredIsPast, EndedByAnswer
    <2>1. CASE q \in DOMAIN results
        BY <1>1, <2>1 DEF AnsweredIsPast, EndedByAnswer
    <2>2. CASE q = n
        BY <1>1, <2>2
    <2> QED  BY <1>1, <2>1, <2>2
<1>4. OkIsItsOwn'
    <2> SUFFICES ASSUME NEW q \in DOMAIN results', results'[q].outcome = "ok",
                        results'[q].name \in Checked, results'[q].answer # q
                 PROVE  /\ results'[q].answer \in 1 .. q - TagModulus
                        /\ \A p \in results'[q].answer .. q - 1 : ~(results'[p].answer = p)
        BY DEF OkIsItsOwn, EndedByAnswer
    <2>1. CASE q \in DOMAIN results
        <3>1. /\ results[q].answer \in 1 .. q - TagModulus
              /\ \A p \in results[q].answer .. q - 1 : ~EndedByAnswer(p)
            BY <1>1, <2>1 DEF OkIsItsOwn
        <3>2. \A p \in results[q].answer .. q - 1 : p \in DOMAIN results
            BY <1>1, <2>1, <3>1
        <3> QED  BY <1>1, <2>1, <3>1, <3>2 DEF EndedByAnswer
    <2>2. CASE q = n
        <3>1. /\ record.answer \in 1 .. n - TagModulus
              /\ \A p \in DOMAIN results : p >= record.answer => ~EndedByAnswer(p)
            BY <1>1, <2>2
        <3>2. \A p \in record.answer .. n - 1 : p \in DOMAIN results /\ p >= record.answer
            BY <1>1, <3>1, Types
        <3> QED  BY <1>1, <2>2, <3>1, <3>2 DEF EndedByAnswer
    <2> QED  BY <1>1, <2>1, <2>2
<1> QED  BY <1>3, <1>4

-----------------------------------------------------------------------------
(* What a step can be, for the proofs that follow.                           *)

\* A loop reads a response.
Reads ==
    /\ Read /\ cur \in Running
    /\ (\E outcome \in Outcomes : EndsBy(outcome)) \/ Puts \/ Passes \/ SendsLiteral

\* The command in progress returns without having read an answer.
VainReturn(outcome) ==
    /\ cur # Idle
    /\ Return(outcome, 0)
    /\ outcome = "ok" => cur.name \notin Checked /\ conn # "up" /\ toClient = << >>
    /\ UNCHANGED <<next, toServer, toClient, serving, emitted, conn>>

Issues == \E name \in Commands : IssueFails(name) \/ \E box \in Boxes : Issue(name, box)

\* Nothing happens to the commands.
Quiet == UNCHANGED <<next, cur, results, toServer, toClient, serving, emitted, conn>>

LEMMA CallIsIssue == CallCommand => Issues
<1>1. ASSUME NEW name, Call(name) PROVE Issues
    <2>1. name \in Commands
        BY <1>1 DEF Call
    <2>2. IssueFails(name) \/ \E box \in Boxes : Issue(name, box)
        BY <1>1 DEF Call, Boxes
    <2> QED  BY <2>1, <2>2 DEF Issues
<1> QED  BY <1>1 DEF CallCommand, CallCreate, CallClose, CallCopy, CallNoop, CallList,
         CallFetch, CallStore, CallExpunge, CallCapabilities, CallSearch, CallGetMetadata,
         CallGetQuota, CallGetQuotaRoot, CallId, CallStatus, CallSelect, CallAppend

\* Whichever of the commands is running, a step is one of these.
LEMMA StepIsOneOf ==
    ASSUME Typed, [Next]_vars
    PROVE  Reads \/ (\E outcome \in Outcomes : VainReturn(outcome)) \/ Issues \/ Server \/ Quiet
<1>1. "io" \in Outcomes /\ "cancelled" \in Outcomes
    BY DEF Outcomes
<1>2. CASE ReadStep /\ ~ReadEof
    BY <1>2, ReadIsOneOf DEF Reads
<1>3. CASE ReadEof
    <2> DEFINE outcome == IF conn = "cut" THEN "io" ELSE AtEof
    <2>1. /\ cur # Idle /\ Return(outcome, 0) /\ conn # "up" /\ toClient = << >>
          /\ UNCHANGED <<next, toServer, toClient, serving, emitted, conn>>
        BY <1>3 DEF ReadEof, serverVars
    <2>2. AtEof \in {"ok", "lost", "append", "absent"}
        BY DEF AtEof, QuotaOutcome
    <2>3. outcome \in Outcomes
        BY <2>2 DEF Outcomes, Statuses
    <2>4. ASSUME cur.name \in Checked PROVE AtEof = "lost"
        <3>1. cur.name # "append" /\ cur.name # "get_quota"
            BY <2>4 DEF Checked
        <3> QED  BY <2>4, <3>1 DEF AtEof
    <2>5. outcome = "ok" => cur.name \notin Checked
        BY <2>4
    <2> HIDE DEF outcome
    <2>6. VainReturn(outcome)
        BY <2>1, <2>5 DEF VainReturn
    <2> QED  BY <2>3, <2>6
<1>4. CASE ReadError
    <2>1. /\ cur # Idle /\ UNCHANGED <<next, toServer, toClient, serving, emitted, conn>>
          /\ Return("io", 0) \/ UNCHANGED <<cur, results>>
        BY <1>4 DEF ReadError, serverVars
    <2> QED  BY <1>1, <2>1 DEF VainReturn, Quiet
<1>5. CASE Cancel
    <2>1. /\ cur # Idle /\ Return("cancelled", 0)
          /\ UNCHANGED <<next, toServer, toClient, serving, emitted, conn>>
        BY <1>5 DEF Cancel, serverVars
    <2> QED  BY <1>1, <2>1 DEF VainReturn
<1>6. CASE Drain
    BY <1>6 DEF Drain, serverVars, Quiet
<1>7. CASE UNCHANGED vars
    BY <1>7 DEF vars, Quiet
<1> QED  BY <1>2, <1>3, <1>4, <1>5, <1>6, <1>7, CallIsIssue DEF Next, Caller

\* The server sends data of the request it works on.
DataSaid(e) ==
    /\ serving \in Servings /\ serving.req \in Requests /\ serving' = serving
    /\ Say(e)
    /\ e.kind = "data" /\ e.class \in Gives[serving.name] /\ e.box = serving.box
    /\ e.req = serving.req /\ e.n = emitted[serving.req] + 1
    /\ emitted' = [emitted EXCEPT ![serving.req] = @ + 1]

\* It says something else, or nothing.
OtherSaid ==
    /\ emitted' = emitted
    /\ \/ toClient' = toClient
       \/ \E e \in Responses : Say(e) /\ (e.kind # "data" \/ e.req = 0)

\* It goes on with what it has, is done with it, or takes a line.
ServingGoesOn ==
    \/ serving' = Nothing
    \/ /\ serving # Nothing
       /\ serving'.req = serving.req /\ serving'.name = serving.name /\ serving'.box = serving.box
    \/ \E j \in DOMAIN toServer :
           /\ IsLine(toServer[j])
           /\ serving'.req = toServer[j].req /\ serving'.name = toServer[j].name
           /\ serving'.box = toServer[j].box

LEMMA ServerSteps ==
    ASSUME Typed, Server
    PROVE  /\ conn = "up" /\ UNCHANGED <<next, cur, results>>
           /\ \A i \in DOMAIN toServer' : \E j \in DOMAIN toServer : toServer'[i] = toServer[j]
           /\ ServingGoesOn
           /\ OtherSaid \/ \E e \in Responses : DataSaid(e)
<1>1. conn = "up" /\ UNCHANGED <<next, cur, results>>
    BY DEF Server, ServerWork, ServerReceives, ServerAsks, ServerData, ServerDone,
           ServerNote, ServerCloses, clientVars
<1> DEFINE LinesKept == \A i \in DOMAIN toServer' : \E j \in DOMAIN toServer : toServer'[i] = toServer[j]
           Said == OtherSaid \/ \E e \in Responses : DataSaid(e)
<1>2. toServer' = toServer => LinesKept
    OBVIOUS
<1>3. serving' = serving => ServingGoesOn
    BY DEF ServingGoesOn
<1> HIDE DEF LinesKept
<1>4. ASSUME NEW e \in Responses, Say(e), e.kind # "data" \/ e.req = 0, emitted' = emitted
      PROVE  Said
    BY <1>4 DEF OtherSaid
<1>5. CASE ServerReceives
    <2>1. toServer # << >> /\ toServer' = Tail(toServer) /\ toServer \in Seq(Lines) /\ emitted' = emitted
        BY <1>5, Types DEF ServerReceives
    <2>2. /\ 1 \in DOMAIN toServer /\ Head(toServer) = toServer[1]
          /\ \A i \in DOMAIN toServer' : i + 1 \in DOMAIN toServer /\ toServer'[i] = toServer[i + 1]
        BY <2>1, QueueTail
    <2>3. LinesKept
        BY <2>2 DEF LinesKept
    <2>4. CASE /\ serving.step = "literal" /\ serving' = [serving EXCEPT !.step = "run"]
               /\ UNCHANGED toClient
        <3>1. serving # Nothing /\ serving \in Servings
            BY <2>4, ResponsesAreProper, NameOfIdle
        <3>2. ServingGoesOn
            BY <2>4, <3>1 DEF ServingGoesOn, Servings
        <3> QED  BY <1>1, <2>1, <2>3, <2>4, <3>2 DEF OtherSaid, LinesKept
    <2>5. CASE /\ IsLine(Head(toServer)) /\ serving'.name = Head(toServer).name
               /\ serving'.req = Head(toServer).req /\ serving'.box = Head(toServer).box
               /\ UNCHANGED toClient
        <3>1. ServingGoesOn
            BY <2>2, <2>5 DEF ServingGoesOn
        <3> QED  BY <1>1, <2>1, <2>3, <2>5, <3>1 DEF OtherSaid, LinesKept
    <2>6. CASE Say(Response("status", "none", "none", "no", 0, 0)) /\ UNCHANGED serving
        <3> DEFINE e == Response("status", "none", "none", "no", 0, 0)
        <3>1. e \in Responses /\ e.req = 0
            BY ResponsesAreProper DEF Response, Statuses
        <3>2. Say(e)
            BY <2>6
        <3> HIDE DEF e
        <3>3. Said
            BY <1>4, <2>1, <3>1, <3>2
        <3> QED  BY <1>1, <1>3, <2>3, <2>6, <3>3 DEF LinesKept
    <2> QED  BY <1>5, <2>4, <2>5, <2>6 DEF ServerReceives, IsLine
<1>6. CASE ServerAsks
    <2> DEFINE e == Response("cont", "none", "none", "none", serving.req, 0)
    <2>1. /\ serving.step = "start" /\ serving' = [serving EXCEPT !.step = "literal"]
          /\ Say(e) /\ toServer' = toServer /\ emitted' = emitted
        BY <1>6 DEF ServerAsks
    <2>2. /\ serving # Nothing /\ serving \in Servings /\ e \in Responses /\ e.kind = "cont"
        BY <2>1, ResponsesAreProper, NameOfIdle DEF Response
    <2> HIDE DEF e
    <2>3. ServingGoesOn
        BY <2>1, <2>2 DEF ServingGoesOn, Servings
    <2>4. Said
        BY <1>4, <2>1, <2>2
    <2> QED  BY <1>1, <1>2, <2>1, <2>3, <2>4 DEF LinesKept
<1>7. CASE ServerData
    <2>1. /\ serving.step = "run" /\ serving' = serving /\ toServer' = toServer
          /\ emitted' = [emitted EXCEPT ![serving.req] = @ + 1]
        BY <1>7 DEF ServerData
    <2>2. PICK class \in Gives[serving.name] :
              Say(Response("data", class, serving.box, "none", serving.req, emitted'[serving.req]))
        BY <1>7 DEF ServerData
    <2>3. serving \in Servings /\ serving.req \in Requests
        BY <2>1, ResponsesAreProper DEF Servings
    <2>4. emitted'[serving.req] = emitted[serving.req] + 1 /\ emitted'[serving.req] \in Nat
        <3>1. emitted \in [Requests -> Nat]
            BY SessionAssumption DEF Typed, TypeOK
        <3> QED  BY <2>1, <2>3, <3>1
    <2> DEFINE n == emitted'[serving.req]
               e == Response("data", class, serving.box, "none", serving.req, n)
    <2>5. e \in Responses
        BY <2>3, <2>4, ResponsesAreProper
    <2>6. /\ e.kind = "data" /\ e.class = class /\ e.box = serving.box
          /\ e.req = serving.req /\ e.n = n
        BY DEF Response
    <2>7. Say(e)
        BY <2>2
    <2> HIDE DEF e
    <2>8. DataSaid(e)
        BY <2>1, <2>3, <2>4, <2>6, <2>7 DEF DataSaid
    <2>9. Said
        BY <2>5, <2>8
    <2> QED  BY <1>1, <1>2, <1>3, <2>1, <2>9 DEF LinesKept
<1>8. ASSUME NEW status \in Statuses, ServerDone(status) PROVE LinesKept /\ ServingGoesOn /\ Said
    <2> DEFINE e == Response("done", "none", "none", status, serving.req, 0)
    <2>1. /\ serving.step \in {"start", "run"} /\ serving' = Nothing
          /\ Say(e) /\ toServer' = toServer /\ emitted' = emitted
        BY <1>8 DEF ServerDone
    <2>2. e \in Responses /\ e.kind = "done"
        BY <2>1, ResponsesAreProper DEF Response
    <2> HIDE DEF e
    <2>3. Said
        BY <1>4, <2>1, <2>2
    <2> QED  BY <1>2, <2>1, <2>3 DEF ServingGoesOn
<1>9. ASSUME NEW kind, NEW class, NEW status, ServerNote(kind, class, status),
             \A n \in Nat : Response(kind, class, "none", status, 0, n) \in Responses
      PROVE  LinesKept /\ ServingGoesOn /\ Said
    <2> DEFINE e == Response(kind, class, "none", status, 0, notes + 1)
    <2>1. Say(e) /\ toServer' = toServer /\ serving' = serving /\ emitted' = emitted
        BY <1>9 DEF ServerNote
    <2>2. e \in Responses /\ e.req = 0
        <3>1. notes + 1 \in Nat
            BY SessionAssumption DEF Typed, TypeOK
        <3> QED  BY <1>9, <3>1 DEF Response
    <2> HIDE DEF e
    <2>3. Said
        BY <1>4, <2>1, <2>2
    <2> QED  BY <1>2, <1>3, <2>1, <2>3
<1>10. CASE \E class \in NoteClasses : ServerNote("data", class, "none")
    BY <1>1, <1>9, <1>10, ResponsesAreProper DEF LinesKept
<1>11. CASE \E status \in Statuses : ServerNote("status", "none", status)
    BY <1>1, <1>9, <1>11, ResponsesAreProper DEF LinesKept
<1>12. CASE \E how \in {"closed", "cut"} : ServerCloses(how)
    BY <1>1, <1>2, <1>3, <1>12 DEF ServerCloses, OtherSaid, LinesKept
<1> QED  BY <1>1, <1>5, <1>6, <1>7, <1>8, <1>10, <1>11, <1>12 DEF Server, ServerWork, LinesKept

-----------------------------------------------------------------------------
LEMMA OrderInit == Init => OrderInv
<1> SUFFICES ASSUME Init PROVE OrderInv
    OBVIOUS
<1>1. /\ next = 0 /\ cur = Idle /\ results = << >> /\ toServer = << >> /\ toClient = << >>
      /\ serving = Nothing /\ serving.req = 0
    BY DEF Init, Nothing
<1>2. DOMAIN << >> = {} /\ Len(<< >>) = 0
    BY EmptySeq
<1>3. Counted
    BY <1>1, <1>2 DEF Counted
<1>4. Ordered
    BY <1>1, <1>2 DEF Ordered, WireInOrder, ServingIsLater, LinesAreLater, LinesInOrder, UpToNext
<1>5. AnsweredIsPast /\ OkIsItsOwn
    BY <1>1, <1>2 DEF AnsweredIsPast, OkIsItsOwn
<1> QED  BY <1>3, <1>4, <1>5, TypedInit DEF OrderInv

LEMMA VainReturnKeepsOrderInv ==
    ASSUME OrderInv, NEW outcome \in Outcomes, VainReturn(outcome)
    PROVE  Counted' /\ Ordered' /\ AnsweredIsPast' /\ OkIsItsOwn'
<1>1. Typed /\ Counted /\ Ordered /\ AnsweredIsPast /\ OkIsItsOwn
    BY DEF OrderInv
<1>2. cur \in Running /\ 0 \in 0 .. MaxRequests
    BY <1>1, Types DEF VainReturn
<1> DEFINE record == Result(outcome, 0)
<1>3. /\ record \in Records /\ record.answer = 0 /\ record.outcome = outcome
      /\ record.name = cur.name
    BY <1>2 DEF Result, Records, Running
<1>4. /\ cur # Idle /\ cur' = Idle /\ results' = Append(results, record)
      /\ outcome = "ok" => cur.name \notin Checked
      /\ UNCHANGED <<next, toServer, toClient, serving>>
    BY DEF VainReturn, Return
<1> HIDE DEF record
<1>5. Len(results') = Len(results) + 1 /\ Len(results) \in Nat /\ DOMAIN results = 1 .. Len(results)
    BY <1>1, <1>3, <1>4, ResultAdded
<1>6. Len(results) = next - 1 /\ next \in Nat
    BY <1>1, <1>4, Numbers DEF Counted
<1>7. Counted'
    BY <1>4, <1>5, <1>6 DEF Counted
<1>8. Ordered' /\ \A p \in Nat : Past(p) => Past(p)'
    BY <1>1, <1>4, QuietKeepsOrder
<1>9. \A q \in DOMAIN results : Past(q) => Past(q)'
    BY <1>5, <1>8
<1>10. AnsweredIsPast' /\ OkIsItsOwn'
    BY <1>1, <1>3, <1>4, <1>5, <1>9, ResultKeepsAnswers
<1> QED  BY <1>7, <1>8, <1>10

\* After the tagged response to the latest request nothing is under way.
LEMMA AnswerIsLast ==
    ASSUME Typed, Ordered, Read, r.kind = "done", r.req = next, UNCHANGED toServer
    PROVE  Past(next)'
<1>1. /\ 1 \in DOMAIN toClient /\ r = toClient[1]
      /\ \A i \in DOMAIN toClient' :
             /\ i \in Nat \ {0} /\ i + 1 \in DOMAIN toClient
             /\ toClient'[i] = toClient[i + 1]
      /\ UNCHANGED <<next, serving>>
    BY ResponseRead
<1>2. /\ next \in Nat /\ serving.req \in Nat
      /\ \A i \in DOMAIN toClient : toClient[i].req \in Nat
      /\ \A i \in DOMAIN toServer : toServer[i].req \in Nat
    BY Numbers
<1>3. /\ serving.req <= next
      /\ \A i \in DOMAIN toClient : toClient[i].req <= next
      /\ \A i \in DOMAIN toServer : toServer[i].req <= next
    BY DEF Ordered, UpToNext
<1>4. serving.req \notin 1 .. next
    <2>1. serving.req # 0 => next < serving.req
        BY <1>1 DEF Ordered, ServingIsLater, Precedes
    <2> QED  BY <1>2, <1>3, <2>1
<1>5. ASSUME NEW i \in DOMAIN toClient' PROVE toClient'[i].req \notin 1 .. next
    <2>1. /\ i + 1 \in DOMAIN toClient /\ 1 < i + 1 /\ toClient'[i] = toClient[i + 1]
        BY <1>1
    <2>2. toClient[i + 1].req # 0 => next < toClient[i + 1].req
        BY <1>1, <2>1 DEF Ordered, WireInOrder, Precedes
    <2> QED  BY <1>2, <1>3, <2>1, <2>2
<1>6. ASSUME NEW i \in DOMAIN toServer, IsLine(toServer[i]) PROVE FALSE
    <2>1. next < toServer[i].req
        BY <1>1, <1>6 DEF Ordered, LinesAreLater
    <2> QED  BY <1>2, <1>3, <2>1
<1> QED  BY <1>1, <1>4, <1>5, <1>6 DEF Past, IsLine

\* A response with the tag of the command in progress answers it, or a request a
\* whole round of ids earlier.
LEMMA OwnAnswer ==
    ASSUME OrderInv, Read, cur \in Running, Own
    PROVE  /\ r.kind = "done" /\ r.req \in Nat \ {0}
           /\ r.req = next \/ r.req \in 1 .. next - TagModulus
<1>1. Typed /\ Counted /\ Ordered
    BY DEF OrderInv
<1>2. /\ r \in Responses /\ Proper(r) /\ 1 \in DOMAIN toClient /\ r = toClient[1]
      /\ r.kind = "done" /\ Tag(r.req) = Tag(cur.req)
    BY <1>1, ResponseRead DEF Own
<1>3. r.req \in Nat \ {0} /\ r.req <= next /\ next \in Nat
    BY <1>1, <1>2, Types DEF Proper, Ordered, UpToNext, Requests
<1>4. cur.req = next
    BY <1>1, NameOfIdle DEF Counted
<1>5. CASE r.req < next
    <2>1. r.req <= next - TagModulus
        BY <1>2, <1>3, <1>4, <1>5, TagsRepeat
    <2> QED  BY <1>1, <1>2, <1>3, <2>1, Types
<1> QED  BY <1>2, <1>3, <1>5

\* The command in progress ends on the response it reads.
LEMMA EndKeepsOrderInv ==
    ASSUME OrderInv, Read, cur \in Running, NEW outcome \in Outcomes, EndsBy(outcome)
    PROVE  Counted' /\ Ordered' /\ AnsweredIsPast' /\ OkIsItsOwn'
<1>1. Typed /\ Counted /\ Ordered /\ AnsweredIsPast /\ OkIsItsOwn
    BY DEF OrderInv
<1>2. /\ r \in Responses /\ Proper(r) /\ 1 \in DOMAIN toClient /\ r = toClient[1]
      /\ UNCHANGED <<next, serving>>
    BY <1>1, ResponseRead
<1> DEFINE answer == IF r.kind = "done" THEN r.req ELSE 0
           record == Result(outcome, answer)
<1>3. answer \in 0 .. MaxRequests
    BY <1>2, SessionAssumption DEF Responses
<1>4. /\ record \in Records /\ record.answer = answer /\ record.outcome = outcome
      /\ record.name = cur.name
    BY <1>3 DEF Result, Records, Running
<1>5. /\ cur' = Idle /\ results' = Append(results, record)
      /\ UNCHANGED <<unsolicited, toServer>>
    BY DEF EndsBy, End, Return
<1> HIDE DEF record
<1>6. Len(results') = Len(results) + 1 /\ Len(results) \in Nat /\ DOMAIN results = 1 .. Len(results)
    BY <1>1, <1>4, <1>5, ResultAdded
<1>7. Len(results) = next - 1 /\ next \in Nat /\ next # 0 /\ cur.req = next
    <2>1. cur # Idle /\ cur.req \in Requests
        BY NameOfIdle DEF Running
    <2>2. cur.req # 0
        BY <2>1 DEF Requests
    <2> QED  BY <1>1, <2>1, <2>2, Numbers DEF Counted
<1>8. Counted'
    BY <1>2, <1>5, <1>6, <1>7 DEF Counted
<1>9. LinesStay
    <2>1. \A i \in DOMAIN toServer : toServer[i].req <= next
        BY <1>1 DEF Ordered, UpToNext
    <2> QED  BY <1>5, <2>1 DEF LinesStay
<1>10. Ordered' /\ \A p \in Nat : Past(p) => Past(p)'
    BY <1>1, <1>9, ReadKeepsOrder
<1>11. \A q \in DOMAIN results : Past(q) => Past(q)'
    BY <1>6, <1>10
<1>12. answer = next => Past(next)'
    BY <1>1, <1>5, <1>7, AnswerIsLast
<1>13. ASSUME outcome = "ok", cur.name \in Checked, answer # next
       PROVE  /\ answer \in 1 .. next - TagModulus
              /\ \A q \in DOMAIN results : q >= answer => ~EndedByAnswer(q)
    <2>1. Own /\ answer = r.req
        <3>1. cur.name # "append"
            BY <1>13 DEF Checked
        <3> QED  BY <1>13, <3>1 DEF EndsBy, Own
    <2>2. answer \in Nat \ {0} /\ answer \in 1 .. next - TagModulus
        BY <1>13, <2>1, OwnAnswer
    <2>4. ASSUME NEW q \in DOMAIN results, q >= answer, EndedByAnswer(q) PROVE FALSE
        <3>1. Past(q)
            BY <1>1, <2>4 DEF AnsweredIsPast
        <3>2. answer \notin 1 .. q
            BY <1>2, <2>1, <3>1 DEF Past
        <3> QED  BY <1>6, <2>2, <2>4, <3>2
    <2> QED  BY <2>2, <2>4
<1> HIDE DEF answer
<1>14. AnsweredIsPast' /\ OkIsItsOwn'
    <2>1. PICK n \in Nat : n = next
        BY <1>7
    <2>2. n = Len(results) + 1
        BY <1>6, <1>7, <2>1
    <2>3. record.answer = n => Past(n)'
        BY <1>2, <1>4, <1>12, <2>1 DEF Past
    <2>4. record.outcome = "ok" /\ record.name \in Checked /\ record.answer # n =>
              /\ record.answer \in 1 .. n - TagModulus
              /\ \A q \in DOMAIN results : q >= record.answer => ~EndedByAnswer(q)
        BY <1>4, <1>13, <2>1
    <2> QED  BY <1>1, <1>4, <1>5, <1>11, <2>2, <2>3, <2>4, ResultKeepsAnswers
<1> QED  BY <1>8, <1>10, <1>14

\* The command in progress reads on.
LEMMA ReadOnKeepsOrderInv ==
    ASSUME OrderInv, Read, cur \in Running, Puts \/ Passes \/ SendsLiteral
    PROVE  Counted' /\ Ordered' /\ AnsweredIsPast' /\ OkIsItsOwn'
<1>1. Typed /\ Counted /\ Ordered /\ AnsweredIsPast /\ OkIsItsOwn
    BY DEF OrderInv
<1>2. cur' # Idle /\ cur'.req = cur.req /\ results' = results /\ next' = next
    <2>1. cur'.req = cur.req /\ cur'.name = cur.name
        BY DEF Puts, Passes, SendsLiteral, Keep, Running
    <2>2. cur.name # "none"
        BY NameOfIdle DEF Running
    <2> QED  BY <2>1, <2>2, NameOfIdle DEF Puts, Passes, SendsLiteral, Keep, Read
<1>3. Counted'
    BY <1>1, <1>2, NameOfIdle DEF Counted
<1>4. LinesStay
    <2>1. \A i \in DOMAIN toServer : toServer[i].req <= next
        BY <1>1 DEF Ordered, UpToNext
    <2>2. CASE toServer' = toServer
        BY <2>1, <2>2 DEF LinesStay
    <2>3. CASE SendsLiteral
        <3> DEFINE literal == [Line("append", "none", cur.req) EXCEPT !.part = "literal"]
        <3>1. toServer' = Append(toServer, literal)
            BY <2>3 DEF SendsLiteral
        <3>2. /\ literal \in Lines /\ ~IsLine(literal) /\ literal.req = next
            <4>1. cur.name = "append" /\ cur.name \in Commands /\ cur.req \in Requests
                BY <2>3 DEF SendsLiteral, Running
            <4>2. cur.req = next
                BY <1>1, NameOfIdle DEF Counted
            <4> QED  BY <4>1, <4>2 DEF Line, Lines, IsLine, Boxes
        <3> HIDE DEF literal
        <3>3. \A i \in DOMAIN toServer' :
                  \/ i \in DOMAIN toServer /\ toServer'[i] = toServer[i]
                  \/ toServer'[i] = literal
            BY <1>1, <3>1, <3>2, Types, QueueAppend
        <3>4. next \in Nat
            BY <1>1, Types
        <3> QED  BY <2>1, <3>2, <3>3, <3>4 DEF LinesStay
    <2> QED  BY <2>2, <2>3 DEF Puts, Passes, Keep
<1>5. Ordered' /\ \A p \in Nat : Past(p) => Past(p)'
    BY <1>1, <1>4, ReadKeepsOrder
<1>6. \A q \in DOMAIN results : Past(q) => Past(q)'
    BY <1>1, <1>5, Numbers
<1>7. AnsweredIsPast' /\ OkIsItsOwn'
    BY <1>1, <1>2, <1>6, NoResultKeepsAnswers
<1> QED  BY <1>3, <1>5, <1>7

\* A new command is issued, or cannot be.
LEMMA IssueKeepsOrderInv ==
    ASSUME OrderInv, NEW name \in Commands, NEW box \in Boxes, Issue(name, box)
    PROVE  Counted' /\ Ordered' /\ AnsweredIsPast' /\ OkIsItsOwn'
<1>1. Typed /\ Counted /\ Ordered /\ AnsweredIsPast /\ OkIsItsOwn
    BY DEF OrderInv
<1>2. /\ cur = Idle /\ next' = next + 1 /\ results' = results
      /\ cur'.req = next + 1 /\ cur'.name = name
    BY DEF Issue
<1>3. Len(results) = next /\ next \in Nat /\ DOMAIN results = 1 .. Len(results)
    BY <1>1, <1>2, Numbers DEF Counted
<1>4. Counted'
    <2>1. cur' # Idle
        BY <1>2, NameOfIdle
    <2>2. Len(results') = next' - 1 /\ cur'.req = next'
        BY <1>2, <1>3
    <2> QED  BY <2>1, <2>2 DEF Counted
<1>5. Ordered' /\ \A p \in 0 .. next : Past(p) => Past(p)'
    BY <1>1, IssueKeepsOrder
<1>6. \A q \in DOMAIN results : Past(q) => Past(q)'
    BY <1>3, <1>5
<1>7. AnsweredIsPast' /\ OkIsItsOwn'
    BY <1>1, <1>2, <1>6, NoResultKeepsAnswers
<1> QED  BY <1>4, <1>5, <1>7

LEMMA IssueFailsKeepsOrderInv ==
    ASSUME OrderInv, NEW name \in Commands, IssueFails(name)
    PROVE  Counted' /\ Ordered' /\ AnsweredIsPast' /\ OkIsItsOwn'
<1> DEFINE record == [name |-> name, outcome |-> "io", answer |-> 0, items |-> << >>]
<1>1. Typed /\ Counted /\ Ordered /\ AnsweredIsPast /\ OkIsItsOwn
    BY DEF OrderInv
<1>2. /\ cur = Idle /\ cur' = cur /\ next' = next + 1 /\ results' = Append(results, record)
      /\ UNCHANGED <<toServer, toClient, serving>>
    BY DEF IssueFails, serverVars
<1>3. record \in Records /\ record.answer = 0 /\ record.outcome = "io"
    <2>1. << >> \in Seq(Responses) /\ 0 \in 0 .. MaxRequests
        BY EmptySeq, SessionAssumption
    <2> QED  BY <2>1 DEF Records, Outcomes
<1> HIDE DEF record
<1>4. /\ Len(results') = Len(results) + 1 /\ Len(results) \in Nat
      /\ DOMAIN results = 1 .. Len(results)
    BY <1>1, <1>2, <1>3, ResultAdded
<1>5. Counted'
    BY <1>1, <1>2, <1>4 DEF Counted
<1>6. Ordered' /\ \A p \in Nat : Past(p) => Past(p)'
    BY <1>1, <1>2, QuietKeepsOrder
<1>7. \A q \in DOMAIN results : Past(q) => Past(q)'
    BY <1>4, <1>6
<1>8. AnsweredIsPast' /\ OkIsItsOwn'
    BY <1>1, <1>2, <1>3, <1>4, <1>7, ResultKeepsAnswers
<1> QED  BY <1>5, <1>6, <1>8

\* The server's steps leave the client alone.
LEMMA ServerKeepsOrder ==
    ASSUME Typed, Ordered, Server
    PROVE  /\ Ordered' /\ \A p \in Nat : Past(p) => Past(p)'
           /\ UNCHANGED <<next, cur, results>>
<1>1. CASE ServerReceives
    <2>1. /\ toServer # << >> /\ toServer' = Tail(toServer)
          /\ UNCHANGED <<next, cur, results>>
        BY <1>1 DEF ServerReceives, clientVars
    <2>2. CASE /\ serving.step = "literal" /\ serving' = [serving EXCEPT !.step = "run"]
               /\ UNCHANGED toClient
        <3>1. serving \in Servings
            BY <2>2, ResponsesAreProper
        <3>2. serving'.req = serving.req
            BY <2>2, <3>1 DEF Servings
        <3> QED  BY <2>1, <2>2, <3>2, TakeKeepsOrder
    <2>3. CASE /\ IsLine(Head(toServer)) /\ serving'.req = Head(toServer).req
               /\ UNCHANGED toClient
        BY <2>1, <2>3, TakeKeepsOrder
    <2>4. CASE /\ serving.step = "none"
               /\ Say(Response("status", "none", "none", "no", 0, 0)) /\ UNCHANGED serving
        <3> DEFINE e == Response("status", "none", "none", "no", 0, 0)
                   rest == Tail(toServer)
        <3>1. e \in Responses /\ e.req = 0 /\ e.kind = "status"
            BY ResponsesAreProper DEF Response, Statuses
        <3>2. Say(e)
            BY <2>4
        <3> HIDE DEF e
        <3>3. toServer \in Seq(Lines)
            BY Types
        <3>4. /\ \A i \in DOMAIN toServer' :
                     /\ i \in Nat \ {0} /\ i + 1 \in DOMAIN toServer
                     /\ toServer'[i] = toServer[i + 1]
            BY <2>1, <3>3, QueueTail
        <3>5. /\ Len(toClient) \in Nat /\ DOMAIN toClient = 1 .. Len(toClient)
              /\ \A i \in DOMAIN toClient' :
                     \/ i \in DOMAIN toClient /\ toClient'[i] = toClient[i]
                     \/ i = Len(toClient) + 1 /\ toClient'[i] = e
              /\ DOMAIN toClient' = 1 .. Len(toClient) + 1
            BY <3>1, <3>2, ResponseSaid
        <3>6. /\ serving.req = 0 /\ next \in Nat
              /\ \A i \in DOMAIN toServer : toServer[i].req \in Nat \ {0}
            <4>1. serving = Nothing
                BY <2>4 DEF Typed, Servings
            <4> QED  BY <4>1, Numbers DEF Nothing
        <3>7. WireInOrder'
            <4> SUFFICES ASSUME NEW i \in DOMAIN toClient', NEW j \in DOMAIN toClient', i < j
                         PROVE  Precedes(toClient'[i], toClient'[j])
                BY DEF WireInOrder, Precedes
            <4>1. CASE j \in DOMAIN toClient /\ toClient'[j] = toClient[j]
                <5>1. i \in DOMAIN toClient /\ toClient'[i] = toClient[i]
                    BY <3>5, <4>1
                <5> QED  BY <4>1, <5>1 DEF Ordered, WireInOrder
            <4>2. CASE toClient'[j] = e
                BY <3>1, <4>2 DEF Precedes
            <4> QED  BY <3>5, <4>1, <4>2
        <3>8. ServingIsLater'
            BY <2>4, <3>6 DEF ServingIsLater, Precedes
        <3>9. LinesAreLater'
            <4>1. \A i \in DOMAIN toServer' : IsLine(toServer'[i]) =>
                      serving.req < toServer'[i].req
                BY <3>4 DEF Ordered, LinesAreLater
            <4>2. \A i \in DOMAIN toServer' : IsLine(toServer'[i]) =>
                      \A j \in DOMAIN toClient : toClient[j].req < toServer'[i].req
                BY <3>4 DEF Ordered, LinesAreLater
            <4>3. \A i \in DOMAIN toServer' : e.req < toServer'[i].req
                BY <3>1, <3>4, <3>6
            <4> QED  BY <2>4, <3>5, <4>1, <4>2, <4>3 DEF LinesAreLater, IsLine
        <3>10. LinesInOrder'
            <4> SUFFICES ASSUME NEW i \in DOMAIN toServer', NEW j \in DOMAIN toServer', i < j,
                                IsLine(toServer'[i]), IsLine(toServer'[j])
                         PROVE  toServer'[i].req < toServer'[j].req
                BY DEF LinesInOrder, IsLine
            <4>1. /\ i + 1 \in DOMAIN toServer /\ j + 1 \in DOMAIN toServer /\ i + 1 < j + 1
                  /\ toServer'[i] = toServer[i + 1] /\ toServer'[j] = toServer[j + 1]
                BY <3>4
            <4> QED  BY <4>1 DEF Ordered, LinesInOrder
        <3>11. UpToNext'
            BY <2>1, <2>4, <3>1, <3>4, <3>5, <3>6 DEF Ordered, UpToNext
        <3>12. ASSUME NEW p \in Nat, Past(p) PROVE Past(p)'
            <4>1. e.req \notin 1 .. p
                BY <3>1
            <4> QED  BY <2>4, <3>4, <3>5, <3>12, <4>1 DEF Past, IsLine
        <3> QED  BY <2>1, <3>7, <3>8, <3>9, <3>10, <3>11, <3>12 DEF Ordered
    <2> QED  BY <1>1, <2>2, <2>3, <2>4 DEF ServerReceives, IsLine
<1>2. CASE ServerAsks
    <2> DEFINE e == Response("cont", "none", "none", "none", serving.req, 0)
    <2>1. /\ serving.step = "start" /\ serving' = [serving EXCEPT !.step = "literal"]
          /\ Say(e) /\ UNCHANGED <<next, cur, results, toServer>>
        BY <1>2 DEF ServerAsks, clientVars
    <2>2. serving'.req = serving.req /\ e \in Responses /\ e.req = serving.req /\ e.kind = "cont"
        BY <2>1, ResponsesAreProper DEF Servings, Response
    <2> HIDE DEF e
    <2> QED  BY <2>1, <2>2, SayKeepsOrder
<1>3. CASE ServerData
    <2>1. /\ serving.step = "run" /\ serving' = serving /\ UNCHANGED <<next, cur, results, toServer>>
          /\ emitted' = [emitted EXCEPT ![serving.req] = @ + 1]
        BY <1>3 DEF ServerData, clientVars
    <2>2. PICK class \in Gives[serving.name] :
              Say(Response("data", class, serving.box, "none", serving.req, emitted'[serving.req]))
        BY <1>3 DEF ServerData
    <2> DEFINE e == Response("data", class, serving.box, "none", serving.req, emitted'[serving.req])
    <2>3. serving \in Servings /\ serving.req \in Requests
        BY <2>1, ResponsesAreProper DEF Servings
    <2>4. emitted'[serving.req] \in Nat
        <3>1. emitted \in [Requests -> 0 .. MaxData]
            BY DEF Typed, TypeOK
        <3>2. emitted[serving.req] \in Nat
            BY <2>3, <3>1
        <3> QED  BY <2>1, <2>3, <3>1, <3>2
    <2>5. e \in Responses /\ e.req = serving.req /\ e.kind = "data"
        BY <2>3, <2>4, ResponsesAreProper DEF Response
    <2>6. Say(e)
        BY <2>2
    <2> HIDE DEF e
    <2> QED  BY <2>1, <2>5, <2>6, SayKeepsOrder
<1>4. ASSUME NEW status \in Statuses, ServerDone(status)
      PROVE  /\ Ordered' /\ \A p \in Nat : Past(p) => Past(p)'
             /\ UNCHANGED <<next, cur, results>>
    <2> DEFINE e == Response("done", "none", "none", status, serving.req, 0)
    <2>1. /\ serving.step \in {"start", "run"} /\ serving' = Nothing /\ Say(e)
          /\ UNCHANGED <<next, cur, results, toServer>>
        BY <1>4 DEF ServerDone, clientVars
    <2>2. e \in Responses /\ e.req = serving.req
        BY <2>1, ResponsesAreProper DEF Response
    <2> HIDE DEF e
    <2> QED  BY <2>1, <2>2, SayKeepsOrder
<1>5. ASSUME NEW e \in Responses, e.req = 0, e.kind # "done", Say(e),
             UNCHANGED <<next, cur, results, toServer, serving>>
      PROVE  /\ Ordered' /\ \A p \in Nat : Past(p) => Past(p)'
             /\ UNCHANGED <<next, cur, results>>
    BY <1>5, SayKeepsOrder
<1>6. notes + 1 \in Nat
    BY SessionAssumption DEF Typed, TypeOK
<1>7. ASSUME NEW class \in NoteClasses, ServerNote("data", class, "none")
      PROVE  /\ Ordered' /\ \A p \in Nat : Past(p) => Past(p)'
             /\ UNCHANGED <<next, cur, results>>
    <2> DEFINE e == Response("data", class, "none", "none", 0, notes + 1)
    <2>1. e \in Responses /\ e.req = 0 /\ e.kind = "data"
        BY <1>6, ResponsesAreProper DEF Response
    <2>2. Say(e) /\ UNCHANGED <<next, cur, results, toServer, serving>>
        BY <1>7 DEF ServerNote, clientVars
    <2> HIDE DEF e
    <2> QED  BY <1>5, <2>1, <2>2
<1>8. ASSUME NEW status \in Statuses, ServerNote("status", "none", status)
      PROVE  /\ Ordered' /\ \A p \in Nat : Past(p) => Past(p)'
             /\ UNCHANGED <<next, cur, results>>
    <2> DEFINE e == Response("status", "none", "none", status, 0, notes + 1)
    <2>1. e \in Responses /\ e.req = 0 /\ e.kind = "status"
        BY <1>6, ResponsesAreProper DEF Response
    <2>2. Say(e) /\ UNCHANGED <<next, cur, results, toServer, serving>>
        BY <1>8 DEF ServerNote, clientVars
    <2> HIDE DEF e
    <2> QED  BY <1>5, <2>1, <2>2
<1>9. CASE \E how \in {"closed", "cut"} : ServerCloses(how)
    <2>1. UNCHANGED <<next, cur, results, toServer, toClient, serving>>
        BY <1>9 DEF ServerCloses, clientVars
    <2> QED  BY <2>1, QuietKeepsOrder
<1> QED  BY <1>1, <1>2, <1>3, <1>4, <1>7, <1>8, <1>9 DEF Server, ServerWork

LEMMA OrderNext == OrderInv /\ [Next]_vars => OrderInv'
<1> SUFFICES ASSUME OrderInv, [Next]_vars PROVE OrderInv'
    OBVIOUS
<1>1. Typed /\ Counted /\ Ordered /\ AnsweredIsPast /\ OkIsItsOwn
    BY DEF OrderInv
<1>2. Typed'
    BY <1>1, TypedNext
<1> SUFFICES Counted' /\ Ordered' /\ AnsweredIsPast' /\ OkIsItsOwn'
    BY <1>2 DEF OrderInv
<1>3. CASE Reads
    BY <1>3, EndKeepsOrderInv, ReadOnKeepsOrderInv DEF Reads
<1>4. CASE \E outcome \in Outcomes : VainReturn(outcome)
    BY <1>4, VainReturnKeepsOrderInv
<1>5. CASE Issues
    BY <1>5, IssueKeepsOrderInv, IssueFailsKeepsOrderInv DEF Issues
<1>6. CASE Server
    <2>1. /\ Ordered' /\ \A p \in Nat : Past(p) => Past(p)'
          /\ UNCHANGED <<next, cur, results>>
        BY <1>1, <1>6, ServerKeepsOrder
    <2>2. Counted'
        BY <1>1, <2>1 DEF Counted
    <2>3. AnsweredIsPast' /\ OkIsItsOwn'
        BY <1>1, <2>1, Numbers, NoResultKeepsAnswers
    <2> QED  BY <2>1, <2>2, <2>3
<1>7. CASE Quiet
    <2>1. Counted'
        BY <1>1, <1>7 DEF Counted, Quiet
    <2>2. Ordered' /\ \A p \in Nat : Past(p) => Past(p)'
        BY <1>1, <1>7, QuietKeepsOrder DEF Quiet
    <2>3. AnsweredIsPast' /\ OkIsItsOwn'
        BY <1>1, <1>7, <2>2, Numbers, NoResultKeepsAnswers DEF Quiet
    <2> QED  BY <2>1, <2>2, <2>3
<1> QED  BY <1>1, <1>3, <1>4, <1>5, <1>6, <1>7, StepIsOneOf

THEOREM OrderInvariance == Spec => []OrderInv
BY OrderInit, OrderNext, PTL DEF Spec

\* A command that check_done_ok confirmed was answered OK itself, or got the
\* answer of a request a whole round of ids ago, since which all gave up.
THEOREM OkIsOwn == Spec => []OkIsItsOwn
<1>1. OrderInv => OkIsItsOwn
    BY DEF OrderInv
<1> QED  BY <1>1, OrderInvariance, PTL

-----------------------------------------------------------------------------
(* Success leaves nothing behind.                                            *)

\* The command of request o.
NameOf(o) == IF o \in DOMAIN results THEN results[o].name ELSE cur.name

\* The server works on what was asked, and answers with data of its kind.
NamesAgree ==
    /\ \A i \in DOMAIN toServer : IsLine(toServer[i]) => toServer[i].name = NameOf(toServer[i].req)
    /\ serving # Nothing => serving.name = NameOf(serving.req)
    /\ \A i \in DOMAIN toClient :
           toClient[i].kind = "data" /\ toClient[i].req # 0 =>
               toClient[i].class \in Gives[NameOf(toClient[i].req)]

\* Request o reported no success, or that of a request a round of ids earlier.
Unsuccessful(o) == results[o].outcome # "ok" \/ results[o].answer \in 1 .. o - TagModulus

\* A request that succeeded, an APPEND apart, read its own answer or the end
\* of the stream: nothing of it is still to come.
SuccessIsFinal ==
    \A o \in DOMAIN results :
        \/ Unsuccessful(o) \/ results[o].name = "append" \/ EndedByAnswer(o)
        \/ conn # "up" /\ toClient = << >>

\* The data of others among the items of request q.
LeftOvers(items, q) ==
    \A i \in DOMAIN items :
        items[i].req \in Requests \ {q} => items[i].req \in 1 .. q - 1 /\ Unsuccessful(items[i].req)

OnlyLeftOvers ==
    /\ \A q \in DOMAIN results : LeftOvers(results[q].items, q)
    /\ cur # Idle => LeftOvers(cur.items, cur.req)

\* NameOf after the step.
NewNameOf(o) == IF o \in DOMAIN results' THEN results'[o].name ELSE cur'.name

LeftInv == OrderInv /\ NamesAgree /\ SuccessIsFinal /\ OnlyLeftOvers

LEMMA LeftInit == Init => LeftInv
<1> SUFFICES ASSUME Init PROVE LeftInv
    OBVIOUS
<1>1. /\ cur = Idle /\ results = << >> /\ toServer = << >> /\ toClient = << >>
      /\ serving = Nothing /\ DOMAIN << >> = {}
    BY DEF Init
<1> QED  BY <1>1, OrderInit DEF LeftInv, NamesAgree, SuccessIsFinal, OnlyLeftOvers

\* Each request has a result, but the one in progress.
LEMMA RequestsCounted ==
    ASSUME Typed, Counted, NEW o \in 1 .. next
    PROVE  o \in DOMAIN results \/ (cur # Idle /\ o = cur.req /\ o = Len(results) + 1)
<1>1. /\ next \in Nat /\ Len(results) \in Nat /\ DOMAIN results = 1 .. Len(results)
    BY Numbers
<1>2. CASE cur = Idle
    BY <1>1, <1>2 DEF Counted
<1>3. CASE cur # Idle
    <2>1. cur.req = next /\ Len(results) = next - 1
        BY <1>3 DEF Counted
    <2>2. o = next \/ o \in 1 .. next - 1
        BY <1>1
    <2>3. next = Len(results) + 1
        BY <1>1, <2>1
    <2>4. o \in DOMAIN results \/ o = next
        BY <1>1, <2>1, <2>2
    <2> QED  BY <1>3, <2>1, <2>3, <2>4
<1> QED  BY <1>2, <1>3

\* No result is of a request that was not made.
LEMMA ResultsWithinRequests ==
    ASSUME Typed, Counted
    PROVE  DOMAIN results \subseteq 1 .. next
<1> DEFINE l == Len(results)
<1>1. next \in Nat /\ l \in Nat /\ DOMAIN results = 1 .. l
    BY Numbers
<1>2. l = next \/ l = next - 1
    BY DEF Counted
<1> HIDE DEF l
<1>3. \A i \in 1 .. l : i \in 1 .. next
    BY <1>1, <1>2
<1> QED  BY <1>1, <1>3

\* A command keeps its name when it becomes a result.
LEMMA NamesStay ==
    ASSUME Typed, Counted,
           \/ UNCHANGED <<cur, results>>
           \/ results' = results /\ cur # Idle /\ cur'.name = cur.name
           \/ \E record \in Records :
                  /\ results' = Append(results, record)
                  /\ cur # Idle => record.name = cur.name
           \/ cur = Idle /\ results' = results
    PROVE  \A o \in 1 .. next : NewNameOf(o) = NameOf(o)
<1> SUFFICES ASSUME NEW o \in 1 .. next PROVE NewNameOf(o) = NameOf(o)
    OBVIOUS
<1>1. /\ next \in Nat /\ Len(results) \in Nat /\ DOMAIN results = 1 .. Len(results)
    BY Numbers
<1>2. CASE cur = Idle /\ results' = results
    <2>1. o \in DOMAIN results
        BY <1>1, <1>2 DEF Counted
    <2> QED  BY <1>2, <2>1 DEF NameOf, NewNameOf
<1>3. ASSUME NEW record \in Records, results' = Append(results, record),
             cur # Idle => record.name = cur.name
      PROVE  NewNameOf(o) = NameOf(o)
    <2>1. /\ DOMAIN results' = 1 .. Len(results) + 1
          /\ \A q \in DOMAIN results : q \in DOMAIN results' /\ results'[q] = results[q]
          /\ results'[Len(results) + 1] = record
        BY <1>3, ResultAdded
    <2>2. CASE o \in DOMAIN results
        BY <2>1, <2>2 DEF NameOf, NewNameOf
    <2>3. CASE o \notin DOMAIN results
        <3>1. o = Len(results) + 1 /\ cur # Idle
            BY <2>3, RequestsCounted
        <3>2. NameOf(o) = cur.name
            BY <2>3 DEF NameOf
        <3>3. o \in DOMAIN results' /\ results'[o] = record
            BY <1>1, <2>1, <3>1
        <3>4. NewNameOf(o) = record.name
            BY <3>3 DEF NewNameOf
        <3> QED  BY <1>3, <3>1, <3>2, <3>4
    <2> QED  BY <2>2, <2>3
<1> QED  BY <1>2, <1>3 DEF NameOf, NewNameOf

\* The names agree when no request becomes another.
LEMMA NamesStillAgree ==
    ASSUME Typed, Ordered, NamesAgree,
           \A o \in 1 .. next : NewNameOf(o) = NameOf(o),
           \A i \in DOMAIN toServer' :
               \/ ~IsLine(toServer'[i])
               \/ toServer'[i].name = NewNameOf(toServer'[i].req)
               \/ \E j \in DOMAIN toServer : toServer'[i] = toServer[j],
           \/ serving' = serving \/ serving' = Nothing
           \/ serving'.name = NewNameOf(serving'.req),
           \A i \in DOMAIN toClient' :
               \/ toClient'[i].kind # "data" \/ toClient'[i].req = 0
               \/ toClient'[i].class \in Gives[NewNameOf(toClient'[i].req)]
               \/ \E j \in DOMAIN toClient : toClient'[i] = toClient[j]
    PROVE  NamesAgree'
<1>1. /\ next \in Nat /\ serving.req \in Nat /\ (serving # Nothing => serving.req # 0)
      /\ \A i \in DOMAIN toClient : toClient[i].req \in Nat
      /\ \A i \in DOMAIN toServer : toServer[i].req \in Nat \ {0}
    BY Numbers
<1>2. /\ serving.req <= next
      /\ \A i \in DOMAIN toClient : toClient[i].req <= next
      /\ \A i \in DOMAIN toServer : toServer[i].req <= next
    BY DEF Ordered, UpToNext
<1>3. /\ serving # Nothing => serving.req \in 1 .. next
      /\ \A i \in DOMAIN toClient : toClient[i].req # 0 => toClient[i].req \in 1 .. next
      /\ \A i \in DOMAIN toServer : toServer[i].req \in 1 .. next
    BY <1>1, <1>2
<1>4. /\ serving # Nothing => serving.name = NewNameOf(serving.req)
      /\ \A i \in DOMAIN toClient : toClient[i].kind = "data" /\ toClient[i].req # 0 =>
             toClient[i].class \in Gives[NewNameOf(toClient[i].req)]
      /\ \A i \in DOMAIN toServer : IsLine(toServer[i]) =>
             toServer[i].name = NewNameOf(toServer[i].req)
    BY <1>3 DEF NamesAgree
<1> QED  BY <1>4 DEF NamesAgree, NameOf, NewNameOf, IsLine

\* What is left over stays so.
LEMMA LeftOversStay ==
    ASSUME Typed, NEW items, NEW q \in 1 .. Len(results) + 1, LeftOvers(items, q),
           \A o \in DOMAIN results : results'[o] = results[o]
    PROVE  LeftOvers(items, q)'
<1>1. Len(results) \in Nat /\ DOMAIN results = 1 .. Len(results)
    BY Numbers
<1>2. \A o \in 1 .. q - 1 : o \in DOMAIN results
    BY <1>1
<1>3. \A o \in 1 .. q - 1 : Unsuccessful(o) => Unsuccessful(o)'
    BY <1>2 DEF Unsuccessful
<1> QED  BY <1>3 DEF LeftOvers

\* The command in progress, or one that could not be written, becomes a result.
LEMMA ResultKeepsLeft ==
    ASSUME Typed, SuccessIsFinal, OnlyLeftOvers, cur' = Idle,
           NEW record \in Records, results' = Append(results, record),
           NEW n \in Nat, n = Len(results) + 1, LeftOvers(record.items, n),
           conn # "up" /\ toClient = << >> => conn' # "up" /\ toClient' = << >>,
           \/ record.outcome # "ok" \/ record.answer \in 1 .. n - TagModulus
           \/ record.name = "append" \/ record.answer = n
           \/ conn' # "up" /\ toClient' = << >>
    PROVE  SuccessIsFinal' /\ OnlyLeftOvers'
<1>1. /\ Len(results) \in Nat /\ DOMAIN results = 1 .. Len(results)
      /\ \A q \in DOMAIN results : q \in DOMAIN results' /\ results'[q] = results[q]
      /\ \A q \in DOMAIN results' : q \in DOMAIN results \/ q = n
      /\ results'[n] = record
    BY ResultAdded
<1>2. SuccessIsFinal'
    <2> SUFFICES ASSUME NEW o \in DOMAIN results'
                 PROVE  \/ Unsuccessful(o)' \/ results'[o].name = "append" \/ EndedByAnswer(o)'
                        \/ conn' # "up" /\ toClient' = << >>
        BY DEF SuccessIsFinal, Unsuccessful, EndedByAnswer
    <2>1. CASE o \in DOMAIN results
        BY <1>1, <2>1 DEF SuccessIsFinal, Unsuccessful, EndedByAnswer
    <2>2. CASE o = n
        BY <1>1, <2>2 DEF Unsuccessful, EndedByAnswer
    <2> QED  BY <1>1, <2>1, <2>2
<1>3. ASSUME NEW q \in DOMAIN results' PROVE LeftOvers(results[q].items, q)'
    <2>1. PICK items : items = results'[q].items
        OBVIOUS
    <2>2. q \in 1 .. Len(results) + 1 /\ LeftOvers(items, q)
        <3>1. CASE q \in DOMAIN results
            BY <1>1, <2>1, <3>1 DEF OnlyLeftOvers
        <3>2. CASE q = n
            BY <1>1, <2>1, <3>2
        <3> QED  BY <1>1, <3>1, <3>2
    <2>3. LeftOvers(items, q)'
        BY <1>1, <2>2, LeftOversStay
    <2> QED  BY <2>1, <2>3 DEF LeftOvers, Unsuccessful
<1> QED  BY <1>2, <1>3 DEF OnlyLeftOvers, LeftOvers, Unsuccessful

\* No command returns.
LEMMA NoResultKeepsLeft ==
    ASSUME SuccessIsFinal, OnlyLeftOvers, results' = results,
           conn # "up" /\ toClient = << >> => conn' # "up" /\ toClient' = << >>,
           cur' # Idle => LeftOvers(cur'.items, cur'.req)
    PROVE  SuccessIsFinal' /\ OnlyLeftOvers'
<1>1. SuccessIsFinal'
    BY DEF SuccessIsFinal, Unsuccessful, EndedByAnswer
<1>2. OnlyLeftOvers'
    BY DEF OnlyLeftOvers, LeftOvers, Unsuccessful
<1> QED  BY <1>1, <1>2

\* A response the client takes that belongs to another request is left over.
LEMMA TakenIsLeftOver ==
    ASSUME LeftInv, Read, cur \in Running, r.kind = "data", r.req \in Requests \ {cur.req}
    PROVE  r.req \in 1 .. cur.req - 1 /\ Unsuccessful(r.req)
<1>1. Typed /\ Counted /\ Ordered /\ AnsweredIsPast
    BY DEF LeftInv, OrderInv
<1>2. /\ 1 \in DOMAIN toClient /\ r = toClient[1] /\ toClient # << >>
      /\ r.req \in Nat \ {0} /\ r.req <= next /\ next \in Nat
    <2>1. 1 \in DOMAIN toClient /\ r = toClient[1] /\ toClient # << >>
        BY <1>1, ResponseRead DEF Read
    <2>2. r.req <= next
        BY <1>1, <2>1 DEF Ordered, UpToNext
    <2> QED  BY <1>1, <2>1, <2>2, Types DEF Requests
<1>3. cur # Idle /\ cur.req = next /\ Len(results) = next - 1 /\ DOMAIN results = 1 .. Len(results)
    BY <1>1, NameOfIdle, Numbers DEF Counted
<1>4. r.req \in 1 .. cur.req - 1 /\ r.req \in DOMAIN results
    BY <1>2, <1>3
<1>5. results[r.req].name # "append"
    <2>1. r.class \in Gives[results[r.req].name]
        BY <1>2, <1>4 DEF LeftInv, NamesAgree, NameOf
    <2> QED  BY <2>1, GivenData
<1>6. ~EndedByAnswer(r.req)
    <2>1. r.req \in 1 .. r.req
        BY <1>2
    <2> QED  BY <1>1, <1>2, <1>4, <2>1 DEF AnsweredIsPast, Past
<1> QED  BY <1>2, <1>4, <1>5, <1>6 DEF LeftInv, SuccessIsFinal

\* An empty result holds no left-over.
LEMMA NoLeftOvers == \A q : LeftOvers(<< >>, q)
<1>1. DOMAIN << >> = {}
    OBVIOUS
<1> QED  BY <1>1 DEF LeftOvers

LEMMA EndKeepsLeft ==
    ASSUME LeftInv, Read, cur \in Running, NEW outcome \in Outcomes, EndsBy(outcome)
    PROVE  NamesAgree' /\ SuccessIsFinal' /\ OnlyLeftOvers'
<1>1. /\ OrderInv /\ Typed /\ Counted /\ Ordered
      /\ NamesAgree /\ SuccessIsFinal /\ OnlyLeftOvers
    BY DEF LeftInv, OrderInv
<1>2. /\ r \in Responses /\ toClient # << >>
      /\ \A i \in DOMAIN toClient' : i + 1 \in DOMAIN toClient /\ toClient'[i] = toClient[i + 1]
      /\ UNCHANGED <<next, serving, conn>>
    BY <1>1, ResponseRead DEF Read
<1> DEFINE answer == IF r.kind = "done" THEN r.req ELSE 0
           record == Result(outcome, answer)
<1>3. answer \in 0 .. MaxRequests
    BY <1>2, SessionAssumption DEF Responses
<1>4. /\ record \in Records /\ record.answer = answer /\ record.outcome = outcome
      /\ record.name = cur.name
      /\ record.items = cur.items \/ record.items = << >>
    BY <1>3, EmptySeq DEF Result, Records, Running
<1>5. cur' = Idle /\ results' = Append(results, record) /\ toServer' = toServer
    BY DEF EndsBy, End, Return
<1> HIDE DEF record
<1>6. cur # Idle /\ cur.req = next /\ Len(results) = next - 1 /\ next \in Nat
    BY <1>1, NameOfIdle, Types DEF Counted
<1>7. \/ outcome # "ok" \/ cur.name = "append"
      \/ answer = next \/ answer \in 1 .. next - TagModulus
    BY <1>1, OwnAnswer DEF EndsBy
<1> HIDE DEF answer
<1>8. NamesAgree'
    <2>1. \A o \in 1 .. next : NewNameOf(o) = NameOf(o)
        BY <1>1, <1>4, <1>5, NamesStay
    <2> QED  BY <1>1, <1>2, <1>5, <2>1, NamesStillAgree
<1>9. SuccessIsFinal' /\ OnlyLeftOvers'
    <2>1. PICK n \in Nat : n = next
        BY <1>6
    <2>2. n = Len(results) + 1 /\ LeftOvers(record.items, n)
        BY <1>1, <1>4, <1>6, <2>1, NoLeftOvers DEF OnlyLeftOvers
    <2>3. \/ record.outcome # "ok" \/ record.answer \in 1 .. n - TagModulus
          \/ record.name = "append" \/ record.answer = n
        BY <1>4, <1>7, <2>1
    <2> QED  BY <1>1, <1>2, <1>4, <1>5, <2>1, <2>2, <2>3, ResultKeepsLeft
<1> QED  BY <1>8, <1>9

LEMMA ReadOnKeepsLeft ==
    ASSUME LeftInv, Read, cur \in Running, Puts \/ Passes \/ SendsLiteral
    PROVE  NamesAgree' /\ SuccessIsFinal' /\ OnlyLeftOvers'
<1>1. /\ OrderInv /\ Typed /\ Counted /\ Ordered
      /\ NamesAgree /\ SuccessIsFinal /\ OnlyLeftOvers
    BY DEF LeftInv, OrderInv
<1>2. /\ r \in Responses /\ Proper(r) /\ toClient # << >>
      /\ \A i \in DOMAIN toClient' : i + 1 \in DOMAIN toClient /\ toClient'[i] = toClient[i + 1]
      /\ UNCHANGED <<next, serving, conn>>
    BY <1>1, ResponseRead DEF Read
<1>3. /\ cur # Idle /\ cur'.name = cur.name /\ cur'.req = cur.req /\ results' = results
      /\ cur.items \in Seq(Responses)
    BY NameOfIdle DEF Puts, Passes, SendsLiteral, Keep, Running
<1>4. NamesAgree'
    <2>1. \A o \in 1 .. next : NewNameOf(o) = NameOf(o)
        BY <1>1, <1>3, NamesStay
    <2>2. \A i \in DOMAIN toServer' :
              ~IsLine(toServer'[i]) \/ \E j \in DOMAIN toServer : toServer'[i] = toServer[j]
        <3>1. CASE toServer' = toServer
            BY <3>1
        <3>2. CASE SendsLiteral
            <4> DEFINE literal == [Line("append", "none", cur.req) EXCEPT !.part = "literal"]
            <4>1. toServer' = Append(toServer, literal) /\ cur.name = "append"
                BY <3>2 DEF SendsLiteral
            <4>2. literal \in Lines /\ ~IsLine(literal)
                BY <4>1 DEF Line, Lines, IsLine, Boxes, Running
            <4> HIDE DEF literal
            <4> QED  BY <1>1, <4>1, <4>2, Types, QueueAppend
        <3> QED  BY <3>1, <3>2 DEF Puts, Passes, Keep
    <2> QED  BY <1>1, <1>2, <2>1, <2>2, NamesStillAgree
<1>5. LeftOvers(cur'.items, cur'.req)
    <2>1. LeftOvers(cur.items, cur.req)
        BY <1>1, <1>3 DEF OnlyLeftOvers
    <2>2. CASE cur'.items = cur.items
        BY <1>3, <2>1, <2>2
    <2>3. CASE Puts
        <3>1. r.req \in Requests \ {cur.req} => r.req \in 1 .. cur.req - 1 /\ Unsuccessful(r.req)
            BY <2>3, TakenIsLeftOver DEF Puts
        <3>2. cur'.items = With(cur.items)
            BY <2>3 DEF Puts, Keep, Running
        <3>3. \A i \in DOMAIN cur'.items :
                  cur'.items[i] = r \/ (i \in DOMAIN cur.items /\ cur'.items[i] = cur.items[i])
            BY <1>2, <1>3, <3>2, WithProperties
        <3> QED  BY <1>3, <2>1, <3>1, <3>3 DEF LeftOvers
    <2> QED  BY <2>2, <2>3 DEF Passes, SendsLiteral, Running
<1>6. SuccessIsFinal' /\ OnlyLeftOvers'
    BY <1>1, <1>2, <1>3, <1>5, NoResultKeepsLeft
<1> QED  BY <1>4, <1>6

LEMMA VainReturnKeepsLeft ==
    ASSUME LeftInv, NEW outcome \in Outcomes, VainReturn(outcome)
    PROVE  NamesAgree' /\ SuccessIsFinal' /\ OnlyLeftOvers'
<1>1. /\ Typed /\ Counted /\ Ordered
      /\ NamesAgree /\ SuccessIsFinal /\ OnlyLeftOvers
    BY DEF LeftInv, OrderInv
<1> DEFINE record == Result(outcome, 0)
<1>2. /\ cur # Idle /\ cur' = Idle /\ results' = Append(results, record)
      /\ outcome = "ok" => conn # "up" /\ toClient = << >>
      /\ UNCHANGED <<next, toServer, toClient, serving, conn>>
    BY DEF VainReturn, Return
<1>3. /\ record \in Records /\ record.outcome = outcome
      /\ record.name = cur.name
      /\ record.items = cur.items \/ record.items = << >>
    <2>1. cur \in Running /\ 0 \in 0 .. MaxRequests
        BY <1>1, <1>2, Types
    <2> QED  BY <2>1, EmptySeq DEF Result, Records, Running
<1> HIDE DEF record
<1>4. NamesAgree'
    <2>1. \A o \in 1 .. next : NewNameOf(o) = NameOf(o)
        BY <1>1, <1>2, <1>3, NamesStay
    <2> QED  BY <1>1, <1>2, <2>1, NamesStillAgree
<1>5. cur.req = next /\ Len(results) = next - 1 /\ next \in Nat
    BY <1>1, <1>2, Types DEF Counted
<1>6. PICK n \in Nat : n = next
    BY <1>5
<1>7. n = Len(results) + 1 /\ LeftOvers(record.items, n)
    BY <1>1, <1>2, <1>3, <1>5, <1>6, NoLeftOvers DEF OnlyLeftOvers
<1>8. record.outcome # "ok" \/ (conn' # "up" /\ toClient' = << >>)
    BY <1>2, <1>3
<1>9. SuccessIsFinal' /\ OnlyLeftOvers'
    BY <1>1, <1>2, <1>3, <1>7, <1>8, ResultKeepsLeft
<1> QED  BY <1>4, <1>9

LEMMA IssueKeepsLeft ==
    ASSUME LeftInv, NEW name \in Commands, NEW box \in Boxes, Issue(name, box)
    PROVE  NamesAgree' /\ SuccessIsFinal' /\ OnlyLeftOvers'
<1>1. /\ Typed /\ Counted /\ Ordered
      /\ NamesAgree /\ SuccessIsFinal /\ OnlyLeftOvers
    BY DEF LeftInv, OrderInv
<1> DEFINE line == Line(name, box, next + 1)
<1>2. /\ cur = Idle /\ next < MaxRequests /\ results' = results
      /\ cur'.name = name /\ cur'.items = << >>
      /\ toServer' = Append(toServer, line)
      /\ UNCHANGED <<toClient, serving, conn>>
    BY DEF Issue, serverVars
<1>3. next \in Nat /\ MaxRequests \in Nat /\ toServer \in Seq(Lines)
    BY <1>1, Types
<1>4. line \in Lines /\ line.req = next + 1 /\ line.name = name
    BY <1>2, <1>3 DEF Line, Lines, Requests
<1> HIDE DEF line
<1>5. NewNameOf(next + 1) = name
    <2>1. next + 1 \notin DOMAIN results
        BY <1>1, <1>2, <1>3, Numbers DEF Counted
    <2> QED  BY <1>2, <2>1 DEF NewNameOf
<1>6. NamesAgree'
    <2>1. \A o \in 1 .. next : NewNameOf(o) = NameOf(o)
        BY <1>1, <1>2, NamesStay
    <2>2. \A i \in DOMAIN toServer' :
              \/ i \in DOMAIN toServer /\ toServer'[i] = toServer[i]
              \/ toServer'[i] = line
        BY <1>2, <1>3, <1>4, QueueAppend
    <2>3. \A i \in DOMAIN toServer' :
              \/ toServer'[i].name = NewNameOf(toServer'[i].req)
              \/ \E j \in DOMAIN toServer : toServer'[i] = toServer[j]
        BY <1>4, <1>5, <2>2
    <2> QED  BY <1>1, <1>2, <2>1, <2>3, NamesStillAgree
<1>7. LeftOvers(cur'.items, cur'.req)
    BY <1>2 DEF LeftOvers
<1>8. SuccessIsFinal' /\ OnlyLeftOvers'
    BY <1>1, <1>2, <1>7, NoResultKeepsLeft
<1> QED  BY <1>6, <1>8

LEMMA IssueFailsKeepsLeft ==
    ASSUME LeftInv, NEW name \in Commands, IssueFails(name)
    PROVE  NamesAgree' /\ SuccessIsFinal' /\ OnlyLeftOvers'
<1>1. /\ Typed /\ Counted /\ Ordered
      /\ NamesAgree /\ SuccessIsFinal /\ OnlyLeftOvers
    BY DEF LeftInv, OrderInv
<1> DEFINE record == [name |-> name, outcome |-> "io", answer |-> 0, items |-> << >>]
<1>2. /\ cur = Idle /\ cur' = Idle /\ results' = Append(results, record)
      /\ UNCHANGED <<toServer, toClient, serving, conn>>
    BY DEF IssueFails, serverVars
<1>3. record \in Records /\ record.outcome = "io" /\ record.items = << >>
    <2>1. << >> \in Seq(Responses) /\ 0 \in 0 .. MaxRequests
        BY EmptySeq, SessionAssumption
    <2> QED  BY <2>1 DEF Records, Outcomes
<1> HIDE DEF record
<1>4. NamesAgree'
    <2>1. \A o \in 1 .. next : NewNameOf(o) = NameOf(o)
        BY <1>1, <1>2, <1>3, NamesStay
    <2> QED  BY <1>1, <1>2, <2>1, NamesStillAgree
<1>5. PICK n \in Nat : n = Len(results) + 1
    BY <1>1, Numbers
<1>6. LeftOvers(record.items, n)
    BY <1>3 DEF LeftOvers
<1>7. SuccessIsFinal' /\ OnlyLeftOvers'
    BY <1>1, <1>2, <1>3, <1>5, <1>6, ResultKeepsLeft
<1> QED  BY <1>4, <1>7

LEMMA ServerKeepsLeft ==
    ASSUME LeftInv, Server
    PROVE  NamesAgree' /\ SuccessIsFinal' /\ OnlyLeftOvers'
<1>1. /\ Typed /\ Counted /\ Ordered
      /\ NamesAgree /\ SuccessIsFinal /\ OnlyLeftOvers
    BY DEF LeftInv, OrderInv
<1>2. /\ conn = "up" /\ UNCHANGED <<next, cur, results>>
      /\ \A i \in DOMAIN toServer' : \E j \in DOMAIN toServer : toServer'[i] = toServer[j]
      /\ ServingGoesOn
      /\ OtherSaid \/ \E e \in Responses : DataSaid(e)
    BY <1>1, ServerSteps
<1>3. \A o : NewNameOf(o) = NameOf(o)
    BY <1>2 DEF NewNameOf, NameOf
<1>4. SuccessIsFinal' /\ OnlyLeftOvers'
    <2>1. cur' # Idle => LeftOvers(cur'.items, cur'.req)
        BY <1>1, <1>2 DEF OnlyLeftOvers
    <2> QED  BY <1>1, <1>2, <2>1, NoResultKeepsLeft
<1> SUFFICES NamesAgree'
    BY <1>4
<1>5. serving' = Nothing \/ serving'.name = NewNameOf(serving'.req)
    BY <1>1, <1>2, <1>3 DEF ServingGoesOn, NamesAgree
<1>6. ASSUME NEW i \in DOMAIN toClient'
      PROVE  \/ toClient'[i].kind # "data" \/ toClient'[i].req = 0
             \/ toClient'[i].class \in Gives[NewNameOf(toClient'[i].req)]
             \/ \E j \in DOMAIN toClient : toClient'[i] = toClient[j]
    <2>1. CASE toClient' = toClient
        BY <2>1
    <2>2. ASSUME NEW e \in Responses, Say(e)
          PROVE  toClient'[i] = e \/ \E j \in DOMAIN toClient : toClient'[i] = toClient[j]
        BY <1>1, <2>2, ResponseSaid
    <2>3. ASSUME NEW e \in Responses, DataSaid(e) PROVE e.class \in Gives[NewNameOf(e.req)]
        <3>1. e.class \in Gives[serving.name] /\ e.req = serving.req /\ serving # Nothing
            BY <2>3, NameOfIdle DEF DataSaid
        <3> QED  BY <1>1, <1>3, <3>1 DEF NamesAgree
    <2> QED  BY <1>2, <2>1, <2>2, <2>3 DEF OtherSaid, DataSaid
<1> QED  BY <1>1, <1>2, <1>3, <1>5, <1>6, NamesStillAgree

LEMMA LeftNext == LeftInv /\ [Next]_vars => LeftInv'
<1> SUFFICES ASSUME LeftInv, [Next]_vars PROVE LeftInv'
    OBVIOUS
<1>1. OrderInv /\ Typed
    BY DEF LeftInv, OrderInv
<1>2. OrderInv'
    BY <1>1, OrderNext
<1> SUFFICES NamesAgree' /\ SuccessIsFinal' /\ OnlyLeftOvers'
    BY <1>2 DEF LeftInv
<1>3. CASE Reads
    BY <1>3, EndKeepsLeft, ReadOnKeepsLeft DEF Reads
<1>4. CASE \E outcome \in Outcomes : VainReturn(outcome)
    BY <1>4, VainReturnKeepsLeft
<1>5. CASE Issues
    BY <1>5, IssueKeepsLeft, IssueFailsKeepsLeft DEF Issues
<1>6. CASE Server
    BY <1>6, ServerKeepsLeft
<1>7. CASE Quiet
    BY <1>7 DEF Quiet, LeftInv, NamesAgree, NameOf, IsLine, SuccessIsFinal, EndedByAnswer,
                OnlyLeftOvers, LeftOvers, Unsuccessful
<1> QED  BY <1>1, <1>3, <1>4, <1>5, <1>6, <1>7, StepIsOneOf

THEOREM LeftInvariance == Spec => []LeftInv
BY LeftInit, LeftNext, PTL DEF Spec

\* A command that reported success left no data behind for a later command to
\* return as its own, unless it took the answer of a request a whole round of
\* ids earlier.
THEOREM NothingLeft == Spec => []SuccessLeavesNothing
<1>1. LeftInv => SuccessLeavesNothing
    <2> SUFFICES ASSUME LeftInv, NEW q \in DOMAIN results, NEW i \in DOMAIN results[q].items,
                        results[q].items[i].req \in Requests \ {q}
                 PROVE  Unsuccessful(results[q].items[i].req)
        BY DEF SuccessLeavesNothing, Unsuccessful
    <2> QED  BY DEF LeftInv, OnlyLeftOvers, LeftOvers
<1> QED  BY <1>1, LeftInvariance, PTL

-----------------------------------------------------------------------------
(* The result of an answered command is complete.                            *)

LEMMA NumberedNone ==
    ASSUME NEW queue, NEW a \in Nat
    PROVE  /\ Numbered(queue, {}, a, a)
           /\ \A b \in Nat : a <= b /\ Numbered(queue, {}, a, b) => a = b
<1>1. a + 1 .. a = {}
    OBVIOUS
<1>2. ASSUME NEW b \in Nat, a <= b, a # b PROVE a + 1 \in a + 1 .. b
    BY <1>2
<1> QED  BY <1>1, <1>2 DEF Numbered

\* The same elements at the same places.
LEMMA NumberedStays ==
    ASSUME NEW queue, NEW other, NEW own, NEW a, NEW b,
           \A i \in own : other[i] = queue[i], Numbered(queue, own, a, b)
    PROVE  Numbered(other, own, a, b)
BY DEF Numbered

\* One more, with the next number.
LEMMA NumberedGrows ==
    ASSUME NEW queue, NEW longer, NEW len \in Nat, NEW own \in SUBSET (1 .. len),
           NEW a \in Nat, NEW b \in Nat, a <= b,
           \A i \in own : longer[i] = queue[i], longer[len + 1].n = b + 1,
           Numbered(queue, own, a, b)
    PROVE  Numbered(longer, own \cup {len + 1}, a, b + 1)
<1> DEFINE all == own \cup {len + 1}
<1>1. \A i \in own : longer[i].n \in a + 1 .. b
    BY DEF Numbered
<1>2. \A i \in all : longer[i].n \in a + 1 .. b + 1
    BY <1>1
<1>3. ASSUME NEW i \in all, NEW j \in all, i < j PROVE longer[i].n < longer[j].n
    <2>1. i \in own
        BY <1>3
    <2>2. CASE j \in own
        BY <1>3, <2>1, <2>2 DEF Numbered
    <2>3. CASE j = len + 1
        BY <1>1, <2>1, <2>3
    <2> QED  BY <2>2, <2>3
<1>4. ASSUME NEW n \in a + 1 .. b + 1 PROVE \E i \in all : longer[i].n = n
    <2>1. CASE n = b + 1
        BY <2>1
    <2>2. CASE n \in a + 1 .. b
        BY <2>2 DEF Numbered
    <2> QED  BY <2>1, <2>2
<1> QED  BY <1>2, <1>3, <1>4 DEF Numbered

LEMMA NumberedOne ==
    ASSUME NEW queue, NEW i \in Nat, NEW b \in Nat, queue[i].n = b + 1
    PROVE  Numbered(queue, {i}, b, b + 1)
<1>1. b + 1 .. b + 1 = {b + 1}
    OBVIOUS
<1> QED  BY <1>1 DEF Numbered

\* The queue moves up by one; when its first element was one of them, it was
\* that with the first number.
LEMMA NumberedMoves ==
    ASSUME NEW queue, NEW tail, NEW own \in SUBSET (Nat \ {0}), NEW rest \in SUBSET (Nat \ {0}),
           \A i \in rest : i + 1 \in own /\ tail[i] = queue[i + 1],
           \A i \in own : i # 1 => i - 1 \in rest /\ tail[i - 1] = queue[i],
           NEW a \in Nat, NEW b \in Nat, Numbered(queue, own, a, b)
    PROVE  /\ 1 \notin own => Numbered(tail, rest, a, b)
           /\ 1 \in own => /\ queue[1].n = a + 1 /\ a + 1 <= b
                           /\ Numbered(tail, rest, a + 1, b)
<1>1. /\ \A i \in own : queue[i].n \in a + 1 .. b
      /\ \A i, j \in own : i < j => queue[i].n < queue[j].n
      /\ \A n \in a + 1 .. b : \E i \in own : queue[i].n = n
    BY DEF Numbered
<1>2. ASSUME NEW i \in rest, NEW j \in rest, i < j PROVE tail[i].n < tail[j].n
    <2>1. i + 1 \in own /\ j + 1 \in own /\ i + 1 < j + 1
        BY <1>2
    <2> QED  BY <1>1, <1>2, <2>1
<1>3. ASSUME 1 \notin own PROVE Numbered(tail, rest, a, b)
    <2>1. \A i \in rest : tail[i].n \in a + 1 .. b
        BY <1>1
    <2>2. ASSUME NEW n \in a + 1 .. b PROVE \E i \in rest : tail[i].n = n
        <3>1. PICK i \in own : queue[i].n = n
            BY <1>1
        <3>2. i - 1 \in rest /\ tail[i - 1] = queue[i]
            BY <1>3, <3>1
        <3> QED  BY <3>1, <3>2
    <2> QED  BY <1>2, <2>1, <2>2 DEF Numbered
<1>4. ASSUME 1 \in own
      PROVE  queue[1].n = a + 1 /\ a + 1 <= b /\ Numbered(tail, rest, a + 1, b)
    <2>1. queue[1].n \in a + 1 .. b /\ a + 1 <= b
        BY <1>1, <1>4
    <2>2. \A i \in own : i # 1 => queue[1].n < queue[i].n
        BY <1>1, <1>4
    <2>3. queue[1].n = a + 1
        <3>1. PICK i \in own : queue[i].n = a + 1
            BY <1>1, <2>1
        <3> QED  BY <2>1, <2>2, <3>1
    <2>4. ASSUME NEW i \in rest PROVE tail[i].n \in a + 2 .. b
        <3>1. i + 1 \in own /\ i + 1 # 1 /\ tail[i] = queue[i + 1]
            BY <2>4
        <3>2. queue[i + 1].n \in a + 1 .. b /\ a + 1 < queue[i + 1].n
            BY <1>1, <2>2, <2>3, <3>1
        <3> QED  BY <3>1, <3>2
    <2>5. ASSUME NEW n \in a + 2 .. b PROVE \E i \in rest : tail[i].n = n
        <3>1. n \in a + 1 .. b /\ n # a + 1
            OBVIOUS
        <3>2. PICK i \in own : queue[i].n = n
            BY <1>1, <3>1
        <3>3. i - 1 \in rest /\ tail[i - 1] = queue[i]
            BY <2>3, <3>1, <3>2
        <3> QED  BY <3>2, <3>3
    <2>6. a + 1 + 1 = a + 2
        OBVIOUS
    <2> QED  BY <1>2, <2>1, <2>3, <2>4, <2>5, <2>6 DEF Numbered
<1> QED  BY <1>3, <1>4

\* Where the data of request q are on the wire, before and after the step.
OnWire(q) == {i \in DOMAIN toClient : toClient[i].kind = "data" /\ toClient[i].req = q}
NewOnWire(q) == {i \in DOMAIN toClient' : toClient'[i].kind = "data" /\ toClient'[i].req = q}

\* No data are sent to a request that was not made.
NotYet == \A q \in Requests : q > next => emitted[q] = 0

\* The server answers for the mailbox it was asked about.
BoxesAgree ==
    cur # Idle =>
        /\ \A i \in DOMAIN toServer :
               IsLine(toServer[i]) /\ toServer[i].req = cur.req => toServer[i].box = cur.box
        /\ serving.req = cur.req => serving.box = cur.box
        /\ \A i \in OnWire(cur.req) : toClient[i].box = cur.box

\* The command in progress has the first k of the data sent to it, and the
\* others are on the wire.
HasTaken(k) ==
    /\ Whole(cur.name, cur.items, cur.req, k)
    /\ Numbered(toClient, OnWire(cur.req), k, emitted[cur.req])
    /\ k > 0 => Past(cur.req - 1)

InProgress == cur # Idle /\ cur.name # "append" => \E k \in 0 .. emitted[cur.req] : HasTaken(k)

\* Where only one is kept: data of the command can be in one place only, the
\* place of the field they set.
OneField ==
    cur # Idle /\ cur.name \in LastOnly =>
        /\ \A i \in DOMAIN cur.items :
               cur.items[i].req = cur.req => cur.items[i].class \in Gives[cur.name]
        /\ \A i, j \in DOMAIN cur.items :
               cur.items[i].class \in Gives[cur.name] /\ cur.items[j].class \in Gives[cur.name]
                   => i = j

Returned ==
    \A q \in DOMAIN results :
        EndedByAnswer(q) /\ results[q].outcome = "ok" /\ results[q].name # "append" =>
            Whole(results[q].name, results[q].items, q, emitted[q])

CompleteInv == LeftInv /\ NotYet /\ BoxesAgree /\ OneField /\ InProgress /\ Returned

LEMMA CompleteInit == Init => CompleteInv
<1> SUFFICES ASSUME Init PROVE CompleteInv
    OBVIOUS
<1>1. cur = Idle /\ results = << >> /\ DOMAIN << >> = {} /\ emitted = [q \in Requests |-> 0]
    BY DEF Init
<1> QED  BY <1>1, LeftInit DEF CompleteInv, NotYet, BoxesAgree, OneField, InProgress, Returned

\* What the invariant says of the command in progress.
LEMMA CommandInProgress ==
    ASSUME CompleteInv, cur \in Running
    PROVE  /\ Typed /\ Counted /\ Ordered /\ NamesAgree
           /\ cur # Idle /\ cur.req = next /\ next \in Requests /\ next \in Nat \ {0}
           /\ Len(results) = next - 1
           /\ emitted[next] \in Nat
<1>1. Typed /\ Counted /\ Ordered /\ NamesAgree
    BY DEF CompleteInv, LeftInv, OrderInv
<1>2. cur # Idle /\ cur.req = next /\ Len(results) = next - 1
    BY <1>1, NameOfIdle DEF Counted
<1>3. next \in Requests
    BY <1>2 DEF Running
<1>4. next \in Nat \ {0}
    BY <1>3, SessionAssumption DEF Requests
<1>5. emitted[next] \in Nat
    BY <1>1, <1>3, SessionAssumption DEF Typed, TypeOK
<1> QED  BY <1>1, <1>2, <1>3, <1>4, <1>5

\* A read takes the next of the command's own data, or none of them.
LEMMA ReadTakesNext ==
    ASSUME CompleteInv, Read, cur \in Running, UNCHANGED toServer,
           NEW k \in 0 .. emitted[next], Numbered(toClient, OnWire(next), k, emitted[next])
    PROVE  /\ ~(r.kind = "data" /\ r.req = next) =>
                  Numbered(toClient', NewOnWire(next), k, emitted[next])
           /\ r.kind = "data" /\ r.req = next =>
                  /\ r.n = k + 1 /\ k + 1 <= emitted[next]
                  /\ Numbered(toClient', NewOnWire(next), k + 1, emitted[next])
                  /\ Past(next - 1)'
<1>1. /\ Typed /\ Ordered /\ emitted[next] \in Nat /\ next \in Nat \ {0}
    BY CommandInProgress
<1>2. /\ 1 \in DOMAIN toClient /\ r = toClient[1]
      /\ \A i \in DOMAIN toClient' :
             /\ i \in Nat \ {0} /\ i + 1 \in DOMAIN toClient
             /\ toClient'[i] = toClient[i + 1]
      /\ \A i \in DOMAIN toClient :
             /\ i \in Nat \ {0}
             /\ i # 1 => i - 1 \in DOMAIN toClient' /\ toClient'[i - 1] = toClient[i]
      /\ UNCHANGED <<next, serving>>
    BY <1>1, ResponseRead
<1> DEFINE own == OnWire(next)
           rest == NewOnWire(next)
<1>3. /\ own \in SUBSET (Nat \ {0}) /\ rest \in SUBSET (Nat \ {0})
      /\ 1 \in own <=> r.kind = "data" /\ r.req = next
    BY <1>2 DEF OnWire, NewOnWire
<1>4. \A i \in rest : i + 1 \in own /\ toClient'[i] = toClient[i + 1]
    BY <1>2 DEF OnWire, NewOnWire
<1>5. \A i \in own : i # 1 => i - 1 \in rest /\ toClient'[i - 1] = toClient[i]
    BY <1>2 DEF OnWire, NewOnWire
<1> HIDE DEF own, rest
<1>6. /\ 1 \notin own => Numbered(toClient', rest, k, emitted[next])
      /\ 1 \in own => /\ toClient[1].n = k + 1 /\ k + 1 <= emitted[next]
                      /\ Numbered(toClient', rest, k + 1, emitted[next])
    <2>1. k \in Nat /\ Numbered(toClient, own, k, emitted[next])
        BY <1>1 DEF own
    <2> QED  BY <1>1, <1>3, <1>4, <1>5, <2>1, NumberedMoves
<1>7. ASSUME r.req = next PROVE Past(next - 1)'
    <2>1. /\ serving.req \in Nat
          /\ \A i \in DOMAIN toClient : toClient[i].req \in Nat
          /\ \A i \in DOMAIN toServer : toServer[i].req \in Nat
        BY <1>1, Numbers
    <2>2. serving.req \notin 1 .. next - 1
        <3>1. serving.req # 0 => next <= serving.req
            BY <1>1, <1>2, <1>7 DEF Ordered, ServingIsLater, Precedes
        <3> QED  BY <1>1, <2>1, <3>1
    <2>3. ASSUME NEW i \in DOMAIN toClient' PROVE toClient'[i].req \notin 1 .. next - 1
        <3>1. i + 1 \in DOMAIN toClient /\ 1 < i + 1 /\ toClient'[i] = toClient[i + 1]
            BY <1>2
        <3>2. toClient[i + 1].req # 0 => next <= toClient[i + 1].req
            BY <1>1, <1>2, <1>7, <3>1 DEF Ordered, WireInOrder, Precedes
        <3> QED  BY <1>1, <2>1, <3>1, <3>2
    <2>4. ASSUME NEW i \in DOMAIN toServer, IsLine(toServer[i])
          PROVE  toServer[i].req \notin 1 .. next - 1
        <3>1. next < toServer[i].req
            BY <1>1, <1>2, <1>7, <2>4 DEF Ordered, LinesAreLater
        <3> QED  BY <1>1, <2>1, <3>1
    <2> QED  BY <1>2, <2>2, <2>3, <2>4 DEF Past, IsLine
<1> QED  BY <1>2, <1>3, <1>6, <1>7 DEF own, rest

\* What keeps the results complete when one is added, or none.
LEMMA ResultKeepsReturned ==
    ASSUME Typed, Returned, NEW record \in Records, results' = Append(results, record),
           NEW n \in Nat, n = Len(results) + 1, emitted' = emitted,
           record.answer = n /\ record.outcome = "ok" /\ record.name # "append" =>
               Whole(record.name, record.items, n, emitted[n])
    PROVE  Returned'
<1>1. /\ \A q \in DOMAIN results : q \in DOMAIN results' /\ results'[q] = results[q]
      /\ \A q \in DOMAIN results' : q \in DOMAIN results \/ q = n
      /\ results'[n] = record
    BY ResultAdded
<1> SUFFICES ASSUME NEW q \in DOMAIN results', results'[q].answer = q,
                    results'[q].outcome = "ok", results'[q].name # "append"
             PROVE  Whole(results'[q].name, results'[q].items, q, emitted[q])
    BY DEF Returned, EndedByAnswer
<1>2. CASE q \in DOMAIN results
    BY <1>1, <1>2 DEF Returned, EndedByAnswer
<1>3. CASE q = n
    BY <1>1, <1>3
<1> QED  BY <1>1, <1>2, <1>3

LEMMA EndKeepsComplete ==
    ASSUME CompleteInv, Read, cur \in Running, NEW outcome \in Outcomes, EndsBy(outcome)
    PROVE  NotYet' /\ BoxesAgree' /\ OneField' /\ InProgress' /\ Returned'
<1>1. /\ Typed /\ Ordered /\ cur # Idle /\ cur.req = next /\ next \in Nat \ {0}
      /\ Len(results) = next - 1 /\ emitted[next] \in Nat
    BY CommandInProgress
<1>2. /\ r \in Responses /\ 1 \in DOMAIN toClient /\ r = toClient[1]
      /\ UNCHANGED <<next, emitted>>
      /\ \A i \in DOMAIN toClient : i \in Nat \ {0}
    BY <1>1, ResponseRead
<1> DEFINE answer == IF r.kind = "done" THEN r.req ELSE 0
           record == Result(outcome, answer)
<1>3. answer \in 0 .. MaxRequests
    BY <1>2, SessionAssumption DEF Responses
<1>4. /\ record \in Records /\ record.answer = answer /\ record.name = cur.name
      /\ record.outcome = "ok" => record.items = cur.items
    BY <1>3, EmptySeq DEF Result, Records, Running
<1>5. cur' = Idle /\ results' = Append(results, record)
    BY DEF EndsBy, End, Return
<1> HIDE DEF record
<1>6. ASSUME answer = next, cur.name # "append"
      PROVE  Whole(cur.name, cur.items, next, emitted[next])
    <2>1. PICK k \in 0 .. emitted[next] : HasTaken(k)
        BY <1>1, <1>6 DEF CompleteInv, InProgress
    <2>2. r.kind = "done" /\ r.req = next
        BY <1>1, <1>6
    <2>3. OnWire(next) = {}
        <3> SUFFICES ASSUME NEW i \in DOMAIN toClient, toClient[i].kind = "data",
                            toClient[i].req = next
                     PROVE  FALSE
            BY DEF OnWire
        <3>1. i # 1 /\ 1 < i
            BY <1>2, <2>2
        <3>2. Precedes(toClient[1], toClient[i])
            BY <1>1, <1>2, <3>1 DEF Ordered, WireInOrder
        <3> QED  BY <1>1, <1>2, <2>2, <3>2 DEF Precedes
    <2>4. k = emitted[next]
        <3>1. Numbered(toClient, {}, k, emitted[next])
            BY <1>1, <2>1, <2>3 DEF HasTaken
        <3>2. k \in Nat /\ k <= emitted[next]
            BY <1>1, <2>1
        <3> QED  BY <1>1, <3>1, <3>2, NumberedNone
    <2> QED  BY <1>1, <2>1, <2>4 DEF HasTaken
<1> HIDE DEF answer
<1>7. PICK n \in Nat : n = next
    BY <1>1
<1>8. Returned'
    <2>1. n = Len(results) + 1
        BY <1>1, <1>7
    <2>2. record.answer = n /\ record.outcome = "ok" /\ record.name # "append" =>
              Whole(record.name, record.items, n, emitted[n])
        BY <1>4, <1>6, <1>7
    <2> QED  BY <1>1, <1>2, <1>4, <1>5, <2>1, <2>2, ResultKeepsReturned DEF CompleteInv
<1>9. NotYet'
    BY <1>2 DEF CompleteInv, NotYet
<1> QED  BY <1>5, <1>8, <1>9 DEF BoxesAgree, OneField, InProgress

\* The command's own data have a class it makes its result of, and its mailbox.
LEMMA OwnClass ==
    ASSUME CompleteInv, Read, cur \in Running, r.kind = "data", r.req = next
    PROVE  r.class \in Gives[cur.name] /\ r.box = cur.box
<1>1. /\ Typed /\ NamesAgree /\ BoxesAgree /\ cur # Idle /\ cur.req = next
      /\ next \in Nat \ {0} /\ Len(results) = next - 1
    BY CommandInProgress DEF CompleteInv
<1>2. 1 \in DOMAIN toClient /\ r = toClient[1]
    BY <1>1, ResponseRead
<1>3. NameOf(next) = cur.name
    <2>1. next \notin DOMAIN results
        BY <1>1, Numbers
    <2> QED  BY <2>1 DEF NameOf
<1> QED  BY <1>1, <1>2, <1>3 DEF NamesAgree, BoxesAgree, OnWire

\* A field has a class of its own.
LEMMA OneClass ==
    ASSUME NEW name \in LastOnly
    PROVE  /\ \A c, d \in Gives[name] : c = d
           /\ "flags" \notin Gives[name]
<1>1. name \in {"get_quota", "id", "select"}
    BY DEF LastOnly
<1> QED  BY <1>1, GivenData

\* What the command puts in is the one field, or extends a list.
LEMMA PutsKeepsOneField ==
    ASSUME CompleteInv, Read, cur \in Running, Puts
    PROVE  OneField'
<1>1. Typed /\ cur # Idle /\ cur.req = next /\ OneField
    BY CommandInProgress DEF CompleteInv
<1>2. /\ r \in Responses /\ cur.items \in Seq(Responses)
      /\ r.class \in Gives[cur.name] \/ r.class = "flags"
      /\ cur'.name = cur.name /\ cur'.req = cur.req
      /\ cur'.items = With(cur.items)
    BY <1>1, ResponseRead DEF Puts, Keep, Running
<1>3. r.req = next => r.class \in Gives[cur.name]
    BY OwnClass DEF Puts
<1> DEFINE items == cur.items
           Field(i) == items[i].class \in Gives[cur.name]
           Fills(q, i) == q[i].class \in Gives[cur.name]
<1> SUFFICES ASSUME cur.name \in LastOnly, NEW new, new = With(items)
             PROVE  /\ \A i \in DOMAIN new : new[i].req = next => Fills(new, i)
                    /\ \A i, j \in DOMAIN new : Fills(new, i) /\ Fills(new, j) => i = j
    BY <1>1, <1>2 DEF OneField
<1>4. /\ \A i \in DOMAIN items : items[i].req = next => Fills(items, i)
      /\ \A i, j \in DOMAIN items : Fills(items, i) /\ Fills(items, j) => i = j
    BY <1>1 DEF OneField
<1>5. CASE Overwrites(items)
    <2>1. /\ DOMAIN new = DOMAIN items
          /\ \A i \in DOMAIN items :
                 new[i] = IF items[i].class = r.class THEN r ELSE items[i]
        BY <1>5 DEF With
    <2>2. r.class \in Gives[cur.name]
        BY <1>5 DEF Overwrites
    <2>3. \A i \in DOMAIN items :
              /\ new[i].class = items[i].class
              /\ new[i] = items[i] \/ Fills(new, i)
        BY <2>1, <2>2
    <2> QED  BY <1>4, <2>1, <2>3
<1>6. CASE ~Overwrites(items)
    <2>1. new = Append(items, r)
        BY <1>6 DEF With
    <2>2. /\ \A i \in DOMAIN items : i \in DOMAIN new /\ new[i] = items[i]
          /\ \A i \in DOMAIN new : \/ i \in DOMAIN items /\ new[i] = items[i]
                                   \/ i = Len(items) + 1 /\ new[i] = r
        BY <1>2, <2>1, QueueAppend
    <2>3. r.class \in Gives[cur.name] => \A i \in DOMAIN items : ~Fills(items, i)
        BY <1>6, OneClass DEF Overwrites
    <2> HIDE DEF items
    <2> QED  BY <1>3, <1>4, <2>2, <2>3
<1> QED  BY <1>5, <1>6

\* The field of a command that has read no data of its own is not its own.
LEMMA NothingTaken ==
    ASSUME OneField, cur # Idle, cur.req # 0, Whole(cur.name, cur.items, cur.req, 0)
    PROVE  Places(cur.items, cur.req) = {}
<1> SUFFICES ASSUME NEW i \in DOMAIN cur.items, cur.items[i].req = cur.req PROVE FALSE
    BY DEF Places
<1>1. CASE Numbered(cur.items, Places(cur.items, cur.req), Replaced(cur.name, 0), 0)
    <2>1. i \in Places(cur.items, cur.req) /\ Replaced(cur.name, 0) = 0
        BY DEF Places, Replaced
    <2>2. cur.items[i].n \in 0 + 1 .. 0
        BY <1>1, <2>1 DEF Numbered
    <2> QED  BY <2>2
<1>2. CASE Overtaken(cur.name, cur.items)
    <2>1. PICK j \in DOMAIN cur.items :
              cur.items[j].req = 0 /\ cur.items[j].class \in Gives[cur.name]
        BY <1>2 DEF Overtaken
    <2>2. cur.items[i].class \in Gives[cur.name] /\ cur.name \in LastOnly
        BY <1>2 DEF OneField, Overtaken
    <2>3. i = j
        BY <2>1, <2>2 DEF OneField
    <2> QED  BY <2>1, <2>3
<1> QED  BY <1>1, <1>2 DEF Whole

\* The command puts r into its result.  First where it has one field:
LEMMA FieldStaysWhole ==
    ASSUME CompleteInv, Read, cur \in Running, Puts, cur.name \in LastOnly,
           NEW k \in Nat, Whole(cur.name, cur.items, next, k), k > 0 => Past(next - 1),
           r.req = next => r.n = k + 1
    PROVE  Whole(cur.name, cur'.items, next, IF r.req = next THEN k + 1 ELSE k)
<1>1. /\ Typed /\ cur # Idle /\ cur.req = next /\ next \in Nat \ {0} /\ OneField
    BY CommandInProgress DEF CompleteInv
<1>2. /\ r \in Responses /\ r.kind = "data" /\ cur.items \in Seq(Responses)
      /\ 1 \in DOMAIN toClient /\ r = toClient[1]
      /\ r.class \in Gives[cur.name] \/ r.class = "flags"
      /\ cur'.name = cur.name /\ cur'.req = cur.req
      /\ cur'.items = With(cur.items)
    BY <1>1, ResponseRead DEF Puts, Keep, Running
<1> DEFINE items == cur.items
           new == With(items)
<1>3. /\ new \in Seq(Responses) /\ r \in Range(new)
      /\ \A i \in DOMAIN new : new[i] = r \/ (i \in DOMAIN items /\ new[i] = items[i])
      /\ \A i \in DOMAIN items :
             i \in DOMAIN new /\ (new[i] = items[i] \/ Overwrites(items))
    BY <1>2, WithProperties
<1>4. /\ \A i \in DOMAIN new : new[i].req = next => new[i].class \in Gives[cur.name]
      /\ \A i, j \in DOMAIN new :
             new[i].class \in Gives[cur.name] /\ new[j].class \in Gives[cur.name] => i = j
    <2>1. OneField' /\ cur' # Idle
        BY <1>2, PutsKeepsOneField, NameOfIdle DEF Running
    <2> QED  BY <1>1, <1>2, <2>1 DEF OneField
<1> HIDE DEF new
<1>5. PICK p \in DOMAIN new : new[p] = r
    BY <1>3 DEF Range
<1>6. CASE r.req = next
    <2>1. r.class \in Gives[cur.name]
        BY <1>2, <1>6, OwnClass
    <2>2. Places(new, next) = {p}
        BY <1>4, <1>5, <1>6, <2>1 DEF Places
    <2>3. p \in Nat
        BY <1>3, LenProperties
    <2>4. new[p].n = k + 1
        BY <1>5, <1>6
    <2>5. Numbered(new, {p}, k, k + 1)
        BY <2>3, <2>4, NumberedOne
    <2>6. Replaced(cur.name, k + 1) = k
        BY DEF Replaced
    <2> QED  BY <1>2, <1>6, <2>2, <2>5, <2>6 DEF Whole, new
<1>7. CASE r.req # next /\ r.class \in Gives[cur.name]
    <2>1. CASE r.req = 0
        BY <1>2, <1>5, <1>7, <2>1 DEF Whole, Overtaken, new
    <2>2. CASE r.req # 0
        <3>1. r.req \in 1 .. next - 1
            <4>1. r.req \in Requests \ {next}
                BY <1>2, <1>7, <2>2, SessionAssumption DEF Responses, Requests
            <4> QED  BY <1>1, <1>2, <4>1, TakenIsLeftOver DEF CompleteInv
        <3>2. k = 0
            BY <1>2, <3>1 DEF Past
        <3>3. Places(items, next) = {}
            BY <1>1, <3>2, NothingTaken
        <3>4. Places(new, next) = {}
            BY <1>3, <1>7, <3>3 DEF Places
        <3>5. Replaced(cur.name, 0) = 0 /\ Numbered(new, {}, 0, 0)
            BY NumberedNone DEF Replaced
        <3> QED  BY <1>2, <1>7, <3>2, <3>4, <3>5 DEF Whole, new
    <2> QED  BY <2>1, <2>2
<1>8. CASE r.req # next /\ r.class \notin Gives[cur.name]
    <2>1. \A i \in DOMAIN items : i \in DOMAIN new /\ new[i] = items[i]
        BY <1>3, <1>8 DEF Overwrites
    <2>2. CASE Numbered(items, Places(items, next), Replaced(cur.name, k), k)
        <3>1. Places(new, next) = Places(items, next)
            BY <1>3, <1>8, <2>1 DEF Places
        <3>2. \A i \in Places(items, next) : new[i] = items[i]
            BY <2>1 DEF Places
        <3>3. Numbered(new, Places(items, next), Replaced(cur.name, k), k)
            BY <2>2, <3>2, NumberedStays
        <3> QED  BY <1>2, <1>8, <3>1, <3>3 DEF Whole, new
    <2>3. CASE Overtaken(cur.name, items)
        <3>1. Overtaken(cur.name, new)
            BY <2>1, <2>3 DEF Overtaken
        <3> QED  BY <1>2, <1>8, <3>1 DEF Whole, new
    <2> QED  BY <2>2, <2>3 DEF Whole
<1> QED  BY <1>6, <1>7, <1>8

\* Then where it has a list.
LEMMA ListStaysWhole ==
    ASSUME CompleteInv, Read, cur \in Running, Puts, cur.name \notin LastOnly,
           NEW k \in Nat, Whole(cur.name, cur.items, next, k),
           r.req = next => r.n = k + 1
    PROVE  Whole(cur.name, cur'.items, next, IF r.req = next THEN k + 1 ELSE k)
<1>1. /\ r \in Responses /\ cur.items \in Seq(Responses)
      /\ cur'.items = Append(cur.items, r)
    BY ResponseRead, CommandInProgress DEF Puts, Keep, Running, With, Overwrites
<1> DEFINE items == cur.items
           longer == Append(items, r)
           len == Len(items)
<1>2. /\ len \in Nat /\ DOMAIN items = 1 .. len /\ DOMAIN longer = 1 .. len + 1
      /\ \A i \in DOMAIN items : longer[i] = items[i]
      /\ longer[len + 1] = r
    <2>1. longer \in Seq(Responses) /\ Len(longer) = len + 1
        BY <1>1, QueueAppend
    <2>2. \A i \in DOMAIN items : longer[i] = items[i]
        BY <1>1, QueueAppend
    <2>3. longer[len + 1] = r
        BY <1>1, QueueAppend
    <2> HIDE DEF longer
    <2> QED  BY <1>1, <2>1, <2>2, <2>3, LenProperties
<1> HIDE DEF longer
<1>3. Numbered(items, Places(items, next), 0, k) /\ \A m : Replaced(cur.name, m) = 0
    BY DEF Whole, Overtaken, Replaced
<1>4. CASE r.req = next
    <2>1. Places(longer, next) = Places(items, next) \cup {len + 1}
        BY <1>2, <1>4 DEF Places
    <2> DEFINE own == Places(items, next)
    <2>2. /\ Numbered(items, own, 0, k) /\ own \in SUBSET (1 .. len) /\ own \subseteq DOMAIN items
          /\ len \in Nat /\ 0 \in Nat /\ 0 <= k
        BY <1>2, <1>3 DEF Places
    <2> HIDE DEF own
    <2>3. (\A i \in own : longer[i] = items[i]) /\ longer[len + 1].n = k + 1
        BY <1>2, <1>4, <2>2
    <2>4. Numbered(longer, own \cup {len + 1}, 0, k + 1)
        <3> HIDE DEF items, len
        <3> QED  BY <2>2, <2>3, NumberedGrows
    <2> QED  BY <1>1, <1>3, <1>4, <2>1, <2>4 DEF own, longer, Whole
<1>5. CASE r.req # next
    <2>1. Places(longer, next) = Places(items, next)
        BY <1>2, <1>5 DEF Places
    <2>2. \A i \in Places(items, next) : longer[i] = items[i]
        BY <1>2 DEF Places
    <2>3. Numbered(longer, Places(items, next), 0, k)
        BY <1>3, <2>2, NumberedStays
    <2> QED  BY <1>1, <1>3, <1>5, <2>1, <2>3 DEF longer, Whole
<1> QED  BY <1>4, <1>5

\* The command has read one more of its data, or as many as before.
LEMMA PutsKeepsComplete ==
    ASSUME CompleteInv, Read, cur \in Running, Puts
    PROVE  InProgress'
<1>1. /\ Typed /\ Ordered /\ cur # Idle /\ cur.req = next /\ next \in Nat \ {0}
      /\ next \in Requests /\ emitted[next] \in Nat
    BY CommandInProgress
<1>2. UNCHANGED <<next, emitted>>
    BY <1>1, ResponseRead
<1>3. /\ cur.name # "append" /\ r.kind = "data"
      /\ UNCHANGED <<results, toServer>>
      /\ cur'.name = cur.name /\ cur'.req = cur.req
    BY DEF Puts, Keep, Running
<1>4. PICK k \in 0 .. emitted[next] : HasTaken(k)
    BY <1>1, <1>3 DEF CompleteInv, InProgress
<1>5. /\ Whole(cur.name, cur.items, next, k)
      /\ Numbered(toClient, OnWire(next), k, emitted[next])
      /\ k > 0 => Past(next - 1)
      /\ k \in Nat
    BY <1>1, <1>4 DEF HasTaken
<1>6. /\ r.req # next => Numbered(toClient', NewOnWire(next), k, emitted[next])
      /\ r.req = next => /\ r.n = k + 1 /\ k + 1 <= emitted[next]
                         /\ Numbered(toClient', NewOnWire(next), k + 1, emitted[next])
                         /\ Past(next - 1)'
    BY <1>3, <1>4, <1>5, ReadTakesNext
<1>7. Whole(cur.name, cur'.items, next, IF r.req = next THEN k + 1 ELSE k)
    BY <1>5, <1>6, FieldStaysWhole, ListStaysWhole
<1>8. ASSUME NEW m \in 0 .. emitted[next],
             Whole(cur.name, cur'.items, next, m),
             Numbered(toClient', NewOnWire(next), m, emitted[next]),
             m > 0 => Past(next - 1)'
      PROVE  InProgress'
    <2>1. HasTaken(m)'
        BY <1>1, <1>2, <1>3, <1>8 DEF HasTaken, Whole, Places, OnWire, NewOnWire
    <2> QED  BY <1>1, <1>2, <1>3, <2>1 DEF InProgress
<1>9. CASE r.req = next
    <2>1. k + 1 \in 0 .. emitted[next]
        BY <1>1, <1>5, <1>6, <1>9
    <2> QED  BY <1>6, <1>7, <1>8, <1>9, <2>1
<1>10. CASE r.req # next
    <2>1. Past(next - 1) => Past(next - 1)'
        <3>1. LinesStay
            BY <1>1, <1>3 DEF LinesStay, Ordered, UpToNext
        <3>2. \A p \in Nat : Past(p) => Past(p)'
            BY <1>1, <3>1, ReadKeepsOrder
        <3>3. PICK p \in Nat : p = next - 1
            BY <1>1
        <3> QED  BY <1>2, <3>2, <3>3 DEF Past
    <2> QED  BY <1>4, <1>5, <1>6, <1>7, <1>8, <1>10, <2>1
<1> QED  BY <1>9, <1>10

LEMMA BoxesStillAgree ==
    ASSUME BoxesAgree, cur # Idle, cur'.req = cur.req, cur'.box = cur.box,
           \A i \in DOMAIN toServer' :
               ~IsLine(toServer'[i]) \/ \E j \in DOMAIN toServer : toServer'[i] = toServer[j],
           serving'.req = cur.req => serving'.box = cur.box,
           \A i \in NewOnWire(cur.req) :
               toClient'[i].box = cur.box \/ \E j \in DOMAIN toClient : toClient'[i] = toClient[j]
    PROVE  BoxesAgree'
<1>1. \A i \in DOMAIN toServer' :
          IsLine(toServer'[i]) /\ toServer'[i].req = cur.req => toServer'[i].box = cur.box
    BY DEF BoxesAgree
<1>2. \A i \in NewOnWire(cur.req) : toClient'[i].box = cur.box
    BY DEF BoxesAgree, OnWire, NewOnWire
<1> QED  BY <1>1, <1>2 DEF BoxesAgree, OnWire, NewOnWire, IsLine

LEMMA ReadOnKeepsComplete ==
    ASSUME CompleteInv, Read, cur \in Running, Puts \/ Passes \/ SendsLiteral
    PROVE  NotYet' /\ BoxesAgree' /\ OneField' /\ InProgress' /\ Returned'
<1>1. /\ Typed /\ Ordered /\ NamesAgree /\ cur # Idle /\ cur.req = next /\ next \in Nat \ {0}
      /\ Len(results) = next - 1 /\ emitted[next] \in Nat
    BY CommandInProgress
<1>2. /\ 1 \in DOMAIN toClient /\ r = toClient[1]
      /\ \A i \in DOMAIN toClient' : i + 1 \in DOMAIN toClient /\ toClient'[i] = toClient[i + 1]
      /\ UNCHANGED <<next, serving, emitted>>
    BY <1>1, ResponseRead
<1>3. /\ cur'.name = cur.name /\ cur'.req = cur.req /\ cur'.box = cur.box /\ results' = results
    BY DEF Puts, Passes, SendsLiteral, Keep, Running
<1>4. NotYet' /\ Returned'
    BY <1>2, <1>3 DEF CompleteInv, NotYet, Returned, EndedByAnswer
<1>5. BoxesAgree'
    <2>1. \A i \in DOMAIN toServer' :
              ~IsLine(toServer'[i]) \/ \E j \in DOMAIN toServer : toServer'[i] = toServer[j]
        <3>1. CASE toServer' = toServer
            BY <3>1
        <3>2. CASE SendsLiteral
            <4> DEFINE literal == [Line("append", "none", cur.req) EXCEPT !.part = "literal"]
            <4>1. toServer' = Append(toServer, literal) /\ cur.name = "append"
                BY <3>2 DEF SendsLiteral
            <4>2. literal \in Lines /\ ~IsLine(literal)
                BY <4>1 DEF Line, Lines, IsLine, Boxes, Running
            <4> HIDE DEF literal
            <4> QED  BY <1>1, <4>1, <4>2, Types, QueueAppend
        <3> QED  BY <3>1, <3>2 DEF Puts, Passes, Keep
    <2>2. serving'.req = cur.req => serving'.box = cur.box
        BY <1>1, <1>2 DEF CompleteInv, BoxesAgree
    <2>3. \A i \in NewOnWire(cur.req) : \E j \in DOMAIN toClient : toClient'[i] = toClient[j]
        BY <1>2 DEF NewOnWire
    <2> QED  BY <1>1, <1>3, <2>1, <2>2, <2>3, BoxesStillAgree DEF CompleteInv
<1>6. CASE SendsLiteral
    <2>1. InProgress' /\ OneField'
        BY <1>3, <1>6 DEF InProgress, OneField, SendsLiteral, LastOnly
    <2> QED  BY <1>4, <1>5, <2>1
<1>7. CASE Passes
    <2>1. cur' = cur /\ toServer' = toServer /\ cur.name # "append"
        BY <1>7 DEF Passes
    <2>2. ~(r.kind = "data" /\ r.req = next)
        BY <1>7, OwnClass DEF Passes
    <2>3. PICK k \in 0 .. emitted[next] : HasTaken(k)
        BY <1>1, <2>1 DEF CompleteInv, InProgress
    <2>4. Numbered(toClient', NewOnWire(next), k, emitted[next])
        BY <1>1, <2>1, <2>2, <2>3, ReadTakesNext DEF HasTaken
    <2>5. Past(next - 1) => Past(next - 1)'
        <3>1. LinesStay
            BY <1>1, <2>1 DEF LinesStay, Ordered, UpToNext
        <3>2. \A p \in Nat : Past(p) => Past(p)'
            BY <1>1, <3>1, ReadKeepsOrder
        <3>3. PICK p \in Nat : p = next - 1
            BY <1>1
        <3> QED  BY <1>2, <3>2, <3>3 DEF Past
    <2>6. HasTaken(k)'
        BY <1>1, <1>2, <2>1, <2>3, <2>4, <2>5 DEF HasTaken, Whole, Places, OnWire, NewOnWire
    <2>7. InProgress' /\ OneField'
        BY <1>1, <1>2, <2>1, <2>6 DEF InProgress, OneField, CompleteInv
    <2> QED  BY <1>4, <1>5, <2>7
<1> QED  BY <1>4, <1>5, <1>6, <1>7, PutsKeepsComplete, PutsKeepsOneField

LEMMA VainReturnKeepsComplete ==
    ASSUME CompleteInv, NEW outcome \in Outcomes, VainReturn(outcome)
    PROVE  NotYet' /\ BoxesAgree' /\ OneField' /\ InProgress' /\ Returned'
<1> DEFINE record == Result(outcome, 0)
<1>1. /\ cur # Idle /\ cur' = Idle /\ results' = Append(results, record)
      /\ UNCHANGED <<next, emitted>>
    BY DEF VainReturn, Return
<1>2. Typed /\ cur \in Running
    BY <1>1, Types DEF CompleteInv, LeftInv, OrderInv
<1>3. record \in Records /\ record.answer = 0
    <2>1. 0 \in 0 .. MaxRequests
        BY SessionAssumption
    <2> QED  BY <1>2, <2>1 DEF Result, Records, Running
<1> HIDE DEF record
<1>4. PICK n \in Nat : n = Len(results) + 1 /\ n # 0
    BY <1>2, Numbers
<1>5. Returned'
    BY <1>1, <1>2, <1>3, <1>4, ResultKeepsReturned DEF CompleteInv
<1>6. NotYet'
    BY <1>1 DEF CompleteInv, NotYet
<1> QED  BY <1>1, <1>5, <1>6 DEF BoxesAgree, OneField, InProgress

LEMMA IssueFailsKeepsComplete ==
    ASSUME CompleteInv, NEW name \in Commands, IssueFails(name)
    PROVE  NotYet' /\ BoxesAgree' /\ OneField' /\ InProgress' /\ Returned'
<1> DEFINE record == [name |-> name, outcome |-> "io", answer |-> 0, items |-> << >>]
<1>1. /\ cur = Idle /\ cur' = Idle /\ results' = Append(results, record)
      /\ next' = next + 1 /\ emitted' = emitted
    BY DEF IssueFails, serverVars
<1>2. Typed /\ next \in Nat /\ Requests \subseteq Nat
    BY Types DEF CompleteInv, LeftInv, OrderInv, Requests
<1>3. record \in Records /\ record.answer = 0
    <2>1. << >> \in Seq(Responses) /\ 0 \in 0 .. MaxRequests
        BY EmptySeq, SessionAssumption
    <2> QED  BY <2>1 DEF Records, Outcomes
<1> HIDE DEF record
<1>4. PICK n \in Nat : n = Len(results) + 1 /\ n # 0
    BY <1>2, Numbers
<1>5. Returned'
    BY <1>1, <1>2, <1>3, <1>4, ResultKeepsReturned DEF CompleteInv
<1>6. NotYet'
    <2>1. \A q \in Requests : q > next + 1 => q > next
        BY <1>2
    <2> QED  BY <1>1, <2>1 DEF CompleteInv, NotYet
<1> QED  BY <1>1, <1>5, <1>6 DEF BoxesAgree, OneField, InProgress

\* A new command: nothing is on the way yet.
LEMMA IssueKeepsComplete ==
    ASSUME CompleteInv, NEW name \in Commands, NEW box \in Boxes, Issue(name, box)
    PROVE  NotYet' /\ BoxesAgree' /\ OneField' /\ InProgress' /\ Returned'
<1> DEFINE line == Line(name, box, next + 1)
<1>1. /\ cur = Idle /\ next < MaxRequests /\ next' = next + 1 /\ results' = results
      /\ cur'.name = name /\ cur'.box = box /\ cur'.req = next + 1 /\ cur'.items = << >>
      /\ toServer' = Append(toServer, line)
      /\ UNCHANGED <<toClient, serving, emitted>>
    BY DEF Issue, serverVars
<1>2. /\ Typed /\ Ordered /\ next \in Nat /\ MaxRequests \in Nat /\ toServer \in Seq(Lines)
    BY Types DEF CompleteInv, LeftInv, OrderInv
<1>3. next + 1 \in Requests /\ Requests \subseteq Nat
    BY <1>1, <1>2 DEF Requests
<1>4. line \in Lines /\ line.req = next + 1 /\ line.box = box
    BY <1>3 DEF Line, Lines
<1> HIDE DEF line
<1>5. /\ serving.req # next + 1
      /\ \A i \in DOMAIN toClient : toClient[i].req # next + 1
      /\ \A i \in DOMAIN toServer : toServer[i].req # next + 1
    <2>1. /\ serving.req \in Nat /\ serving.req <= next
          /\ \A i \in DOMAIN toClient : toClient[i].req \in Nat /\ toClient[i].req <= next
          /\ \A i \in DOMAIN toServer : toServer[i].req \in Nat /\ toServer[i].req <= next
        BY <1>2, Numbers DEF Ordered, UpToNext
    <2> QED  BY <1>2, <2>1
<1>6. NotYet' /\ emitted[next + 1] = 0
    <2>1. \A q \in Requests : q > next + 1 => q > next
        BY <1>2, <1>3
    <2>2. next + 1 > next
        BY <1>2
    <2> QED  BY <1>1, <1>3, <2>1, <2>2 DEF CompleteInv, NotYet
<1>7. Returned'
    BY <1>1 DEF CompleteInv, Returned, EndedByAnswer
<1>8. BoxesAgree'
    <2>1. \A i \in DOMAIN toServer' :
              (i \in DOMAIN toServer /\ toServer'[i] = toServer[i]) \/ toServer'[i] = line
        BY <1>1, <1>2, <1>4, QueueAppend
    <2>2. \A i \in DOMAIN toServer' : toServer'[i].req = next + 1 => toServer'[i].box = box
        BY <1>4, <1>5, <2>1
    <2> QED  BY <1>1, <1>5, <2>2 DEF BoxesAgree, OnWire
<1>9. InProgress'
    <2>1. /\ Numbered(<< >>, {}, 0, 0) /\ Numbered(toClient, {}, 0, 0)
        BY NumberedNone
    <2>2. Places(<< >>, next + 1) = {} /\ NewOnWire(next + 1) = {}
        BY <1>1, <1>5 DEF Places, NewOnWire
    <2>3. Replaced(name, 0) = 0
        BY DEF Replaced
    <2>4. HasTaken(0)'
        <3>1. Whole(cur'.name, cur'.items, cur'.req, 0)
            BY <1>1, <2>1, <2>2, <2>3 DEF Whole
        <3>2. Numbered(toClient', NewOnWire(cur'.req), 0, emitted'[cur'.req])
            BY <1>1, <1>6, <2>1, <2>2
        <3> QED  BY <3>1, <3>2 DEF HasTaken, Whole, Places, OnWire, NewOnWire
    <2>5. 0 \in 0 .. emitted'[cur'.req]
        BY <1>1, <1>6
    <2> QED  BY <2>4, <2>5 DEF InProgress
<1>10. OneField'
    <2>1. DOMAIN << >> = {}
        OBVIOUS
    <2> QED  BY <1>1, <2>1 DEF OneField
<1> QED  BY <1>6, <1>7, <1>8, <1>9, <1>10

\* What the server says of others than the command in progress is not its data.
LEMMA WireOfOthers ==
    ASSUME Typed, NEW q \in Nat \ {0}, NEW a, NEW b, Numbered(toClient, OnWire(q), a, b),
           \/ toClient' = toClient
           \/ \E e \in Responses : Say(e) /\ (e.kind # "data" \/ e.req # q)
    PROVE  Numbered(toClient', NewOnWire(q), a, b)
<1>1. CASE toClient' = toClient
    BY <1>1 DEF OnWire, NewOnWire
<1>2. ASSUME NEW e \in Responses, Say(e), e.kind # "data" \/ e.req # q
      PROVE  Numbered(toClient', NewOnWire(q), a, b)
    <2>1. /\ \A i \in DOMAIN toClient : i \in DOMAIN toClient' /\ toClient'[i] = toClient[i]
          /\ \A i \in DOMAIN toClient' :
                 (i \in DOMAIN toClient /\ toClient'[i] = toClient[i]) \/ toClient'[i] = e
        BY <1>2, ResponseSaid
    <2>2. NewOnWire(q) = OnWire(q) /\ \A i \in OnWire(q) : toClient'[i] = toClient[i]
        BY <1>2, <2>1 DEF OnWire, NewOnWire
    <2> QED  BY <2>2, NumberedStays
<1> QED  BY <1>1, <1>2

\* New data of the command in progress have the next number.
LEMMA WireGrows ==
    ASSUME Typed, NEW q \in Nat \ {0}, NEW a \in Nat, NEW b \in Nat, a <= b,
           Numbered(toClient, OnWire(q), a, b),
           NEW e \in Responses, Say(e), e.kind = "data", e.req = q, e.n = b + 1
    PROVE  Numbered(toClient', NewOnWire(q), a, b + 1)
<1> DEFINE len == Len(toClient)
<1>1. /\ len \in Nat /\ DOMAIN toClient = 1 .. len /\ DOMAIN toClient' = 1 .. len + 1
      /\ \A i \in DOMAIN toClient : i \in DOMAIN toClient' /\ toClient'[i] = toClient[i]
      /\ toClient'[len + 1] = e
    BY ResponseSaid
<1> HIDE DEF len
<1>2. OnWire(q) \in SUBSET (1 .. len)
    BY <1>1 DEF OnWire
<1>3. NewOnWire(q) = OnWire(q) \cup {len + 1}
    BY <1>1 DEF OnWire, NewOnWire
<1>4. \A i \in OnWire(q) : toClient'[i] = toClient[i]
    BY <1>1 DEF OnWire
<1>5. Numbered(toClient', OnWire(q) \cup {len + 1}, a, b + 1)
    BY <1>1, <1>2, <1>4, NumberedGrows
<1> QED  BY <1>3, <1>5

LEMMA ServerKeepsComplete ==
    ASSUME CompleteInv, Server
    PROVE  NotYet' /\ BoxesAgree' /\ OneField' /\ InProgress' /\ Returned'
<1>1. /\ Typed /\ Counted /\ Ordered /\ AnsweredIsPast
      /\ NotYet /\ BoxesAgree /\ InProgress /\ Returned
    BY DEF CompleteInv, LeftInv, OrderInv
<1>2. /\ UNCHANGED <<next, cur, results>>
      /\ \A i \in DOMAIN toServer' : \E j \in DOMAIN toServer : toServer'[i] = toServer[j]
      /\ ServingGoesOn
      /\ OtherSaid \/ \E e \in Responses : DataSaid(e)
    BY <1>1, ServerSteps
<1>3. \A p \in Nat : Past(p) => Past(p)'
    BY <1>1, ServerKeepsOrder
<1>4. emitted \in [Requests -> Nat] /\ Requests \subseteq Nat \ {0}
    BY <1>1, SessionAssumption DEF Typed, TypeOK, Requests
<1>5. ASSUME NEW e \in Responses, DataSaid(e)
      PROVE  /\ e.kind = "data" /\ e.req = serving.req /\ Say(e) /\ serving.req \in Requests
             /\ e.n = emitted[serving.req] + 1
             /\ emitted'[serving.req] = emitted[serving.req] + 1
             /\ \A q \in Requests : q # serving.req => emitted'[q] = emitted[q]
    BY <1>4, <1>5 DEF DataSaid
<1>6. NotYet'
    <2>1. CASE OtherSaid
        BY <1>1, <1>2, <2>1 DEF OtherSaid, NotYet
    <2>2. ASSUME NEW e \in Responses, DataSaid(e) PROVE NotYet'
        <3>1. serving.req <= next /\ next \in Nat /\ serving.req \in Nat
            BY <1>1, Numbers DEF Ordered, UpToNext
        <3>2. \A q \in Requests : q > next => q # serving.req
            BY <1>4, <3>1
        <3> QED  BY <1>1, <1>2, <1>5, <2>2, <3>2 DEF NotYet
    <2> QED  BY <1>2, <2>1, <2>2
<1>7. Returned'
    <2> SUFFICES ASSUME NEW q \in DOMAIN results, EndedByAnswer(q)
                 PROVE  emitted'[q] = emitted[q]
        BY <1>1, <1>2 DEF Returned, EndedByAnswer
    <2>1. CASE OtherSaid
        BY <2>1 DEF OtherSaid
    <2>2. ASSUME NEW e \in Responses, DataSaid(e) PROVE emitted'[q] = emitted[q]
        <3>1. q \in 1 .. q /\ q \in Requests
            <4>1. /\ next \in Nat /\ next <= MaxRequests /\ MaxRequests \in Nat
                  /\ DOMAIN results = 1 .. Len(results) /\ Len(results) \in Nat
                BY <1>1, Types, Numbers
            <4>2. DOMAIN results \subseteq 1 .. next
                BY <1>1, ResultsWithinRequests
            <4> QED  BY <4>1, <4>2 DEF Requests
        <3>2. serving.req # q
            BY <1>1, <3>1 DEF AnsweredIsPast, Past
        <3> QED  BY <1>5, <2>2, <3>1, <3>2
    <2> QED  BY <1>2, <2>1, <2>2
<1>8. CASE cur = Idle
    BY <1>2, <1>6, <1>7, <1>8 DEF BoxesAgree, OneField, InProgress
<1>9. CASE cur # Idle
    <2>1. /\ cur \in Running /\ cur.req = next /\ next \in Requests /\ next \in Nat \ {0}
          /\ emitted[next] \in Nat
        BY <1>1, <1>9, Types, CommandInProgress
    <2>2. BoxesAgree'
        <3>1. serving'.req = cur.req => serving'.box = cur.box
            <4>1. serving' = Nothing => serving'.req = 0
                BY DEF Nothing
            <4> QED  BY <1>1, <1>2, <1>9, <2>1, <4>1 DEF ServingGoesOn, BoxesAgree
        <3>2. ASSUME NEW i \in NewOnWire(cur.req)
              PROVE  toClient'[i].box = cur.box \/ \E j \in DOMAIN toClient : toClient'[i] = toClient[j]
            <4>1. i \in DOMAIN toClient' /\ toClient'[i].kind = "data" /\ toClient'[i].req = cur.req
                BY DEF NewOnWire
            <4>2. CASE toClient' = toClient
                BY <4>1, <4>2
            <4>3. ASSUME NEW e \in Responses, Say(e)
                  PROVE  toClient'[i] = e \/ \E j \in DOMAIN toClient : toClient'[i] = toClient[j]
                BY <1>1, <4>1, <4>3, ResponseSaid
            <4>4. ASSUME NEW e \in Responses, DataSaid(e), e.req = cur.req PROVE e.box = cur.box
                BY <1>1, <1>9, <4>4 DEF DataSaid, BoxesAgree
            <4>5. cur.req # 0
                BY <2>1
            <4> QED  BY <1>2, <4>1, <4>2, <4>3, <4>4, <4>5 DEF OtherSaid, DataSaid
        <3> QED  BY <1>1, <1>2, <1>9, <3>1, <3>2, BoxesStillAgree
    <2>3. InProgress'
        <3>1. CASE cur.name = "append"
            BY <1>2, <3>1 DEF InProgress
        <3>2. CASE cur.name # "append"
            <4>1. PICK k \in 0 .. emitted[next] : HasTaken(k)
                BY <1>1, <1>9, <2>1, <3>2 DEF InProgress
            <4>2. k \in Nat /\ k <= emitted[next]
                BY <2>1
            <4>3. Past(next - 1) => Past(next - 1)'
                <5>1. PICK p \in Nat : p = next - 1
                    BY <2>1
                <5> QED  BY <1>2, <1>3, <5>1 DEF Past
            <4>4. ASSUME NEW b \in Nat, b = emitted'[next], emitted[next] <= b,
                         Numbered(toClient', NewOnWire(next), k, b)
                  PROVE  InProgress'
                <5>1. HasTaken(k)'
                    BY <1>2, <2>1, <4>1, <4>3, <4>4 DEF HasTaken, Whole, Places, OnWire, NewOnWire
                <5>2. k \in 0 .. emitted'[cur'.req]
                    BY <1>2, <2>1, <4>2, <4>4
                <5> QED  BY <5>1, <5>2 DEF InProgress
            <4>5. Numbered(toClient, OnWire(next), k, emitted[next])
                BY <2>1, <4>1 DEF HasTaken
            <4>6. CASE OtherSaid
                <5>1. Numbered(toClient', NewOnWire(next), k, emitted[next])
                    BY <1>1, <2>1, <4>5, <4>6, WireOfOthers DEF OtherSaid
                <5> QED  BY <2>1, <4>4, <4>6, <5>1 DEF OtherSaid
            <4>7. ASSUME NEW e \in Responses, DataSaid(e), e.req # next PROVE InProgress'
                <5>1. Numbered(toClient', NewOnWire(next), k, emitted[next])
                    BY <1>1, <1>5, <2>1, <4>5, <4>7, WireOfOthers
                <5>2. emitted'[next] = emitted[next]
                    BY <1>5, <2>1, <4>7
                <5> QED  BY <2>1, <4>4, <5>1, <5>2
            <4>8. ASSUME NEW e \in Responses, DataSaid(e), e.req = next PROVE InProgress'
                <5>1. e.n = emitted[next] + 1 /\ emitted'[next] = emitted[next] + 1 /\ Say(e) /\ e.kind = "data"
                    BY <1>5, <4>8
                <5>2. Numbered(toClient', NewOnWire(next), k, emitted[next] + 1)
                    BY <1>1, <2>1, <4>2, <4>5, <4>8, <5>1, WireGrows
                <5> QED  BY <2>1, <4>4, <5>1, <5>2
            <4> QED  BY <1>2, <4>6, <4>7, <4>8
        <3> QED  BY <3>1, <3>2
    <2>4. OneField'
        BY <1>2 DEF OneField, CompleteInv
    <2> QED  BY <1>6, <1>7, <2>2, <2>3, <2>4
<1> QED  BY <1>8, <1>9

LEMMA CompleteNext == CompleteInv /\ [Next]_vars => CompleteInv'
<1> SUFFICES ASSUME CompleteInv, [Next]_vars PROVE CompleteInv'
    OBVIOUS
<1>1. LeftInv /\ Typed
    BY DEF CompleteInv, LeftInv, OrderInv
<1>2. LeftInv'
    BY <1>1, LeftNext
<1> SUFFICES NotYet' /\ BoxesAgree' /\ OneField' /\ InProgress' /\ Returned'
    BY <1>2 DEF CompleteInv
<1>3. CASE Reads
    BY <1>3, EndKeepsComplete, ReadOnKeepsComplete DEF Reads
<1>4. CASE \E outcome \in Outcomes : VainReturn(outcome)
    BY <1>4, VainReturnKeepsComplete
<1>5. CASE Issues
    BY <1>5, IssueKeepsComplete, IssueFailsKeepsComplete DEF Issues
<1>6. CASE Server
    BY <1>6, ServerKeepsComplete
<1>7. CASE Quiet
    BY <1>7 DEF Quiet, CompleteInv, NotYet, BoxesAgree, IsLine, OnWire, OneField, InProgress,
                HasTaken, Whole, Past, Places, Returned, EndedByAnswer
<1> QED  BY <1>1, <1>3, <1>4, <1>5, <1>6, <1>7, StepIsOneOf

THEOREM CompleteInvariance == Spec => []CompleteInv
BY CompleteInit, CompleteNext, PTL DEF Spec

\* A command that read its own answer returned all the data the server sent for
\* it, in order, or the last, where one is kept and no update took its place,
\* and left nothing of it on the wire.
THEOREM ResultComplete == Spec => []CompleteResult
<1>1. CompleteInv => CompleteResult
    BY DEF CompleteInv, LeftInv, OrderInv, Returned, AnsweredIsPast, Past, CompleteResult
<1> QED  BY <1>1, CompleteInvariance, PTL
=============================================================================
