---------------------------- MODULE SessionProofs ----------------------------
(***************************************************************************)
(* A logged-in session for all commands, any number of requests, data,     *)
(* unilateral responses and faults, every capacity of the channel and      *)
(* every modulus of the ids: the types, and that an update is lost only to *)
(* a full channel.                                                         *)
(*                                                                         *)
(* The seventeen commands share four things a loop can do with the         *)
(* response it reads: end (EndsBy), keep it (Puts), pass it on or over     *)
(* (Passes), or send the literal it asks for (SendsLiteral).  ReadIsOneOf  *)
(* shows it once, and all other proofs go by these four.                   *)
(***************************************************************************)
EXTENDS Session, QueueProofs

Running == [name : Commands, box : Boxes, req : Requests,
            phase : {"wait", "sent"}, items : Seq(Responses)]

Records == [name : Commands, outcome : Outcomes, answer : 0 .. MaxRequests,
            items : Seq(Responses)]

Lines == [part : {"line", "literal"}, name : Commands, box : Boxes, req : Requests]

Servings == [name : Commands, box : Boxes, req : Requests,
             step : {"start", "literal", "run"}]

\* A response as the server makes it.
Proper(response) ==
    /\ response.kind \in {"done", "status"} => response.status \in Statuses
    /\ response.kind = "done" => response.req \in Requests
    /\ response.kind = "status" => response.req = 0
    /\ response.kind = "data" /\ response.req = 0 => response.class \in NoteClasses

Typed ==
    /\ TypeOK
    /\ serving = Nothing \/ serving \in Servings
    /\ \A i \in DOMAIN toClient : Proper(toClient[i])

-----------------------------------------------------------------------------
LEMMA Types ==
    ASSUME Typed
    PROVE  /\ next \in Nat /\ next <= MaxRequests /\ MaxRequests \in Nat
           /\ cur = Idle \/ cur \in Running
           /\ results \in Seq(Records)
           /\ unsolicited \in Seq(Responses) /\ toClient \in Seq(Responses)
           /\ Len(unsolicited) \in Nat /\ Len(unsolicited) <= ChannelCap
           /\ toServer \in Seq(Lines)
           /\ ChannelCap \in Nat /\ TagModulus \in Nat \ {0}
BY LenProperties, SessionAssumption
   DEF Typed, TypeOK, Running, Records, Lines

\* No command has the name of the absence of one.
LEMMA NameOfIdle ==
    /\ "none" \notin Commands /\ "none" \notin DOMAIN Gives
    /\ Idle \notin Running /\ Idle.name = "none" /\ Nothing \notin Servings
<1>1. "none" \notin DOMAIN Gives
    BY DEF Gives
<1>2. "none" \notin Commands
    BY <1>1, SessionAssumption
<1> QED  BY <1>1, <1>2 DEF Idle, Nothing, Running, Servings

\* The types hold of a new Session.
LEMMA TypedInit == Init => Typed
<1> SUFFICES ASSUME Init PROVE Typed
    OBVIOUS
<1>1. /\ next = 0 /\ cur = Idle /\ results = << >> /\ unsolicited = << >>
      /\ toServer = << >> /\ toClient = << >> /\ serving = Nothing
      /\ emitted = [q \in Requests |-> 0] /\ verdict = [q \in Requests |-> "none"]
      /\ refusal = FALSE /\ notes = 0 /\ glitches = 0 /\ conn = "up"
    BY DEF Init
<1>2. /\ results \in Seq(Records) /\ unsolicited \in Seq(Responses)
      /\ toClient \in Seq(Responses) /\ toServer \in Seq(Lines) /\ Len(unsolicited) = 0
    BY <1>1, EmptySeq
<1>3. /\ 0 \in 0 .. MaxRequests /\ 0 \in 0 .. MaxData
      /\ 0 \in 0 .. MaxNotes /\ 0 \in 0 .. MaxGlitches /\ 0 <= ChannelCap
    BY SessionAssumption
<1>4. serving.req \in 0 .. MaxRequests
    BY <1>1, <1>3 DEF Nothing
<1>5. emitted \in [Requests -> 0 .. MaxData]
    BY <1>1, <1>3
<1>6. verdict \in [Requests -> Statuses \cup {"none"}]
    BY <1>1
<1>7. TypeOK
    BY <1>1, <1>2, <1>3, <1>4, <1>5, <1>6 DEF TypeOK, Records, Lines
<1>8. DOMAIN << >> = {}
    OBVIOUS
<1> QED  BY <1>1, <1>7, <1>8 DEF Typed

-----------------------------------------------------------------------------
(* What the client does: four kinds of reads, and the rest.                  *)

\* The command ends on r: with success when r is its tagged response (or the
\* command is APPEND), with the status of r otherwise.
EndsBy(outcome) ==
    /\ End(outcome)
    /\ outcome \in Outcomes
    /\ cur.name # "append" => r.kind \in {"done", "status"}
    /\ outcome = "ok" => Own \/ cur.name = "append"

\* r becomes part of the result.
Puts ==
    /\ Keep
    /\ cur.name # "append"
    /\ r.kind = "data"
    /\ r.class \in Gives[cur.name] \/ (cur.name = "select" /\ r.class = "flags")

\* What SELECT takes no notice of.
SelectSkips ==
    /\ cur.name = "select"
    /\ r.kind = "data" => r.class \in {"list", "metadata", "search"}

\* r goes to the channel or is skipped: it is no data of this command.
Passes ==
    /\ UNCHANGED <<cur, results, toServer>>
    /\ cur.name # "append" /\ ~Own
    /\ r.kind = "data" /\ r.class \in Gives[cur.name] => r.box # cur.box
    /\ \/ unsolicited' = Append(unsolicited, r) /\ Len(unsolicited) < ChannelCap
       \/ unsolicited' = unsolicited /\ Len(unsolicited) >= ChannelCap
       \/ unsolicited' = unsolicited /\ SelectSkips

\* APPEND got its "+".
SendsLiteral ==
    /\ cur.name = "append" /\ cur.phase = "wait" /\ r.kind = "cont"
    /\ cur' = [cur EXCEPT !.phase = "sent"]
    /\ toServer' = Append(toServer, [Line("append", "none", cur.req) EXCEPT !.part = "literal"])
    /\ UNCHANGED <<results, unsolicited>>

\* A loop that ends on `ends` is one of them.
LEMMA LoopIsOneOf ==
    ASSUME Typed, cur \in Running, cur.name # "append",
           NEW ends \in BOOLEAN, NEW outcome, NEW keeps \in BOOLEAN, NEW skips \in BOOLEAN,
           Loop(ends, outcome, keeps, skips),
           Own => ends,
           ends => outcome \in Outcomes /\ r.kind \in {"done", "status"} /\ (outcome = "ok" => Own),
           keeps => r.kind = "data" /\ (\/ r.class \in Gives[cur.name]
                                        \/ cur.name = "select" /\ r.class = "flags"),
           r.kind = "data" /\ r.class \in Gives[cur.name] /\ r.box = cur.box => keeps,
           skips => SelectSkips
    PROVE  Read /\ ((\E o \in Outcomes : EndsBy(o)) \/ Puts \/ Passes)
<1>1. Read
    BY DEF Loop
<1>2. CASE ends /\ End(outcome)
    <2>1. EndsBy(outcome)
        BY <1>2 DEF EndsBy
    <2> QED  BY <1>1, <1>2, <2>1
<1>3. CASE ~ends /\ keeps /\ Keep
    BY <1>1, <1>3 DEF Puts
<1>4. CASE ~ends /\ ~keeps /\ skips /\ UNCHANGED <<cur, results, unsolicited, toServer>>
    BY <1>1, <1>4 DEF Passes
<1>5. CASE ~ends /\ ~keeps /\ ~skips /\ Unilateral
    <2>1. Len(unsolicited) >= ChannelCap \/ Len(unsolicited) < ChannelCap
        BY Types
    <2> QED  BY <1>1, <1>5, <2>1 DEF Passes, Unilateral
<1> QED  BY <1>2, <1>3, <1>4, <1>5 DEF Loop

LEMMA GivenData ==
    /\ Gives["create"] = {} /\ Gives["close"] = {} /\ Gives["copy"] = {}
    /\ Gives["noop"] = {} /\ Gives["append"] = {}
    /\ Gives["list"] = {"list"} /\ Gives["fetch"] = {"fetch"} /\ Gives["store"] = {"fetch"}
    /\ Gives["expunge"] = {"expunge"} /\ Gives["capabilities"] = {"capability"}
    /\ Gives["search"] = {"search"} /\ Gives["get_metadata"] = {"metadata"}
    /\ Gives["get_quota"] = {"quota"} /\ Gives["get_quota_root"] = {"quotaroot", "quota"}
    /\ Gives["id"] = {"id"} /\ Gives["status"] = {"status"} /\ Gives["select"] = {"exists"}
BY DEF Gives

\* What is on the wire before and after a read.
LEMMA ResponseRead ==
    ASSUME Typed, Read
    PROVE  /\ toClient' \in Seq(Responses)
           /\ r \in Responses /\ Proper(r) /\ 1 \in DOMAIN toClient /\ r = toClient[1]
           /\ \A i \in DOMAIN toClient' :
                  /\ i \in Nat \ {0} /\ i + 1 \in DOMAIN toClient
                  /\ toClient'[i] = toClient[i + 1]
           /\ \A i \in DOMAIN toClient :
                  /\ i \in Nat \ {0}
                  /\ i # 1 => i - 1 \in DOMAIN toClient' /\ toClient'[i - 1] = toClient[i]
           /\ UNCHANGED <<next, glitches, serving, emitted, verdict, refusal, notes, conn>>
<1>1. toClient \in Seq(Responses) /\ toClient # << >> /\ toClient' = Tail(toClient)
    BY Types DEF Read
<1>2. /\ Tail(toClient) \in Seq(Responses)
      /\ Head(toClient) \in Responses /\ 1 \in DOMAIN toClient /\ Head(toClient) = toClient[1]
      /\ \A i \in DOMAIN Tail(toClient) :
             /\ i \in Nat \ {0} /\ i + 1 \in DOMAIN toClient
             /\ Tail(toClient)[i] = toClient[i + 1]
      /\ \A i \in DOMAIN toClient :
             /\ i \in Nat \ {0}
             /\ i # 1 => i - 1 \in DOMAIN Tail(toClient) /\ Tail(toClient)[i - 1] = toClient[i]
    BY <1>1, QueueTail
<1>3. Proper(r)
    BY <1>2 DEF Typed, r
<1> QED  BY <1>1, <1>2, <1>3 DEF r, Read, serverVars

\* Whatever command is running, a read is one of the four.
LEMMA ReadIsOneOf ==
    ASSUME Typed, ReadStep, ~ReadEof
    PROVE  /\ Read /\ cur \in Running
           /\ (\E outcome \in Outcomes : EndsBy(outcome)) \/ Puts \/ Passes \/ SendsLiteral
<1> DEFINE OneOf == /\ Read /\ cur \in Running
                    /\ (\E outcome \in Outcomes : EndsBy(outcome)) \/ Puts \/ Passes \/ SendsLiteral
<1>1. cur.name # "none" => cur \in Running
    BY Types, NameOfIdle
<1>2. Outcomes = {"ok", "no", "lost", "io", "append", "absent", "cancelled"}
    BY DEF Outcomes, Statuses
<1>3. Read => r \in Responses /\ Proper(r)
    BY ResponseRead
<1>4. ASSUME NEW keeps \in BOOLEAN, NEW outcome \in {"ok", "absent"},
             Loop(Own, outcome, keeps, FALSE), cur \in Running, cur.name # "append",
             keeps => r.kind = "data" /\ r.class \in Gives[cur.name],
             r.kind = "data" /\ r.class \in Gives[cur.name] /\ r.box = cur.box => keeps
      PROVE  OneOf
    <2>1. Own \in BOOLEAN /\ (Own => r.kind = "done")
        BY DEF Own
    <2> QED  BY <1>2, <1>4, <2>1, LoopIsOneOf
<1>5. CASE CheckDoneOk
    <2>1. /\ cur.name \in {"create", "close", "copy"}
          /\ Loop(Fails("done") \/ Own, r.status, FALSE, FALSE)
        BY <1>5 DEF CheckDoneOk, Checked
    <2>2. Read /\ cur \in Running
        BY <1>1, <2>1 DEF Loop
    <2>3. Gives[cur.name] = {}
        BY <2>1, GivenData
    <2>4. /\ (Fails("done") \/ Own) \in BOOLEAN
          /\ Fails("done") \/ Own => r.kind = "done" /\ (r.status = "ok" => Own)
        BY DEF Fails, Own
    <2>5. r.kind = "done" => r.status \in Outcomes
        BY <1>2, <1>3, <2>2 DEF Proper, Statuses
    <2> QED  BY <2>1, <2>2, <2>3, <2>4, <2>5, LoopIsOneOf
<1>6. CASE ParseNames \/ ParseFetches \/ ParseExpunge \/ ParseCapabilities \/ ParseNoop
           \/ ParseIds \/ ParseId
    <2>1. /\ cur.name # "none" /\ cur.name # "append"
          /\ Filtered(Data(Gives[cur.name])) \/ (Filtered(FALSE) /\ Gives[cur.name] = {})
        BY <1>6, GivenData DEF ParseNames, ParseFetches, ParseExpunge, ParseCapabilities,
                               ParseNoop, ParseIds, ParseId
    <2>2. Read /\ cur \in Running
        BY <1>1, <2>1 DEF Filtered, Loop
    <2>3. CASE Filtered(FALSE) /\ Gives[cur.name] = {}
        BY <1>4, <2>1, <2>2, <2>3 DEF Filtered
    <2>4. CASE Filtered(Data(Gives[cur.name]))
        <3> DEFINE keeps == Data(Gives[cur.name])
        <3>1. keeps \in BOOLEAN /\ (keeps <=> r.kind = "data" /\ r.class \in Gives[cur.name])
            BY DEF Data
        <3>2. Loop(Own, "ok", keeps, FALSE)
            BY <2>4 DEF Filtered
        <3> HIDE DEF keeps
        <3> QED  BY <1>4, <2>1, <2>2, <3>1, <3>2
    <2> QED  BY <2>1, <2>3, <2>4
<1>7. CASE ParseMetadata
    <2> DEFINE keeps == Data({"metadata"}) /\ r.box = cur.box
    <2>1. /\ cur.name = "get_metadata" /\ Gives[cur.name] = {"metadata"}
          /\ Loop(Own, "ok", keeps, FALSE)
        BY <1>7, GivenData DEF ParseMetadata, Filtered
    <2>2. Read /\ cur \in Running
        BY <1>1, <2>1 DEF Loop
    <2>3. /\ keeps \in BOOLEAN
          /\ keeps => r.kind = "data" /\ r.class \in {"metadata"}
          /\ r.kind = "data" /\ r.class \in {"metadata"} /\ r.box = cur.box => keeps
        BY DEF Data
    <2> HIDE DEF keeps
    <2> QED  BY <1>4, <2>1, <2>2, <2>3
<1>8. CASE ParseGetQuota
    <2> DEFINE keeps == Data({"quota"})
    <2>1. /\ cur.name = "get_quota" /\ Gives[cur.name] = {"quota"}
          /\ Loop(Own, QuotaOutcome, keeps, FALSE)
        BY <1>8, GivenData DEF ParseGetQuota
    <2>2. Read /\ cur \in Running
        BY <1>1, <2>1 DEF Loop
    <2>3. /\ keeps \in BOOLEAN
          /\ keeps => r.kind = "data" /\ r.class \in {"quota"}
          /\ r.kind = "data" /\ r.class \in {"quota"} /\ r.box = cur.box => keeps
        BY DEF Data
    <2> HIDE DEF keeps
    <2>4. QuotaOutcome \in {"ok", "absent"}
        BY DEF QuotaOutcome
    <2> QED  BY <1>4, <2>1, <2>2, <2>3, <2>4
<1>9. CASE ParseGetQuotaRoot
    <2> DEFINE keeps == Data({"quotaroot", "quota"})
    <2>1. /\ cur.name = "get_quota_root" /\ Gives[cur.name] = {"quotaroot", "quota"}
          /\ Loop(Own, "ok", keeps, FALSE)
        BY <1>9, GivenData DEF ParseGetQuotaRoot, Filtered
    <2>2. Read /\ cur \in Running
        BY <1>1, <2>1 DEF Loop
    <2>3. /\ keeps \in BOOLEAN
          /\ keeps => r.kind = "data" /\ r.class \in {"quotaroot", "quota"}
          /\ r.kind = "data" /\ r.class \in {"quotaroot", "quota"} /\ r.box = cur.box => keeps
        BY DEF Data
    <2> HIDE DEF keeps
    <2> QED  BY <1>4, <2>1, <2>2, <2>3
<1>10. CASE ParseStatus
    <2> DEFINE keeps == Data({"status"}) /\ r.box = cur.box
    <2>1. /\ cur.name = "status" /\ Gives[cur.name] = {"status"}
          /\ Loop(Own, r.status, keeps, FALSE)
        BY <1>10, GivenData DEF ParseStatus
    <2>2. Read /\ cur \in Running
        BY <1>1, <2>1 DEF Loop
    <2>3. /\ keeps \in BOOLEAN
          /\ keeps => r.kind = "data" /\ r.class \in {"status"}
          /\ r.kind = "data" /\ r.class \in {"status"} /\ r.box = cur.box => keeps
        BY DEF Data
    <2> HIDE DEF keeps
    <2>4. Own \in BOOLEAN /\ (Own => r.kind = "done" /\ r.status \in Outcomes)
        BY <1>2, <1>3, <2>2 DEF Own, Proper, Statuses
    <2> QED  BY <2>1, <2>2, <2>3, <2>4, LoopIsOneOf
<1>11. CASE ParseMailbox
    <2> DEFINE keeps == Data({"exists", "flags"})
               skips == SkippedBySelect \/ r.kind = "status"
               ends == Own \/ Fails("status")
    <2>1. /\ cur.name = "select" /\ Gives[cur.name] = {"exists"}
          /\ Loop(ends, r.status, keeps, skips)
        BY <1>11, GivenData DEF ParseMailbox
    <2>2. Read /\ cur \in Running
        BY <1>1, <2>1 DEF Loop
    <2>3. /\ keeps \in BOOLEAN
          /\ keeps => r.kind = "data" /\ r.class \in {"exists", "flags"}
          /\ r.kind = "data" /\ r.class \in {"exists"} => keeps
        BY DEF Data
    <2>4. skips \in BOOLEAN /\ (skips => SelectSkips)
        BY <2>1 DEF SkippedBySelect, Data, SelectSkips
    <2>5. /\ ends \in BOOLEAN /\ (Own => ends)
          /\ ends => r.kind \in {"done", "status"} /\ (r.status = "ok" => Own)
        BY DEF Fails, Own
    <2>6. r.kind \in {"done", "status"} => r.status \in Outcomes
        BY <1>2, <1>3, <2>2 DEF Proper, Statuses
    <2> HIDE DEF keeps, skips, ends
    <2> QED  BY <2>1, <2>2, <2>3, <2>4, <2>5, <2>6, LoopIsOneOf
<1>12. CASE ReadAppend
    <2>1. Read /\ cur \in Running
        BY <1>1, <1>12 DEF ReadAppend
    <2>2. CASE \E outcome \in {"ok", "append", "io"} : End(outcome)
        BY <1>2, <1>12, <2>1, <2>2 DEF ReadAppend, EndsBy
    <2>3. CASE SendsLiteral
        BY <2>1, <2>3
    <2>4. (\E outcome \in {"ok", "append", "io"} : End(outcome)) \/ SendsLiteral
        BY <1>12 DEF ReadAppend, SendsLiteral
    <2> QED  BY <2>2, <2>3, <2>4
<1> QED  BY <1>5, <1>6, <1>7, <1>8, <1>9, <1>10, <1>11, <1>12 DEF ReadStep

-----------------------------------------------------------------------------
(* Every step keeps the types.                                               *)

\* What the result is made of once r is in it.
LEMMA WithProperties ==
    ASSUME NEW items \in Seq(Responses), r \in Responses
    PROVE  /\ With(items) \in Seq(Responses)
           /\ r \in Range(With(items))
           /\ \A i \in DOMAIN With(items) :
                  \/ With(items)[i] = r
                  \/ i \in DOMAIN items /\ With(items)[i] = items[i]
           /\ \A i \in DOMAIN items :
                  /\ i \in DOMAIN With(items)
                  /\ \/ With(items)[i] = items[i]
                     \/ Overwrites(items) /\ items[i].class = r.class
<1> DEFINE kept == [i \in DOMAIN items |-> IF items[i].class = r.class THEN r ELSE items[i]]
<1>1. DOMAIN items = 1 .. Len(items) /\ Len(items) \in Nat
      /\ \A i \in DOMAIN items : items[i] \in Responses
    BY LenProperties, ElementOfSeq
<1>2. CASE Overwrites(items)
    <2>1. With(items) = kept
        BY <1>2 DEF With
    <2>2. /\ DOMAIN kept = DOMAIN items
          /\ \A i \in DOMAIN items : kept[i] = IF items[i].class = r.class THEN r ELSE items[i]
        OBVIOUS
    <2>3. PICK i \in DOMAIN items : items[i].class = r.class
        BY <1>2 DEF Overwrites
    <2>4. kept \in [1 .. Len(items) -> Responses]
        BY <1>1
    <2> HIDE DEF kept
    <2>5. kept \in Seq(Responses)
        BY <1>1, <2>4, SeqDef
    <2>6. kept[i] = r /\ i \in DOMAIN kept
        BY <2>2, <2>3
    <2>7. r \in Range(kept)
        BY <2>6 DEF Range
    <2> QED  BY <1>2, <2>1, <2>2, <2>5, <2>7
<1>3. CASE ~Overwrites(items)
    <2> DEFINE queue == Append(items, r)
    <2>1. With(items) = queue
        BY <1>3 DEF With
    <2>2. /\ queue \in Seq(Responses)
          /\ \A i \in DOMAIN items : i \in DOMAIN queue /\ queue[i] = items[i]
          /\ \A i \in DOMAIN queue : (i \in DOMAIN items /\ queue[i] = items[i]) \/ queue[i] = r
          /\ Len(items) + 1 \in DOMAIN queue /\ queue[Len(items) + 1] = r
        BY QueueAppend
    <2> HIDE DEF queue
    <2>3. r \in Range(queue)
        BY <2>2 DEF Range
    <2> QED  BY <2>1, <2>2, <2>3
<1> QED  BY <1>2, <1>3

\* A command that returns adds a record of its kind.
LEMMA ReturnIsTyped ==
    ASSUME Typed, cur \in Running,
           NEW outcome \in Outcomes, NEW answer \in 0 .. MaxRequests, Return(outcome, answer)
    PROVE  cur' = Idle /\ results' \in Seq(Records)
<1>1. Result(outcome, answer) \in Records
    BY EmptySeq DEF Result, Records, Running
<1>2. results \in Seq(Records)
    BY Types
<1> QED  BY <1>1, <1>2, QueueAppend DEF Return

LEMMA ReadStepIsTyped == Typed /\ ReadStep => Typed'
<1> SUFFICES ASSUME Typed, ReadStep PROVE Typed'
    OBVIOUS
<1>1. CASE ReadEof
    <2>1. /\ cur # Idle
          /\ Return(IF conn = "cut" THEN "io" ELSE AtEof, 0)
          /\ UNCHANGED <<next, unsolicited, toServer, toClient, glitches, serving, emitted,
                         verdict, refusal, notes, conn>>
        BY <1>1 DEF ReadEof, serverVars
    <2>2. AtEof \in {"ok", "lost", "append", "absent"}
        BY DEF AtEof, QuotaOutcome
    <2>3. (IF conn = "cut" THEN "io" ELSE AtEof) \in Outcomes
        BY <2>2 DEF Outcomes, Statuses
    <2>4. 0 \in 0 .. MaxRequests
        BY SessionAssumption
    <2>5. cur' = Idle /\ results' \in Seq(Records)
        BY <2>1, <2>3, <2>4, Types, ReturnIsTyped
    <2> QED  BY <2>1, <2>5 DEF Typed, TypeOK, Records
<1>2. CASE ~ReadEof
    <2>1. /\ Read /\ cur \in Running
          /\ (\E outcome \in Outcomes : EndsBy(outcome)) \/ Puts \/ Passes \/ SendsLiteral
        BY <1>2, ReadIsOneOf
    <2>2. /\ toClient' \in Seq(Responses) /\ r \in Responses
          /\ \A i \in DOMAIN toClient' :
                 i + 1 \in DOMAIN toClient /\ toClient'[i] = toClient[i + 1]
          /\ UNCHANGED <<next, glitches, serving, emitted, verdict, refusal, notes, conn>>
        BY <2>1, ResponseRead
    <2>3. \A i \in DOMAIN toClient' : Proper(toClient'[i])
        BY <2>2 DEF Typed
    <2>4. /\ results \in Seq(Records) /\ unsolicited \in Seq(Responses)
          /\ toServer \in Seq(Lines) /\ Len(unsolicited) \in Nat
          /\ Len(unsolicited) <= ChannelCap /\ ChannelCap \in Nat
        BY Types
    <2>5. ASSUME /\ cur' = Idle \/ cur' \in Running
                 /\ results' \in Seq(Records) /\ toServer' \in Seq(Lines)
                 /\ unsolicited' \in Seq(Responses) /\ Len(unsolicited') <= ChannelCap
          PROVE  Typed'
        <3>1. Typed' <=> TypeOK' /\ (serving = Nothing \/ serving \in Servings)
            BY <2>2, <2>3 DEF Typed, Proper
        <3>2. TypeOK'
            BY <2>2, <2>5 DEF Typed, TypeOK, Running, Records, Lines
        <3> QED  BY <3>1, <3>2 DEF Typed
    <2>6. ASSUME NEW outcome \in Outcomes, EndsBy(outcome) PROVE Typed'
        <3>1. (IF r.kind = "done" THEN r.req ELSE 0) \in 0 .. MaxRequests
            BY <2>2, SessionAssumption DEF Responses
        <3>2. /\ Return(outcome, IF r.kind = "done" THEN r.req ELSE 0)
              /\ UNCHANGED <<unsolicited, toServer>>
            BY <2>6 DEF EndsBy, End
        <3>3. cur' = Idle /\ results' \in Seq(Records)
            BY <2>1, <3>1, <3>2, ReturnIsTyped
        <3> QED  BY <2>4, <2>5, <3>2, <3>3
    <2>7. CASE Puts
        <3>1. /\ cur' = [cur EXCEPT !.items = With(@)]
              /\ UNCHANGED <<results, unsolicited, toServer>>
            BY <2>7 DEF Puts, Keep
        <3>2. cur.items \in Seq(Responses)
            BY <2>1 DEF Running
        <3>3. With(cur.items) \in Seq(Responses)
            BY <2>2, <3>2, WithProperties
        <3>4. cur' \in Running
            BY <2>1, <3>1, <3>3 DEF Running
        <3> QED  BY <2>4, <2>5, <3>1, <3>4
    <2>8. CASE Passes
        <3>1. /\ UNCHANGED <<cur, results, toServer>>
              /\ \/ unsolicited' = Append(unsolicited, r) /\ Len(unsolicited) < ChannelCap
                 \/ unsolicited' = unsolicited
            BY <2>8 DEF Passes
        <3>2. /\ Append(unsolicited, r) \in Seq(Responses)
              /\ Len(Append(unsolicited, r)) = Len(unsolicited) + 1
            BY <2>2, <2>4, QueueAppend
        <3>3. Len(unsolicited) < ChannelCap => Len(Append(unsolicited, r)) <= ChannelCap
            BY <2>4, <3>2
        <3> QED  BY <2>1, <2>4, <2>5, <3>1, <3>2, <3>3
    <2>9. CASE SendsLiteral
        <3>1. /\ cur.name = "append"
              /\ cur' = [cur EXCEPT !.phase = "sent"]
              /\ toServer' = Append(toServer, [Line("append", "none", cur.req) EXCEPT !.part = "literal"])
              /\ UNCHANGED <<results, unsolicited>>
            BY <2>9 DEF SendsLiteral
        <3>2. cur' \in Running
            BY <2>1, <3>1 DEF Running
        <3>3. [Line("append", "none", cur.req) EXCEPT !.part = "literal"] \in Lines
            BY <2>1, <3>1 DEF Running, Line, Lines, Boxes
        <3>4. toServer' \in Seq(Lines)
            BY <2>4, <3>1, <3>3, QueueAppend
        <3> QED  BY <2>4, <2>5, <3>1, <3>2, <3>4
    <2> QED  BY <2>1, <2>6, <2>7, <2>8, <2>9
<1> QED  BY <1>1, <1>2

\* The caller's steps.
LEMMA CallerIsTyped == Typed /\ (ReadError \/ Caller) => Typed'
<1> SUFFICES ASSUME Typed, ReadError \/ Caller PROVE Typed'
    OBVIOUS
<1>1. /\ next \in Nat /\ next <= MaxRequests /\ MaxRequests \in Nat
      /\ cur = Idle \/ cur \in Running
      /\ results \in Seq(Records) /\ toServer \in Seq(Lines)
      /\ unsolicited \in Seq(Responses) /\ Len(unsolicited) <= ChannelCap
      /\ ChannelCap \in Nat
    BY Types
<1>2. 0 \in 0 .. MaxRequests /\ {"io", "cancelled"} \subseteq Outcomes
    BY <1>1 DEF Outcomes
<1>3. ASSUME /\ next' \in 0 .. MaxRequests /\ glitches' \in 0 .. MaxGlitches
             /\ cur' = Idle \/ cur' \in Running
             /\ results' \in Seq(Records) /\ toServer' \in Seq(Lines)
             /\ unsolicited' \in Seq(Responses) /\ Len(unsolicited') <= ChannelCap
             /\ UNCHANGED <<toClient, serving, emitted, verdict, refusal, notes, conn>>
      PROVE  Typed'
    <2>1. TypeOK'
        BY <1>3 DEF Typed, TypeOK, Running, Records, Lines
    <2> QED  BY <1>3, <2>1 DEF Typed, Proper
<1>4. next \in 0 .. MaxRequests /\ glitches \in 0 .. MaxGlitches
    BY DEF Typed, TypeOK
<1>5. CASE ReadError
    <2>1. /\ cur # Idle /\ glitches < MaxGlitches /\ glitches' = glitches + 1
          /\ Return("io", 0) \/ UNCHANGED <<cur, results>>
          /\ UNCHANGED <<next, unsolicited, toServer, toClient, serving, emitted, verdict,
                         refusal, notes, conn>>
        BY <1>5 DEF ReadError, serverVars
    <2>2. glitches' \in 0 .. MaxGlitches
        BY <1>4, <2>1, SessionAssumption
    <2>3. (cur' = Idle \/ cur' \in Running) /\ results' \in Seq(Records)
        BY <1>1, <1>2, <2>1, ReturnIsTyped
    <2> QED  BY <1>1, <1>3, <1>4, <2>1, <2>2, <2>3
<1>6. CASE Cancel
    <2>1. /\ cur # Idle /\ Return("cancelled", 0)
          /\ UNCHANGED <<next, unsolicited, toServer, toClient, glitches, serving, emitted,
                         verdict, refusal, notes, conn>>
        BY <1>6 DEF Cancel, serverVars
    <2>2. cur' = Idle /\ results' \in Seq(Records)
        BY <1>1, <1>2, <2>1, ReturnIsTyped
    <2> QED  BY <1>1, <1>3, <1>4, <2>1, <2>2
<1>7. CASE Drain
    <2>1. /\ unsolicited # << >> /\ unsolicited' = Tail(unsolicited)
          /\ UNCHANGED <<next, cur, results, toServer, toClient, glitches, serving, emitted,
                         verdict, refusal, notes, conn>>
        BY <1>7 DEF Drain, serverVars
    <2>2. /\ unsolicited' \in Seq(Responses) /\ Len(unsolicited) \in Nat \ {0}
          /\ Len(unsolicited') = Len(unsolicited) - 1
        BY <1>1, <2>1, QueueTail
    <2>3. Len(unsolicited') <= ChannelCap
        BY <1>1, <2>2
    <2> QED  BY <1>1, <1>3, <1>4, <2>1, <2>2, <2>3
<1>8. ASSUME NEW name \in Commands, NEW box \in Boxes, Issue(name, box) PROVE Typed'
    <2>1. /\ next < MaxRequests /\ next' = next + 1
          /\ cur' = [name |-> name, box |-> box, req |-> next + 1, phase |-> "wait", items |-> << >>]
          /\ toServer' = Append(toServer, Line(name, box, next + 1))
          /\ UNCHANGED <<results, unsolicited, toClient, glitches, serving, emitted, verdict,
                         refusal, notes, conn>>
        BY <1>8 DEF Issue, serverVars
    <2>2. next + 1 \in Requests /\ next + 1 \in 0 .. MaxRequests
        BY <1>1, <2>1 DEF Requests
    <2>3. << >> \in Seq(Responses)
        BY EmptySeq
    <2>4. cur' \in Running
        BY <2>1, <2>2, <2>3 DEF Running
    <2>5. Line(name, box, next + 1) \in Lines
        BY <2>2 DEF Line, Lines
    <2>6. toServer' \in Seq(Lines)
        BY <1>1, <2>1, <2>5, QueueAppend
    <2> QED  BY <1>1, <1>3, <1>4, <2>1, <2>2, <2>4, <2>6
<1>9. ASSUME NEW name \in Commands, IssueFails(name) PROVE Typed'
    <2> DEFINE failure == [name |-> name, outcome |-> "io", answer |-> 0, items |-> << >>]
    <2>1. /\ next < MaxRequests /\ next' = next + 1
          /\ results' = Append(results, failure)
          /\ UNCHANGED <<cur, unsolicited, toServer, toClient, glitches, serving, emitted,
                         verdict, refusal, notes, conn>>
        BY <1>9 DEF IssueFails, serverVars
    <2>2. next + 1 \in 0 .. MaxRequests
        BY <1>1, <2>1
    <2>3. << >> \in Seq(Responses)
        BY EmptySeq
    <2>4. failure \in Records
        BY <1>2, <2>3 DEF Records
    <2> HIDE DEF failure
    <2>5. results' \in Seq(Records)
        BY <1>1, <2>1, <2>4, QueueAppend
    <2> QED  BY <1>1, <1>3, <1>4, <2>1, <2>2, <2>5
<1>10. ASSUME NEW name, Call(name) PROVE Typed'
    <2>1. name \in Commands
        BY <1>10 DEF Call
    <2>2. CASE IssueFails(name)
        BY <1>9, <2>1, <2>2
    <2>3. CASE \E box \in IF name \in {"status", "get_metadata"} THEN Mailboxes ELSE {"none"} :
                  Issue(name, box)
        <3>1. PICK box \in Boxes : Issue(name, box)
            BY <2>3 DEF Boxes
        <3> QED  BY <1>8, <2>1, <3>1
    <2> QED  BY <1>10, <2>2, <2>3 DEF Call
<1>11. CASE CallCommand
    BY <1>10, <1>11 DEF CallCommand, CallCreate, CallClose, CallCopy, CallNoop, CallList,
           CallFetch, CallStore, CallExpunge, CallCapabilities, CallSearch, CallGetMetadata,
           CallGetQuota, CallGetQuotaRoot, CallId, CallStatus, CallSelect, CallAppend
<1> QED  BY <1>5, <1>6, <1>7, <1>11 DEF Caller

\* What the wire holds when the server has said something.
LEMMA ResponseSaid ==
    ASSUME Typed, NEW e \in Responses, Say(e)
    PROVE  /\ toClient' \in Seq(Responses)
           /\ Len(toClient) \in Nat /\ DOMAIN toClient = 1 .. Len(toClient)
           /\ DOMAIN toClient' = 1 .. Len(toClient) + 1
           /\ \A i \in DOMAIN toClient : i \in DOMAIN toClient' /\ toClient'[i] = toClient[i]
           /\ \A i \in DOMAIN toClient' :
                  \/ i \in DOMAIN toClient /\ toClient'[i] = toClient[i]
                  \/ i = Len(toClient) + 1 /\ toClient'[i] = e
           /\ toClient'[Len(toClient) + 1] = e
<1> DEFINE queue == Append(toClient, e)
<1>1. toClient \in Seq(Responses)
    BY Types
<1>2. /\ queue \in Seq(Responses) /\ Len(queue) = Len(toClient) + 1
      /\ \A i \in DOMAIN toClient : i \in DOMAIN queue /\ queue[i] = toClient[i]
      /\ \A i \in DOMAIN queue :
             \/ i \in DOMAIN toClient /\ queue[i] = toClient[i]
             \/ i = Len(toClient) + 1 /\ queue[i] = e
      /\ queue[Len(toClient) + 1] = e
    BY <1>1, QueueAppend
<1>3. toClient' = queue
    BY DEF Say
<1> HIDE DEF queue
<1>4. /\ Len(toClient) \in Nat /\ DOMAIN toClient = 1 .. Len(toClient)
      /\ DOMAIN queue = 1 .. Len(queue)
    BY <1>1, <1>2, LenProperties
<1> QED  BY <1>2, <1>3, <1>4

\* The responses the server makes are proper.
LEMMA ResponsesAreProper ==
    ASSUME Typed
    PROVE  /\ serving.step \in {"start", "literal", "run"} => serving \in Servings
           /\ serving \in Servings => \A status \in Statuses :
                  LET e == Response("done", "none", "none", status, serving.req, 0)
                  IN  e \in Responses /\ Proper(e)
           /\ serving \in Servings =>
                  LET e == Response("cont", "none", "none", "none", serving.req, 0)
                  IN  e \in Responses /\ Proper(e)
           /\ serving \in Servings => \A class \in Gives[serving.name], n \in Nat :
                  LET e == Response("data", class, serving.box, "none", serving.req, n)
                  IN  e \in Responses /\ Proper(e)
           /\ \A class \in NoteClasses, n \in Nat :
                  LET e == Response("data", class, "none", "none", 0, n)
                  IN  e \in Responses /\ Proper(e)
           /\ \A status \in Statuses, n \in Nat :
                  LET e == Response("status", "none", "none", status, 0, n)
                  IN  e \in Responses /\ Proper(e)
<1>1. serving.step \in {"start", "literal", "run"} => serving \in Servings
    BY DEF Typed, Nothing
<1>2. MaxRequests \in Nat /\ 0 \in Nat /\ 0 \in 0 .. MaxRequests /\ 0 \notin Requests
    BY SessionAssumption DEF Requests
<1>3. "none" \in Boxes
    BY DEF Boxes
<1>4. ASSUME serving \in Servings
      PROVE  /\ serving.req \in Requests /\ serving.req \in 0 .. MaxRequests /\ serving.req # 0
             /\ serving.box \in Boxes /\ Gives[serving.name] \subseteq Classes
    <2>1. serving.req \in Requests /\ serving.box \in Boxes /\ serving.name \in Commands
        BY <1>4 DEF Servings
    <2>2. Gives[serving.name] \subseteq Classes
        BY <2>1 DEF Classes
    <2> QED  BY <1>2, <2>1, <2>2 DEF Requests
<1>5. NoteClasses \subseteq Classes
    BY DEF Classes
<1> QED  BY <1>1, <1>2, <1>3, <1>4, <1>5 DEF Response, Responses, Proper

LEMMA ServerIsTyped == Typed /\ Server => Typed'
<1> SUFFICES ASSUME Typed, Server PROVE Typed'
    OBVIOUS
<1>1. toServer \in Seq(Lines) /\ toClient \in Seq(Responses)
    BY Types
<1>2. ASSUME /\ serving' = Nothing \/ serving' \in Servings
             /\ toServer' \in Seq(Lines)
             /\ \/ toClient' = toClient
                \/ \E e \in Responses : Say(e) /\ Proper(e)
             /\ emitted' \in [Requests -> 0 .. MaxData]
             /\ verdict' \in [Requests -> Statuses \cup {"none"}]
             /\ refusal' \in BOOLEAN /\ notes' \in 0 .. MaxNotes
             /\ conn' \in {"up", "closed", "cut"}
             /\ UNCHANGED <<next, cur, results, unsolicited, glitches>>
      PROVE  Typed'
    <2>1. toClient' \in Seq(Responses) /\ \A i \in DOMAIN toClient' : Proper(toClient'[i])
        <3>1. CASE toClient' = toClient
            BY <1>1, <3>1 DEF Typed
        <3>2. ASSUME NEW e \in Responses, Say(e), Proper(e)
              PROVE  toClient' \in Seq(Responses) /\ \A i \in DOMAIN toClient' : Proper(toClient'[i])
            BY <3>2, ResponseSaid DEF Typed
        <3> QED  BY <1>2, <3>1, <3>2
    <2>2. serving'.req \in 0 .. MaxRequests
        <3>1. 0 \in 0 .. MaxRequests /\ Requests \subseteq 0 .. MaxRequests
            BY SessionAssumption DEF Requests
        <3>2. serving' \in Servings => serving'.req \in Requests
            BY DEF Servings
        <3>3. serving' = Nothing => serving'.req = 0
            BY DEF Nothing
        <3> QED  BY <1>2, <3>1, <3>2, <3>3
    <2>3. TypeOK'
        BY <1>2, <2>1, <2>2 DEF Typed, TypeOK, Lines
    <2> QED  BY <1>2, <2>1, <2>3 DEF Typed, Proper
<1>3. /\ serving = Nothing \/ serving \in Servings
      /\ emitted \in [Requests -> 0 .. MaxData]
      /\ verdict \in [Requests -> Statuses \cup {"none"}]
      /\ refusal \in BOOLEAN /\ notes \in 0 .. MaxNotes /\ conn \in {"up", "closed", "cut"}
    BY DEF Typed, TypeOK
<1>4. MaxNotes \in Nat /\ MaxData \in Nat
    BY SessionAssumption
<1>5. CASE ServerReceives
    <2>1. /\ toServer # << >> /\ toServer' = Tail(toServer)
          /\ UNCHANGED <<next, cur, results, unsolicited, emitted, verdict, notes, glitches, conn>>
        BY <1>5 DEF ServerReceives, clientVars
    <2>2. toServer' \in Seq(Lines) /\ Head(toServer) \in Lines
        BY <1>1, <2>1, QueueTail
    <2>3. CASE /\ serving.step = "literal" /\ serving' = [serving EXCEPT !.step = "run"]
               /\ UNCHANGED <<toClient, refusal>>
        <3>1. serving' \in Servings
            BY <2>3, ResponsesAreProper DEF Servings
        <3> QED  BY <1>2, <1>3, <2>1, <2>2, <2>3, <3>1
    <2>4. CASE /\ UNCHANGED <<toClient, refusal>>
               /\ serving' = [name |-> Head(toServer).name, box |-> Head(toServer).box,
                              req |-> Head(toServer).req,
                              step |-> IF Head(toServer).name = "append" THEN "start" ELSE "run"]
        <3>1. serving' \in Servings
            BY <2>2, <2>4 DEF Lines, Servings
        <3> QED  BY <1>2, <1>3, <2>1, <2>2, <2>4, <3>1
    <2>5. CASE /\ Say(Response("status", "none", "none", "no", 0, 0))
               /\ refusal' = TRUE /\ UNCHANGED serving
        <3>1. /\ Response("status", "none", "none", "no", 0, 0) \in Responses
              /\ Proper(Response("status", "none", "none", "no", 0, 0))
            BY ResponsesAreProper DEF Statuses
        <3> QED  BY <1>2, <1>3, <2>1, <2>2, <2>5, <3>1
    <2> QED  BY <1>5, <2>3, <2>4, <2>5 DEF ServerReceives
<1>6. CASE ServerAsks
    <2>1. /\ serving.step = "start" /\ serving' = [serving EXCEPT !.step = "literal"]
          /\ Say(Response("cont", "none", "none", "none", serving.req, 0))
          /\ UNCHANGED <<next, cur, results, unsolicited, toServer, emitted, verdict, refusal,
                         notes, glitches, conn>>
        BY <1>6 DEF ServerAsks, clientVars
    <2>2. /\ serving' \in Servings
          /\ Response("cont", "none", "none", "none", serving.req, 0) \in Responses
          /\ Proper(Response("cont", "none", "none", "none", serving.req, 0))
        BY <2>1, ResponsesAreProper DEF Servings
    <2> QED  BY <1>1, <1>2, <1>3, <2>1, <2>2
<1>7. CASE ServerData
    <2>1. /\ serving.step = "run" /\ emitted[serving.req] < MaxData
          /\ emitted' = [emitted EXCEPT ![serving.req] = @ + 1]
          /\ UNCHANGED <<next, cur, results, unsolicited, toServer, serving, verdict, refusal,
                         notes, glitches, conn>>
        BY <1>7 DEF ServerData, clientVars
    <2>2. serving \in Servings /\ serving.req \in Requests
        BY <2>1, ResponsesAreProper DEF Servings
    <2>3. emitted[serving.req] \in 0 .. MaxData
        BY <1>3, <2>2
    <2>4. emitted[serving.req] + 1 \in 0 .. MaxData
        BY <1>4, <2>1, <2>3
    <2>5. emitted' \in [Requests -> 0 .. MaxData] /\ emitted'[serving.req] \in Nat
        BY <1>3, <1>4, <2>1, <2>2, <2>4
    <2>6. PICK class \in Gives[serving.name] :
              Say(Response("data", class, serving.box, "none", serving.req, emitted'[serving.req]))
        BY <1>7 DEF ServerData
    <2>7. \E e \in Responses : Say(e) /\ Proper(e)
        BY <2>2, <2>5, <2>6, ResponsesAreProper
    <2> QED  BY <1>1, <1>2, <1>3, <2>1, <2>5, <2>7
<1>8. ASSUME NEW status \in Statuses, ServerDone(status) PROVE Typed'
    <2>1. /\ serving.step \in {"start", "run"} /\ serving' = Nothing
          /\ verdict' = [verdict EXCEPT ![serving.req] = status]
          /\ Say(Response("done", "none", "none", status, serving.req, 0))
          /\ UNCHANGED <<next, cur, results, unsolicited, toServer, emitted, refusal,
                         notes, glitches, conn>>
        BY <1>8 DEF ServerDone, clientVars
    <2>2. verdict' \in [Requests -> Statuses \cup {"none"}]
        BY <1>3, <2>1
    <2>3. \E e \in Responses : Say(e) /\ Proper(e)
        BY <2>1, ResponsesAreProper
    <2> QED  BY <1>1, <1>2, <1>3, <2>1, <2>2, <2>3
<1>9. ASSUME NEW kind, NEW class, NEW status, ServerNote(kind, class, status),
             \A n \in Nat : /\ Response(kind, class, "none", status, 0, n) \in Responses
                            /\ Proper(Response(kind, class, "none", status, 0, n))
      PROVE  Typed'
    <2>1. /\ notes < MaxNotes /\ notes' = notes + 1
          /\ refusal' = (refusal \/ status = "no")
          /\ Say(Response(kind, class, "none", status, 0, notes + 1))
          /\ UNCHANGED <<next, cur, results, unsolicited, toServer, serving, emitted, verdict,
                         glitches, conn>>
        BY <1>9 DEF ServerNote, clientVars
    <2>2. notes' \in 0 .. MaxNotes /\ notes + 1 \in Nat
        BY <1>3, <1>4, <2>1
    <2>3. \E e \in Responses : Say(e) /\ Proper(e)
        BY <1>9, <2>1, <2>2
    <2>4. refusal' \in BOOLEAN
        BY <1>3, <2>1
    <2> QED  BY <1>1, <1>2, <1>3, <2>1, <2>2, <2>3, <2>4
<1>10. CASE \E class \in NoteClasses : ServerNote("data", class, "none")
    BY <1>9, <1>10, ResponsesAreProper
<1>11. CASE \E status \in Statuses : ServerNote("status", "none", status)
    BY <1>9, <1>11, ResponsesAreProper
<1>12. ASSUME NEW how \in {"closed", "cut"}, ServerCloses(how) PROVE Typed'
    BY <1>1, <1>2, <1>3, <1>12 DEF ServerCloses, clientVars
<1> QED  BY <1>5, <1>6, <1>7, <1>8, <1>10, <1>11, <1>12 DEF Server, ServerWork

LEMMA TypedNext == Typed /\ [Next]_vars => Typed'
<1> SUFFICES ASSUME Typed, [Next]_vars PROVE Typed'
    OBVIOUS
<1>1. CASE UNCHANGED vars
    BY <1>1 DEF vars, Typed, TypeOK, Proper
<1> QED  BY <1>1, ReadStepIsTyped, CallerIsTyped, ServerIsTyped DEF Next

\* Every variable of the Session, of the wire and of the server always holds a
\* value of its kind, and the channel keeps its capacity, whatever the loops do.
THEOREM TypeCorrect == Spec => []TypeOK
<1>1. Typed => TypeOK
    BY DEF Typed
<1> QED  BY <1>1, TypedInit, TypedNext, PTL DEF Spec

-----------------------------------------------------------------------------
(* An update is lost to a full channel only.                                 *)

\* What is appended to a queue is in it.
LEMMA AppendedIsInRange ==
    ASSUME NEW S, NEW q \in Seq(S), NEW e \in S
    PROVE  e \in Range(Append(q, e)) /\ Last(Append(q, e)) = e
<1> DEFINE queue == Append(q, e)
<1>1. Len(q) + 1 \in DOMAIN queue /\ queue[Len(q) + 1] = e /\ Len(queue) = Len(q) + 1
    BY QueueAppend
<1> HIDE DEF queue
<1>2. e \in Range(queue) /\ Last(queue) = e
    BY <1>1 DEF Range, Last
<1> QED  BY <1>2 DEF queue

\* Only the loops take something off the wire.
LEMMA OnlyReadsTake ==
    ASSUME Typed, toClient # << >>, toClient' = Tail(toClient), [Next]_vars
    PROVE  ReadStep /\ ~ReadEof
<1>1. toClient \in Seq(Responses)
    BY Types
<1>2. Len(toClient) \in Nat /\ Len(toClient') = Len(toClient) - 1
    BY <1>1, QueueTail
<1>3. toClient' # toClient
    <2> SUFFICES ASSUME toClient' = toClient PROVE FALSE
        OBVIOUS
    <2>1. Len(toClient') = Len(toClient)
        OBVIOUS
    <2> QED  BY <1>2, <2>1
<1>4. ASSUME NEW e, Say(e) PROVE FALSE
    <2>1. Len(toClient') = Len(toClient) + 1
        BY <1>1, <1>4, AppendProperties DEF Say
    <2> QED  BY <1>2, <2>1
<1>5. ~Server
    BY <1>3, <1>4 DEF Server, ServerWork, ServerReceives, ServerAsks, ServerData, ServerDone,
                      ServerNote, ServerCloses
<1>6. ~ReadError /\ ~ReadEof
    BY <1>3 DEF ReadError, ReadEof
<1>7. ~Caller
    BY <1>3 DEF Caller, Cancel, Drain, CallCommand, CallCreate, CallClose, CallCopy, CallNoop,
           CallList, CallFetch, CallStore, CallExpunge, CallCapabilities, CallSearch,
           CallGetMetadata, CallGetQuota, CallGetQuotaRoot, CallId, CallStatus, CallSelect,
           CallAppend, Call, Issue, IssueFails
<1> QED  BY <1>3, <1>5, <1>6, <1>7 DEF Next, vars

\* An update that is read goes to the channel or into the result.
LEMMA UpdateIsHandedOut ==
    ASSUME Typed, [Next]_vars, ReadsUpdate, ~Dropped
    PROVE  HandedOut \/ Len(unsolicited) >= ChannelCap
<1>1. /\ toClient # << >> /\ toClient' = Tail(toClient)
      /\ r.kind = "data" /\ r.req = 0 /\ cur.name # "append"
      /\ ~(cur.name = "select" /\ r.class = "metadata")
    BY DEF ReadsUpdate, Takes, Dropped
<1>2. /\ Read /\ cur \in Running
      /\ (\E outcome \in Outcomes : EndsBy(outcome)) \/ Puts \/ Passes \/ SendsLiteral
    BY <1>1, OnlyReadsTake, ReadIsOneOf
<1>3. r \in Responses /\ Proper(r)
    BY <1>2, ResponseRead
<1>4. unsolicited \in Seq(Responses) /\ cur.items \in Seq(Responses)
    BY <1>2, Types DEF Running
<1>5. CASE Puts
    <2>1. cur'.items = With(cur.items) /\ cur'.name = cur.name
        BY <1>2, <1>5 DEF Puts, Keep, Running
    <2>2. r \in Range(With(cur.items))
        BY <1>3, <1>4, WithProperties
    <2>3. cur' # Idle
        BY <1>2, <2>1, NameOfIdle DEF Running
    <2> QED  BY <2>1, <2>2, <2>3 DEF HandedOut, InResult
<1>6. CASE Passes
    <2>1. r.class \notin {"list", "metadata", "search"} \/ cur.name # "select"
        BY <1>1, <1>3, SessionAssumption DEF Proper
    <2>2. CASE unsolicited' = Append(unsolicited, r)
        BY <1>3, <1>4, <2>2, AppendedIsInRange DEF HandedOut
    <2> QED  BY <1>1, <1>6, <2>1, <2>2 DEF Passes, SelectSkips
<1> QED  BY <1>1, <1>2, <1>5, <1>6 DEF EndsBy, SendsLiteral

\* What a step can do to the running command.
LEMMA StepOfCommand ==
    ASSUME Typed, [Next]_vars
    PROVE  \/ cur' = cur \/ cur = Idle
           \/ cur \in Running /\ \E outcome, answer : Return(outcome, answer)
           \/ cur \in Running /\ Read /\ Puts
           \/ cur \in Running /\ SendsLiteral
<1>1. cur = Idle \/ cur \in Running
    BY Types
<1>2. CASE ReadStep /\ ~ReadEof
    BY <1>2, ReadIsOneOf DEF EndsBy, End, Passes
<1>3. CASE ReadEof \/ ReadError
    BY <1>1, <1>3 DEF ReadEof, ReadError
<1>4. CASE Caller
    <2>1. ASSUME NEW name, Call(name) PROVE cur = Idle
        BY <2>1 DEF Call, Issue, IssueFails
    <2>2. CASE CallCommand
        BY <2>1, <2>2 DEF CallCommand, CallCreate, CallClose, CallCopy, CallNoop, CallList,
               CallFetch, CallStore, CallExpunge, CallCapabilities, CallSearch, CallGetMetadata,
               CallGetQuota, CallGetQuotaRoot, CallId, CallStatus, CallSelect, CallAppend
    <2> QED  BY <1>1, <1>4, <2>2 DEF Caller, Cancel, Drain
<1>5. CASE Server
    BY <1>5 DEF Server, ServerWork, ServerReceives, ServerAsks, ServerData, ServerDone,
                ServerNote, ServerCloses, clientVars
<1>6. CASE UNCHANGED vars
    BY <1>6 DEF vars
<1> QED  BY <1>2, <1>3, <1>4, <1>5, <1>6 DEF Next

\* An update in the result goes with the result.
LEMMA CollectedIsHandedOut ==
    ASSUME Typed, [Next]_vars, NEW u \in Range(cur.items)
    PROVE  InResult(u) \/ Outdated(u) \/ LostWithTheResult
<1>1. PICK i \in DOMAIN cur.items : cur.items[i] = u
    BY DEF Range
<1>2. cur # Idle
    <2>1. DOMAIN << >> = {}
        OBVIOUS
    <2> QED  BY <1>1, <2>1 DEF Idle
<1>3. cur \in Running /\ cur.items \in Seq(Responses) /\ results \in Seq(Records)
    BY <1>2, Types DEF Running
<1>4. CASE cur' = cur
    BY <1>2, <1>4 DEF InResult
<1>5. ASSUME NEW outcome, NEW answer, Return(outcome, answer)
      PROVE  InResult(u) \/ LostWithTheResult
    <2>1. cur' = Idle /\ results' = Append(results, Result(outcome, answer))
        BY <1>5 DEF Return
    <2>2. Last(results') = Result(outcome, answer)
        <3>1. Len(results') = Len(results) + 1 /\ results'[Len(results) + 1] = Result(outcome, answer)
            BY <1>3, <2>1, AppendProperties, LenProperties
        <3> QED  BY <3>1 DEF Last
    <2>3. CASE outcome = "ok" \/ cur.name \in Lazy
        <3>1. Result(outcome, answer).items = cur.items
            BY <2>3 DEF Result
        <3> QED  BY <2>1, <2>2, <3>1 DEF InResult
    <2>4. CASE ~(outcome = "ok" \/ cur.name \in Lazy)
        <3>1. Result(outcome, answer).outcome = outcome
            BY DEF Result
        <3> QED  BY <2>1, <2>2, <2>4, <3>1 DEF LostWithTheResult
    <2> QED  BY <2>3, <2>4
<1>6. CASE Read /\ Puts
    <2>1. cur'.items = With(cur.items) /\ cur'.name = cur.name
        BY <1>3, <1>6 DEF Puts, Keep, Running
    <2>2. cur' # Idle
        BY <1>3, <2>1, NameOfIdle DEF Running
    <2>3. r \in Responses
        BY <1>6, ResponseRead
    <2>4. /\ r \in Range(With(cur.items))
          /\ i \in DOMAIN With(cur.items)
          /\ \/ With(cur.items)[i] = u
             \/ Overwrites(cur.items) /\ u.class = r.class
        BY <1>1, <1>3, <2>3, WithProperties
    <2>5. CASE With(cur.items)[i] = u
        <3>1. u \in Range(With(cur.items))
            BY <2>4, <2>5 DEF Range
        <3> QED  BY <2>1, <2>2, <3>1 DEF InResult
    <2>6. CASE Overwrites(cur.items) /\ u.class = r.class
        BY <1>6, <2>1, <2>2, <2>4, <2>6 DEF Outdated, Takes, InResult, Overwrites, Read
    <2> QED  BY <2>4, <2>5, <2>6
<1>7. CASE SendsLiteral
    <2>1. cur'.items = cur.items /\ cur'.name = cur.name
        BY <1>3, <1>7 DEF SendsLiteral, Running
    <2>2. cur' # Idle
        BY <1>3, <2>1, NameOfIdle DEF Running
    <2> QED  BY <2>1, <2>2 DEF InResult
<1> QED  BY <1>2, <1>4, <1>5, <1>6, <1>7, StepOfCommand

\* Whatever command is running when the server sends an update unasked, the
\* update reaches the channel, unless that is full, or the result of the
\* command, and with the result the caller, unless a newer value takes its place
\* or the command collects and returns no result; APPEND and, for METADATA,
\* SELECT are the exceptions the property names.
THEOREM UpdatesHandedOut == Spec => UpdatesAreHandedOut
<1>1. Typed /\ [Next]_vars =>
          [/\ ReadsUpdate /\ ~Dropped => HandedOut \/ Len(unsolicited) >= ChannelCap
           /\ \A u \in Range(cur.items) :
                  u.req = 0 => InResult(u) \/ Outdated(u) \/ LostWithTheResult]_vars
    BY UpdateIsHandedOut, CollectedIsHandedOut
<1> QED  BY <1>1, TypedInit, TypedNext, PTL DEF Spec, UpdatesAreHandedOut
=============================================================================
