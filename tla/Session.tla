------------------------------ MODULE Session ------------------------------
(***************************************************************************)
(* A logged-in session: Connection and Session (src/client.rs), the        *)
(* response loops of src/parse.rs, src/extensions/quota.rs and id.rs, the  *)
(* request ids, and the channel of unsolicited responses.                  *)
(*                                                                         *)
(* Every public command writes one line and then reads responses in a loop *)
(* of its own: check_done_ok, one of the parse_ functions, or append's.    *)
(* "create" stands for all the commands of client.rs that only check their *)
(* answer and take no message set ("close" for CHECK and CLOSE, "copy" for *)
(* COPY and MOVE), "list" for LSUB, "select" for EXAMINE, "id" for ID NIL, *)
(* and a command for its UID form.                                         *)
(*                                                                         *)
(* ImapStream is below: a response is read whole and in order.  The server *)
(* and the caller are not in src/; the server answers in order, and may    *)
(* send unilateral responses or close at any point.  A connection that is  *)
(* gone stays gone: ImapStream would read on, but there is no server.      *)
(***************************************************************************)
EXTENDS Integers, SequencesExt

CONSTANTS
    Commands,       \* the commands the caller issues
    Mailboxes,      \* the mailboxes STATUS and GETMETADATA ask about
    TagModulus,     \* ids repeat after this many requests, 10 000 in the code
    ChannelCap,     \* capacity of the unsolicited channel, 100 in the code
    NoteClasses,    \* the data the server sends unasked
    MaxRequests,    \* bound: requests issued
    MaxData,        \* bound: data responses to one request
    MaxNotes,       \* bound: unilateral responses
    MaxGlitches,    \* bound: transient errors of the transport
    Cancels         \* whether the caller may drop a command before it ends

\* The commands whose loop is check_done_ok.
Checked == {"create", "close", "copy"}

\* Their result is a stream the caller reads while the command runs.
Lazy == {"fetch", "store", "expunge", "list"}

\* The data are one field of the result, which a later response replaces.
LastOnly == {"get_quota", "id", "select"}

\* The data a server answers a command with.  "exists" stands for EXISTS,
\* RECENT and an untagged OK whose code has a value for the Mailbox, "flags"
\* (see NoteClasses) for FLAGS and PERMANENTFLAGS, which extend a list of it.
Gives == [create |-> {}, close |-> {}, copy |-> {}, noop |-> {}, append |-> {},
          list |-> {"list"}, fetch |-> {"fetch"}, store |-> {"fetch"},
          expunge |-> {"expunge"}, capabilities |-> {"capability"},
          search |-> {"search"}, get_metadata |-> {"metadata"},
          get_quota |-> {"quota"}, get_quota_root |-> {"quotaroot", "quota"},
          id |-> {"id"}, status |-> {"status"}, select |-> {"exists"}]

ASSUME SessionAssumption ==
    /\ Commands \subseteq DOMAIN Gives
    /\ NoteClasses \subseteq {"exists", "flags", "fetch", "expunge", "status", "metadata"}
    /\ TagModulus \in Nat \ {0}
    /\ ChannelCap \in Nat \ {0}
    /\ MaxRequests \in Nat /\ MaxData \in Nat
    /\ MaxNotes \in Nat /\ MaxGlitches \in Nat
    /\ Cancels \in BOOLEAN

VARIABLES
    next,           \* IdGenerator.next: requests numbered so far
    cur,            \* the command whose responses are being read
    results,        \* what each request returned to the caller
    unsolicited,    \* the content of the unsolicited channel
    toServer,       \* lines on their way to the server
    toClient,       \* responses on their way to the client
    serving,        \* the command the server works on
    emitted,        \* data responses the server sent to each request
    verdict,        \* the status the server answered each request with
    refusal,        \* the server sent an untagged NO
    notes,          \* unilateral responses sent so far
    glitches,       \* transient transport errors so far
    conn            \* "up", "closed" between two responses, or "cut" inside one

clientVars == <<next, cur, results, unsolicited>>
serverVars == <<serving, emitted, verdict, refusal, notes, conn>>
vars == <<next, cur, results, unsolicited, toServer, toClient,
          serving, emitted, verdict, refusal, notes, glitches, conn>>

\* NO stands for every status but OK: NO, BAD and BYE differ in the error only.
Statuses == {"ok", "no"}

Requests == 1 .. MaxRequests

\* RequestId(format!("A{:04}", next % 10_000))
Tag(req) == req % TagModulus

\* A response.  `req` is the request it answers (0 for none) and `n` numbers
\* the data of a request and the notes; the program sees neither.
Response(kind, class, box, status, req, n) ==
    [kind |-> kind, class |-> class, box |-> box, status |-> status, req |-> req, n |-> n]

Idle == [name |-> "none", box |-> "none", req |-> 0, phase |-> "none", items |-> << >>]

Nothing == [name |-> "none", box |-> "none", req |-> 0, step |-> "none"]

Init ==
    /\ next = 0
    /\ cur = Idle
    /\ results = << >>
    /\ unsolicited = << >>
    /\ toServer = << >>
    /\ toClient = << >>
    /\ serving = Nothing
    /\ emitted = [q \in Requests |-> 0]
    /\ verdict = [q \in Requests |-> "none"]
    /\ refusal = FALSE
    /\ notes = 0
    /\ glitches = 0
    /\ conn = "up"

-----------------------------------------------------------------------------
(* The client: run_command, and what a response loop can do with a response. *)

Line(name, box, req) == [part |-> "line", name |-> name, box |-> box, req |-> req]

\* run_command: take the next id, write the line, flush.
Issue(name, box) ==
    /\ cur = Idle
    /\ next < MaxRequests
    /\ next' = next + 1
    /\ cur' = [name |-> name, box |-> box, req |-> next + 1, phase |-> "wait", items |-> << >>]
    /\ toServer' = Append(toServer, Line(name, box, next + 1))
    /\ UNCHANGED <<results, unsolicited, toClient, glitches, serverVars>>

\* `answer` is the request whose tagged response ended the command, or 0.  The
\* stream of a lazy command has handed its items out; another command that
\* fails or is dropped returns none of what it collected.
Result(outcome, answer) ==
    [name |-> cur.name, outcome |-> outcome, answer |-> answer,
     items |-> IF outcome = "ok" \/ cur.name \in Lazy THEN cur.items ELSE << >>]

\* The command returns to its caller.
Return(outcome, answer) ==
    /\ cur' = Idle
    /\ results' = Append(results, Result(outcome, answer))

\* The write fails: the id is used up, nothing is read.
IssueFails(name) ==
    /\ cur = Idle
    /\ conn # "up"
    /\ next < MaxRequests
    /\ next' = next + 1
    /\ results' = Append(results,
           [name |-> name, outcome |-> "io", answer |-> 0, items |-> << >>])
    /\ UNCHANGED <<cur, unsolicited, toServer, toClient, glitches, serverVars>>

\* The future is dropped, or the stream of a lazy command before its end.
Cancel ==
    /\ Cancels
    /\ cur # Idle
    /\ Return("cancelled", 0)
    /\ UNCHANGED <<next, unsolicited, toServer, toClient, glitches, serverVars>>

\* stream.next() yields an error and the connection goes on.  The ? of a loop
\* leaves the responses to come on the wire; the stream of a lazy command
\* hands the error out, and its caller reads on or gives up.
ReadError ==
    /\ cur # Idle
    /\ glitches < MaxGlitches
    /\ glitches' = glitches + 1
    /\ \/ Return("io", 0)
       \/ cur.name \in Lazy /\ UNCHANGED <<cur, results>>
    /\ UNCHANGED <<next, unsolicited, toServer, toClient, serverVars>>

r == Head(toClient)

\* stream.next().await yields a response.
Read ==
    /\ toClient # << >>
    /\ toClient' = Tail(toClient)
    /\ UNCHANGED <<next, glitches, serverVars>>

\* Mutant: any tagged response will do.
AnyDone == r.kind = "done"

Own == r.kind = "done" /\ Tag(r.req) = Tag(cur.req)

\* The loop ends on r.
End(outcome) ==
    Return(outcome, IF r.kind = "done" THEN r.req ELSE 0) /\ UNCHANGED <<unsolicited, toServer>>

\* r sets a field of the result that was set before.
Overwrites(items) ==
    /\ cur.name \in LastOnly
    /\ r.class \in Gives[cur.name]
    /\ \E i \in DOMAIN items : items[i].class = r.class

\* The result with r in it.
With(items) ==
    IF Overwrites(items)
    THEN [i \in DOMAIN items |-> IF items[i].class = r.class THEN r ELSE items[i]]
    ELSE Append(items, r)

\* The loop makes r a part of the result and goes on.
Keep ==
    /\ cur' = [cur EXCEPT !.items = With(@)]
    /\ UNCHANGED <<results, unsolicited, toServer>>

\* Mutant: no look at is_full.
UnilateralUnbounded ==
    /\ unsolicited' = Append(unsolicited, r)
    /\ UNCHANGED <<cur, results, toServer>>

\* Mutant: the send waits for room.
UnilateralWaits ==
    /\ Len(unsolicited) < ChannelCap
    /\ unsolicited' = Append(unsolicited, r)
    /\ UNCHANGED <<cur, results, toServer>>

\* handle_unilateral, and the loop goes on.  It never waits: a full channel
\* loses the newest response.
Unilateral ==
    /\ unsolicited' = IF Len(unsolicited) >= ChannelCap THEN unsolicited
                                                        ELSE Append(unsolicited, r)
    /\ UNCHANGED <<cur, results, toServer>>

-----------------------------------------------------------------------------
(* The response loops.  Each ends on some responses, makes its result of     *)
(* some, skips some, and gives the others to handle_unilateral.             *)
Loop(ends, outcome, keeps, skips) ==
    /\ Read
    /\ \/ ends /\ End(outcome)
       \/ ~ends /\ keeps /\ Keep
       \/ ~ends /\ ~keeps /\ skips /\ UNCHANGED <<cur, results, unsolicited, toServer>>
       \/ ~ends /\ ~keeps /\ ~skips /\ Unilateral

Fails(kind) == r.kind = kind /\ r.status # "ok"

Data(classes) == r.kind = "data" /\ r.class \in classes

\* check_done_ok_from looks at the status of any tagged response, then at the tag.
CheckDoneOk ==
    cur.name \in Checked /\ Loop(Fails("done") \/ Own, r.status, FALSE, FALSE)

\* take_while(filter): the tagged response ends the loop whatever its status.
Filtered(keeps) == Loop(Own, "ok", keeps, FALSE)

ParseNames == cur.name = "list" /\ Filtered(Data({"list"}))

\* Mutant: with a full channel the command's own data are dropped too.
ParseFetchesIfRoom ==
    /\ cur.name \in {"fetch", "store"}
    /\ Filtered(Data({"fetch"}) /\ Len(unsolicited) < ChannelCap)

ParseFetches == cur.name \in {"fetch", "store"} /\ Filtered(Data({"fetch"}))

ParseExpunge == cur.name = "expunge" /\ Filtered(Data({"expunge"}))

ParseCapabilities == cur.name = "capabilities" /\ Filtered(Data({"capability"}))

ParseNoop == cur.name = "noop" /\ Filtered(FALSE)

ParseIds == cur.name = "search" /\ Filtered(Data({"search"}))

ParseMetadata == cur.name = "get_metadata" /\ Filtered(Data({"metadata"}) /\ r.box = cur.box)

\* What GETQUOTA returns, with and without a QUOTA among the responses.
QuotaOutcome == IF cur.items = << >> THEN "absent" ELSE "ok"

ParseGetQuota == cur.name = "get_quota" /\ Loop(Own, QuotaOutcome, Data({"quota"}), FALSE)

ParseGetQuotaRoot == cur.name = "get_quota_root" /\ Filtered(Data({"quotaroot", "quota"}))

ParseId == cur.name = "id" /\ Filtered(Data({"id"}))

\* Mutant: the STATUS data go to the channel.
StatusWithoutData == cur.name = "status" /\ Loop(Own, r.status, FALSE, FALSE)

\* A STATUS of another mailbox is unsolicited.
ParseStatus ==
    /\ cur.name = "status"
    /\ Loop(Own, r.status, Data({"status"}) /\ r.box = cur.box, FALSE)

\* Mutant: expunges are dropped as well.
SkippedWithExpunges == Data({"list", "metadata", "search", "expunge"})

\* The data of other commands that parse_mailbox drops.
SkippedBySelect == Data({"list", "metadata", "search"})

\* Mutant: an untagged NO ends SELECT without an error.
SelectForgiving ==
    /\ cur.name = "select"
    /\ Loop(Own \/ Fails("status"), "ok",
            Data({"exists", "flags"}), SkippedBySelect \/ r.kind = "status")

\* parse_mailbox takes every untagged status for its own, drops an OK that has
\* nothing for the Mailbox, and folds EXISTS, RECENT and FLAGS into it, whoever
\* they are for.
ParseMailbox ==
    /\ cur.name = "select"
    /\ Loop(Own \/ Fails("status"), r.status,
            Data({"exists", "flags"}), SkippedBySelect \/ r.kind = "status")

\* One response before the literal, one after it, whatever the latter is.
ReadAppend ==
    /\ cur.name = "append"
    /\ Read
    /\ \/ cur.phase = "sent" /\ End("ok")
       \/ cur.phase = "wait" /\ r.kind # "cont" /\ End("append")
       \/ cur.phase = "wait" /\ r.kind = "cont" /\ conn # "up" /\ End("io")
       \/ /\ cur.phase = "wait" /\ r.kind = "cont"
          /\ cur' = [cur EXCEPT !.phase = "sent"]
          /\ toServer' = Append(toServer, [Line("append", "none", cur.req) EXCEPT !.part = "literal"])
          /\ UNCHANGED <<results, unsolicited>>

\* Mutant: the end of the stream passes for an answer.
AtEofContent == "ok"

\* What a loop returns when the stream ends between two responses.
AtEof ==
    CASE cur.name \in Checked -> "lost"
      [] cur.name = "append" /\ cur.phase = "wait" -> "append"
      [] cur.name = "get_quota" -> QuotaOutcome
      [] OTHER -> "ok"

ReadEof ==
    /\ cur # Idle
    /\ toClient = << >>
    /\ conn # "up"
    /\ Return(IF conn = "cut" THEN "io" ELSE AtEof, 0)
    /\ UNCHANGED <<next, unsolicited, toServer, toClient, glitches, serverVars>>

\* The caller takes a response from the channel.
Drain ==
    /\ unsolicited # << >>
    /\ unsolicited' = Tail(unsolicited)
    /\ UNCHANGED <<next, cur, results, toServer, toClient, glitches, serverVars>>

-----------------------------------------------------------------------------
(* The server. *)

Say(response) == toClient' = Append(toClient, response)

\* A line that is waited for as a literal is one, whatever it holds.
ServerReceives ==
    /\ conn = "up"
    /\ toServer # << >>
    /\ toServer' = Tail(toServer)
    /\ LET line == Head(toServer) IN
       \/ /\ serving.step = "literal"
          /\ serving' = [serving EXCEPT !.step = "run"]
          /\ UNCHANGED <<toClient, refusal>>
       \/ /\ serving.step = "none"
          /\ line.part = "line"
          /\ serving' = [name |-> line.name, box |-> line.box, req |-> line.req,
                         step |-> IF line.name = "append" THEN "start" ELSE "run"]
          /\ UNCHANGED <<toClient, refusal>>
       \/ /\ serving.step = "none"
          /\ line.part = "literal"
          /\ Say(Response("status", "none", "none", "no", 0, 0))
          /\ refusal' = TRUE
          /\ UNCHANGED serving
    /\ UNCHANGED <<clientVars, emitted, verdict, notes, glitches, conn>>

ServerAsks ==
    /\ conn = "up"
    /\ serving.step = "start"
    /\ serving' = [serving EXCEPT !.step = "literal"]
    /\ Say(Response("cont", "none", "none", "none", serving.req, 0))
    /\ UNCHANGED <<clientVars, toServer, emitted, verdict, refusal, notes, glitches, conn>>

ServerData ==
    /\ conn = "up"
    /\ serving.step = "run"
    /\ emitted[serving.req] < MaxData
    /\ emitted' = [emitted EXCEPT ![serving.req] = @ + 1]
    /\ \E class \in Gives[serving.name] :
        Say(Response("data", class, serving.box, "none", serving.req, emitted'[serving.req]))
    /\ UNCHANGED <<clientVars, toServer, serving, verdict, refusal, notes, glitches, conn>>

ServerDone(status) ==
    /\ conn = "up"
    /\ serving.step = "run" \/ (serving.step = "start" /\ status # "ok")
    /\ serving' = Nothing
    /\ verdict' = [verdict EXCEPT ![serving.req] = status]
    /\ Say(Response("done", "none", "none", status, serving.req, 0))
    /\ UNCHANGED <<clientVars, toServer, emitted, refusal, notes, glitches, conn>>

\* A unilateral response: EXISTS and the like, or an untagged status.
ServerNote(kind, class, status) ==
    /\ conn = "up"
    /\ notes < MaxNotes
    /\ notes' = notes + 1
    /\ refusal' = (refusal \/ status = "no")
    /\ Say(Response(kind, class, "none", status, 0, notes + 1))
    /\ UNCHANGED <<clientVars, toServer, serving, emitted, verdict, glitches, conn>>

\* The server goes away: lines it did not read are answered by nobody, what it
\* sent still arrives.
ServerCloses(how) ==
    /\ conn = "up"
    /\ conn' = how
    /\ UNCHANGED <<clientVars, toServer, toClient, serving, emitted, verdict, refusal, notes, glitches>>

-----------------------------------------------------------------------------
ReadStep ==
    \/ CheckDoneOk
    \/ ParseNames \/ ParseFetches \/ ParseExpunge \/ ParseCapabilities \/ ParseNoop
    \/ ParseIds \/ ParseMetadata \/ ParseGetQuota \/ ParseGetQuotaRoot \/ ParseId
    \/ ParseStatus \/ ParseMailbox
    \/ ReadAppend
    \/ ReadEof

\* The public methods of Session.
Call(name) ==
    /\ name \in Commands
    /\ \/ \E box \in IF name \in {"status", "get_metadata"} THEN Mailboxes ELSE {"none"} :
            Issue(name, box)
       \/ IssueFails(name)

CallCreate == Call("create")
CallClose == Call("close")
CallCopy == Call("copy")
CallNoop == Call("noop")
CallList == Call("list")
CallFetch == Call("fetch")
CallStore == Call("store")
CallExpunge == Call("expunge")
CallCapabilities == Call("capabilities")
CallSearch == Call("search")
CallGetMetadata == Call("get_metadata")
CallGetQuota == Call("get_quota")
CallGetQuotaRoot == Call("get_quota_root")
CallId == Call("id")
CallStatus == Call("status")
CallSelect == Call("select")
CallAppend == Call("append")

CallCommand ==
    \/ CallCreate \/ CallClose \/ CallCopy \/ CallNoop
    \/ CallList \/ CallFetch \/ CallStore \/ CallExpunge
    \/ CallCapabilities \/ CallSearch \/ CallGetMetadata
    \/ CallGetQuota \/ CallGetQuotaRoot \/ CallId
    \/ CallStatus \/ CallSelect \/ CallAppend

Caller == CallCommand \/ Cancel \/ Drain

ServerWork ==
    \/ ServerReceives
    \/ ServerAsks
    \/ ServerData
    \/ \E status \in Statuses : ServerDone(status)

Server ==
    \/ ServerWork
    \/ \E class \in NoteClasses : ServerNote("data", class, "none")
    \/ \E status \in Statuses : ServerNote("status", "none", status)
    \/ \E how \in {"closed", "cut"} : ServerCloses(how)

Next == ReadStep \/ ReadError \/ Caller \/ Server

Spec == Init /\ [][Next]_vars

\* The future of a command is polled when a response arrives, and the server
\* answers or closes.  Nobody has to read the unsolicited channel.
FairSpec == Spec /\ WF_vars(ReadStep) /\ WF_vars(ServerWork)

-----------------------------------------------------------------------------
Classes == (UNION {Gives[name] : name \in Commands}) \cup NoteClasses

Boxes == Mailboxes \cup {"none"}

Responses == [kind : {"done", "status", "cont", "data"}, class : Classes \cup {"none"},
              box : Boxes, status : Statuses \cup {"none"}, req : 0 .. MaxRequests, n : Nat]

Outcomes == Statuses \cup {"lost", "io", "append", "absent", "cancelled"}

\* Every variable holds a value of its kind: the fields of Connection and
\* Session, the results of the commands, the two directions of the wire.
TypeOK ==
    /\ next \in 0 .. MaxRequests
    /\ cur = Idle \/ cur \in [name : Commands, box : Boxes, req : Requests,
                              phase : {"wait", "sent"}, items : Seq(Responses)]
    /\ results \in Seq([name : Commands, outcome : Outcomes, answer : 0 .. MaxRequests,
                        items : Seq(Responses)])
    /\ unsolicited \in Seq(Responses) /\ Len(unsolicited) <= ChannelCap
    /\ toServer \in Seq([part : {"line", "literal"}, name : Commands, box : Boxes, req : Requests])
    /\ toClient \in Seq(Responses)
    /\ serving.req \in 0 .. MaxRequests
    /\ emitted \in [Requests -> 0 .. MaxData]
    /\ verdict \in [Requests -> Statuses \cup {"none"}]
    /\ refusal \in BOOLEAN
    /\ notes \in 0 .. MaxNotes /\ glitches \in 0 .. MaxGlitches
    /\ conn \in {"up", "closed", "cut"}

\* Result q was ended by the tagged response to request q.
EndedByAnswer(q) == results[q].answer = q

\* A command that check_done_ok confirmed was answered OK itself.  The answer
\* of another request is taken for it only when ids wrapped around and all
\* the requests since then gave up before theirs was read.
OkIsItsOwn ==
    \A q \in DOMAIN results :
        LET a == results[q].answer IN
        results[q].outcome = "ok" /\ results[q].name \in Checked /\ a # q =>
            /\ a \in 1 .. q - TagModulus
            /\ \A p \in a .. q - 1 : ~EndedByAnswer(p)

\* The elements of a queue at the places `own` are numbered a + 1 .. b, in this
\* order and none missing.
Numbered(queue, own, a, b) ==
    /\ \A i \in own : queue[i].n \in a + 1 .. b
    /\ \A i, j \in own : i < j => queue[i].n < queue[j].n
    /\ \A n \in a + 1 .. b : \E i \in own : queue[i].n = n

\* Where the data of request q are among the items.
Places(items, q) == {i \in DOMAIN items : items[i].req = q}

\* How many of its first k data a command has replaced.
Replaced(name, k) == IF name \in LastOnly /\ k > 0 THEN k - 1 ELSE 0

\* The field a command returns was set by an update.
Overtaken(name, items) ==
    /\ name \in LastOnly
    /\ \E i \in DOMAIN items : items[i].req = 0 /\ items[i].class \in Gives[name]

\* The items hold the first k data of request q, in order; the last of them,
\* where only one is kept, unless an update took its place.
Whole(name, items, q, k) ==
    \/ Numbered(items, Places(items, q), Replaced(name, k), k)
    \/ Overtaken(name, items)

\* A command that ended with its own answer returned all the data the server
\* sent for it, though errors came in between and notes of the same class are
\* among them, and left nothing of it on the wire.
CompleteResult ==
    \A q \in DOMAIN results :
        EndedByAnswer(q) /\ results[q].outcome = "ok" /\ results[q].name # "append" =>
            /\ Whole(results[q].name, results[q].items, q, emitted[q])
            /\ \A i \in DOMAIN toClient : toClient[i].req \notin 1 .. q

\* A command that reported success leaves no data behind for a later one to
\* return as its own (but for ids that wrapped around, as above).
SuccessLeavesNothing ==
    \A q \in DOMAIN results : \A i \in DOMAIN results[q].items :
        LET o == results[q].items[i].req IN
        o \in Requests \ {q} =>
            results[o].outcome # "ok" \/ results[o].answer \in 1 .. o - TagModulus

\* The current step takes r off the wire.
Takes == toClient # << >> /\ toClient' = Tail(toClient)

\* r is an update the server sent unasked.
ReadsUpdate == Takes /\ r.kind = "data" /\ r.req = 0

\* u is in the result the running command collects, or in the one it returned.
InResult(u) ==
    \/ cur' # Idle /\ u \in Range(cur'.items)
    \/ cur' = Idle /\ u \in Range(Last(results').items)

\* r stays with someone who can hand it out: the channel, or the result.
HandedOut == r \in Range(unsolicited') \/ InResult(r)

\* The updates that are lost as they are read, though there is room: those an
\* APPEND reads (see AppendHandsOutUpdates), and METADATA during a SELECT.
Dropped == cur.name = "append" \/ (cur.name = "select" /\ r.class = "metadata")

\* The field of the result that u had set gets the newer value r.
Outdated(u) == Takes /\ cur.name \in LastOnly /\ r.class = u.class /\ InResult(r)

\* The command returns no result: u, which it had taken for its own, is lost.
\* So an EXISTS that a SELECT folds into its Mailbox, when the SELECT then
\* fails or is dropped.
LostWithTheResult ==
    cur.name \notin Lazy /\ cur' = Idle /\ Last(results').outcome # "ok"

\* Whatever command is running when it arrives, an update goes to the channel,
\* unless that is full, or into the result of the command, and from there to
\* the caller, unless a newer value takes its place or the command returns no
\* result; an update is lost in no other way, but for the two in Dropped.
UpdatesAreHandedOut ==
    [][/\ ReadsUpdate /\ ~Dropped => HandedOut \/ Len(unsolicited) >= ChannelCap
       /\ \A u \in Range(cur.items) :
              u.req = 0 => InResult(u) \/ Outdated(u) \/ LostWithTheResult]_vars

\* "Any such messages are parsed out and sent on Session::unsolicited_responses"
\* (client.rs, of Session): also those that arrive during an APPEND, which is
\* when the server "will generally notify the client immediately via an
\* untagged EXISTS response" (client.rs, of append).
AppendHandsOutUpdates ==
    [][ReadsUpdate /\ cur.name = "append" =>
           HandedOut \/ Len(unsolicited) >= ChannelCap]_vars

\* The numbers of the data of request q among the items.
OwnData(items, q) ==
    LET own == SelectSeq(items, LAMBDA i : i.req = q) IN [n \in DOMAIN own |-> own[n].n]

\* The commands as their caller sees them.
Service == INSTANCE CommandService WITH
    Checking <- Checked,
    Mailbox  <- {"status", "select"},
    asked    <- next,
    running  <- cur.name,
    given    <- emitted,
    refused  <- refusal,
    gone     <- conn # "up",
    faulty   <- conn # "up" \/ glitches > 0,
    returned <- [q \in DOMAIN results |->
                    [name |-> results[q].name, outcome |-> results[q].outcome,
                     data |-> OwnData(results[q].items, q)]]

\* While ids do not repeat, a session keeps the promise of CommandService: every
\* outcome is the server's verdict on that very command or a fault that did
\* happen, and success means that no data are missing.
KeepsPromise == Service!Spec

\* The line of the running command is neither under way nor at work nor answered:
\* the server, which had asked for the literal of an APPEND that was given up
\* before, took it for that literal.
TakenForLiteral ==
    /\ cur # Idle /\ conn = "up"
    /\ \A i \in DOMAIN toServer : toServer[i].req # cur.req
    /\ serving.req # cur.req
    /\ verdict[cur.req] = "none"
    /\ \E p \in 1 .. cur.req - 1 : results[p].name = "append" /\ results[p].outcome # "ok"

\* Every command returns, even when no one reads the unsolicited channel.  One
\* case is out of the client's hands: append takes the first response for the
\* answer to its line (an EXISTS, or what an earlier command left behind) and
\* gives up, or its future is dropped; the "+" that comes later makes the next
\* line the literal.
EveryCommandReturns == cur # Idle ~> (cur = Idle \/ TakenForLiteral)

\* A FETCH that ended without an error was answered by the server: the loss of
\* the connection is an error (CHANGELOG 0.9.4, test fetch_unexpected_eof).
FetchReportsLoss ==
    \A q \in DOMAIN results :
        results[q].name = "fetch" /\ results[q].outcome = "ok" => results[q].answer # 0
=============================================================================
