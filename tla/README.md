# A verification project for async-imap

TLA+ models of the stateful core of async-imap, the TLC runs that check them and
the TLAPS proofs about them. Source locations are paths below `src/src/`.

## 1. The system and its parts

async-imap is an IMAP client library. One task owns a connection; there are no
threads inside the library. What runs beside it is the server, the transport, a
timer and a stop source (IDLE), and the caller, who may drop any future or stream
before its end.

```
 caller -- commands -->  Session / Client / idle::Handle
                          |  run_command                ^ response loops (parse.rs)
                          v                             |  handle_unilateral -> channel(100) -> caller
                         Connection (IdGenerator)       |
                          v encode                      | poll_next
                         ImapStream { inner, buffer, decode_needs }
                          v                             ^
                         transport  <----------------> server
```

| component | state it keeps | operations | what is hard about it |
|---|---|---|---|
| `Buffer` (imap_stream.rs) | block, offset | new, used, free_as_mut_slice, extend_used, ensure_capacity, grow, take_block, return_block, reset_with_data | exactly full buffer, limits, a block that is taken out |
| `ImapStream` reading | buffer, decode_needs | poll_next, decode | cut reads, EOF against empty slice, stale decode_needs, starvation |
| `ImapStream` writing | - | encode, flush | partial writes when a future is dropped, a space whose write nobody checks, a forgotten flush |
| `IdGenerator` | next | next | ids repeat after 10 000 |
| `Connection` | stream, ids | run_command, check_done_ok | answers of other requests, end of stream |
| `Session` + parse.rs, quota.rs, id.rs | channel | the commands | left-overs of dropped commands, loops that end early, a full channel |
| `Client` | - | login, authenticate | retries on one connection, an exchange left open |
| `idle::Handle` | session, id | init, wait, done | interrupt, timer and updates racing; a server that gives up |
| `MockStream` (tests) | read_pos, err_on_read, eof_on_read, read_delay | builders, poll_read | what a test on it cannot see |
| types, errors, examples | - | conversions | not modelled, no state |

Correctness, per part: the stream hands out every response whole, in order, once,
and its end, waits and errors are true; a command's success is its own, its result
complete and nothing of it is left behind; every call returns; an update that
arrives while idling reaches the caller; a Session exists only if the server
granted it. `PROJECT.json` lists the hazards line by line with the property that
covers each.

## 2. Modules

| module | models | state <-> code |
|---|---|---|
| `ImapBuffer` | `struct Buffer`, as operators on a record | `block`, `offset` as in the code; bytes are named by their position in the server's stream |
| `ResponseStream` | the abstract promise of `Stream for ImapStream` | no buffer: bytes sent, bytes taken, the outcome of the last poll |
| `ImapStream` | `poll_next` and `decode` | `buffer`, `decodeNeeds`; `pc` is the place inside a poll; `sent`, `open`, `wire` are the server |
| `Session` | Connection, Session, the response loops, the channel | `next`, `cur` (the command that reads), `unsolicited`; `toServer`/`toClient` are the wire |
| `CommandService` | what the methods of a session promise: one command at a time, its data, an outcome someone is answerable for | no wire, tags, channel or loops |
| `LineWriter` | `encode`, `flush`, `run_command`, the literal of `append`, write by write | `todo` is what the future still has to write; `accepted`, `delivered`, `full` are the transport |
| `MockStream` | the test transport under `ImapStream` | `wire` is `read_buf`, `got` is `read_pos`, `open` is `~eof_on_read` |
| `Idle` | `idle::Handle` | `phase` is the call in progress, `stopped` the stop source |
| `Auth` | login and authenticate | `attempts` is the generator, `phase` the loop that reads |
| `ImapStreamProofs`, `MockStreamProofs`, `LineWriterProofs`, `SessionProofs`, `SessionOrderProofs`, `IdleProofs`, `AuthProofs` | theorems, see section 5 | |
| `QueueProofs` | lemmas on queues | |
| `MC*` | constants for TLC | |

`ImapStream` uses `ImapBuffer`, and `ResponseStream` through
`Promise == INSTANCE ResponseStream`: the shared variables have the same names, so
the refinement mapping is the identity on them and hides the buffer. `Session`
implements `CommandService` through

```
Service == INSTANCE CommandService WITH running <- cur.name, given <- emitted,
                                        gone <- conn # "up", returned <- ..., ...
```

which hides the wire, the channel and the loops: a command is asked, is given data, is
answered, and returns. The service says exactly what each family of commands owes: those
of `Checking` (check_done_ok) report OK only on the server's OK; `Mailbox` (STATUS, SELECT)
too, but take the end of the stream for success; `Collecting` succeed on any tagged answer
or at the end of the stream, with nothing missing of what was given; GETQUOTA without a
QUOTA is an error; APPEND promises nothing. It holds as long as ids do not repeat (the run
has as many requests as ids) and nothing is cancelled; `session` has both, and the weaker
properties that remain true. `MockStream` extends `ImapStream` with the mock's fields, and
its steps are restricted steps of it, so `MockIsATransport` is `ImapStream`'s `Spec`. The modules
`Session`, `Idle` and `Auth` stand on the promise of `ResponseStream`: a response
is read whole and in order, the end of the stream is either between two responses
(`closed`, `None`) or inside one (`cut`, an error).

The stream keeps no record of an end: `poll_next` reads again when it is polled again, and
the changelog (`src/CHANGELOG.md:71-73`) wants it so for streams that may become open again
later. So in `ImapStream` the end of the transport is not the last word (`Close`, `Reopen`):
a poll reports an end or an `UnexpectedEof`, and if the transport goes on, the response it was
cut in is completed. `Session`, `Idle` and `Auth` are about a connection to a server, and
**assume that once it is gone it stays gone**: a command that took the end for its answer
would otherwise meet the rest of it later.

What is abstracted, and why it is sound:

* `poll_next` is synchronous, so between two of its steps only the server and the
  transport move. `decode` is one step: nothing else can see the block while it is
  out of the buffer.
* The parser (imap_proto) is a grammar in which a response is a run of `mid` bytes
  and an `end` byte, and a `bad` byte is an error. It may answer `Needed::Size` with
  any lower bound of what is missing (`HonestNeed`) or `Needed::Unknown`.
  This honesty is an assumption on a dependency; `NeedsOnlyTheNext`, `KeepsPromise`
  and the liveness of the stream rest on it, `BufferIsUnread`, `RoomBeforeRead` and
  `CapacityBounded` do not.
* In `Session`, `no` stands for NO, BAD and BYE, which differ in the error only. Each
  `parse_` function is an action over one operator, `Loop(ends, outcome, keeps, skips)`,
  and differs in these four. A `Call...` action stands for the public methods that write a
  line and go into that loop (`CallCreate` for logout, create, delete, rename, subscribe,
  unsubscribe, and so on; the map names the lines). A command whose argument does not
  validate changes no state.
* What a command returns: an eager one returns the data it collected only if it succeeds, its
  `Err` drops them; a lazy one has handed them out (`Result`). GETQUOTA, ID and SELECT return
  fields, which a later response replaces (`Overwrites`, `With`). Of SELECT's `Mailbox`,
  `exists` stands for all fields that are assigned (EXISTS, RECENT, the codes of an untagged
  OK), `flags` for the two lists that are extended; an untagged OK without such a code is
  dropped.
* A lazy stream (`Lazy`) is a command that reads until its end; the caller dropping it
  early is `Cancel`, as for a future. A failed read ends an eager loop through its `?`; a
  lazy stream hands the error out and its caller may read on (`ReadError`).
* `Session` takes the writing of a line for one step that succeeds or fails.
  `LineWriter` shows when that is right: a written command has left whole and as a line of
  its own (`OkMeansSent`), except behind one that gave up in the middle of its line.
* In `Idle` the stop token is looked at before the stream and the stream before the
  timer (what the `stop-token` crate and `timeout` do). Time is not counted.

## 3. Runs

| run | question | bounds | result |
|---|---|---|---|
| `stream` | safety of the receive path, that it implements `ResponseStream`, that everything that arrived is delivered, that a lasting end is reported, and that a malformed response stays one | BLOCK_SIZE 2, MAX_CAPACITY 4, all byte streams of 6 bytes over mid/end/bad with at most one bad, Needed up to 6, one transport error, any number of ends and reopenings | passes |
| `session` | create, fetch and append | tags modulo 2, channel of 1, 3 requests, 2 data responses each, cancellation, an update | passes |
| `session_service` | 14 commands, one for every loop, against `CommandService` | 2 requests and as many ids, 2 mailboxes, channel of 1, an update of five classes, 1 failed read | passes |
| `session_live` | does every command return (close, noop, append, list, store, get_metadata, get_quota, id, status, select) | 2 requests, 1 response sent unasked (an EXISTS or a status), channel of 1, cancellation | passes |
| `session_fetch_eof` | is the loss of the connection an error for FETCH | 1 request | violated |
| `session_append` | does an update that arrives during an APPEND reach the caller | 1 request, 1 update | violated |
| `writer` | what the server sees of lines written in parts | tags and lines of 2 bytes (or an empty line), 3 commands | passes |
| `mock` | is the test transport a transport, and do tests get their data | MAX_CAPACITY 4, all byte streams of 5 bytes, 2 reads that fail | passes |
| `idle` | IDLE from init to done, safety and liveness | channel of 2, 3 updates, 1 keepalive, any number of waits | passes |
| `idle_interrupt` | is ManualInterrupt manual | 1 update | violated |
| `auth` | three attempts, safety and liveness | 3 challenges, 2 untagged responses | passes |
| `auth_challenge` | is every challenge processed | 1 attempt | violated |

Why these bounds are enough: with blocks of 2 and a capacity of two blocks a
response can end inside, at and after a block, need growth, be just small enough or just
too large, and leave a rest that is empty, partial or a whole block. Needed goes beyond
the capacity, so the refusal by request and by a full buffer both occur; the proofs are
for every size. Three requests with tags modulo 2 make the third share a tag with the
first, whose answer may still be unread. Two requests are enough to show what one command
leaves for the next, of every pair of loops. A channel of 1 or 2 fills up and loses
responses. Two bytes per piece let each write be cut, and three commands let a
broken line be followed by one that ends it and one that is clean again. Three attempts let an
abandoned exchange swallow the line of the second and answer the third.

`CHECK_DEADLOCK FALSE` in `Session`, `Idle`, `Auth`, `LineWriter` and `MockStream`: there
the bounds on requests, attempts and errors are reached, or the caller has nothing more to ask, and the system
rightly stops.

Every passing property has a mutant (an operator marked "Mutant" before the
definition it would replace) under which TLC finds it violated.

### Properties worth a reader's attention

* `RoomBeforeRead`: the bug of byte-pool 0.2.2, remembered by a test.
* `NeedsOnlyTheNext`, `ReadsOnlyForMore`: no response waits for bytes of a later one.
* `OkIsItsOwn`: an OK is the command's own. The exact exception is stated: after
  `TagModulus` requests of which all gave up, an old answer may be taken.
* `CompleteResult`, `SuccessLeavesNothing`: what a dropped stream, a cancelled future or a
  SELECT that stopped at an untagged NO left on the wire is never part of a later result
  unless the earlier command did not succeed. APPEND, which takes any response for its
  end, is exempt from the first.
* `KeepsPromise` of `Session`: every outcome can be put down to the server's verdict on that
  very command or to a fault that did happen, for every pair of loops.
* `UpdatesAreHandedOut`: where an update goes when it is read, and what becomes of it when it
  went into a result. It is put into the channel or the result of the command, unless the
  channel is full, the command is an APPEND (`AppendHandsOutUpdates` is violated) or it is
  METADATA during a SELECT. What is in a result stays there and reaches the caller, unless a
  newer value takes its field (a second EXISTS during the same SELECT) or the command returns
  no result: an EXISTS that a SELECT folded into its `Mailbox` is gone when the SELECT fails
  or is dropped, though the channel had room.
* `CompleteResult` allows for the same folding: an update may have set a field after the
  command's own data did (`Overtaken`).
* `EveryCommandReturns`: the loops never wait on the channel, and none reads past its answer.
  One wait is known and stated as its exception (`TakenForLiteral`): an APPEND that gave up (at
  an EXISTS before the `+`, say) or was dropped leaves a server that takes the next line for
  the literal, and that line's command waits for ever.
* `EveryResponseArrives`: a response that has arrived is handed out, also one in which the
  transport ended and went on. `ClosureIsReported`: if the transport stays at its end, the
  caller is told, and told rightly. `ErrorsPersist`: nothing behind a malformed or an oversized
  response is handed out as a response. The last one is proved, see section 5.
* `OkMeansSent`, `EndedLineIsComplete`: a caller waits for an answer only to a line the
  server got, and what `write` left of the space never makes another tag.
* `NoUpdateLost`: whichever of stop, timer, cancellation and arrival comes first.
* `SessionIsGranted`: a Session comes from the attempt that the server granted.

### Disagreements between code and documentation

* A FETCH whose connection is closed between two responses ends like a complete one
  (`parse.rs:73`); `CHANGELOG.md:28` and the test `fetch_unexpected_eof` say otherwise.
  The test sees an error because `MockStream` makes one at the end of its data (`MockEnd`);
  a connection that closes between two responses is out of a test's reach.
* An update that arrives while APPEND reads its answers is dropped (`client.rs:1130` against
  `:36` and `:1114`).
* `wait` reports `ManualInterrupt` when the server closed (`idle.rs:156` against `:92`);
  `InterruptIsManual` looks at the return of `wait` only, before another call begins.
* `authenticate` leaves its loop at the first untagged response and passes over later
  challenges (`client.rs:289` against `authenticator.rs:9`).

## 4. Fairness

* `stream`, `mock`: the caller keeps polling and a poll runs to its return; `Decode` and
  `Fill` are steps of one synchronous function. The server and the transport owe nothing: they
  may stop, end and go on anywhere.
* `session_live`, `auth`: the future is polled when a response is there (the waker of
  the transport), and the server goes on with its work or the connection is closed.
  The caller owes nothing; in particular nobody has to read the channel.
* `writer`: the transport takes bytes, refuses or is flushed in the end. A server that stops
  reading for good can keep a command waiting, and is excluded; no error is owed.
* `idle`: the same as `session_live`, and the timer of `wait` fires when nothing else ends it. The caller
  need not stop, time out or finish.

`CallsReturn`, `AttemptReturns` and `EveryCommandReturns` exclude, in their statement, the
states in which the code is known to wait for an answer that does not come: it was already
passed over, or (`TakenForLiteral`) the server took the line for the literal of an APPEND that
gave up. These are hazards in `PROJECT.json`. No command is left out of `session_live` because
it would break the property; those that are absent read in the loop of one that is there
(`check_done_ok`, `parse_fetches`) or in one that differs in the data it takes only (`Filtered`).

## 5. Proofs

Every invariant the passing runs check, two properties of steps (`ErrorsPersist`,
`UpdatesAreHandedOut`) and two refinements are theorems of the specification, for every value of the constants. Each proof module has one inductive
invariant (or a few, one on top of the other) with a step per action, and the properties
follow from it.

**`ImapStreamProofs`** (every `BlockSize`, `MaxCapacity` that is a multiple of it, `MaxNeeded`
and set of byte streams; `BufferAssumption`, `StreamAssumption`)

| theorem | says |
|---|---|
| `TypeCorrect` | `Spec => []TypeOK` |
| `BytesPreserved` | `Spec => []BufferIsUnread` |
| `NoFalseEof` | `Spec => []RoomBeforeRead` |
| `CapacityKept` | `Spec => []CapacityBounded` |
| `NeverOverwaits` | `Spec => []NeedsOnlyTheNext` |
| `NeverStarves` | `Spec => []ReadsOnlyForMore` |
| `Refinement` | `Spec => KeepsPromise` |
| `ErrorsStay` | `Spec => ErrorsPersist` |

None of the properties is inductive alone. That 0 bytes mean the end needs the block to be
larger than the used range, which needs the capacity bound; that a poll waits rightly needs
`pc` to say what the last decode found, and the content of the buffer to be the server's
bytes from `taken + 1` on, or the parser's verdict would say nothing about the wire. The
invariant conjoins these. `Refinement` maps each step of a poll to the step of
`ResponseStream` its return amounts to, and the steps inside to stutters. `ErrorsStay` needs
a second invariant, `ErrorState`, of what an error leaves behind: bytes that were rejected
are still at the front and `decode_needs` is 0, so the next poll decodes them again before it
reads; a block that was refused is refused whatever size the parser asks for next, as it was
full at `MaxCapacity`. No reading takes place in either state, so that neither the end of the
transport nor its going on changes anything. The module begins with what each operator of `ImapBuffer` returns.

**`MockStreamProofs`**: `MockImplements == MockSpec => MockIsATransport`, so that the theorems
above hold in every unit test. The mock's read is a step of the transport only because the
used range lies in the block, which is part of the invariant of `ImapStream`; the two are
proved together.

**`LineWriterProofs`** (every width of tags and lines, any number of commands; `WriterAssumption`)

| theorem | says |
|---|---|
| `TypeCorrect` | `Spec => []TypeOK` |
| `OkIsSent` | `Spec => []OkMeansSent` |
| `EndedLinesComplete` | `Spec => []EndedLineIsComplete` |

The space is written with `write`, whose count nobody looks at, so a line can have a hole.
The proof says why that is harmless: the transport refuses a byte only for good. While it
takes bytes, the last ones are the beginning of the command at work, after a line or a command
that gave up (`InARow`); when it takes no more, no command is written to its end
(`FullBeforeTheEnd`), and of every byte that was taken all of its command comes before it
(`FromTheStart`).

**`SessionProofs`, `SessionOrderProofs`** (every set of the modelled commands, any number of
requests, ids, data and updates, every size of the channel, with or without cancellation;
`SessionAssumption`)

| theorem | says |
|---|---|
| `TypeCorrect` | `Spec => []TypeOK` |
| `UpdatesHandedOut` | `Spec => UpdatesAreHandedOut` |
| `OrderInvariance` | `Spec => []OrderInv` |
| `OkIsOwn` | `Spec => []OkIsItsOwn` |
| `NothingLeft` | `Spec => []SuccessLeavesNothing` |
| `ResultComplete` | `Spec => []CompleteResult` |

All the loops come down to four things a command can do when it reads a response
(`ReadIsOneOf`: it ends, puts the response to its result, passes it to `handle_unilateral` or
over it, or sends its literal), and every step is one of a few kinds (`StepIsOneOf`), so that
a proof has a case per kind and not one per command. `UpdatesHandedOut` has two parts: what a
loop does with the update it reads (`SelectSkips` for the loop that skips most), and that no
step takes an update out of a result but in the ways the property names
(`CollectedIsHandedOut`).
Three invariants stand on each other:

* `OrderInv` is the order of the pipeline. Seen from the client, the responses on the wire,
  the command the server works on and the lines it has not read are of ascending requests,
  and a tagged response is the last of its request (`Ordered`). So a command that reads its own
  answer has all the earlier requests behind it (`Past`), and a foreign answer with the same tag
  is a whole round of ids older (`TagsRepeat`), which is the exception `OkIsItsOwn` states.
* `LeftInv` adds that a successful result is final and that what a command has collected of
  earlier requests is of such that failed (`OnlyLeftOvers`): a request that succeeded was ended
  by its own answer, or at the end of the connection, after which nothing is read, or was an
  APPEND, for which the server gives no data (`NamesAgree`).
* `CompleteInv` follows the data of the command in progress: some `k` of them are in its
  result, numbered 1 to `k`, and the others, `k + 1` to the last one the server gave, are on
  the wire in that order (`HasTaken`); of a command that returns one field only the `k`th is
  there, unless an update took its place (`Whole`, `OneField`). For that the mailbox of STATUS and GETMETADATA data has to be
  that of the command (`BoxesAgree`).

**`IdleProofs`** (every size of the channel, any number of updates; `IdleAssumption`)

| theorem | says |
|---|---|
| `TypeCorrect` | `Spec => []TypeOK` |
| `NothingLost` | `Spec => []NoUpdateLost` |
| `CleanSession` | `Spec => []SessionIsClean` |

The client may be ahead of the server, as a future of `init` may be dropped before IDLE was
read. The order of the two lines (`LinesInOrder`) and that the OK is the last thing the server
says of this IDLE (`OkIsLast`) make the session clean; `EachNoteOnce` and `NotesAreSent` make no
update doubled.

**`AuthProofs`** (any number of attempts, challenges and untagged responses; `AuthAssumption`)

| theorem | says |
|---|---|
| `TypeCorrect` | `Spec => []TypeOK` |
| `GrantedOnly` | `Spec => []SessionIsGranted` |

While the connection lives, one thing only is under way between client and server: a line, an
exchange the server runs, or a reply (`Lockstep`). A challenge that was passed over takes it
away for good: the server waits for an answer and the client for a tagged response, which then
never comes (`SkippingIsStuck`).

**`QueueProofs`** has what putting at the end and taking from the front does to a queue.

Only model-checked: liveness (`EveryResponseArrives`, `ClosureIsReported`,
`EveryCommandReturns`, `EncodeReturns`, `CallsReturn`, `AttemptReturns`,
`TestGetsItsResponses`), as fairness and ENABLED are out of the prover's reach; and that
`Session` implements `CommandService`. The properties of a result are proved on the places
of the data in it (`Numbered`), not on the sequence `SelectSeq` makes of them, whose recursive
definition the prover cannot unfold; the mapping of the refinement is that sequence. No module
uses a RECURSIVE operator.

## 6. Not modelled

The text of commands and responses (quoting, validation, base64, UTF-8), TLS, the types
of parsed data (accessors without state), a server that spells a mailbox name in another
way than the client, a second `init` on one `Handle`, the state after LOGOUT, a receiver of
`unsolicited_responses` that was dropped, the bytes `into_inner` loses, integers near
`usize::MAX`, and time.

## 7. Plan

1. Done: the receive path with its abstract promise and proofs; every command loop with
   the service it implements; the writer; the test transport; IDLE and login.
2. Done: a theorem for every invariant of the runs, for `UpdatesAreHandedOut`, `ErrorsPersist`,
   and for the refinements of `ResponseStream` and `ImapStream`.
3. Proofs: the refinement of `CommandService` by `Session`, step by step, with a mapping of
   the results that does not need `SelectSeq`.
4. Composition of `Idle` with `Session`: the next command after done().
