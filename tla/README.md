# A TLA+ model of redeo

redeo is a Go library for servers that speak RESP, the Redis protocol.  This
directory holds a TLA+ model of its server, its pub/sub broker, its protocol
readers and writers, its client pool and its info registry, the TLC runs that
check the model on small instances, and TLAPS proofs of the most important
safety properties for every instance.

## The system

| Part | State | Operations | What is hard |
| --- | --- | --- | --- |
| `Server`, `Client` (server.go, client.go) | handlers by lower-case name; per connection a `Client` with reader, writer and a closed flag; two `sync.Pool`s | `Serve`, `serveClient`, `pipeline`, `perform`, `Handle`, `HandleStream`, `Close`, `reset`, `release` | one goroutine per connection, shared pools, pipelined and malformed requests, deadlines, partial writes, handlers replaced while in use |
| `ServerInfo` (info.go) | table of clients, two counters | `register`, `command`, `deregister`, `NumClients`, `ClientInfo` | several steps per update, called by all connections |
| `PubSubBroker` (pubsub.go) | channels by name; per channel subscribers by id, an id counter, an RWMutex | the subscribe and publish handlers, `PublishMessage` | handlers write to writers that belong to other goroutines; double-checked creation; eviction; recycled writers |
| `bufioR`, `RequestReader`, `Command` (resp/) | a buffer with offsets `r` and `w`, a connection | `PeekCmd`, `ReadCmd`, `SkipCmd` over `fill`, `require`, `compact`, `PeekLine`, `ReadBulk`, `skipN` | input arrives in segments of any size; the same bytes are parsed twice; errors must leave the reader on a boundary |
| `CommandStream`, `bulkReader` (resp/) | position, number of arguments, bytes left of the current one | `StreamCmd`, `Next`, `Read`, `Discard` | the handler reads what it likes |
| `bufioW` (resp/) | a buffer and a connection | appends, `Flush`, `CopyBulk`, `Reset` | failures in the middle of a write |
| `Command` (resp/command.go) | an array of arguments, each an array of bytes | `Reset`, `grow`, the reads of `ReadCmd` | everything is recycled from command to command |
| response scanning and encoding (resp/scan.go, resp/value.go) | the destinations of `Scan` | `Scan`, `Append`, `NullString` | many types, integers that wrap around or are narrowed, nested values that fail half-way |
| client pool (client/) | connections, pooled readers and writers, a failure mark | `Get`, `Put`, `Close`, `Wrap`, `MarkFailed`, writes and reads | connections returned with replies unread or still to come, recycled buffers |
| info registry (info/) | sections and values, two levels of locks | `FindSection`, `FetchSection`, `Register`, `Replace`, `Clear`, `String` | double-checked creation, unlocked reads |
| built-in handlers (redeo.go), redeotest | none; recorded bytes | `Ping`, `Echo`, `Info`, `SubCommands`, `CommandDescriptions`, `WrapperFunc`; `Response`, `Responses` | one whole reply each |

`Serve` starts a goroutine per connection.  Its `Client.pipeline` peeks the name
of the next command in its `RequestReader`; `perform` looks the handler up, lets
the reader read the command (or the stream its head), and the handler appends to
the `ResponseWriter`.  The broker's handlers append to the writers of other
connections too.  At the end of a pipeline `serveClient` flushes.  When the
connection ends, reader and writer go to the pools for the next connection.  On
the other end a user gets a connection from the client `Pool`, writes commands,
flushes, reads replies, perhaps with `Scan`, and puts the connection back.  The
`Info` handler prints the registry that `ServerInfo` fills.

What makes the parts correct: the parser stays on request boundaries; replies
come in order, once, to whom they belong, and are not held back while the server
waits for a request of which nothing has arrived; no two connections share an object; the information about clients
is exact; one channel per name, no subscriber lost, messages delivered; the
commands read are those sent, however the bytes were cut; a stream handler gets
its arguments and leaves none behind; the bytes written are those appended; what
a handler returns is what the client scans; a pooled connection has nothing left
on it for its next user; there is one section per name.

## Modules

- **Server** models server.go, client.go and the parts of info.go that they
  call.  `pc[c]` is where the goroutine of connection `c` is: `add`/`inc`
  (`register`), `loop` (the head of `serveClient`'s loop), `peek`
  (`PeekCmd`), `skip` (unknown command), `cmd`/`cmdinc` (`ServerInfo.command`),
  `read`, `stream` (`ReadCmd`, `StreamCmd` and the handler), `check` (the size
  check of `perform`), `discard`, `fatal`/`lastflush` (an I/O error), `flush`,
  `deregister`, `release`.  A request is two pieces of input, its head (what
  `PeekCmd` needs) and its body (the arguments), and may fail to parse in
  either; a read brings in any number of the pieces in flight, and perhaps a part of
  the head after them.  `cut[r]` says that reader `r` has such a part, `begun[c]`
  that the client has sent it (`SendPart`) and not yet the rest (`SendHead`).  With
  a part of a head `Buffered()` is not 0, so `pipeline` goes on to `PeekCmd`, which
  waits for the rest with the replies so far unflushed, also after `Close`.  A reply
  is one unit of the response buffer.  Readers and writers are objects of their own,
  named by the connection that allocated them, with pools that may or may not
  return what was put (as `sync.Pool` may).  A deadline expires at any time, a
  write may be cut short by it; the peer may stop sending or disappear.
- **PubSub** models pubsub.go.  Each goroutine has one writer.  An append of a
  part of a frame is one step; the RWMutex of a channel is explicit, with its
  preference for a waiting writer; the broker's own lock is only held over a
  lookup or a creation, each one step.  `Recycle` is `Client.release` followed
  by `Client.reset`: the writer changes hands and stays in the channels' maps.
  A flush fails because the client is gone (`broken`) or because it meets the
  deadline of a client that is there (`late`), after any part of the buffer, which
  it keeps; a publisher evicts the subscriber in both cases.
- **Requests** encodes requests as the client's `RequestWriter` does, with
  tokens for bytes; a word in quotes is one token, which `Unquote`
  (`appendArgument`) turns into the word.  **Bufio** has the methods of `bufioR` as operators on a
  reader record; since the only nondeterminism of that sequential code is the
  length of each read, a method yields the set of its possible results.  `over`
  is how far `r` has run past `w`; the history `whole` tells whether every read so
  far has had room and has ended with a line or inside a bulk.
- **CommandArgs** models the `Command` that `ReadCmd` recycles: the array under
  `c.Args`, its length, and what a read that fails at any argument leaves in it.
  **RequestReader** composes it with Bufio and drives `PeekCmd`, `ReadCmd` and
  `SkipCmd` as `pipeline` and `perform` do.  The loops of the code are actions,
  one argument at a time: `ReadArg` (`Command.readMultiBulk`), `SkipArg`
  (`SkipCmd`), `DiscardArg` (`Discard`); where `peekCmd`, `readCommand` or
  `SkipCmd` calls itself after an empty array or a blank line, its action is
  taken again.  `pc` is where the goroutine is: `peek`, `perform` (a name has been
  peeked), `bad` (`PeekCmd` failed); `read`, `stream`, `skip` (one of those
  recursive calls); `args`, `bulks`, `discard` (one of the loops); `handler`;
  `end`, `panic`.  `parts` is what a `ReadCmd` has read so far and `left` how much
  its loop has to go.  When it ends, with an error or without, `ReadDone`,
  `ReadArg` or `ReadCmd` takes a step of CommandArgs with the arguments it has
  read.  **CommandStream** adds the stream handlers, which call `Next` and `Read`
  at will before `Discard`, and has the specification of the whole.  A handler has
  of an argument what the counts of its `Read`s say (`Counted`): `bulkReader.Read`
  takes the CR and the LF off the count as it meets them, and where only the LF was
  left the count is -1, so the handler's copy loses its last byte; `alone` notes
  such arguments.
- **ResponseWriter** models `bufioW`.  A write may fail after any part of its
  bytes, and any later one may succeed, since deadlines are set anew
  (server.go:98-99, client/conn.go:49-54).  `acked` are the bytes of the writes that
  succeeded, `out` all that reached the connection; `retried` notes that something
  was written after a failure, `copied` that no `CopyBulk` has failed.
- **Values** has `Append` and `Scan` as operators.  A reply is a sequence of
  elements (array header, nil, integer, inline, error, bulk); a Go value is a
  kind with its text or number and its elements; a destination is a type.
  `Encodings(v)` is the set of what `Append` may write, since a map has no order;
  `scan` yields the rest of the input, the error and the destination afterwards.
  An int64 has `Width` bits, and `ParseInt` adds its digits up modulo that.
  **Responses** puts handlers on one side of a wire and a client with one
  variable, and redeotest's recorder, on the other.
- **ClientPool** models client/.  A session is what a user does between `Get`
  and `Put`; a command is a session and a number, a reply is named after its
  command.  `flight[c]` are the commands on connection `c` whose replies have not
  been read into a buffer, `served[c]` how many of them the server has answered,
  `w[u]` and `r[u]` the buffers of a user's writer and reader.  A read or a flush
  may fail at any time, and a reply may come after that.  `Careful` says what
  the users do: with it they call `MarkFailed` before `Put` unless they have read
  all replies.  Idle connections are kept by github.com/bsm/pool,
  readers and writers by `sync.Pool`; that what these hand out is nobody else's until
  it is put back is their contract, and an assumption of the model.  What client/ can
  get wrong is what a connection, a reader or a writer still holds.
- **Calls** is the abstract specification of both ends: sessions ask, and get
  the answers to what they asked, in order, once.  Server implements it with a
  connection for a session (`asked` is `sent`, `got` what was written to the
  client, less the error of a broken connection), ClientPool with its sessions.
- **Registry** models info/info.go.  Locks are explicit where they are held over
  more than one step: a section's for storing and for printing, the registry's
  for printing all of it.  Values are stored before `Start`, as the comment of
  `Registry` asks.
- **ServerProofs**, **ServerRepliesProofs**, **PubSubProofs**,
  **ClientPoolProofs**, **RegistryProofs**, **ResponseWriterProofs** and
  **CommandStreamProofs** hold the theorems, **SequenceFacts** the lemmas on
  sequences that several of them need.  The **MC** modules
  define the constants and symmetry sets of the runs.  Definitions named as
  mutants in their comments are faulty variants of the definition that follows
  them; the properties are known to fail with each of them in its place.

## Runs

| Run | Instance | Checks |
| --- | --- | --- |
| pipeline | 1 connection, 2 requests, commands get and quit, faults in head or arguments, registrations that change get from handler to stream; weak fairness | `ReaderAligned`, `RequestsAnswered`, `ImplementsCalls`, `ClosedEnd` |
| timed | 1 connection, 2 requests, get, GET and quit (a stream handler that closes), a deadline; weak fairness | `TypeOK`, `RepliesInOrder`, `NoReplyHeldBack`, `ClosedOnlyDrains`, `ConnectionsEnd` |
| pool | 2 connections (symmetric), 1 request each | `PoolExclusive`, `RepliesInOrder`, `InfoTracksConnections`, `CommandsTracked` |
| broker | 2 goroutines, 2 calls of one and 1 of the other, 2 connections per writer, deadlines met on both, frames of 2 parts | `OneChannelPerName`, `SidsFresh`, `SubscribersKept`, `Delivered`, `RangeStable` |
| returns | 2 goroutines, 2 calls of one and 1 of the other, a deadline met on one connection; weak fairness | `CallsReturn` |
| reader | all pipelines of up to 2 of 6 requests and one of 3; 5 pairs in which a request breaks off or is malformed; all sequences of up to 5 tokens; reads of 1 to 3 bytes, up to one spare element per allocation; weak fairness | `TypeOK`, `CommandsReadBack`, `RequestAligned`, `WellFormedAccepted`, `ArgumentsDelivered`, `ArgsOwn`, `InputConsumed` |
| writer | an array of 10 bytes, 14 bytes appended, bulks of 0 and 3 bytes, 2 failed writes | `OutputExact` |
| replies | 2 calls, 44 values of all kinds (numbers at the limits of 3 and 5 bits), 20 types, `Width` 5 | `RepliesWhole`, `ScanAligned`, `RoundTrip`, `NumbersFit`, `RecorderComplete` |
| careful | 2 users, 2 connections (both symmetric), 3 sessions of 2 commands | `IdleClean`, `OwnReplies`, `ImplementsCalls` |
| registry | 2 goroutines (symmetric), 3 spellings of 2 names, 2 sections, 2 values | `OneSection`, `FetchedListed`, `PrintWhole`, `DumpWhole` |
| subscribers | 2 goroutines, 2 calls each, 2 connections per writer | `OnlySubscribersReached` fails |
| split | pairs of 3 requests, cut anywhere | `LinesReceived` fails |

The type invariants of Registry, Responses and ResponseWriter are conjuncts of
`OneSection`, `ScanAligned` and `OutputExact`; those of PubSub, ClientPool and
CommandArgs are proved.

The bounds are the smallest at which the cases the properties are about occur.
Two requests are one that is being served and one behind it in the buffer or on
the wire; a response buffer of two replies is one that `perform` flushes after
the second.  Two connections suffice for any conflict over one object, and a
connection that ends before the other starts recycles its objects.  Two
goroutines are a publisher and a subscriber, two publishers or two creators; the
second call of one of them lets a subscriber publish and a publisher publish again
after an eviction; a writer's second connection is the one it is recycled to.
The reader's inputs hold empty and non-empty bulks, a bulk that contains a CR LF
and a header, inline requests with and without quotes, blank lines and empty arrays; two arguments after
one or none, and the other way round, grow and shrink the recycled `Command`, and
malformed requests break off before its arguments and among them.  The writer's array takes a small
bulk but not always a larger one behind it, so both ways of `CopyBulk` happen; two failures are a flush that is tried
again and fails again, or a flush and a `CopyBulk`.
Two calls are
the reply that fills a variable and the one that is scanned over it, or that an
incomplete Scan runs into; five bits hold numbers of one digit and of two, and
the digits of the smallest pass the largest.  Three sessions on two connections are two at a time and one that gets
what they leave; two commands are one answered and one not.  In `registry` a
section may be fetched by both goroutines at once, and cleared in between.

Deadlock checking is on in `writer` and `registry`, and off elsewhere:
connections end, clients stop, calls run out.  Liveness and progress are stated
as temporal properties instead.

### Fairness

`Serve(c)` and `Step(p)` are weakly fair: Go's scheduler runs every goroutine
that can run.  This takes network writes to end.  With `Config.Timeout` they do;
without it a peer that never reads blocks the goroutine that writes to it,
and in `Publish` also those that wait for the channel's lock.  `RequestsAnswered`
and `ClosedEnd` also assume that a client completes a request it has begun
(`SendHead`, `SendBody`), unless it leaves; nothing is assumed about further requests,
except that there are finitely many.  `ConnectionsEnd` assumes no
such thing but that time passes (`Expire`), and that the client makes finitely
many requests, which `MaxRequests` bounds.  In `CommandStream`, `Next` is weakly
fair: the loop runs while there is input, and a stream handler returns.

### Disagreements of code and documentation

Two runs state what the documentation says and end in a counterexample:

- `subscribers` (`OnlySubscribersReached`): "Returns the number of subscribers"
  (pubsub.go:49).  `release` pools a writer that is still subscribed; the next
  connection to get it receives the messages.
- `split` (`LinesReceived`): "returns the next line until CRLF"
  (resp/bufio.go:227).  A line is complete at its CR; a segment that ends there
  moves `r` past `w`, and the next `compact` panics.

Thirteen further configurations end in one too; TLC finds each in seconds:

- MCServer_discard.cfg (`ReaderAligned`): "Discard discards the (remaining)
  arguments" (resp/command.go:199).  With a deadline, `Discard` may fail half-way;
  its error is dropped (server.go:147), and if no reply is pending the loop goes
  on with a new deadline and parses the arguments as a request.
- MCServer_bounded.cfg (`ResponseBounded`): "MaxBufferSize is the max
  request/response buffer size" (resp/resp.go:104).  The reply to an unknown
  command skips the check of the buffer (server.go:127-131).
- MCServer_counted.cfg (`TotalIsExecuted`): "the total number of commands
  executed" (info.go:138).  Commands whose arguments fail to parse or never
  arrive count too (server.go:134).  `CommandsTracked` is what holds.
- MCServer_idle.cfg (`IdleConnectionsEnd`): "IdleTimeout forces servers to close
  idle connection" (config.go:11).  Nothing reads it.  The configuration is fair
  to the server's goroutines and to time.
- MCServer_closing.cfg (`ClosedEnd`): "Close will disconnect as soon as all
  pending replies have been written" (client.go:73).  Not while part of a further
  request is buffered (client.go:96): `PeekCmd`, or `ReadCmd`, waits for the rest, and
  the pending replies wait with it.  The same fairness, which does not include that
  clients complete their requests; with that, `ClosedEnd` holds (`pipeline`).
- MCPubSub_frames.cfg (`FramesWhole`): "send protocol-compatible responses"
  (resp/response.go:14-15).  Each append is atomic, a frame is not (pubsub.go:105).
- MCCommandStream_segments.cfg (`ShortLinesAccepted`): "too big inline request"
  (resp/resp.go:90).  `PeekLine` fills once (bufio.go:209); a short line in two
  segments is "too big".
- MCCommandStream_counts.cfg (`ReadsAdd`): "Next returns the next argument as an
  io.Reader" (resp/command.go:239).  Its `Read` should return how many bytes it has
  read, and returns -1 when it reads the final LF alone (bufio.go:316-319).
- ResponseWriter_retry.cfg (`NothingRepeated`): "send protocol-compatible responses"
  (resp/response.go:14-15).  A flush keeps its whole buffer when a write fails after
  some of it (bufio.go:583-585); with a new deadline the next one repeats that part.
- MCResponses_nullable.cfg (`NullReflectsReply`): "NullString ... can deal with nil
  values" (resp/resp.go:51).  A nil leaves an earlier value and its `Valid` in
  place (resp.go:59).
- MCResponses_nested.cfg (`RejectsBadTypes`): "should reject bad custom types"
  (resp/response_test.go:131).  Inside a slice or a map the error is dropped
  (value.go:66), and the array is one item short.
- MCResponses_first.cfg (`ResponseIsFirst`): "Response returns the first response"
  (redeotest/redeotest.go:51).  It returns the last (redeotest.go:57).
- MCClientPool_example.cfg (`OwnReplies`): "Call this method after every
  call/pipeline" (client/pool.go:54), which the example of client/README.md
  defers.  A session that ends with replies unread leaves them to the next one.

### Other disagreements met while modelling

The model has these too, except where it says otherwise; no configuration of its
own states them.

- A line that overflows the buffer is rejected by `PeekCmd` and never consumed
  by `SkipCmd`.  `InputConsumed` is therefore for inputs that fit the buffer.
- `PeekCmd` and `ReadCmd` disagree on blank lines and quoted names: `PeekCmd` leaves
  the quotes on.  Lines with quotes in their other arguments are part of the runs
  and of the proofs; quoted names are left to raw requests.
- A flush that meets the deadline of a subscriber that is there evicts it
  (pubsub.go:111), and nothing tells the subscriber, whose own loop may go on with a
  new deadline (server.go:98-99).  `SubscribersKept` and `Delivered` are about the
  connections on which no flush has failed.
- A `CopyBulk` that fails past the buffer empties it (bufio.go:556); what is written
  later follows a bulk that was cut short (`OutputExact` excludes it by `copied`).
- "This method is not thread-safe", says the comment of `ServerInfo.Fetch`
  (info.go:119); "info registries are not using locks are therefore not thread-safe",
  that of `Registry` (info/info.go:10-12).  Both are stale: `FetchSection` and the rest
  of info/info.go take locks, and concurrent calls are safe (`OneSection`,
  `FetchedListed`, `PrintWhole`).  What is left of the warning is that
  `Registry.String` reads the values without the section's lock, so values have to be
  registered before the server starts (`DumpWhole`).
- `CommandStream.Next` before the previous argument was read to its end leaves
  the rest in the reader (`RequestAligned` and `ArgumentsDelivered` exclude it by
  `orderly`); a blank line before an array makes `ArgN` 0.
- `CopyBulk` from a source that ends early sends a short bulk, or stale bytes
  (`OutputExact` excludes it by `whole`).
- A `Scan` that wants no array where it meets one reads the header and leaves the
  items; so do a map for an array of odd length, a map's key that fails and an
  error in an array that is skipped (`ScanAligned` excludes them by `Shaped`).
- `ParseSize` adds digits up in an int64 that wraps around and rejects only a
  negative result (bufio.go:420-425): a size that is too large may come out as
  another, and `int(sz + 2)` as a negative number.  The model has sizes that fit.
- `Scan` narrows an integer reply without a check, and does not shorten a slice.

## Proofs

The theorems hold for every value of the constants that satisfies the named
assumptions of the modules (`LowerAssumption`, `RegistrationsAssumption`,
`FaultsAssumption`, `BoundsAssumption`; `NoneAssumption`, `CallsAssumption`;
`PoolAssumption`; `SpareAssumption`; `SplitAssumption`, `SizeAssumption`,
`BytesAssumption`, `InputsAssumption`, `StreamAssumption`; `RegistryAssumption`;
`WriterAssumption`): any finite set of connections, any commands, any number of goroutines, channel
names, requests, calls, parts of a frame, users, sessions and sections, and
buffers and bulks of any size.  Where a theorem has a hypothesis of its own, it is
named below.

**ServerProofs**: `TypeCorrect`, `PoolsExclusive` and `InfoCorrect`.  `TypeOK` is
inductive only together with `HeadHeld`: a goroutine that goes on to use a head
it has peeked still has it, or `Head` of an empty sequence would be of no type.
`PoolExclusive` needs one fact about connections that have not started
(`PoolInv`): the objects they would allocate are in no pool and nobody's, since objects are named
by the connection that allocates them.  `InfoTracksConnections` needs that ids
are at most `clientInc` (`InfoInv`), so that a new one is fresh, and that the two counts
step together with the sets they count (`FS_AddElement` and its like).

**ServerRepliesProofs** is about what a client gets: `ClosedConnectionsDrain`,
`RepliesDelivered`, `RepliesOrdered`, `AlwaysAligned`, `CommandsCounted` and
`ServerImplementsCalls`.  The argument has four layers.  First, what a step does
to the connection that takes it is said in that connection's terms (what is in
*its* writer, what is left of *its* input; the `...View` lemmas), and that it does
nothing to the others (`Untouched`), which rests on `PoolExclusive`.  Then
`Control`: at each place of the goroutine's program, whether a request is in
front, and that nothing is in the writer where `serveClient` waits with nothing
buffered.  That a goroutine which has been sent back to `PeekCmd` has something
buffered, a whole head or a part of one, holds because a step consumes only the
request in front and a part of a head stays in the reader (`KeepsInput`,
`Proceeds`).  Then
`Output`: the replies received and those in the writer are together as many as
the requests answered, all of this connection, with a fatal error only at the
end, unless the peer is gone or a write has met the deadline (`Silent`).
`ReplyInv` is these three, and gives the first two theorems.  Last, `InputInv`:
the unparsed input, read or on the wire, is a sequence of whole requests, numbered
from the one after the last answered to the last sent (`Parses`), and the replies
are numbered in order (`InOrder`).  This layer has the hypothesis `Steady`: with
`Config.Timeout`, handlers of streamed commands close their client.  Without it
the theorems are false, which MCServer_discard.cfg shows: a `Discard` cut short by
the deadline leaves arguments in the reader and goes on.  Without a timeout
`Steady` is empty.  `ServerImplementsCalls` maps each step to an `Ask`, an
`Answer` of the replies flushed, or a stutter; that the abstract counts are those
of the replies received is `Tallied`.  `CommandsCounted` adds
`CommandsTracked` itself to the invariant and follows the counter through the two
steps of `ServerInfo.command`.

**PubSubProofs**: `TypeCorrect`, `OneChannel`, `FreshSids`, `NoSubscriberLost`
and `StableRange`, all from one inductive invariant (`Inductive`): the type
invariant; `OneChannelPerName`; that a publisher in its loop holds the lock for
reading, so that the ids it has yet to visit stay in the map (`RangeInv`); that
ids are at most the channel's counter and that an id being inserted is in no
publisher's list of failures (`IdsInv`, `SidsFresh`); and `KeptInv`: a connection
that subscribed, is there and has met no deadline (`Lost`) has an entry that no
publisher is about to evict.
The last is why `SubscribersKept` alone is not inductive: between a failed flush
and the eviction the writer may have gone to a new connection that subscribes
under another id, and only the old id is on the list.  The invariant was checked
with TLC before it was proved.

`AllDelivered` (`Delivered`) is about the writers that are not lost and still serve
the connection they served when the publisher took the lock (`Good`), whichever
connection that is.  It rests on `DeliveryInv`, checked with TLC for frames of one and
two parts.  `SnapOf`: of the snapshot a publisher took with the lock, it has visited
what is neither to do nor in hand, and successes and failures are together as many
as that; the snapshot is the map while the lock is held.  `Served`: of the last
part of the message, a connection has as many copies in its client's hands and in
its buffer as it has subscriptions that the publisher has served, and one in the
buffer only between the last append and the flush.  `Dated`: no token is of a call
that has not begun, so that the count starts from zero.  Other goroutines may
append to the same writer and flush it at any time; the count of the two places
together does not change when they do (`ServedOther`).

**ClientPoolProofs**: `PoolSafe`, `RepliesAreOwn` and `Refinement`, for users that
are `Careful`.  The inductive invariant `Inv` has two parts besides the stated
properties.  `Lines`: for a user that has not failed, the replies read, the
replies buffered, the commands in flight and those not yet flushed are together
exactly the commands of the session, in order; for one that has failed, what was
read, buffered and in flight is a beginning of them.  `FreshSessions`: sessions
not yet begun have asked and got nothing.  `IdleClean` is needed in it because the next session inherits what is in flight,
and `Exclusive`, which follows from the contract of github.com/bsm/pool, because
a second user of a connection would add to it.  `Refinement` shows that a
`WriteCmd` is an `Ask`, a `Read` an `Answer` of one command, and every other
step a stutter.

**CommandStreamProofs** is about the readers: `OwnArguments`, `ReaderTypes`,
`ReaderInside`, and from the last `CommandsAreReadBack`, `RequestsAreAligned`,
`RequestsAreAccepted` and `ArgumentsAreDelivered`.  They hold for any number of
requests with any number of arguments of any length, any size of buffer, and any
segments and reads, `SplitLines` or not.  Of the constants they assume that sizes
are positive, that `ArgBytes` has the bytes that a reader may see
(`BytesAssumption`), and what a request is (`InputsAssumption`): a command has a
name, and an inline request is words with or without quotes, the first neither a `*`
nor in quotes, that arrive together (`Typed`).  Everything else a client may send is a "raw" request,
any bytes at all.

- `OwnArguments`.  `ArgsOwn` is not inductive alone: a command with more arguments
  than the last takes in elements past `c.Args`, which must be empty
  (`SpareEmpty`), and they are because every read starts with `Reset` and writes
  only within the new length.  The theorem is about `ArgsSpec`, in which any
  command may come next; `ReaderTypes` has it for the commands a client sends.
- `ReaderTypes` is for raw bytes too, cut anywhere.  Its invariant `Types` adds to
  `TypeOK` that a reader whose `r` has run past `w` has nothing buffered, so that it
  cannot run further, that a command is only read once it has been peeked, and
  that a stream and its data are new outside the handler's call.
- `ReaderInside` is the invariant `IInv`: `Types`, and, while the client has sent
  requests that arrived in whole lines and no handler has left an argument in its
  middle (`WellFormed`), `Aligned`.  This says for each place of the goroutine what
  the unread bytes are: those of the requests after the first `i` (`AtPeek`,
  `AtCommand`, `AtSkip`), behind some bulks of the command being read, skipped or
  discarded (`AtArgs`, `AtBulks`, `AtDiscard`), behind the rest of the argument that
  a handler reads (`AtHandler`).  `RequestAligned`, which only speaks of `pc =
  "peek"`, is not inductive without the other places, nor without the fact that
  `offset` is the end of some empty arrays, all of them buffered.  `Progress` ties
  the bytes to the commands: those after the first so many are the commands among
  the requests left.  It is what makes a name or an argument that was read that of
  the right command, and it fails with blank lines, which are peeked as a command
  of their own and read together with the next (`NoBlank`).  `HasGot` is the part
  for streams: an argument's data and the rest of its bulk are the bulk, until
  fewer than two bytes are left, which are those of its end; what a handler has of an
  argument read to its end is the argument, less its last byte when the LF was read
  alone (`ReadOut`).  `Tidy` is what whole
  lines give: what is buffered ends with a line or inside a bulk, so that a line
  that has begun is complete and `PeekLine`'s one `fill` suffices.  The invariant
  was checked with TLC on the instance of the `reader` run before it was proved.

The lemmas go from the bytes up: for each method of `bufioR` first what its results
have in common for any bytes, then what it does to a line or a bulk that lies in
front of it (`HasAt`, `Begins`), then what `peekCmd`, `readCommand` and `skipCmd` do
to each form of request, and one lemma per action.  That the bytes of a sequence of
requests are those of the first and those of the rest is `FlattenSeq`, by the
induction of SequenceFacts.

**RegistryProofs**: `SectionsUnique`, `SectionsListed`, `SectionPrintedWhole` and
`RegistryPrintedWhole`.  The invariant adds to the stated properties that a
goroutine which stores into a section shares it with nobody who stores or prints
(`LocksHeld`); that whoever creates a section knows its name and whoever has
fetched one has it (`Fetched`); and that nobody stores once the server runs, which
is when the registry is printed (`Quiet`): `DumpWhole` needs it, since
`Registry.String` takes no section's lock.  `DumpWhole` speaks of a flattened sequence;
that `FlattenSeq` of a longer sequence is what one expects is proved by induction
in SequenceFacts.

**ResponseWriterProofs**: `BytesExact` (`OutputExact`), for any size of the array
and of the bulks and any number of failed writes and retries.  `OutputExact` says of
what has reached the connection, until something is written after a failure, that it
is a beginning of the calls' bytes; `Exact` is the same with the rest as a witness, so
that it can be carried along when more is appended, and links it to `acked`.  The steps are
about concatenations: `CopyBulk` through the buffer and past it put the same bytes
in the same place (`ExactBulk`), and a failed write is a part of one that would
have been exact (`PartBegins`, `FailedBegins`).

**SequenceFacts**: induction over the naturals for sets (the library's induction
takes an operator, which cannot be instantiated; a set can), what `FlattenSeq`
returns, and counting: how `Tally`, the number of elements of a sequence that are
in a set, changes with `Append` and `\o`.

Only model-checked: everything temporal (`RequestsAnswered`, `ConnectionsEnd`,
`ClosedEnd`, `CallsReturn`, `InputConsumed`), which needs fairness; and the five properties of
Responses (`RepliesWhole`, `ScanAligned`, `RoundTrip`, `NumbersFit`,
`RecorderComplete`): `Encodings` and `scan` follow the nesting of a value, so they
are recursive operators, and what they compute for every value is an induction over
data.

## Not modelled

The example program; wording and formatting, the contents of the default info
sections; times other than the expiry of a deadline, and the deadlines that users
of the client pool set (a read or a flush of the model may fail at any time);
contexts; `StreamBulk` for clients; response lines that are malformed or cut;
slices of pointers as destinations; the inside of github.com/bsm/pool; the data
race of `bufioW.reset` with a publisher's flush beyond its two orders, and what a
data race on a section's values prints beyond "anything".

## Plan

1. Done: all the models and runs; the theorems about Server, PubSub, ClientPool,
   the readers, Registry and ResponseWriter: each safety and action property that
   a run checks of them is proved, and both refinements of Calls.
2. Open: Values and Responses, by a prover that can do induction over nested
   values; an abstract broker that PubSub implements; the liveness properties.
