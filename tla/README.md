# Verification of malgo

malgo is a Go implementation of the CCSDS MO Message Abstraction Layer (MAL): a
message layer (`mal`), its transports (`mal/transport`), its encodings
(`mal/encoding`), a high-level API for consumers, providers and brokers
(`mal/api`, `mal/broker`), an alternative API (`malactor`) and two COM services
(`com`). These modules model the parts of it that have state shared by several
goroutines or processes, check them with TLC and prove theorems about them with
TLAPS. All paths below are relative to `src/`.

## The system

| part | state | operations | modelled by |
|---|---|---|---|
| consumer operations, `mal/api/operations.go` | per operation: status, transaction id, a channel of replies, a kept response | constructors, `Send` ... `Register`, `GetUpdate`, `GetNotify`, `GetResponse`, `Publish`, `Deregister`, `Reset`, `Interrupt`, `Close`, `onMessage` | `ConsumerOperations` |
| ClientContext, `mal/api/context.go`, `providers.go` | `txcounter`, the table `operations`, the table of handlers, `concurrency` | `TransactionId`, `registerOp`, `deregisterOp`, `OnMessage`, `OnClose`, `Close`; the handlers' registration | replies: `ConsumerOperations`, `Transactions`; requests: `MalContext` |
| transactions of a provider, `mal/api/transaction.go` | none of their own | `Ack`, `Reply`, `Update`, `Notify` ... | what a provider may answer: `Reply` of `ConsumerOperations`; a broker's: `Broker`; with bodies: `ArchiveService` |
| MAL Context, EndPoint, `mal/context.go`, `mal/endpoint.go` | table of listeners, bounded channels | register, unregister, `Receive`, `handle`, `Recv`, `Close` | `MalContext` |
| InVM transport, `mal/transport/invm` | the table of Contexts; the body of the message | `Transmit`, `Close`, `Reset`, `EncodeParameter` ... | `MalContext`, `MessageBody` |
| TCP transport, `mal/transport/tcp/tcp.go` | outgoing channel, table of connections, `running` | `Transmit`, `Close`; goroutines `handleOut`, `handleConn` and one `handleIn` per connection | `TcpTransport`, `Delivery` |
| TCP codec, `mal/transport/tcp` | the body of a message | `encode`, `decode`, `readMessage`, the methods of `TCPBody` | `TcpCodec`, `TcpFraming`, `MessageBody` |
| encodings, `mal/encoding`, `mal/encoder.go`, `mal/decoder.go` | a buffer and its offset, the bit field | encode and decode of each attribute, of nullable, abstract and list elements | `BinaryBuffer`, `BinaryEncoding`, `Elements` |
| data types, `mal`, `com`, `com/*` | none | `Encode`, `Decode` of 44 types and 44 lists | `DataTypes` |
| broker, `mal/broker/handler.go` | tables of subscribers and publishers, one `UpdateValueHandler` | the five PubSub handlers, a local broker's `PublishRegister`, `Publish`, `PublishDeregister` | `Broker`, `PubSub` |
| matching of updates, `mal/entitykey.go` and `handler.go` | none | `EntityKey.Match`, `domainMatches`, `matches` | `EntityMatching` |
| COM archive, `com/archive` | per helper and per operation: how far it has come | the six operations of the consumer, their handlers and helpers | `ArchiveService` |
| malactor, event and activity tracking, access control, logger | see "Not modelled" | | |

How they interact. An application's goroutine calls an operation, which enters
itself in the ClientContext's table and hands a message to the Context, which
hands it to a transport. A transport calls `Context.Receive` from its own
goroutines, which puts the message in the channel of the Context; **one**
goroutine per Context (`handle`) takes it and calls `OnMessage` of the listener.
A reply goes through the table to the channel of its operation, where a
goroutine of the application waits; a request goes to a provider's or broker's
handler, in this goroutine, or, after `SetConcurrency(true)`, in one of its own.
The InVM transport calls `Receive` of the destination in the sender's goroutine;
the TCP transport encodes the message, with a body that the application has
already encoded, and its peer decodes it. The archive is a service over all of it.

Hard about it: the channels of most operations are unbuffered, so that one
goroutine stands still until an application reads; those of Contexts and
EndPoints are bounded, so that a sender stands still in the middle of another
Context's work; operations are reset and closed from other goroutines while
replies are on their way; handlers make calls of their own; the tables of the
ClientContext and the broker have no lock; TCP connections fail at any moment
and replace each other under one key; publications share one value handler; an
encoder and its decoder must agree, byte by byte, on types found by a number.
`PROJECT.json` lists these hazards at their lines.

What makes each part correct: a reply reaches the operation it is for, or
nobody (operations, ClientContext, MAL Context); a message reaches its own
destination at most once and in order (transports); what was written is what is
read (codecs); each subscriber is told of what it asked for, once, with
the right values (broker); the consumer of a service learns what its provider
did (archive); the goroutine that delivers messages comes back.

## Modules

**`ConsumerOperations`.** The variables are the fields of `OperationX` for each
operation, the fields of `ClientContext`, the messages on their way (`inbox`),
the position of the Context's goroutine (`handler`) and of each application
goroutine (`thread`), and the remote side's view of each transaction
(`exchange`). A call is a chain of actions: `Begin` (status test), `RegisterOp`,
`Transmit` or `TransmitFails`, `Await` (it evaluates `op.ch`), then one of the four
outcomes of the receive. `Conclude` is what each method does with the message
it has received: the test of the stage, the new status, the finalization.
`OnMessage`, `Buffer` and `BufferError` are the Context's goroutine. `Close` and `Interrupt`
come from any goroutine the scenario allows. `Program` says which goroutine
makes which calls, and `Provider` whether the remote side obeys the protocol.

**`Transactions`** is the promise: ids are handed out in order, each is opened
for replies at most once, and one that is over stays so.

**`TcpTransport`.** `ch` is the outgoing channel, `out` the local variables of
`handleOut`, `conns` the table, `address`, `local`, `remote`, `wire` and `reader`
describe each connection (key, is either end open, data on its way, position
of its `handleIn`). The actions are the steps of the goroutines between two accesses
to the table, the network or a channel; the lock of the table is held within
one action. The remote ends (`PeerReads`, `PeerCloses`) and the Context's reader are
external.

**`Delivery`** is its promise: an accepted message reaches its own destination
once, or it is lost.

**`Broker`.** `subs`, `pubs`, `list` and `values` are the fields of `BrokerHandler` and
`BlobUpdateValueHandler`; `task` is the position of each goroutine in a handler,
with the iteration of `doPublish` (`must`: the keys it still has to produce,
`seen`: those it has). Go lets an iteration produce an entry added meanwhile, or
not, and forbids that of a deleted one: `Forget`, `Select` and `RangeEnds` say so.
An update value is a pair of its publication and position, so that a property
can tell whose values a NOTIFY carries. Which headers match is a constant
(`Selects`), which `MCBroker` computes with `EntityMatching`.

**`PubSub`** is its promise: a publication it accepts is told once to each
subscription that is active throughout and wants it, at most once to one that comes, goes or is
replaced meanwhile, and to nobody else.

**`MalContext`** composes Contexts, ClientContexts, EndPoints and the InVM transport.
A goroutine is a stack of frames, because the transport runs in the sender's
goroutine and a handler makes calls: `Call` pushes the frame of a request, `Run` moves the
frame on top (the send that may block, the receive, the handler), `Loop` is the
goroutine of a Context, `Closing` the one that ends a client or a Context, listener
by listener and, in a client, operation by operation. Between `Evaluate`, where the Context's goroutine finds the
operation of a reply, and `Deliver`, where it sends, and between a call's `Send` and its `Await`, where the caller evaluates
`op.ch`, such a `CloseOp` may come: then who comes later waits on a nil channel for ever (the place "nil" of a frame), and one
that is sending panics. What `Clean` finds in the table after the loop is `lost`: its call waits on a channel that nobody closes. `answers` records how each call ended and with whose reply, `dropped` what
`handle` and `OnMessage` threw away.

**`ArchiveService`.** The generated code is one copy per operation; here a record
per operation says what is particular (the stages, the types in each body), and an
action what the copies share: `Consume` is the consumer's goroutine, `Serve` the
provider's helper, `Deliver` and `Unblock` the Context's goroutine. A body is the
sequence of its types, so that a decoding of the wrong type or of too much is seen.

**`BinaryBuffer`, `BinaryEncoding`, `Elements`, `DataTypes`, `TcpCodec`, `TcpFraming`** are pure functions
over a buffer that is a record (bytes, offset, bit field, outcome "ok", "error" or "panic").
They are layered as the packages are: bytes and flags of the three encodings; numbers,
varints, texts and times; presence flags, short forms, abstract elements and lists; the calls that
each generated `Encode` and `Decode` makes; the header of a TCP message; how a stream is cut into messages. A field that is
encoded by one method and decoded by another would be found. The number of
bits of a byte and the widths of the integers are parameters.

**`MessageBody`** is what the application sees of a message: `EncodeParameter` until
the message is transmitted, then `DecodeParameter`, over both transports.

**`EntityMatching`** are pure functions with the outcomes "yes", "no" and "panic". The names of a domain, the requests and
the keys may be NULL, as their lists decode, and what the code does with the pointer is modelled. Its
reference definition `Asked` is written from the rules e) to l) that
the comments quote, without order of evaluation and early exits.

## What is checked

A run's name is that of its configuration. Where an operation buffers 10 or 5
messages, and a Context 10, the model buffers one: full, empty and between are what differs. Every other bound is
a constant of the module (`MaxTid`, `MaxReplies`, `MaxConn`, `MaxFaults`, `MaxCalls`, ...). The modules
`MCCalls`, `MCTcpScenarios`, `MCMalContext` and `MCMessageBody` put several scenarios in one run: a variable,
chosen in the first state and never changed, says which operations, messages or values
exist and which failures may happen; it restricts what the application, the
network and the remote side do, never a fair step of the code.

| run | bounds | shows |
|---|---|---|
| `ops_calls` | Submit and Request, Invoke and Progress, Subscriber and Publisher; 3 ids each; errors; requests refused in the first two pairs (a refused `Deregister` leaves NOTIFYs behind, see the remarks) | the table is exact, no panic, nobody waits on a nil channel, replies are of the transaction and stage the call expects |
| `ops_interference` | one Invoke, interrupted and closed by another goroutine, or one Progress whose context is closed; 2 ids; any messages | ids are fresh; `Transactions` is implemented |
| `ops_live` | Invoke, Progress; 2 ids; refused requests; fair | every call returns, the Context's goroutine comes back |
| `context_calls` | 2 Contexts of one slot, 3 clients, an EndPoint of one slot, 3 calls, 2 registrations or closings; five scenarios; fair | a call gets its own answer, messages of one goroutine keep their order, only what is too late is lost, a call ends, also when nested back to the first caller, unless a message of it is lost or a Close leaves its goroutine, or that of a Context, on a nil channel (`Excused`) |
| `context_renewed` | a client closed and made again | a violation: the late reply to the first client's call answers the second's |
| `tcp_faults` | 3 connections, and 2 messages, 2 failures, 1 accepted; or 2 destinations, 1 failure, 1 incoming message; or 2 names of one host, 1 bad message, 1 failure, `Close`; or 3 messages, no failure; or 3 messages to 2 names, no failure | each entry has a goroutine that removes it; nothing is misrouted, in two places or out of turn; `Delivery` is implemented |
| `tcp_live` | 4 connections; a bad message before or after a good one, or 1 failure and 2 incoming messages; fair | the queue moves past a bad message; a dead connection leaves the entry of its address |
| `message_roundtrip` | values of each type and list, boundary numbers and texts, instants at the limits of 16 bits of days and of 64 bits, NULL fields and items, every kind and flag of the header; 3 encodings, 2 transports; bytes of a few bits | what is read is what was written, nothing is left, the errors are those of values without an encoding, the frame is as long as the header says |
| `archive_calls` | 2 calls of the six operations, 2 updates, 1 failure; fair | the consumer sees what the provider did, or an error; its calls end |
| `broker_serial` | 1 goroutine, 2 consumers, 2 publications, 4 requests | values intact, only owners change subscriptions |
| `broker_concurrent` | 2 handlers and a local publisher, 1 consumer, 2 publications, 3 requests | `PubSub` is implemented; a registration that is notified is accepted: its acknowledgement was sent or a goroutine has it to send |
| `match_rules` | 2 subkeys; domains up to 3 names; 1 request, and pairs; NULL names, requests and keys | `matches` is what the rules ask for |

Why these bounds are enough. A transaction id is compared with others only: two
are needed for a stale one to meet a current one, three for a reset
of one of two operations. A connection is replaced by one other, which may be replaced by a
third while the goroutine of the first still cleans up. Three calls are a call nested in one
nested in another, which closes the circle of the three clients; a fourth would pass through it
again. Two publications and one
request changed between them exercise every interleaving of an iteration with a
table; a third subscriber would repeat the second. Sub-keys are compared one by one and with
the same four lines: two stand for four. Each type is encoded field by field, with no
state but the buffer, so that two parameters in a row show what one leaves to the next; a
varint of a few bits has the same one, two and last bytes as the real one. The operations of the archive share
nothing but the Context: two calls in a row show what one leaves to the other. The proofs below need none of the bounds.

One run expects a violation: `context_renewed`. It, and the following configurations,
state what a comment or the documentation says and the code
does not do; run them with the module in parentheses. `PROJECT.json` quotes each under "findings".

* (`MCConsumerOperations`) `ops_early_response`, `ops_stale_response`, `ops_stale_reply`: a reply of
  the wrong stage, or of the transaction before `Reset`, is taken.
* `ops_closed_reuse`: `Close` under a waiting call ends in a state that can be reset.
* `ops_close_panic`: closing the context while a reply is being delivered panics.
* `ops_pipelined`: a goroutine that does not read one reply blocks the next one for ever.
* (`MCTcpScenarios`) `tcp_close_leak` (with `-continue`): the goroutine of a dead connection deletes
  the entry of its successor (`AllConnectionsKnown`), which `Close` then does not close (`CloseIsComplete`).
* `tcp_close_panic`: `Close` races with `Transmit` and new connections.
* `tcp_two_names`: with two names of one host a message overtakes another, with no failure.
* (`MCBroker`) `broker_stale_values`: a NOTIFY carries the values of the publication before, if its own do not decode.
* `broker_unknown_publisher`: a PUBLISH of an unknown publisher panics.
* `broker_ack_order`: a local publisher notifies before the REGISTER_ACK.
* (`MCEntityMatching`) `match_panics` (with `-continue`): matching follows a NULL name or sub-key (`NullCompared`), or an index of -1 (`DomainsCompared`).
* (`MCMessageBody`) `message_pairs`: `NamedValue` and `IdBooleanPair` are encoded with a flag that their decoding does not read.
* (`ArchiveService`) `archive_late`: an implementation that answers twice leaves the consumer's Context waiting.
* `archive_errors` (with `-continue`): the consumer cannot read the error of an implementation that returns a plain one
  (`ErrorsReadable`); an update that cannot be encoded is not sent, and nobody is told (`UpdatesArrive`).

## Fairness

Go runs every goroutine that can run, so each step of a call, of the Context's
goroutine and of `handleOut` is weakly fair. Goroutines blocked in a channel are
served in their order, so that `Receive` of a connection, which others may overtake
at the full channel, is strongly fair. A destination that is dialed again and
again answers in the end (strong fairness of `Dial`); for one that never does the queue
stands still, as the TODO in `handleOut` says. The remote side answers each request
(weak fairness of `Reply`). `ReadingSpec` adds that the application goes on reading a transaction
it started: without it `HandlerComesBack` is false, which `ops_pipelined`
shows with the other order of calls. Safety is checked without any fairness.
In `MalContext` each goroutine, whatever it is in (`Step`), is weakly fair, and a handler ends:
a blocked send waits for room that only these steps make. The goroutine that reads an EndPoint goes on reading.
In `ArchiveService` the consumer, the provider's implementation and the Context's goroutine are weakly fair.

## What is proved

All theorems hold for all values of the constants under the `ASSUME`s of the modules.

* `ConsumerOperations_proofs`. `TypeCorrect`: the types, for any program and remote
  side. `AlwaysFresh` and `ImplementsTransactions`: if one goroutine makes the calls
  of each operation (`SingleUser`; others may interrupt and close it)
  `registerOp` never meets an entry, and the operations implement
  `Transactions`. The invariant `IdsFresh` says that no two operations have one id, that no entry
  lies above `txcounter` and that an operation about to register has no entry yet. All
  actions but six leave these facts alone (`Quiet`), the six are treated one by one.
  `TableAlwaysExact`: if moreover that goroutine closes the operation and nobody closes the
  context (`OwnerCloses`), the table holds an operation exactly while its transaction is under way.
  The invariant `Exact` adds who is inside which call: a goroutine between `registerOp` and the end
  of its call is the one that owns the operation (`CallsOwned`, `ClosesOwned`), whose channel it has
  not closed (`ChannelsOpen`), and the status and the message it waits for go together
  (`EntriesReceive`, `ContextKept`). `OnlyClosePanics` and `OnlyCloseBlocks`: if nobody closes an operation or the
  context (`NobodyCloses`), no goroutine panics or waits on a nil channel, whoever shares an operation. The invariant `Intact`
  says that whatever leads to an operation (a call, an entry, the handler) leads to one whose channels exist. `ops_close_panic` shows
  what Close may do.
  `RepliesOwn` and `StagesExpected`, under `Undisturbed`: a call returns a message of its own transaction and never one of an
  unexpected stage, however operations are reset and transmissions refused. `Undisturbed` is `OwnerCloses` with a remote side
  that keeps to MAL, no `Interrupt`, no `GetResponse` of a Progress operation (its last answer ends `GetUpdate`) and, where
  `Context.Send` may refuse, no `Deregister` of a subscriber; the findings and the remarks below say what goes wrong otherwise.
  `RepliesMatch` needs to know that a transaction which ends has nothing left in the channel. `Answered` says so: every message
  is one of MAL's and, if it is the last, its transaction is over (`Genuine`); nothing follows a last answer and an opening
  one follows nothing (`InLine`); what has arrived belongs to the transaction under way (`Current`); and the status, the call
  under way and the remote side are at the same point (`Agree`, `InStep`).
  `LateClosesHarmless`: if moreover an operation is closed only before its first call or after its last answer (`ClosesLate`),
  nothing panics and nobody waits on a nil channel: what the handler holds for an operation between its two steps keeps that
  operation from being finished, hence from being closed (`Reached`).
* `MalContext_proofs`. `TypeCorrect`, with the bounds of the channels; its invariant `Consistent` says that every message
  in a channel, an inbox or a frame carries the id and the addresses of the call it belongs to, and every entry
  of a table those of a call. `AnswersMatch`: a call returns the reply to its own request unless a
  ClientContext is made again for an address that has made calls (`FirstUse`). `Matched` adds `Counted` (ids of a client
  are below its counter) and `Apart` (two calls of a client have different ids); such a client breaks both, which `context_renewed` shows.
  `OrderKept`: a client that never uses "go", or goes on using it (no client leaves `concurrency`), handles what one goroutine
  sends in the order it was sent when it runs its handlers without "go". `Straight` says that the frames of a stack nest (`Deep`), that a message waits in the channel
  of its own Context (`AtHome`), that a goroutine sends only its own calls (`OwnSends`), that without "go" only the
  Context's goroutine handles (`InLoopOnly`), and that what a client has handled (`Heard`), what arrives and what is leaving follow
  each other in order (`Lines`). `LossesExcused`, under `FirstUse`: a Context drops only what comes too late.
  `Tracked` says that a message is in one channel or one frame, once (`OnePlace`), that a request under way
  waits in the table of its caller unless its operation was closed or went with the table (`Answering`), and that what is registered from the first on
  is served (`KeptServed`); an excuse, once there, stays.
* `TcpTransport_proofs`. `TypeCorrect`; `TableKept`: an entry under the address of a connection has
  a goroutine that will remove it; `RoutedRight`: no message is written to
  another destination's connection. The invariant `Routing` adds that entries
  point to connections that were made, and that the connection
  `handleOut` holds leads to its message's destination, by name or by address.
  `OnceEach` and `ImplementsDelivery`: a message is in one place, and `Delivery` is implemented. The invariant
  `Single` says that neither the queue nor a connection nor what a destination has read holds a message twice
  (`NoRepeats`), and no two of them one (`OnePlace`). Each step that moves a message is described by what it does to its place
  (`Accepts`, `TakesHead`, `Writes`, `Reads`), all others move none (`OthersMove`).
  `ArrivesInOrder`: `Ordered` adds that, while every connection is open and a destination has one name, its connection is
  alone and in the table, or about to be (`Alone`): it is entered once more by its own `handleIn`, which changes nothing, and an
  entry is deleted only after its connection was closed (`DeletesClosed`). A message ahead of another
  on this one way was sent before it (`QueueInOrder`, `TravelInOrder`).
* `Broker_proofs`. `TypeCorrect`, for any number of goroutines. `UpdatesKept`, for
  one goroutine and values that decode (`Serial`): the handler of the values belongs
  to the publication under way and is empty between two subscribers (`Collected`). `OnlyAccepted`, for any number of
  goroutines: a REGISTER that is notified was answered without an error, or has that answer to come from the goroutine that
  entered it, even when another goroutine notifies, replaces or deletes the entry meanwhile. The invariant `Promising` says so
  of what is in the table and of what a loop has taken from it. Which of the two arrives first is not decided (`broker_ack_order`).
  `OnlyOwnersChange`, for any number of goroutines: if no two subscribers
  have one key, only its owner changes a subscription. `ImplementsPubSub`, under the same
  assumption: every step of the broker is one of `PubSub` or none. The invariant `Notified` says that one goroutine
  publishes a publication (`OnePublisher`), that subscriptions and notifications have transaction numbers of their
  own (`Numbered`), that a loop which has not begun has told nobody (`Untold`), and (`Produced`) that a loop under
  way has yet to produce only entries that exist and has produced all those it has notified, so that
  what it owes (`Owing`) was not told (`OwingUntold`). `Becomes` and `Bystanders` confine a step to one goroutine; the
  steps that `PubSub` does not see are treated together (`Quiet`). `broker_stale_values` shows that `Serial` is
  needed for `UpdatesKept`; with `ClashConsumers` and `ClashIds` of `MCBroker`, two consumers with one key, in place of
  those of `broker_serial.cfg`, TLC finds `OnlyOwnersChange` and `ImplementsPubSub` violated.
* `ArchiveService_proofs`. `AnswersTrue` and `OnlyFaultsPanic`: for any number of calls, updates and
  errors, and applications that keep to the service (no `Habits`), a call returns what the implementation answered, and
  only a fault of the implementation panics. The messages to the consumer (in the operation's buffer, held, and still to come) are one
  stream: all but the last are acknowledgements or as many updates as were sent, and the last says what the implementation did; the
  request waits, is served or is over. This is `Going`, which a panic ends.

* `EntityMatching_proofs`. `MatchesRules`: `matches` is what the rules ask for, for subscriptions and updates of any length,
  and `MatchesTrue` is the property of `match_rules`. `PanicsExplained`: of what decodes from the
  messages, NULL items included, the code panics only on a NULL request, a NULL key, a NULL name among those it compares, a subdomain that
  makes a domain which is empty or ends with NULL, or a value asked for a sub-key that is NULL. Each of the code's loops is
  `Decide`, which stops at the first test that decides; a non-empty set of numbers has a least one, so that (`Decided`)
  the loop says what some test says, or all tests agree with its end. One hypothesis: "*" is not
  the name of a domain. A subscription to such a domain, without a subdomain, would be taken by `domainMatches` for one with a wildcard.
* `Codec_proofs`. `RoundTrip`: in each encoding and for every width, a decoder reads from the bytes of the encoder the attributes that
  were encoded, however many, without an error and to the last byte; a Time loses what is below a millisecond, as
  its format does. `FramesKept`: a connection's stream is cut into the messages that were written to it. `InstantsRefused`: of all
  instants `EncodeTime` refuses those whose timestamp, which wraps in 64 bits, is after the last day of 16 bits, and no others; those of these
  days are written entire. What precedes the epoch, and what wraps (after about 2250), is written as another instant, a finding; `RoundTrip` speaks of the others. The hypotheses: a number is one of its type, 32 bits count the
  bytes of a text and the rest of a message, 16 bits the days of an instant, 64 bits the attributes and the timestamps of these days.
  `Writing` says what an encoder on its way has in its buffer and its bit field; `Precedes`, that the bytes and flags of one
  are the first of another's; `Reading`, that a decoder of the bytes of `z` is where the encoder was at `w`. Each attribute keeps the three:
  that is a lemma for a flag and one for the others, which rest on those for a fixed width (`BigEndianRead`), the groups
  of a varint (`UVarIntCoded`), zigzag (`ZigZagBack`), times and the bits of a byte. Induction and the existence of
  recursive functions are lemmas about sets and functions (`Induction`, `Recursion`), drawn from the well-foundedness of the
  numbers, because the library's theorems take an operator as a parameter.

Only model-checked: liveness (`CallsReturn`, `HandlerComesBack`, `QueueMoves`,
`DeadConnectionsLeave`, `CallsEnd`), which TLAPS does not do under fairness; and the properties of `message_roundtrip`. These are about
composites, lists and abstract elements, whose `Encode` and `Decode` call each other (`RECURSIVE` operators here, which the
prover does not take), and about the header; of what they are made of, the attributes and the frame, the theorems above speak.

## Remarks on the code

Seen while modelling, and in the models, but contradicted by no text.

* Operations: `Close` of a finished operation returns an error; a `Deregister`
  that could not be sent, and a `Reset`, leave NOTIFYs of the old subscription in the channel;
  two goroutines that share one operation may register it twice; `Close` between the
  transmission and the receive leaves its caller on a nil channel; `GetNotify` in
  another goroutine may take the DEREGISTER_ACK.
* Contexts: a provider that is not concurrent and replies to a client of its own Context blocks itself once
  the channel is full, and two Contexts with such providers and full channels block each other; a request without a
  handler, or of another type than its handler's, is dropped without an answer; `EndPoint.Recv` never returns its error "MAL context
  closed"; `SetEncodingFactory` takes effect at the next `Reset` of the body; a second InVM `Transmit` of one message panics, a
  TCP one does not. `ClientContext.Close` closes `op.ch` and sets it to nil under whoever uses it (`operations.go:119-121`): a call that
  has been sent but does not receive yet, and the Context's goroutine that has found the operation of its reply, wait on nil for ever, the
  latter for all clients of the Context; a goroutine that is sending panics.
* TCP: a URI that does not parse occupies `handleOut` for ever; `decoder.go:134` follows the pointer to the sender's URI for a debug message before
  it tests the error; the length of a message is a uint32 to which the header's is added modulo 2^32 (`tcp.go:301`);
  the transport ignores the encoding id of the header; two names of one host share a connection under both.
  A connection that `handleOut` dialed is entered under the name it dialed and, by its `handleIn`, under its address (`tcp.go:358`, `256`);
  when it ends, `handleIn` deletes only the latter (`274`). The other entry stays until a message is written to it, which costs
  that message one of its three tries (`370`). `DeadConnectionsLeave` is therefore about the entry of the address.
* Codecs: an unregistered short form is a nil pointer that is called; `DecodeShort` accepts numbers below 2^17 and `DecodeInteger` below 2^33;
  `EncodeNullableAbstractElement` of a nil interface panics (`mal/encoder.go:529`); an enumeration out of range encodes as ordinal 0, by the
  table `nvalTable_<Enum>`, which `com/archive/expressionoperator.go:62` does not compile with.
* `mal/file.go:159-161` asserts the type of an element before it tests the error that came with it.
* Broker: every DEREGISTER is acknowledged as an error; `handler.go:648` ignores the error of `Notify`; an update without a header panics in
  `doPublish` (`handler.go:624`).

## Not modelled

* malactor: unfinished code without a behaviour; `NewActor` never stores its channel, so that `Start` waits on a nil one,
  `Routing` has no constructor and registering a handler writes to a nil map.
* COM event and activity tracking: wrappers that encode parameters and call one operation.
* Access control, which has no implementation here (`SendErrors` stands for its refusals); logging; test programs.
* Headers without some optional field, which only another implementation sends; `TransmitMultiple` and `ReceiveMultiple`, which nothing calls; the error
  channel of a Context, which nothing writes to; `EndPoint.TransactionId`, a counter.
* What a data race does to a Go map is one action, `MapRace`, of the broker and is otherwise left out: the
  accesses are interleaved as if atomic.
* `GenericUpdateValueHandler` keeps one list per value type and is otherwise like the one modelled. `Close` of the broker closes its
  ClientContext only.

## Plan

What remains: headers with absent fields; the codecs of composites and lists as recursive functions, on which
`RoundTrip` could build.
