# go-CAN in TLA+

go-CAN is a Go library for Controller Area Network buses: one `Bus` interface
with several transports, and the protocols that run on top of it. This directory
models the library's own logic and says what was model-checked and what was
proved about it. Paths and line numbers are those of the repository.

Run a check with `tlc -config <cfg> <module>`, a proof with `tlapm <module>.tla`.

## 1. Inventory

| Part | State it keeps | Operations | What is hard about it | What makes it correct |
|---|---|---|---|---|
| `can.go` Frame, Filter, ValidateFrame | none | ValidateFrame, Matches | limits of four frame formats | nothing malformed gets on a bus |
| `can.go` Bus (interface) | subscriptions | Send, Subscribe, Close | a contract several transports keep | bounded lossy FIFO streams that one Close ends |
| `virtual/bus.go` | list of subscriptions, closed flag, RWMutex, channels, counters | Send, Subscribe, Close, CloseWithDrain, Health, Metrics | senders deliver under the read lock while consumers read, others evict, and Close waits | no send on a closed channel, order per sender, counters that add up, everything returns |
| `optional.go` loans | `sync.Pool` of frames | Loan, SendLoaned, Return | a Return by a former borrower | no frame has two borrowers |
| `safety/e2e.go` | send counter, last counter received | Protect, Unwrap | loss, repetition, reordering, wrap-around, a check outside the lock | a sequence error exactly where the numbering has a hole |
| `socketcan/bus_linux.go` | descriptor, list of subscriptions, done channel, once | New, Send, Subscribe, Close, readLoop | readLoop outlives Close; Close is several steps; two Closes; Subscribe after Close; a dead interface | the Bus contract, no send on a closed channel, no write on a descriptor given back |
| `isotp/transport.go` | one subscription channel per Conn; Send and Recv keep the rest in locals | Send, Recv, waitFC, recvCF | flow control, time-outs, late frames, two goroutines on one channel | whole messages, once and in order; a transfer ends |
| `j1939/tp.go` | reassembly sessions by source address | SendTP, SubscribeTP | interleaved senders, lost packets and announcements, abandoned transfers, a stalled consumer | whole messages of the wanted groups; cancellation ends the goroutine |
| `j1939/pgn.go` | none | Send, Subscribe, EncodeID, DecodeID | bit fields that share a byte; a goroutine that waits for its consumer | the receiver reads what the sender addressed |
| `uds/client.go`, `obdii/client.go` | none but the connection | service methods over `request` | late answers, "response pending" | a call reports what the ECU did with it |
| `dbc` | parsed database | Parse, Encode, Decode | lines that refer to earlier ones; bit paths of both byte orders, clamping, map order | a file means what its lines say; values arrive, or the nearest the signal can hold |
| `adapt.go` | one channel and goroutine per Subscribe | ToMessage, FromMessage, Send, Subscribe, Close | a second channel with its own back pressure and numbering | lossless conversion, numbers that tell what was missed, no goroutine left behind |
| `recorder` | a buffered writer | Record, Replay, FormatLine, ParseLine | cancellation with lines in the buffer; frames that do not parse or are refused | no success for what was not written or sent |
| `cmd/cantool`, `cmd/can-interop-peer` | - | send, dump, subscribe, record, replay, convert; writer, reader | loops over a bus that closes under them | the same |
| `safety/auth.go` | none | Sign, Verify | - | that of the HMAC library |
| `mock` | - | alias of `virtual.Bus` | - | - |
| `examples/` | - | linear uses of the above | - | - |

Interaction. Everything above the transports calls `Bus.Send` and reads the
channel `Bus.Subscribe` returned: an ISO-TP connection is one subscription and one
caller of Send per direction, `SubscribeTP` is a goroutine between a raw subscription
and a channel of its own, a UDS or OBD-II client owns an ISO-TP connection, the relay
adapter, the recorder and the tools are consumers on one bus and senders on another. State is
shared in three places only: the bus (RWMutex), the frame pool, and the E2E counters
(atomic, Mutex). Everything else is channels, whose bounds, closing and loss are what the
models are about.

`PROJECT.json` lists every part with its status, and under `hazards` each place
where the code can go wrong in a way tests hardly reach, with the properties that watch it.

## 2. Modules

| Module | Models | State and actions |
|---|---|---|
| `CanBus` | the contract of `can.Bus` (abstract) | per subscription a life and a stream; `Open`, `Offer`, `Leave`, `CloseAll` |
| `VirtualBus` | `virtual/bus.go` | the mutex as `readers`/`writer` (a waiting writer stops new readers, as in Go), `subs`, channels, counters, one `pc` per goroutine. One action per channel operation of Send's loop: the consumers, a second sender and the announced writer come in between |
| `LoanPool` | loans: `optional.go` and `virtual/bus.go` | the pool as a bag of objects, `release` and `frame` of each object, how far each borrower is. Return is two steps: it calls `release`, then clears it, when the object may be on loan again. A borrower keeps its pointer afterwards and may call Return on it at any time (`ReturnAgain`); the history `spoiled` notes the objects it takes from another borrower that way |
| `E2E` | `safety/e2e.go` | the Protector's count, a wire that loses, damages, repeats and reorders, the Receiver; `Unwrap` is a CRC check and a critical section, other goroutines in between |
| `ProtectedLoans` | the composition of both | borrowers write what Protect returns into loaned frames; what SendLoaned sends goes on the wire |
| `SocketCanBus` | readLoop, Subscribe, Send, Close of `socketcan` | readLoop's program counter, the kernel's queue, the interface, `once`; a critical section that cannot block is one action |
| `MessageChannel` | what users of a message transport rely on (abstract) | numbers sent and received per end; `Submit`, `Arrive` |
| `IsoTp` | `isotp.Conn` at two ends | per end a Send and a Recv in progress (`tx`, `rv`), and the subscription channel `rx` both read. One action per frame sent or taken, time-outs as choices |
| `J1939Tp` | `j1939/tp.go` | per sender its address and the packet it is at; the sessions, the frame being delivered and the output channel of SubscribeTP. `received` notes which message of a sender a delivered frame completes; for it an announcement and a session carry the number of their message, which no guard reads |
| `RequestReply` | what the caller of a diagnostic client relies on (abstract) | per call what the ECU did and what the caller was told |
| `Diagnostics` | `uds/client.go`, `obdii/client.go` | both clients, chosen by `kind`; messages in flight; the ECU (external) |
| `Feeds` | Replay, `cantool send --format json`, the interop writer, and the bus as they see it | the item a feeder is at, its result, the channels of the bus; the bus may refuse a frame and reading may fail at any item |
| `Forwarder` | the goroutines of `canAdapter.Subscribe` and of `j1939.Bus.Subscribe` | program counter, counter and message in hand, output channel; the steps of DropOldest apart. `given` and `pushed` are what it was to forward and what it put out |
| `Sinks` | Record, `cantool dump` and `subscribe`, the interop reader | program counter, result, what is buffered and what was handed to the output, which may fail at any frame; `missing` is a history of the frames `dump` lost that way |
| `Pipeline` | the composition of the three around one bus | who stands where is `arranged`, chosen at the start; the bus may be closed and the programs cancelled at any time |
| `FrameFormats`, `J1939Id`, `SignalCodec` | ValidateFrame and the four forms of a frame; J1939 identifiers; DBC signals | operators only |
| `DbcFile` | `dbc/parser.go` | the lines read and what Parse has made of them; one step per line. `Meaning` says what a file means without reading it in order: for each message its latest definition, the signals that belong to it, the labels given since |
| `FrameJourney` | the composition of these codecs, and `DbcFile` beside them | a frame from the program that makes it over virtual and CAN_RAW buses, relays and recordings; DBC signals are packed one by one in any order, as Go ranges over a map |
| `...Proofs` | - | theorems, section 5 |
| `MC...` | small instances for TLC | constants and their values |

`VirtualBus` and `SocketCanBus` implement `CanBus`; `IsoTp` and `J1939Tp` implement
`MessageChannel`; `Diagnostics` is built on what `MessageChannel` promises and
implements `RequestReply`; `Forwarder` passes on a stream as `CanBus` has it
(`ImplementsStream`). Each refinement is an `INSTANCE ... WITH` at the end of the
detailed module and a PROPERTY of a run. Where a module uses another layer - `Put` in
`IsoTp`, `Reaches` in `J1939Tp`, the connection in `Diagnostics`, the bus in `Feeds` - it is
that layer's contract (in order, bounded, lossy), not its steps.

Data is abstracted to what properties tell apart. A frame on a bus is its sender, a
number and a kind for filters; an ISO-TP or J1939 payload is a sequence of named
pieces, so that a mixture of two messages can be seen; a protected payload is its place in
the numbering; diagnostic messages carry service and item; a line of a DBC file is what it
says and whether it says it properly. `FrameJourney` alone looks into frames, with the real
limits of identifiers, lengths and flags. Histories (`put`, `emitted`, `fates`, ...) are marked
as such and guard nothing.

Definitions named `Fault...` are bugs a programmer could have made in the definition
they precede; PROJECT.json names for each property one that breaks it.

## 3. Runs

| Run | Instance | What it asks |
|---|---|---|
| `virtual_safety` | 2 senders of 2 frames each, of two kinds; an unfiltered DropOldest and a filtered Block subscription, capacity 1; a Close | no send on a closed channel; no subscription skipped by a Send; what was offered was delivered, dropped or is still there; the `can.Bus` contract |
| `virtual_live` | 1 sender; a DropNewest subscription that may stall for ever, a Block one that reads; a Close and a CloseWithDrain whose context may end | every Send, Close and CloseWithDrain returns, readers see the end |
| `virtual_wedge` (violation) | 1 sender, one DropOldest subscription that reads | the same |
| `protected_loans` | 2 borrowers, 2 objects, 3 loans, 2 goroutines that unwrap; counter modulo 3 starting at 2; 5 Protects; one fault on the wire | one borrower per frame and what is sent is what was written, unless a former borrower has returned an object again while another had it; a sequence error exactly at a hole |
| `pipeline` | every feeder with every sink, and every kind of forwarder with a consumer that reads or may stop | no success for what was not sent or written, but by `dump`; numbers that tell what was missed; everything ends after a close |
| `isotp_situations` | two undisturbed transfers (in blocks, without blocks), a faulty bus with traffic both ways, a foreign peer with any flow control at any time | whole messages, in order, at most once; `rxCh` is not overrun; every Send ends; undisturbed messages arrive |
| `isotp_dangling` (violation) | a payload that ends a block | a delivered message is not reported as failed |
| `isotp_mixed` (violation) | a time-out and a retry | Recv returns a message that was sent |
| `socketcan` | a peer with 2 frames, a subscription before and one that may come after Close, 2 Closes, a sender, an interface that may go down | no send on a closed channel, no write on a descriptor given back, the `can.Bus` contract, a shutdown that completes |
| `j1939_tp` | 2 goroutines with an address each or a common one; messages of 2 and 3 packets, of the wanted and of another group; loss; abandoned transfers; a stalled consumer | every part of a delivered message in its place; whole messages in order where nothing could confuse them; cancellation ends the goroutine |
| `diagnostics_calls` | 3 calls of 2 services on 2 items by either client, lost and late answers, up to two "response pending" | no other service's answer taken for success; until the first failure each call reports what the ECU did; a reliable connection answers |
| `frame_limits` | frames at and just past every limit, J1939 frames of 54 priorities, groups and destinations from 2 addresses, 432 DBC messages, two hops; DBC files of up to 4 lines, proper ones of up to 5 | nothing malformed gets on a bus; nothing well-formed is changed or refused on the way, except that a tape keeps what a candump line tells and no more, and sockets refuse XL; addresses, signal values and files mean the same at both ends |

Why these bounds. Capacity 1 makes a channel full and empty within one step, which is
where the policies differ; two senders are what it takes to have one between the other's full check
and its send, and two subscriptions to have one served and the other not when something
intervenes. Two frames of a sender show an order. A modulus of 3 starting at 2 wraps at
the first message and again at the fourth. Two pieces beside the first make a
transfer in which one can be missing, late or doubled, and `sns` of 2 makes sequence
numbers repeat as 16 does in a longer message; `isotp_mixed` keeps 16, so its
counterexample is one of the real code. Three calls show a late answer to the first that
the second skips and the third meets. Limits of frames are the real ones. Longer histories repeat
these situations; what does not depend on the bounds at all is section 5.

Deadlock is checked where rest is a mistake: `virtual_live`, `protected_loans`,
`pipeline` and the three ISO-TP runs name the states in which everybody is done as
stuttering steps. In the others a system that is at rest is legitimate (a Block
consumer that stopped, a bus on which nobody sends any more), and `CHECK_DEADLOCK FALSE`
says so.

What the violations show.

- `virtual_wedge`, `virtual/bus.go:112`: under DropOldest Send finds the channel full and
  then receives from it, blocking. If the consumer has emptied it in between, Send waits for ever
  with the read lock held, and Close behind it.
- `isotp_dangling`, `isotp/transport.go:187`: when the last frame of a message is also
  the last of a block, Send waits for a flow control Recv does not send and reports a
  time-out for a message that was delivered.
- `isotp_mixed`, `isotp/transport.go:336`: Recv ignores a First Frame that arrives within a
  message, and waitFC takes a late flow control for its own; after a time-out and a
  retry the pieces of two messages with the same sequence numbers are put together.

Passing runs state conditions where these three, or another shortcoming of the code, would
otherwise break them: `virtual_live` has no DropOldest subscription and a Block reader
that reads; the lengths of `Clean` and `NoBlocks` end no block; `ForeignPeer` has
no receiver that could mix messages, and `Faulty` no retries; `EverythingEnds` excludes
consumers that stopped behind Block or j1939 forwarders, and a DropOldest forwarder in the
same window as that of the bus (`adapt.go`); `ImplementsBus` of socketcan excludes
subscriptions made after Close (`bus_linux.go:135`); `NoTwoBorrowers` and `SentAsFilled` except the objects
that a second Return has spoiled (`optional.go:29`), without which TLC finds a counterexample to either;
`SuccessIsComplete` excepts what `dump` could not print (`main.go:228`); `ChangedOnlyByTapes` says of a taped
frame what is left of it. Each is written out in the property
or in the configuration it is about.

## 4. Fairness

A goroutine that can go on does: weak fairness of the steps of each goroutine, because
Go's scheduler starves none that stays runnable. Weak fairness is also enough for the
RWMutex: a writer that waits stops new readers, and the model has that in its lock state.

- Strong fairness is used once, for `DrainGiveUp`: CloseWithDrain polls and comes back
  to its select again and again, and a context that has ended makes that case ready each time.
- The cancelled case of SubscribeTP's select has weak fairness of its own: Go picks at
  random among ready cases, so one that stays ready is picked in the end.
- Consumers are fair only where a run says they read: `Keen` in `VirtualBus`,
  `arranged.reads` in `Pipeline`. In `SocketCanBus` consumers read on, which
  only the part of `ShutdownCompletes` about them uses.
- Callers, peers, the wire, cancellation and the one who calls Close owe nothing. The
  answer of the ECU is fair in `Diagnostics`, and `ReliableAnswers` is about connections
  that lose nothing.

## 5. Proofs

TLAPS proves these for every value of the constants that meets the named assumptions:
any number of goroutines, subscriptions, frames and any capacity.

| Module | Theorems | Argument |
|---|---|---|
| `VirtualBusProofs` | `TypeCorrect`, `SafetyInvariant`, `NeverSendsOnClosed`, `StreamsEndTogether`, `NothingAfterClose`, `OrderInvariant`, `Implementation`, `WalkIsRight`, `CountersAddUp`, `NoCircularWait` | `SafetyInv`: a sender between the first and last step of its loop holds the read lock and Close holds it alone, so a channel is closed only while nobody is about to send. `OrderInv`: what is in a channel, in hand and still to come of one sender is in order. From both, each step is one of `CanBus` or a stutter. `WalkedInv`: what a walk has left is the end of the list, every subscription before it that wants the frame was served. `AccountInv`: a delivery is a pair of subscription and place, so that a step adds one to a finite set and to the counter. `HolderInv`: the read lock is held by exactly those who are in a walk or a scan, the writer is the one at Lock, and none of these waits for the lock |
| `ProtectedLoansProofs` | `LoansTypeCorrect`, `OneBorrower`, `SentIsFilled`, `GapsAreExact` | `PoolInv`: an object that is not spoiled is in the pool, with one borrower or lost, never two of these. `FrameInv`: what a borrower wrote is in the frame until it is sent. `SeqInv`: the counters are the history modulo `Modulus`; one lemma of modular arithmetic |
| `SocketCanBusProofs` | `LoopNeverSendsOnClosed`, `ReturnIsFinal`, `SocketTypeCorrect`, `SocketImplements` | `WalkInv`: readLoop walks subscriptions with the lock Close needs to close them. `OnceInv`: the second Close returns after the first has done everything. `BusInv` adds the order along the way of a frame: the kernel's queue, the frame in readLoop's hand, each channel |
| `IsoTpProofs` | `TypeCorrect`, `ExchangeInOrder`, `ConnImplementsChannel`, `PacedNeverOverruns` | per direction, when no call is retried after a failure: `SendInv`, Send is as far as it says; `QueueInv`, data frames on their way are parts of payloads in their order, later than what has been received; `RecvInv`, Recv has a beginning of one message, or has missed a frame of it and will not complete it; `FlowInv`, at most one flow control is on its way, Send waits for it, and Recv counts no more frames of a block than Send; `DeliveredInv`. `PacedInv`: a flow control is on its way only when no data is, so a channel never holds more than a block |
| `J1939TpProofs` | `TransfersTypeCorrect`, `PiecesStayInPlace`, `TransfersImplement` | `IInv`: whatever is on the raw subscription, in a session or with the consumer was put there by a sender, at the place its packet number says; a session that is complete has seen every number, by counting. `ChannelInv`, of a sender whose address nobody else uses: its frames go by message number, so a packet in a session of another message has lost its announcement, and when a message is complete no later one has been delivered |
| `DiagnosticsProofs` | `ClientsTypeCorrect`, `SuccessIsOfService`, `ClientsImplement` | `Shape`, `Asked`, `Heard`, `Settled`: requests and answers in flight belong to calls made, those of a call that has not failed to this call alone |
| `PipelineProofs` | `PipelineTypeCorrect`, `AdapterNumbersTell`, `SuccessTellsTruth`, `AdapterImplementsStream` | `FedInv`: a feeder has sent, in order, what comes before the item it is at. `CountInv`: a forwarder's counter is the number of frames it was given, and each number put out is the place of its frame among these. `WayInv`: frames keep their order between input and output. `SunkInv`: what a sink has handed to its output, what it buffers and what waits in its channel are together the stream it was given, and only `dump` goes on after its output has failed |
| `FrameJourneyProofs` | `JourneyTypeCorrect`, `JourneyWellFormed`, `OnlyTapesChange`, `JourneyAddress`, `ParseRight`, `SignalsArrive` | lemmas: `ValidateFrame` accepts exactly what the standard knows; messages and sockets and their inverses lose nothing of a well-formed frame, a candump line exactly what `Retold` takes away (`ToldByLine`), and a second tape no more; no field of a J1939 identifier spills into another. `OriginInv`: until a bus has it a frame is the one the program made, and a J1939 frame is made of the fields it claims; a hop leaves a well-formed frame as it is, or as the first tape has left it. `ParseInv`: the database and the current message are what the lines so far mean; the lemmas say how a line changes what a file means, for each keyword. `EncodedInv`: the frame of a database holds the ones of the signals packed so far and no other bit; lemmas: the walk from bit to bit comes by each position of the signal once, what extraction has added up after *k* bits is *k* bits of the raw value (`ExtractIs`), and a raw value stands for the nearest number of the signal's range (`RawIs`) |

The assumptions are on constants only: different actors have different names,
capacities, buffers and moduli are positive, every subscription has a policy and a set of
frames it wants, an exchange has two ends and lengths a First Frame can state, fields
of frames and groups have their widths (`ProcsAssumption`, `ConfigAssumption`, `LoanAssumption`,
`E2EAssumption`, `SettingsAssumption`, `EndsAssumption`, `FeedsAssumption`,
`ForwarderAssumption`, `SinksAssumption`, `JourneyAssumption`). Of the 18 bits of a J1939 group
`JourneyAssumption` has 17, because `EncodeID` keeps no more (`pgn.go:45` and `:74`); DBC signals
and values it has up to 53 bits, where the float64 the code computes with is exact. TLC
evaluates the assumptions in the runs. The properties themselves are seldom
inductive; each proof therefore goes through the strengthening named above, one step per
action.

What some theorems leave out. `PacedNeverOverruns` is about transfers in blocks no
longer than the channel, of messages that need them: with block size 0, and for single frames,
nothing holds the sender back and `NoOverrun` is a matter of bounds. `ConnImplementsChannel` and
`TransfersImplement` have the conditions that are written in `ImplementsChannel`: no retry after a
time-out, no address that two senders share. `OneBorrower` and `SentIsFilled` except spoiled objects as
their properties do, `SuccessTellsTruth` the output of `dump`, and `ClientsImplement` the calls after the first that
failed or was misled. `DiagnosticsProofs` is about users who make one call at a time.

Sums over bits and powers of two are recursive functions (`Power`, `ExtractRaw`). What holds
of every value of one follows from `Inducts`: a set of numbers that has 0 and with each
number the next has them all, because the least one it lacks would have a predecessor.

`NoCircularWait` is the part of `SendReturns` and `ShutdownCompletes` that is safety, read off the
guards of the steps that can wait: whoever waits for `b.mu` has before him a holder that does not; a
sender that waits for room waits for a consumer in its loop with something to read; and the only
wait that no reader ends is the eviction's, on a channel with the policy DropOldest. That is the
one of `virtual_wedge`; the theorem says there is no other.

Only model-checked is liveness (`SendReturns`, `ShutdownCompletes`, `AllArrive`, `SendEnds`,
`CancelEnds`, `ReliableAnswers`, `EverythingEnds`): fairness and ENABLED are out of this
prover's reach.

## 6. Not modelled

- Floating point (scale and offset of DBC signals, and numbers of more than 53 bits) and the
  int64/uint64 conversions of out-of-range values: results differ between processors. Raw values are
  modelled, with clamping.
- The text of lines (candump, JSON, DBC, tool output): a line is what it says.
- The HMAC of `safety/auth.go`, and the CRC beyond "damage is noticed".
- Time: a time-out may strike whenever the code waits with one. Loops that only sleep
  (STmin, the pacing of Replay, Health intervals) are not steps.
- The kernel beyond a bounded receive queue and an interface that may go down; the reuse of a
  descriptor's number by another file.
- Several goroutines in one direction of an ISO-TP Conn, or several calls at once on one
  diagnostic client. Neither the code nor its documents rule that out or make it safe; the
  models assume one at a time.
- Flags and help texts of `cantool`, the examples, and the separate `relay` module.

## 7. What is left

Where the code and its documents disagree and no run says so. The models have
the steps unless noted:

- Send of the virtual bus ignores its context: a cancelled Send stays blocked on a
  Block subscription (`virtual/bus.go:118`, against `can.go:163-164`).
- CloseWithDrain may close after senders have filled a channel again (`virtual/bus.go:219`).
- The sender of ISO-TP goes on after a second Wait (`isotp/transport.go:164`).
- Socketcan subscriptions made after Close are never closed (`bus_linux.go:135`), and a remote
  frame with a length is delivered as such (`bus_linux.go:261`; frames of foreign nodes are no journeys).
- Two SendTP callers on one address, or a lost announcement, mix two messages; only
  `PiecesInPlace` holds then.
- A late refusal is reported for the current service (`uds/client.go:232`), and an
  OBD-II "response pending" counts as a refusal, which shifts later answers by one call
  (`obdii/client.go:161`).
- A second Return, safe by `optional.go:26`, takes the frame from its user when the object has been
  borrowed again: the object is in the pool while it is on loan, and goes to a third borrower. A late
  clear (`optional.go:32`) can lose the object to the pool, which costs an allocation.
- `cantool dump` ignores the error of each Printf and reports success for frames it has not put out
  (`cmd/cantool/main.go:228`); `subscribe` ends with the error.
- A recording loses what a candump line does not tell (`recorder.go:265-289`, `:196-237`), and Replay sends
  what is left without a word: a data frame for a remote one; an FD frame without ESI, for which
  `recorder.go:213` still says there is no field; a classic frame for XL of up to 8 bytes; a standard
  frame for an extended identifier up to 0x7FF, which j1939's Subscribe then skips. Longer XL frames, and FD
  frames with an extended identifier above 0x7FF, become frames no bus takes.
- A stopped consumer holds the goroutine of `j1939.Bus.Subscribe` (`pgn.go:155`).

Further work: remote frames of foreign nodes as journeys.
