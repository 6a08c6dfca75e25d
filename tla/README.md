# A verification project for the Marex/Neon FIX client

The program is a small FIX 4.4 market-data client. It connects to a gateway over
TCP, sends a Logon and a SecurityDefinitionRequest, and cuts what the gateway
answers into messages. This directory holds TLA+ modules that model it, TLC
configurations that check them on small instances, and TLAPS proofs about them.
Paths below are relative to the repository's top directory.

## The system

| component | code | state | operations |
|---|---|---|---|
| IncomingMessageHandle | `src/incoming_message_handle.cpp` | `temp_buf_[2048]`, `pos_` | `OnReceiveMsg`, `HandleMsg` |
| FixUtils | `include/fix/fix_utils.h` | none | `GetFIXVersion`, `GetBodyLen`, `GetMsgType` (unused), `DecodeHeader` |
| MessageDecode | `src/fix_message_decode.cpp` | none | twelve decoders with empty bodies |
| MessageEncode | `include/message_encode.h`, `src/fix_message_encode.cpp` | a pointer to the DataStore | ten encoders |
| DataStore | `src/data_store.cpp` | `next_out_msg_seq_`, `curr_in_coming_seq_` | `Init`, `GetNextOutMsgSeq`; the rest is empty or unused |
| FixClient | `src/fix_client.cpp` | `sock_fd_`, `is_conn_` | `Init`, `SendMsg`, `RecvMsg` (a thread) |
| neon_md_main | `src/neon_md_main.cpp` | the queue, `message_header_`, `sending_data_`, `request_id_` | `main`, `Init`, `Add`, `messageHandle` (a thread), the handlers, `OnRecvMsg` |
| Utils | `include/utils.h` | none | `cpuAffinity`, never called |

Three threads run. `main` initialises everything, adds requests to a bounded
lock-free queue and waits on a condition variable nobody notifies. The sender
thread, started *first*, pops a request, encodes it under the next sequence
number and calls `FixClient::SendMsg`. The receiving thread, started by
`FixClient::Init`, reads the socket and calls `OnRecvMsg`, which hands the bytes
to IncomingMessageHandle. The sender and the receiver share `is_conn_` and the
socket; main and the sender share the queue. Nothing is kept between two runs.

What is hard about it:

- TCP cuts the byte stream anywhere, and the message length has to be read from
  bytes that may not all be there. One recv returns all that has come: how messages
  are grouped depends on when the thread runs.
- Incoming values are copied into arrays of fixed size without a check.
- The sender thread runs before what it uses is initialised.
- A number is taken from the DataStore whether or not the message is sent.
- `write` is non-blocking and its result is dropped: it may take a part of a
  message, nothing, or raise SIGPIPE.
- The receiving thread finds out that the connection broke; the sender never does.
- A run may end at any time, and the next one starts at the same number, while its
  Logon asks the gateway not to reset its own.
- The gateway may close or reset the connection inside a message; the receiving
  thread then ends by itself.

What makes each part correct: a receiver delivers every message once, in order,
unchanged, and keeps no more than it must (`MessageDelivery`); an encoded message can be
framed and read back, with the right checksum; the sending side puts each request on the
wire at most once, in order, under its own number (`Outbox`), so that the gateway can
follow; nothing is handled before it can be; what a broken connection costs is the end
of a run; every request is handled and everything the gateway says is heard in the end.

## The modules

- `FixTags` – the tags, message types and special bytes the program uses.
- `FixWire` – the encoding as pure operators, both ways: `AppendFIX` and
  `EncodeHeaderAndTrailer` (message_encode.h), `GetFIXVersion`, `GetBodyLen` and
  `DecodeHeader` (fix_utils.h), with the room that the values read find. A byte is its
  code, an array a sequence, an offset the number of bytes before it.
- `IncomingFraming` – OnReceiveMsg and HandleMsg over real bytes. `Wire` is what
  the gateway sends, `Start` and `Types` say where its messages lie. `Recv(n)` is
  one recv with OnReceiveMsg's preparation; `Finish`, `KeepTail`, `KeepPartial` and
  `Read` (`Dispatch` or `Overrun`) are the ways through one round of HandleMsg's loop.
  `dispatched` is a history of the calls of the decoders. What the code does not
  define leads to `pc = "undefined"`: a memcpy past `temp_buf_`, a negative `curr_pos`,
  a version that fills `fix_ver` without a zero byte, and a value that DecodeHeader
  copies past the end of `tmp_val[100]` or of its array in the MessageHeader (`Overrun`,
  with `VersionEnds` and `HeaderFits` of `FixWire`).
- `MessageDelivery` – the abstract receiver that `IncomingFraming` implements.
- `FramingExact` – `IncomingFraming` with a history variable that judges each recv.
- `MessageEncode` – the message structs of fix_data_type.h as sets of records, with
  the sizes of their arrays, and one action per encoder; each takes a struct, takes a
  number, stamps the shared header and writes a message into `sending_data_`, which
  `Clear` empties as main's handlers do.
- `FixClient` – the connection: Init, SendMsg, RecvMsg (the `select` branch), and
  the kernel and the gateway as environment. The send buffer is counted in halves
  of a message, so that a write takes all, half or nothing of one.
- `NeonMd` – the program: main and the sender thread with the queue, composed with
  `FixClient` through `INSTANCE`, the ways a run ends (kill, SIGPIPE, a NULL from
  gethostbyname, a spurious wakeup of `cv_`) and a new run.
- `Outbox` – the abstract sending side that `NeonMd` implements.
- `Receiver` – the receiving side as a whole: the thread of `FixClient` composed with
  `IncomingFraming`. What `FixClient` counts as said and heard are the bytes of the
  stream. The thread is either in `select` and `recv` or inside `OnRecvMsg`; the
  gateway sends bytes until it closes or resets the connection, anywhere. A recv
  returns all that has come, up to the size of `recv_buf` (`Available`), and nothing
  keeps the network from grouping messages as HandleMsg does not expect them. Two
  history variables record what happened: `tame`, whether each recv so far was
  `Tame`, and `lockstep`, whether the gateway has so far sent each message only when
  all of the one before was received.
- `Session` – `NeonMd` composed with the gateway's side of the FIX session, which is
  not in the code and is modelled as what the code counts on: it reads the wire in
  order and expects one number next, for the whole day and over all connections,
  because the Logon says ResetSeqNumFlag N. A connection begins with a Logon; a message
  that is cut, has another number, or comes before the Logon makes the gateway refuse
  the rest of the connection (a ResendRequest would not be answered). Bytes on the way
  may be lost when their connection is reset or their run is over.
- `IncomingFramingProofs`, `FramingExactProofs`, `FixWireProofs`,
  `MessageEncodeProofs`, `NeonMdProofs`, `ReceiverProofs`, `SessionProofs` – the
  theorems. `RecursionLemmas` holds what they need of induction and of recursive
  functions.
- `MCFraming`, `MCFramingExact`, `MCMessageEncode`, `MCNeonMd`, `MCReceiver`,
  `MCSession` – values for the constants. The streams of `MCFraming` are framed by the
  encoder's own operators.

Operators whose comment begins with "Mutant" are wrong versions of the definition
below them. No specification uses them: they record which mistake in the code each
property would notice.

`PROJECT.json` maps every definition to its lines of code.

### What a segmentation must be like

HandleMsg does not cope with every segmentation. `Tame(n)` states when it does. With
`first` the message under way, a recv that ends at `end` is handled right if

- the bytes kept and the new ones fit `temp_buf_`, and so does what is to be kept;
- all messages it completes are as long as the first of them (line 47 reads the
  first one's BodyLength for all);
- a message it cuts short behind a complete one has no byte in it, or at least 50
  and fewer than the first one has (line 34 sets `pos_` to the whole length, and
  the length looked at is again the first one's);
- the header of every message it completes holds no value longer than DecodeHeader
  has room for: 2 bytes for the type, 16 for a CompID or SubID, 22 for a time, 100 for
  any (`HeaderFits`).

`TameSpec` is `Spec` restricted to such recvs. The properties of the receiver are
stated for `TameSpec`, and the run `framing_exact` shows, over all segmentations,
that the condition is neither too weak nor too strong: a tame recv is always handled
right, every other leaves the receiver out of step, with a wrong message delivered,
or outside a buffer. The two violation runs show the two defects separately.

TCP does not promise tame recvs, and `Receiver` does not ask for them. What it shows
without any demand on how bytes are grouped is `LockstepIsSound`: if the gateway sends
a message only when the one before has been received, and all messages fit the buffers,
then whatever the cuts, all recvs are tame and everything is delivered. A gateway that
answers a Logon and at once sends more is not of that kind; then `HeardOut`,
`AllDelivered` and `Ends` say what still holds as long as no recv was other than tame,
and nothing is claimed after one that was.

## The runs

| run | what it shows |
|---|---|
| `framing_tame` | `TypeOK`, `Intact`, `InStep`, `Defined`, `Progress`, `Implements` under every tame segmentation |
| `framing_exact` | `ExactlyTame` under every segmentation |
| `framing_stick` | violated: messages of different lengths in one recv |
| `framing_divide` | violated: a message cut in its first 50 bytes behind a complete one |
| `encode` | `EncodeTypeOK`, `ReadsBack`, `TrailerOK` for all ten encoders |
| `encode_longest` | `FitsBuffer`: no message overruns `sending_data_`, with every array full |
| `receiver` | with recvs of all that has come: `LockstepIsSound`; and as long as each was tame, `HeardOut`, `AllDelivered`, `Ends`: what came whole is delivered, also when the connection closes, and the thread ends then |
| `neon_runs` | `TypeOK`, `HandledAfterInit`, `Accounted`, `OrderedOnce`, `OneRunServed` over two runs of the program with the gateway's session |
| `session_live` | `RefusedForEarlierRun`, and with fair threads `Served`, over three runs of main's own script |
| `neon_live` | `NoneLost`, `LostFromTheEnd` (a connection that fails or breaks costs the end of a run, never its middle) and, with fair threads, `AllHandled`, `AllHeard` |
| `neon_broken` | violated: a connection known to be broken to RecvMsg and not to SendMsg |
| `neon_market_data` | violated: a MarketDataRequest goes under another request's type |

Deadlock is not checked: the stream ends, the numbers are bounded, and a run that has
ended need not start again.

### Bounds

- Framing: four messages, two of 56 bytes and two of 108. One has a SenderCompID of 16
  bytes, which fills its array; in `framing_exact` the last has one of 17, which
  overruns it. Messages shorter than 50 bytes do not occur in FIX with this header. A
  recv ends at the end of a message or 1 before, or 1, 30, 49, 50 or 55 behind it: just
  around the constant 50 and the shorter length. `temp_buf_` is cut to 160 bytes and
  `recv_buf` to 400, so that the first can overflow and the second can hold everything,
  as 2048 and 8192 can.
- Receiver: the same stream; the bytes that have come, and a recv, end between messages,
  one byte before the end of one, or 30 or 50 bytes into one (`SocketCuts`), so that the
  gateway can close between messages and inside one, on both sides of the constant 50.
  A recv takes all that has come, up to 200 of the stream's 328 bytes, so that it
  can complete two messages and cut a third, and can also leave some behind.
- Encoding: the numbers 9 and 10, strings that leave their arrays empty, fill them or
  do neither, numbers of one digit, negative, and too large for a short, up to two
  symbols (`SymbolLists`). `MaxSeq` bounds the numbers. `encode_longest` takes only the
  longest values: a number of ten digits, arrays that are full, and 24 symbols of 27
  bytes, which are as many as 1024 bytes hold; 25 overrun them, and no code counts.
- The program: scripts of two to five requests with and without those that are not
  sent; a queue of two for four or five, so that main spins; a send buffer of one
  and a half messages, so that writes are cut and dropped, and one that holds them
  all for `NoneLost`, `RefusedForEarlierRun` and `Served`; two runs (`MaxRuns`), and
  three for `RefusedForEarlierRun`, so that a run is refused, or lost, between two
  others; the gateway says at most `MaxIn` pieces, of which one recv takes `RecvCap`.
  `neon_market_data` uses the lines of main that are commented out: the handlers
  behind them are in the code and in no test.

### Fairness

`FairSpec` gives weak fairness to main, to the sender thread and to the receiving
thread: they are threads of one process that the operating system schedules, they
hold no lock, and what they wait for (room in the queue, a request, bytes) stays true
until they take it. The gateway, the network and what ends a run have none. Every
liveness property allows for the end of the run; `AllHeard` also for a reset, which
discards what was not read.

`FairReceiverSpec` gives weak fairness to the receiving thread, at its recv and inside
HandleMsg; `Ends` and `AllDelivered` need no more, since bytes that came and the end of
the connection stay readable. `FairSessionSpec` adds to main and the sender thread a
gateway that goes on reading (`Gateway`): an assumption about the environment, without
which no request of any client would be served.

## The proofs

`IncomingFramingProofs` proves, for **every** well-framed stream, every set of places to
cut, and every size of the buffers, that `TameSpec` implies all six properties of
`framing_tame`, the refinement of `MessageDelivery` included. The assumptions are those
named in `IncomingFraming`: messages of at least `MinFrame` bytes, one behind the other,
each framed as FIX 4.4 with the length it has. That its values fit DecodeHeader's arrays
is not assumed: it is one of the conditions of `Tame`. The properties are not inductive:
`InStep` speaks only of the moments between recvs. The invariant `IInv` adds `Waiting`,
the same with what is known of a message under way, and `Working`, which relates `data`
and `curr_pos` to the stream while HandleMsg's loop runs: `data` is exactly the bytes
from the message that was current when the loop began, and everything it has passed is
messages of the first one's length. From `Working` and tameness the length HandleMsg
computes from the first message is the length of the message at `curr_pos`, which is why
`Dispatch` delivers it intact.

`NeonMdProofs` proves, for every script, capacity, send buffer and number of runs,
`TypeOK`, `HandledAfterInit`, `Accounted` and the refinement of `Outbox`. The
invariant adds `Phases` (how far main is decides what is initialised and whether
anything can be queued) and `Ready` (the message between its encoding and SendMsg
is the one of the request popped last, under the number taken last). `NoneLost` needs
besides that the send buffer never holds more than the messages of the requests that
are past (`Roomy`), so that the next one finds room. From `NoneLost` follows
`LostFromTheEnd`: what SendMsg writes finds all that is past before it, since the
connection it is written to stands, and a connection once down stays down.

`ReceiverProofs` proves `LockstepIsSound` and `HeardOut` for every stream, size of the
buffers and behaviour of the network. The invariant (`ReceiverInv`) says that the thread
cannot end inside HandleMsg, nor, unless by a reset, before it has read what came
(`Socket`); that `IInv` holds while every recv was tame; and that, while the gateway
keeps to the lockstep, nothing has come of a message behind the one under way. Then all
that has come lies inside that message or ends with it, and a recv of it is tame
(`InsideIsTame`).

`SessionProofs` proves `OneRunServed` and `RefusedForEarlierRun` for every script that
logs on first and once, as main's does (`LogonFirst`), every send buffer and every
number of runs. `OneRunServed` rests on `OnWire`, a consequence of `Outbox` (every
message is a request under the number of its place), and `Serving`: a Logon has the
first number, so the gateway can accept one only while it expects that number, and
everything it accepts later belongs to that Logon's run. `RefusedForEarlierRun` assumes
in its statement that every request is sent and the buffer has room; then the wire has
no hole within a run (`Chain`), and by `Reading` the gateway that is up always expects
the number that comes next on its connection: only a Logon under a number used up before
can be refused.

`FramingExactProofs` proves `ExactlyTame`, for every stream, segmentation and buffer
size, and with it that nothing less than `Tame` would do. Its invariant has two halves.
While every recv was tame it is `IInv`. After one that was not, `GoingWrong` says what
will go wrong, until it does: the bytes are still in their places, all messages given
away since are as long as the first and fit DecodeHeader, and one of Tame's four
conditions on the messages from the first on is broken, so that the round of HandleMsg
that reaches it cuts a wrong message, keeps a wrong tail or leaves a buffer. What holds
even when HandleMsg takes garbage for messages is `Inside`: the types, and `curr_pos`
inside `data` (`TypeCorrectAlways`).

`FixWireProofs` proves what the operators of `FixWire` compute, for every input: the
digits that `ToString10` writes are the number that `Number` reads; a field that
`AppendFIX` writes is found by `ScanField`, and by `DecodeHeader` among other fields;
`SumOfBytes`, which adds by halves, is the sum one by one; and `EncodeShape`:
`encodeHeaderAndTrailer`, which moves the body inside the buffer and writes the header
over where it was, leaves exactly header, body and trailer. These are inductions over
data. The library's induction theorems take an operator as a parameter, which the
provers cannot instantiate; `RecursionLemmas` states them of sets and of functions
instead (`LoopInduction`, `LeastBy`), and derives from the well-foundedness of `<` that
a recursive definition whose argument becomes smaller has a solution (`Recursion`,
`Iteration`).

`MessageEncodeProofs` proves all four properties of the encoders, for every value of
every struct, every clock, and every number up to `MaxSeq`. `EncodeInv` says
that `sending_data_` is empty or was made of the header that `message_header_` still
holds and some body, where a body (`IsBody`) has a bounded length and begins with a
field whose tag is not one of the header's: there DecodeHeader stops, so that nothing in
a caller's text can be taken for the header. One lemma per encoder shows that it writes
such a body. From `EncodeInv` follow `EncodeTypeOK`; `FitsBuffer`; `ReadsBack`, by
reading the seven fields of the common header from the last to the first; and
`TrailerOK`, for which the histogram that the property sums is shown to have the sum
the code computes. Two assumptions are worth a look:

- `EncodeAssumption` demands of the header's own texts (the four CompIDs and the clock's)
  that they hold no SOH, `=` or zero byte and fit their arrays, as main's constants and
  `strftime` do. Other strings may hold any bytes but zero, which ends them in C.
- `MessagesFit` and `MessagesReadBack` assume `SymbolsFit`: nobody asks for more than 24
  symbols in one MarketDataRequest. No code checks it. 24 is what 1024 bytes hold if
  every symbol and every other field is as long as its array allows.

Only model-checked: the liveness properties `AllHandled`, `AllHeard`, `AllDelivered`,
`Ends` and `Served`, which need fairness and ENABLED, out of the proof system's reach.
Every other property of a passing run is a theorem.

## Abstractions

- `IncomingFraming` treats the overlapping memcpy inside `temp_buf_` as a move.
- A version value of ten or more bytes without a zero byte, which leaves `fix_ver`
  without its NUL, and a value longer than its array are `"undefined"` and not followed
  further. A type of two letters fits its array; that `strcmp` then reads on into the
  next field makes it none of the one-letter types, so the message is passed over as
  with any other type. A header field that occurs twice, the second time with a shorter
  value, keeps the rest of the first in the code; the model keeps the second value
  alone. A zero byte inside a message type, which ends it for `strcmp`, is not followed.
  Sums of digits stop growing past `IntCap`.
- `FixClient` models the `select` branch. The `epoll` branch (lines 97-119) calls
  `on_rcv_msg_` with its arguments swapped, which does not compile. recv reporting
  EAGAIN after select is not modelled.
- In `NeonMd` a message is its type and its number: its bytes are `MessageEncode`'s
  subject. Nothing is timed: `sleep(1)` between the Logon and the request is any delay.
- In `Session` the gateway's answers are left out: the program hands them to decoders
  with empty bodies, so that none can change what it does. That a connection whose
  Logon is refused is closed is one of `FixClient`'s `Close` steps, at any time.
- Logging is left out. `main` prints `argv[1]` whatever `argc` is; not modelled.

## What the session shows

`OneRunServed` and `RefusedForEarlierRun` are two sides of starting each run at number
5 without a reset. Nothing is done twice: however often the program is started, the
gateway acts on the requests of one run only. And nothing is done later: once a Logon
was accepted, every further run of that day is refused, until an operator resets the
gateway's number. A request that takes a number and is not sent (HeartBeat,
MarketDataRequest) leaves a hole behind which nothing is accepted any more.

## Not modelled

- `Utils::cpuAffinity`: never called. `CMakeLists.txt`: no behaviour.
- The empty operations of DataStore, and `curr_in_coming_seq_`, which nothing reads.
- The `epoll` branch of RecvMsg, which does not compile.
- The structs of incoming messages: no code fills or reads them.
- Heartbeats in time: no code sends one by itself or answers a TestRequest, so there is
  no step to place.
- Most of `fix_tags.h`: the 1570 or so tags that no code uses.

## Plan

Done: framing, encoding, the program, the receiving side as a whole, the session, and
a proof of every safety property that a run checks. Left: the session with the
gateway's answers, once the decoders do something with them; the steps from which the
liveness properties follow (that HandleMsg's loop and main's wait in `Add` have a
measure that each fair step lowers), and that a MarketDataRequest with more symbols
than `SymbolsFit` allows does overrun the buffer when all are of full length.
