# A verification of bws

TLA+ models of the parts of bws (a Minecraft server framework in Rust) whose
correctness depends on order, timing or bits, TLC configurations that check
them, and TLAPS proofs of what matters most. Paths below are relative to the
repository (`src/` there is this project's copy of it). Requires `tlc` and
`tlapm` with the community modules.

    tlc -config MCDrain.cfg MCGracefulExit      # a run: cfg and module, see the table
    tlapm GracefulExitProofs.tla                # the proofs; so the other *Proofs.tla

## 1. The system

The repository holds the crates `bws`, `protocol`, `protocol-derive`,
`graceful_exit` and `example`, and `bws.old`, the version of the server that is
being rewritten. `bws.old` has the fuller behaviour (status, login, shutdown of
a whole application), so it is modelled as well.

| component | state | operations | what must hold |
|---|---|---|---|
| exit system: `graceful_exit/src/lib.rs`, the same code in `bws.old/src/graceful_shutdown.rs` | a `OnceCell` and a `Notify`; a counter under a mutex with a condition variable | `exit`, `wait_for_exit`, `blocking_wait_for_exit`, `guard`, drop of a guard, `blocking_wait_for_guards` | the counter is the number of guards; no wakeup is lost; a drain returns quietly only over no guard, by force only after its timeout; nobody is told of an exit that was not requested, and those that wait are told |
| application: `bws.old/src/application/mod.rs`, `bws.old/src/lib.rs`, `serve` and `handle_conn` of `bws.old/src/serverbase.rs` | a main thread, a ctrl-c thread, a server thread, a task per connection, all with the exit system | start-up, accept, the phases of a connection, shutdown | guards cover the work; the process ends after ctrl-c, and not over somebody at work |
| connection protocol: `handle_conn_status`, `handle_conn_login`, `read_packet`, `write_packet` of `bws.old/src/serverbase.rs` | where the dialogue is, the cipher | read and write packets, verify the token, ask the session server | answers in order; no session lookup that was not earned; the task ends with its client |
| legacy ping: `bws/src/networking/legacy_ping.rs` | a buffer shared by reads and writes | classify, read, call the handlers, answer | the client's generation and payload are recognised however its bytes arrive; the response is framed |
| variable-length integers: `protocol/src/{to,from}_bytes/impls.rs`, `read_packet_length` | a loop on either end of a stream | write, read | round trip; no refusal of what was written; a bound on what is accepted |
| codecs: `protocol/src/{to,from}_bytes/impls.rs`, `newtypes/` | none | write and read of numbers, strings, lists, options, JSON | what is written is read as it was; what is accepted can be written; the count of bytes is right |
| packets: `protocol-derive`, `protocol/src/packets` and the frames of `StreamCtx` | the stream of a connection | discriminants, field order, `write_packet`, `read_packet` | nobody reads from the middle of a frame |
| server id: `serverbase.rs:261-279` | none | two's complement of a digest | the number sent is the digest's |
| server: `bws/src/lib.rs`, `bws/src/networking.rs` | a slab of connections under a lock | accept, insert, spawn | not modelled: section 7 |
| `linear_search.rs`, `store.rs`, logging, `example` | none | | not modelled: section 7 |

They interact in three ways. Threads and tasks *share* the exit system: main
blocks on its cell and then on its counter, the server and every connection
race its `Notify` in a `select!` and hold its guards. Connection tasks *call*
the legacy ping, then the status or login dialogue, and these the codecs. Clients
*send* bytes that arrive in pieces, in any order of packets, and may stop or
hang up anywhere.

What is hard here: the steps of main, of the ctrl-c handler and of many tasks
interleave around the counter and the notification; a wakeup may be spurious,
early or late; a wait is dropped and made anew between two phases; reads see
whatever the network has delivered; the bit loops have limits at five and
eleven bytes; the length of a frame is counted beside its bytes and not from
them. `PROJECT.json` lists each hazard with its line and the
properties that watch it.

## 2. Modules

| module | models | checked by | proofs |
|---|---|---|---|
| `ExitContract` | what the exit system promises, without mutex or condition variable | as the abstract specification of the next | |
| `GracefulExit` | `graceful_exit/src/lib.rs`, one step per access to shared state | `MCGracefulExit` | `GracefulExitProofs` |
| `AppShutdown` | the application around an `INSTANCE` of `GracefulExit` | `MCAppShutdown` | `AppShutdownProofs` |
| `VarNum` | the two loops of VarInt, VarLong and `read_packet_length` | `MCVarNum` | `VarNumProofs` |
| `LegacyPing` | both `legacy_ping.rs` over a network that splits the request | `MCLegacyPing` | `LegacyPingProofs` |
| `Dialogue` | what a connection promises its client, without phases and packets | as the abstract specification of the next | |
| `Connection` | the status and login dialogues of one connection | `MCConnection` | `ConnectionProofs` |
| `ServerHash` | the two's complement of the server id | in `Connection` | in `ConnectionProofs` |
| `Wire` | the codecs and the derived code, as functions on bytes | in `PacketStream` | `WireProofs` |
| `Packets` | every packet type, as a codec of `Wire` | in `PacketStream` | `WireProofs` |
| `PacketStream` | `write_packet` and `read_packet` over one direction of a stream | `MCPacketStream` | `PacketStreamProofs` |
| `Induction` | nothing: induction over numbers and recursive functions, for the proofs | | itself |

### GracefulExit and ExitContract

`initiated` is the `OnceCell`; the tasks registered with the `Notify` are those
whose `asyncPc` is `"registered"`; `mutex` and `counter` are `active_guards.0`
and the threads asleep on `active_guards.1` those whose `drainPc` is
`"asleep"`. `exit()` is two steps, because the cell and the `Notify` are two
objects: `ExitSet`, `ExitNotify`. `wait_for_exit` registers without looking at
the cell, as line 49 does, and its caller may drop the future
(`AsyncCancel`), as every `select!` in the repository does. `guard()` and the
drop take the mutex, read the counter (`loaded`), write it back, and let go of
the mutex in separate steps, so that without the mutex an update would be lost:
the mutant of `CounterMatchesGuards` is such a drop. The drop notifies while it
still holds the mutex, as the code does. The drain is
the loop of `wait_while` and `wait_timeout_while`: counter first, clock
second, then sleep. External definitions are the parts of std and tokio the
code relies on: `notify_waiters`, `notify_all`, the condition variable's sleep,
its timeout and its spurious wakeups, the drop of a `Notified`.

`ExitContract` keeps, per guard, whether its scope is before, in or after, and
per drain, whether it waits, was drained or was forced. The refinement mapping
is `Contract` in `GracefulExit`.

### AppShutdown

Composes. A step of a thread that calls the exit system is a step of
`GracefulExit` *and* of that thread. Guards and async waiters are the server
and the connections, the exiter is the ctrl-c handler, the only drainer and
blocking waiter is main. A handshake or session is one phase: what its packets
say is the module `Connection`; here it matters that it may last for ever, end
any time, or be dropped by the notification. When main returns, the process and
with it every other thread ends (`Running`). `TypeOK` is the exit system's, as the
application uses it, and the positions of the threads.

### VarNum

A number is the set of its one bits, a byte the set of its data bits and the
flag `more`; `value << (7 * num_read)` and `(value as u32) >> 7` are then set
comprehensions and exact at 32 and 64 bits, where integers of TLC would
overflow. The shift that VarLong's eleventh byte makes is 70: it panics with
overflow checks and is taken modulo 64 without them, so it is both
(`ReadPanics`, `ReadByte`). A behaviour begins with a writer of this crate or
with a foreign one that writes any bytes.

### LegacyPing

The client's bytes become visible in pieces of any size (`Deliver`).
`Classify` looks once at what is there, as the `match` on `fill_buf` does;
the reads of `read_1_6` each wait for their bytes. A text is the number of its
characters inside and outside the basic plane, which is all that the length
computations tell apart; the shared buffer is its length. The subtraction
`- 7` on a `u16` panics or wraps, by build; the odd chunk panics.
`OnlyMalformedPanics` says that nothing else of what a client can send does. The
hostname is a sequence of 16-bit units; `String::from_utf16_lossy` (external) puts
U+FFFD for a surrogate without its other half (`Lossy`), so such a name is not the
one the client wrote, and `PayloadIsTheClients` says exactly where it differs.

`crate` says whose handler runs. The one of `bws.old` classifies, reads and
writes the same way, but logs a response that is too long (`Refused`) and
writes it anyway, so there a length field can lie beyond 65535 units.
`RequestsAssumption` says what a client *means*: if it writes as many bytes as
it announces, it means the protocol, hostname and port at their places.

### Connection

A frame is a packet id and the kind of its body. `Decodes` says which frames the
packet type of a phase accepts. `read` keeps what was read, so that properties
can relate answers to requests. Writing waits for the client (`"writing"`);
every phase can be dropped by the shutdown. The cipher is set and never used:
nothing is read or written after it. With the lookup the task computes the
server id of some digest (`ServerHash`); the loop over the bytes from the last
up is the recursive function `Carry`. The checked digests have three bytes with
the values at which the sign or the carry changes, where the real ones have
twenty (the theorem is for any length); the hexadecimal form keeps the leading
zeros of the bytes and is left out. `Number`, on the side of the property, reads
bytes as a number from the first to the last, the other way round than the code
carries.

`Dialogue` knows only requests, answers, an identity and an end: each request
is answered before the next is heard, the last one may identify the client in
place of an answer, and the end is final. `D` in `Connection` is the mapping:
`read`, `out`, `player` and `pc = "done"`.

### Wire, Packets, PacketStream

`Wire` gives every implementation of `ToBytes` and `FromBytes`. A type is its
*codec*, the record of two functions: `write` takes each value of the type to the
bytes, the *count* that `write_to` returns (each implementation gives its own,
as in the code: `buf.len()`, the turns of a loop, 1), and whether it failed; `read` takes any
bytes to a value and what is left, or to how it failed: an end of file, bad
data, or a panic. `Prim(n)`, `VarInt`, `String`, `Json` are codecs; a type with
parameters is an operator on codecs (`Option(of)`, `Vec(of)`, `Slice(of)`, the
nested `Pair` of a struct, `Enum`), so that the packet types are built as in Rust
and nothing has to recurse over a description of types. The lists are recursive
functions of their length (`Repeat`). `BString(max)` is `String`, since neither
direction of the derived code looks at the bound. The derived code of enums is
`WriteEnum` and `ReadEnum`; an enum's value is `<<variant, fields>>`, and its
discriminants are numbered from the variants (`Discriminants`, `Matching`).
`Packets` builds every packet of `protocol/src/packets` so.

`PacketStream` puts packets into frames and reads them as the type a phase
asks for, which need not be the one that was written. The writer is this crate
or a peer that fills its frames, or writes lengths, as it likes; the stream is
cut anywhere. A packet goes out as its own type or in the `NoTag` wrapper of a
connection's queue (`Wrapper`). `MayWrite` lets the writer finish before the
network begins: the two share nothing, so no behaviour is lost. External definitions: UTF-8, for
characters of one and two bytes; what `serde_json` takes for whitespace and for
a whole value; `JsonAssumption` says of the texts it writes that they are not
empty, have no space around them, and are no longer texts of JSON with the bytes
of their length in front. `LengthLimit` stands for `i32::MAX` in the checks on
lengths and in `len as i32`, and is scaled to 40 for TLC; `VarInt`s keep their
32 bits. A list or string whose announced length cannot be allocated is not modelled, except a negative
one, which panics. Which of its two kinds of error `serde_json` gives, an end of
file or bad data, is left open: a kind of its own (`"json"`).

A packet may be longer than its length can say: the parts are checked against
`i32::MAX`, their sum is not, and `len as i32` is negative. `OversizeNotDecoded` says
that the reader comes to an end there (the `resize` panics) and takes no piece of the
frame for a packet. Up to twice the limit, that is: beyond, the length would be positive
again, which no packet of the checked instance reaches.

## 3. Runs

Every property of a passing run is broken by at least one plausible bug: the
mutants are operators marked `Mutant:` before the definition they replace.

| cfg | module | shows | bounds, and why they are enough |
|---|---|---|---|
| `MCDrain` | `MCGracefulExit` | counter, mutex, no lost wakeup, refinement of the contract with its progress | 3 guards: a drop that does not reach zero, one that does, and a guard made in between; 2 drainers, one with a timeout: `notify_all` against `notify_one`, a timeout against a drop; 1 spurious wakeup each. The safety part is proved for all sizes |
| `MCExit` | `MCGracefulExit` | nobody hears of an exit early, and who waits is woken | 2 of each kind: a second `exit()`, two waiters to be woken by one notification |
| `MCLostExit` | `MCGracefulExit` | violated, see section 6 | the same |
| `MCApp` | `MCAppShutdown` | scopes, quiet drain, the end of the process | 2 connections: one in each of two phases, or one that ends as another begins. No spurious wakeups, which `MCDrain` has |
| `MCAppLateGuard` | `MCAppShutdown` | violated, see section 6 | 1 connection is enough. Nothing fails (`SpecServing`): with failures TLC's shortest trace is the server thread's own late guard, at start-up |
| `MCVarInt` | `MCVarNum` | VarInt and `read_packet_length` | real width; numbers with no, one or all bits set, and full groups: every byte count and every end of a group; foreign streams of up to 6 bytes, one more than the limit |
| `MCVarLong` | `MCVarNum` | VarLong | real width, the same numbers; foreign streams of up to 12 bytes. That round trips hold for *every* number is proved |
| `MCVarLongTooLong` | `MCVarNum` | violated, see section 6 | the same |
| `MCPing` | `MCLegacyPing` | recognition, payload, framing, hang-up, for both crates | requests of all generations of the real sizes, one with an empty hostname, ones with a pair of surrogates, with a lone low one and with two high ones, two malformed ones; texts around the limit of 256 and around 65535 units, and one character outside the basic plane. Payload and framing are proved for all requests and texts |
| `MCPingSplit` | `MCLegacyPing` | violated, see section 6 | |
| `MCConn` | `MCConnection` | the dialogues, the server id, the refinement of `Dialogue` | any 4 frames of 10: the longest login is 3 frames, a status dialogue of 4 has two repetitions; digests of 3 bytes: a carry that stops at once, in the middle, or runs through |
| `MCPackets` | `MCPacketStream` | frames stay aligned, round trips, packets too long for their length are refused, nothing unwritable is accepted | every variant of every packet with its options both ways, 12 foreign bodies at what the decoders test for, 2 foreign lengths; 2 frames, because alignment is about the one before; strings and payloads around `LengthLimit`, packets beyond it; one name that is also a handshake of negative length. The properties are proved for all packets, bodies and numbers of frames |

`CHECK_DEADLOCK FALSE` stands where the system really stops: all drains are
over, the process has exited, the number is read, the task has ended.

`ContractProgress` is `ExitContract`'s fairness as a property of
`GracefulExit`. `QuietDrainFindsNobodyBusy` and the first part of
`WholeRequestRecognised` are action properties: what a step may never do.

## 4. Fairness

- *GracefulExit*: a thread inside a call goes on, a notified task is polled, a
  started timeout runs out. Nobody need call anything, and a guard may stay in
  scope for ever. Weak fairness of taking the mutex is enough, since it is taken
  finitely often in a behaviour.
- *AppShutdown*: the threads run; tokio polls woken and spawned tasks. Nothing
  makes a client send or a user press ctrl-c. That the time of a timeout passes
  is not part of the specification but an antecedent (`TimePasses`) of
  `CtrlCEndsProcess`, because a drain whose time never runs out behaves as one
  with `shutdown_timeout: None`; so `ShutdownHeardEndsProcess` covers that
  configuration in the same run. It says that *the only* reasons for a shutdown
  that never ends are deaf tasks: one in the legacy phase, which is not raced
  with the shutdown (`serverbase.rs:109`), or one that registered after the
  notification.
- *VarNum*, *LegacyPing*: the loop or task goes on when it can.
- *Connection*: the task goes on when it can; a write need not end while the
  client keeps the connection open and reads nothing (`Progress`). Nothing is
  assumed of the peer, the session server or a shutdown.
- *PacketStream* states none: its properties are about safety.

## 5. Proofs

TLC shows the properties for the sizes above; these hold for every value of the
constants. Assumptions are the named `ASSUME`s of the modules: that the sets of
threads are disjoint where one variable tells them apart, that the limit of the
reading loop is enough for the width, that a legacy ping's limit is at most
32767, that clients mean what they write (`RequestsAssumption`), that
`LengthLimit` is at most `i32::MAX`, what `JsonAssumption` says of JSON texts,
and that packets and foreign bodies are packets and bytes
(`PacketStreamAssumption`; a foreign body is no longer than a length can say).

Two induction theorems of `Induction` stand under the proofs about data.
`SetInduction` is induction for a *set* of numbers, from the well-foundedness of
`<`; the library's theorems take a predicate or a definition as a parameter, and
the provers cannot instantiate those. `RecursionExists` is that a function defined
by recursion over `0 .. N` exists, in the form of a step function. `Number`, `Carry`,
`Repeat` and `Discriminants` are then known by their equations.

**GracefulExitProofs.** The inductive invariant joins the types, the mutex
discipline, `CounterMatchesGuards`, `NoLostWakeup`, and `LoadedIsFresh`: the value
that a thread is about to write back is still the counter's (`NoEarlyExit` needs
only the types). None is inductive alone: the counter is a
natural number because a guard that is about to decrement it is one of those it
counts; it counts them because only the owner of the mutex changes it, so that what
the owner has read stays fresh; and a
drainer cannot fall asleep over a zero because it holds the mutex from its look at
the counter to its sleep, so no drop falls into between. The sets of guards may be
infinite: that only finitely many are counted at a time is part of
`CounterMatchesGuards`. From the same invariant follows that every step is a step
of `ExitContract` or stutters (`ContractStep`), hence
`ExitImplementsContract`.

- `TypeCorrect`, `MutualExclusion`, `CounterCorrect`, `WakeupCorrect`,
  `NobodyExitsEarly`: the invariants of `MCDrain` and `MCExit`.
- `ExitImplementsContract`: `Spec => ContractSafety`.

**VarNumProofs.** For every width, group and limit with
`Limit * Group >= Width`, so for VarInt, VarLong and the packet length at
once. The invariant places each bit: byte *k* holds group *k* of the number,
`rest` what is above the bytes written, `result` what is below the bytes read.
That `rest` is not empty while the writer goes on is what keeps the shift of the
reader inside the width and the limit out of reach.

- `TypeCorrect`, `RoundTripCorrect`, `NoFalseAlarmCorrect`.
- `ForeignDecodedCorrect` is about any bytes, so it needs another invariant
  (`DecodeInv`): the bits of `result` are those of the bytes consumed, as far
  as they lie inside the width.
- `AcceptedIsShortCorrect` assumes `(Limit - 1) * Group < Width`: the limit is
  no higher than the width needs. It holds for VarInt and not for VarLong, which
  is what `MCVarLongTooLong` shows.

**AppShutdownProofs.** Two layers. First, every step of the application is a step
of `GracefulExit` or leaves the exit system alone (`ApplicationUsesExit`), so the
inductive invariant of `GracefulExitProofs`, instantiated as `System`, holds in
the application for any number of connections. Second, `Scopes` says for each
position of the server and of a connection where its guard is; with it,
`ServerBusy` and `ConnBusy` imply a counted guard. `QuietDrainCorrect` joins the two:
a drain returns without a timeout only over a zero, the zero counts the guards,
and whoever is busy has one.

- `ApplicationUsesExit`, `TypeCorrect`, `ScopesCorrect`, `QuietDrainCorrect`.

**ConnectionProofs.** The invariant `PhaseInv` gives for every phase the shape
of what was read and written when the task stands there, for any frames and any
number of them; the types add that the frames read and waiting are those sent.
The properties follow by looking at the phase. The refinement (`DialogueKept`)
needs from it that a task that reads has answered everything.

`ServerIdCorrect` has an invariant of its own, that the lookup asks for
`ServerId(digest)` (`ServerIdKept`). The rest is arithmetic: the carry runs from the
last byte up and a number is summed from the first byte down, so the induction is over
the prefixes: the sums of the first *k* bytes of the digest and of its complement
add up to 0 if the carry comes to byte *k*, and to -1 if it stops below it (`TwosComplementNegates`).

- `TypeCorrect`, `StatusDialogueCorrect`, `LookupIsEarnedCorrect`,
  `DisconnectCorrect`, `ServerIdCorrect`, `DialogueKept`.

**LegacyPingProofs.** `ReadInv` says at which byte of the request each read of
`read_1_6` stands and what it has got so far; nothing in it mentions how much has
arrived, which is why the network may cut the request anywhere. `WriteInv` says that
the buffer is empty wherever a response is appended to it: `write_pre_1_4`
relies on never coming after `read_1_6`.

`OnlyMalformedPanics` is a conjunct of the invariant: a task fails before its client hangs
up only at the length or at the odd chunk, and there `ReadInv` gives the bytes they came
from.

- `TypeCorrect`, `ResponseFramedCorrect`, `PayloadCorrect`, `PanicsCorrect`.

**WireProofs.** About the codecs as such, without behaviours. Five promises are
built up from the numbers through strings, options, lists and structs to the enums of
packets, each constructor by a lemma of its own:

- `Typed`: what is written is bytes, and what the implementation counts is their
  number; what is read leaves some of the bytes and has the type;
- `Prefix`: what was written is read back whatever follows it; `Whole`: if nothing
  follows. A `Slice` keeps only the second, which is why it may stand only at the end
  of a packet, and JSON neither;
- `Frugal`: what was read can be written, in no more bytes;
- `Hungry`: a value takes a byte at least, so that a list cannot go on for ever,
  and `ReadVec` and `ReadSlice` may stop where they do.

`PacketPromises` joins them for every packet type, `JsonPackets` says when a packet with
a JSON value comes back, `WrapperWrites` that the queue's wrapper writes the same bytes.
The values of VarInt are all 32-bit numbers; that `Groups` puts them together again is
`VarIntBytes` against `VarIntValue`, by the five sizes.

**PacketStreamProofs.** `IInv` joins, beside the types:

- `Layout`: where each frame starts, its length and body are on the stream, and
  the body of one of this crate is what its codec writes;
- `Early`: nothing has been read while nothing has arrived, so that a later frame
  changes nothing that was looked at. Without it `FramesAligned` is not inductive: a frame
  written after a read would make `Framed(k)` true of a packet read before;
- `Position`: between frames the reader stands at the start of the next, inside one at
  the start of its body with its size. This is the property of which `FramesAligned`
  is the trace; it needs `Layout` to find the length it reads to be the one written;
- `History`: what was read of a frame is what the codec makes of its body, and
  `NoPanic`: a length never made the reader panic;
- `Headers`: before the body of a packet that is too long stands a negative number, and
  `Refused`: the reader does not get into that body, nor past it.

But for the last, all parts talk of the frames up to the first that is none (`Framed`):
after bytes that are no frame, or a body longer than a length can say, nothing is claimed.
`AlwaysRead` and `AlwaysReencodes` follow from `History` by `WireProofs`.

- `TypeCorrect`, `AlwaysAligned`, `AlwaysRead`, `OversizeCorrect`, `AlwaysReencodes`.

*Only model-checked*: everything about fairness (`ContractProgress`,
`RegisteredAreWoken`, `CtrlCEndsProcess`,
`ShutdownHeardEndsProcess`, `EveryNumberEnds`, `HangUpEndsTask`,
`CloseEndsTask`), which is beyond TLAPS 1.4.5; and `WholeRequestRecognised`: its second
half is part of `ReadInv`, and its first compares what `Classify` finds with the
kind that a request of the configuration is labelled with, so a proof would have
to assume what it shows. Every other property of a passing run is a theorem.

## 6. Where code and comments disagree

- `MCLostExit`: `wait_for_exit` "Waits for the shutdown initiation
  asynchronously" (`graceful_exit/src/lib.rs:47`), but misses one that has
  already been initiated; `blocking_wait_for_exit` does not.
- `MCAppLateGuard`: a guard "Prevents a shutdown while in scope"
  (`bws.old/src/graceful_shutdown.rs:16`), but one made after the drain has read
  a zero does not. A connection's guard is taken in its task, not before the task is
  spawned (`serverbase.rs:105`). In the trace ctrl-c is pressed and notified; before the
  accept loop hears of it, a client is accepted; the loop then ends and drops the server's
  guard, main's drain reads zero, the new task is polled and takes its guard, and main
  exits over it.
- `MCVarLongTooLong`: "VarLongs are at most 10 bytes long"
  (`from_bytes/impls.rs:122`), but the test on the next line lets an eleventh
  be read.
- `MCPingSplit`: the type of a ping (`legacy_ping.rs:41-42`) is not the client's
  if the network delivers its first bytes apart.

Not a run, but met on the way: `ResponseFramed` needs its exception for
text outside the basic plane, since line 109 counts characters where line 140,
with the same comment, counts units. `BString::new` checks a bound that the
derived `FromBytes` does not, so a name read from a client may be as long as its
frame (`bstring.rs:7`). A JSON value is written with a length and read without
one (`to_bytes/impls.rs:24`, `from_bytes/impls.rs:32`): `OwnPacketsRead` says that
such a packet comes back only if its length happens to be whitespace, and
`JsonPackets` proves both directions of that. The server never reads one. A packet
may also be read as another type: a login with the name `ééh`, taken for a
handshake, has an address of negative length, and `vec![0u8; length.0 as usize]`
(`from_bytes/impls.rs:56`) panics over what is *in* the frame; so `OwnPacketsRead`
claims only that the length of a frame never makes the reader panic.

## 7. Not modelled, and why

- `bws/src/lib.rs` and `bws/src/networking.rs`: the loop accepts, puts an entry
  into a slab and spawns a task that only runs the legacy ping. Nothing in the
  crate calls `exit`, and nothing reads or removes an entry, so a model could only
  repeat the lines; that the wait is made anew on every turn is the subject of
  `MCLostExit`.
- `StatusResponseBuilder` (`packets/status.rs`): builds a JSON value, formatting
  only.
- `LinearSearch`: a pure search over an array without state; `store.rs` and the
  `ServerBase` trait: no behaviour of their own; logging: output only;
  `example`: a user of the crate. Encryption, RSA, SHA-1, JSON and HTTP are
  libraries; the models keep their outcomes (verified, wrong, undecryptable, some
  digest).
- A failing allocation, and the time an operation takes.
- The content of log messages, addresses and texts.

## 8. Plan

Done: `ExitContract`, `GracefulExit`; `AppShutdown`; `VarNum`; `LegacyPing` for
both crates; `Dialogue`, `Connection`, `ServerHash`; `Wire`, `Packets`,
`PacketStream`; proofs of every safety property of these but
`WholeRequestRecognised`.

Left: that `VarIntBytes` of `Wire`, which takes a number whole, writes what the loop of
`VarNum` writes (both are proved to come back, but not against each other); `Connection`
over the frames of `PacketStream` in place of its abstract ones; when the code gets
there, the connection table of `bws/src/lib.rs` once something removes an entry, and
the play state, which has no packets yet.
