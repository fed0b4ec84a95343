# otcat: specifications and proofs

otcat is a command-line client for industrial devices: it reads and writes
coils and registers over Modbus/TCP, once or in a polling loop, and comes with
a mock device and Python bindings that run the program as a subprocess. This
directory holds TLA+ models of it, the TLC runs that check them on small
instances, and TLAPS proofs of what they check for every value of the constants.

Check a run with `tlc -config <Run>.cfg <MC module>` and the proofs with
`tlapm <module>.tla`; `PROJECT.json` lists the runs, the definitions with the
source lines they model, the hazards, the mutants and the theorems.

## 1. The system

| Component | State it keeps | Operations | Talks to |
|---|---|---|---|
| Modbus client, `internal/modbus/client.go`, `mbap.go`, `pdu.go`, `limits.go` | one TCP connection, a 16-bit transaction number, a mutex held for a whole call | Connect, Close, eight typed calls on `do` | the device, over a byte stream in each direction |
| Mock device, `internal/mock/server.go` | four tables of 65536 cells under a mutex, a listener, a wait group, drop and delay settings | NewAt, one goroutine that accepts, one handler per connection, eight function codes, setters, Close | clients; the program that owns it |
| otcat-mockplc, otcat-latencyprobe, `cmd/` | a server; a client and its samples | seed and wait for a signal; read in a loop | the mock device |
| Driver, addresses, data types, `driver.go`, `address.go`, `convert.go` | the options of the run (type, byte and word order, raw addresses) | Read, Write, ExplainWrite | the client, one call at a time |
| Watch loop, `internal/watch/poller.go`, `runWatch` in `cliapp/actions.go` | consecutive failures, values emitted | Run: read, emit, sleep, back off | the driver by a callback; output; SIGINT and SIGTERM by a context |
| Flags and one-shot commands, `cliapp/flags.go`, `cliapp.go`, `actions.go` | the configuration, position in the input, a dry run's `hadErr` | parseArgs, validate, Run, runRead, runWrite, runWriteStream, gateWrite, runDryRun, classifyErr | the driver, the operator's terminal, stdin, stdout |
| Output encoders, `internal/codec` | none | Encode | output |
| Stub drivers `eip`, `s7`, `bacnet` | none | return ErrNotImplemented | |
| Tank process, `internal/mock/process.go` | a simulated level | tick | the mock's registers |
| Python clients, `client.py`, `aio.py`, `exceptions.py` | a subprocess, its two pipes, a watchdog | read, write, dry_run, watch | otcat; the consumer of a generator |
| Python audit, `audit.py` | a report, a fingerprint | scan_range, fingerprint | the Python client |
| Python alerting, `alerting.py` | per rule, a count of breaches and a flag | add, poll_once, run | the Python client; the caller's callbacks |

What is hard about it, and what makes each part correct:

* **Client.** A call is one request and one response over a stream that
  outlives it. A call can time out with its response under way, with bytes of a
  header already consumed, or with its request not yet looked at; the device
  can hang up between any two bytes; a new connection can be dialled while the
  device still works off the old one. *Correct* is: an answer is the answer to
  this call; a write is done at most once, whatever the caller was told; a call
  always returns.
* **Mock device.** Handlers and the owner share the tables; Close races with
  accepted connections and waits for clients. *Correct* is: to clients a block of
  registers is one value; when Close has returned nothing is left; Close waits
  for clients and for nothing else.
* **Watch loop.** It keeps its connection after failed reads, and an interrupt
  may come at every point. *Correct* is: only answers to the current read are
  emitted; the count is exact; the back-off keeps its bounds although its product
  wraps; an interrupt ends the loop soon and always.
* **Commands.** Flags that contradict each other; consent, order,
  acknowledgements and exit codes over a client whose failures leave the outcome
  open. *Correct* is: nothing is written without consent; a dry run does not
  connect; lines are carried out in order, once; exit codes tell the truth about
  the device.
* **Driver.** Two orders, five types, two address notations. *Correct* is: what
  was written is read back; a dry run shows what would be written; a read
  returns the cells it names; numerals name the cell the documentation says.
* **Python clients.** A process, two pipes of limited room, a consumer that may
  stop, throw, vanish or never come back, and a watchdog over a program with
  deadlines of its own. *Correct* is: no value lost, no process left over,
  closing never hangs, exceptions tell what happened on the device, the watchdog
  cuts off nobody who is about to answer.
* **Audit.** Reads one after the other, each of which may fail in five ways.
  *Correct* is: a report says of every address what the device did.
* **Alerting.** Debouncing under failing reads, predicates and callbacks.
  *Correct* is: the alarm follows the signal; callbacks come in turn, and none is
  missed or made twice.

## 2. The modules

```
ModbusWire          frames and PDUs, encoded and decoded; the limits
  MockDevice        the four tables and dispatch
    ModbusClient    the client, its connections and the device's handlers
      WatchLoop     --watch, a caller of the client
      Commands      the command line, --read, --write, --from-stdin, --dry-run
    ModbusDriver    types and orders, over whole exchanges
Addressing          tables and the numbers of their cells (used by ModbusDriver)
MockServer          the mock device's goroutines, from NewAt to Close
WatchProcess        a watching otcat, seen by who started it
  PyWatch           the Python generator that owns one
OtcatProcess        any other otcat, seen by who started it
  PyCall            a call of the Python clients, which runs one
    PyAudit         sweeps and fingerprints, call after call
Alerting            the Python alerting engine

abstract specifications, and what implements them
  RegisterBank   <- ModbusClient     (ImplementsRegisterBank, run client_bank)
  AtomicDevice   <- MockServer       (ServesAtomically, run mock_server)
  WatchProcess   <- WatchLoop        (IsWatchProcess, run watch)
  OtcatProcess   <- Commands         (IsOtcatProcess, run commands)

theorems and proofs
  WireLemmas             frames, PDUs and the device's dispatch
  ModbusClient_proofs    the client
    Commands_proofs      the commands, from what is proved of the client
  WatchLoop_proofs       the watch loop, likewise
  MockServer_proofs      the mock device's goroutines
  ModbusDriver_proofs    types, orders, addresses and whole exchanges
  PyAudit_proofs         calls, sweeps and fingerprints
  PyConsumers_proofs     the Python generator and the alerting engine
```

Each component `X` that is run has a module `MCX` with its small instances for
TLC. WatchProcess and OtcatProcess join the two languages: the Go programs are
shown to be such processes, with the client, the network and the device
underneath, and the Python modules rest on nothing else about them.

**ModbusWire** translates `pdu.go` and `mbap.go` byte for byte: a frame is a
sequence of 0..255, and encoding and decoding are what the code does with it.
`Interpret(call, pdu)` is everything between the PDU that `do` read and what
the typed operation returns.

**MockDevice** is `dispatch` with its eight operations, as a function from
tables and request to tables and response: bounds before values, exception
codes, packing of bits.

**ModbusClient** is the client, the network and the handler goroutines.
`pc` is where `do` is: `idle`, `header` (the request is written, the MBAP
header is awaited) or `pdu`. `requests[k]` is what is on its way to, or at, the
device over connection k; `stream` is what the device has sent over the
client's present connection and the client has not consumed; `link` is whether
the peer has closed. One action per step of the code that can be interleaved:
`SendRequest` is `do` up to `conn.Write`, `ReadHeader` and `ReadPDU` the two
`io.ReadFull`s, `Timeout` the deadline in either (with the bytes already
taken lost), `ReadEOF` the peer's close seen by either (an orderly close and a
reset alike), `RefuseCall`, `SendIntoClosed` and `WriteError` the failures
before a response is awaited. `Serve(k)` is one turn of the loop in `handle`,
on any connection, also one the client has left; `Drop(k)` ends a handler.
The mock device always answers what it takes up; a device or gateway in its place
may not. `RequestLost(k)` and `AnswerLost(k)` are a request swallowed before
or after it was carried out, with the connection left open: nothing of that exchange
is left on it, and a later call may well be answered.
The mutex of `do` makes calls exclusive: while `pc # "idle"` no other begins.
The constant `ReuseAfterError` tells the two kinds of caller apart: one that
dials anew after a failed call, and one, like watch, that goes on. `clean`,
`answer` and `last.fresh` are ghosts: no sent call has failed on this
connection; what the device answered to the call in progress; whether the
connection was clean when the last call ended.

**RegisterBank** is the abstract specification: a call is issued, its operation
is carried out on the tables at one instant, at any time after, even after the
call has failed, and at most once; a call returns what its operation gave, or
fails. The refinement mapping `Bank` in ModbusClient takes the call in progress
from `pc`, `n` and `call`, the operations that may still happen from
`requests`, and decodes the answer (`CallNow`, `OnTheWay`, `ReplyNow`, `LastNow`).

**MockServer** takes apart what ModbusClient has as one step. The goroutine of
`serve` is at `acceptor`: in Accept, holding a connection it has not counted
yet, or gone. A handler goes from `read` over `taken` (the request is read, a
drop or a delay may follow), `locked` and `respond` back to `read`; under the
mutex the registers are touched one by one. The main goroutine seeds the
registers (otcat-mockplc, while handlers already run), waits for a signal, and
closes; or it is otcat-latencyprobe, the only client of its own server, with
its deferred Closes in their order. `Kill` is a signal before
NotifyContext or after `stopSig`, which a second control-C during shutdown
meets. **AtomicDevice** is what clients may rely on: the block they read and
write has one value, requests of a connection take effect in order, each at one
instant between being sent and being answered. The mapping lets a request take
effect when the mutex is taken: `BlockNow` is the block as its writer will leave
it, `AskedNow` and `EffectNow` what has not yet and what has taken effect.

**WatchLoop** adds the loop's variables to the full state of ModbusClient.
`stage` is where `Run` is. The context is looked at in `CheckContext`; the read
starts in a step of its own, so an interrupt may fall in between, and a read in
progress ignores it (`do` uses the context's deadline and never its Done).
`Wake` and `SleepInterrupted` are the two arms of the select in `sleep`; when
both are ready either is taken. Error messages are steps (`Complain`, `Report`),
since the reader of standard error may not read. `Ceiling` is what
`fullJitterBackoff` makes of the product, wrapped to the width of a duration, and
`Choices` the argument of Int63n, with the +1 of poller.go:112, which may wrap as
well: a delay is any value below it, and `Panics` is Int63n refusing one that is
not positive. `maxBackoff` is chosen from `Backoffs` at the start. A reading of
registers that do not make up whole values (`Misfit`) fails in the driver, after a
call that succeeded.

**Commands** does the same for the commands that end by themselves, from the
command line on: `flags` is what parseArgs looks at, `ParseArgs`, `Validate` and
`BuildDriver` are its way to an action, `cmd` is the action. What the
operator gives is a sequence of lines, each to be skipped, malformed, or
standing for one call of the client. `applied` is a ghost: the lines in the
order in which the device carried them out, recorded by `CarryOut` (the
device's `Serve` or `AnswerLost`), whatever the program knows of it; `Lost` is a
request or a connection that is lost instead. The properties are stated
with `InOrder` (a sequence of lines that leaves none out and takes none twice)
and `Holds` (the tables are what these lines leave). `classifyErr` is
`ExitCodes`: sets, because a peer's close reaches the program as a plain
end of stream or as an error of the net package. A stub driver is `StubFails`.

**Addressing** has the four tables and the classic notation; **ModbusDriver**
takes an exchange as a whole and models what is around it: ranges and encodings
of five types under both byte and word orders, the choice of the function code,
the count of a read, and the decoding. `ByteSize` is 256 in the code and 16 in
the run, because TLC's integers have no room for 32 bits; nothing in convert.go
depends on the number of bits in a byte.

**WatchProcess** and **OtcatProcess** are otcat from outside. A watch makes
readings, each a value or an error, until it has emitted its count, cannot go
on, or is told to stop; told to stop, it begins no more. It may crash at an
error (`Crash`, the panic above); PyWatch has no such step, because `Client.watch`
never passes --max-backoff, whose default of 30 seconds is far from the only
value that allows it. A command takes up a
job of so many calls, asks or refuses when it must have consent, acknowledges
each call after it took effect, and exits with a code that `MayExit` ties to
what was done; a call under way may take effect after the exit.

**PyWatch** is `Client.watch` and its twin of aio.py. `gen` is where the
generator is; `out` and `errs` are the pipes, of limited room, the second of
which nobody reads. A write to a full pipe waits; one to a pipe without a reader
ends the process. A consumer may ask for the next value, never come back, close
the generator, be interrupted in it (`Throw`, `ThrowAgain`), or end without
running it (`Vanish`). A signal to otcat before it has called NotifyContext, or
during the dial, may kill it (`Signalled`).

**PyCall** is `_run` with `read`, `write` and `dry_run` around it, for both
clients. Time is whole seconds and passes only where something waits: the dial
for `DialTimeout`, a request for `Timeout`, a prompt for ever; everything else a
process does, its start included, takes `Slack`. `api` tells the clients apart:
`subprocess.run` kills its process on any exception, `AsyncClient._run` only on
its own timeout (`Thrown`, `Dropped`). `asked` is a ghost: the process has put
its question. **PyAudit** makes one such read after the other and records the
outcomes as `scan_range` and `fingerprint` do; `heard` is a ghost, what the
device did with each read.

**Alerting** is `poll_once` with one step per rule, each ending in a failed
read, a failed predicate, a breach or a normal sample; a callback may raise,
which ends the round. `history` and `called` are ghosts: the samples evaluated
and the callbacks made.

## 3. The runs

| Run | What it shows |
|---|---|
| `client_bank` (ClientBank.cfg) | Callers that dial anew after a failure: the client implements RegisterBank, the framing checks of `do` never fire. |
| `client_reuse` (ClientReuse.cfg) | Callers that keep a connection: until the first failure the exchange of the call in progress is all there is on the connection; also after it, with devices that are late, silent or hang up, an answer is the call's own. |
| `watch` (Watch.cfg) | Delays within bounds, what is emitted, the count, that an interrupt ends the loop, and that the loop is a WatchProcess: little happens after an interrupt. |
| `commands` (Commands.cfg) | From the command line to the exit code: what is let through, consent, order, exit codes, that every command returns, and that a command is an OtcatProcess. |
| `driver` (Driver.cfg) | Dry run, write and read back for all options around every edge; with it, all eight function codes at the limits of tables and quantities. |
| `mock_server` (MockServer.cfg) | Close, what it waits for, and that it is never stuck; blocks read and written over several connections are one value. |
| `py_watch` (PyWatch.cfg) | Every value once and in order, no process left, closing ends, an orphan ends. |
| `py_audit` (PyAudit.cfg) | Outcomes, the watchdog, reports and fingerprints. |
| `alerting` (Alerting.cfg) | When a rule is active, and when its callbacks are made, as far as code and documents agree. |
| `watch_recovery` (WatchRecovery.cfg) | Violation; see section 5. |
| `py_watch_stuck` (PyWatchStuck.cfg) | Violation. |
| `alert_clear` (AlertClear.cfg) | Violation. |

Bounds, and why they are enough:

* `MaxCalls` 4 (5 in `client_reuse`, 3 for the watch loop and the commands) and `MaxDials` 3: the hazards of the client
  need one call that fails, one after it that meets what was left over, and one
  more that meets what that left over; two connections are what it takes for a
  write on an abandoned one to come late, a third one for two of them to do so
  in either order. The counters are bounded in the guards of `Begin` and
  `Connect`.
* `TxMod` is 65536, as in the code, except in `client_bank`, where 2 lets the
  number wrap. The theorems hold for any modulus up to 65536.
* `TableSize` is 4 to 10 instead of 65536: the device compares addresses with
  the size of its tables only. `driver` puts calls on both sides of that
  boundary and of every quantity limit.
* `client_bank`, `client_reuse`: one reader and two writers of one register are
  enough to tell answers and orders apart.
* `watch`: a count of two and three calls leave room for a failure before the values
  and between them; a value that follows a failed read on the same connection is
  among the states: the device swallowed the request before. A run polls one address: two registers, which make a value,
  or three, which never do. `Durations` is 16 where the code has 2^64
  nanoseconds, so the longest duration is 7. With an `Interval` of 5 the product is
  5, then 10, which wraps to -6, then 20, which wraps to 4: all three sides of the
  test in `fullJitterBackoff`. The back-offs are 6 and the longest, 7, with which
  Int63n panics. `BackoffBounded` has it for the code's width.
* `commands`: three lines are a good one, one that fails and one that must then
  not be sent; values are two registers wide, so that reads of half a value
  happen; writes of four registers pass the end of the tables, and writes of
  124 the client's limit. Every combination of the flags is started.
* `driver`: numerals at, before and after every edge of the four bands, values
  at, before and after every edge of the types of one and two registers.
* `mock_server`: two connections and `MaxRequests` 3 let a reader meet a writer
  and the seeding, and two handlers end in either order; a block of two
  registers can be torn.
* `py_watch`: pipes of two values and two lines, and up to `MaxValues` 4 values
  without a count, fill both pipes; counts of 1 and 3 are below and above their
  room. The process goes round for ever, so no failure is bounded.
* `py_audit`: `Timeout` is 1 and `Slack` 1 second; the dial's 3 and the
  watchdog's `Timeout` + 5 are the code's. The room is that of the code: 3 for
  the dial, `Timeout` for the request, which leaves 2 seconds. A `Slack` of 2
  would let the watchdog win, so `TimeoutMeansAsked` (and its theorem) rests on the start, the output
  and the exit of a process taking less. Ranges of up to three addresses and one
  sample after the four probes have every order of outcomes; percentiles are
  computed for up to 200 samples.
* `alerting`: six rounds are an episode with a debounce of 2, its end, another, and a
  failed read or a lone sample in between; the second rule has a debounce of 1.

Deadlock is not checked: every model stops when its bounds are reached, a
command or a call stops when it has returned, and a generator nobody asks again
waits.

**Fairness.** `WF(Late)`, which is the client's Timeout: `do` sets the connection's deadline
before it writes, and both reads run under it, so a call in progress is ended
by it if by nothing else. The device and the network get none: the program's
returning must not depend on them. `WF(Step)` in WatchLoop and Commands: a
goroutine that can run does, the sleeps are timers, a dial has its own timeout.
It also says that whoever reads the output reads it, that whoever is asked
answers and that whoever writes the input goes on or ends it: otcat has no
timeout on its standard streams, so without that a command may not return.
MockServer has weak fairness for each goroutine by itself, the one that accepts,
each handler and each worker with the mutex (a Go mutex is handed on); the clients
have none, except the probe, which is the main goroutine. PyWatch has it for
otcat and for the interpreter; the consumer has none. PyAudit has it for the
interpreter, for time and for a process that has not put its question; whoever
is asked has none.

## 4. What is proved

For all values of the constants that the assumptions at the heads of the modules
allow: any table size up to 65536, any set of well-formed calls, any number of
calls, connections and lines of input, any modulus of the transaction number,
either kind of caller; any interval, ceiling and count; any number of
connections to the mock device and any size of the block; any byte size, memory,
numeral, count and list of values of the driver; any room of the
pipes; any timeout and range; any rules, debounces, values and rounds. Of the
assumptions, `DriverAssumption` of Commands says what Driver.Write hands to the
client, and `OperationsAssumption` of PyAudit what a call of the Python clients can be.

| Theorem | States |
|---|---|
| **The wire** (WireLemmas) | |
| `DispatchType` | Whatever request a call encodes, the device answers with a PDU of bytes within the limit and keeps its tables well typed. |
| `ExchangeMeans` | The device, asked over the wire, does to its tables what the call says, and the typed operation returns what it means. |
| **The client** (ModbusClient_proofs) | |
| `Invariance` | `Spec => []IInv` |
| `TypeCorrect` | `Spec => []TypeOK` |
| `CleanConnections` | `Spec => []CleanExchange` |
| `AnswersAreOwn` | `Spec => []OwnAnswer` |
| `FramingIsSound` | `Spec => []FramingHolds` |
| `ClientIsRegisterBank` | `~ReuseAfterError => (Spec => ImplementsRegisterBank)` |
| `NoForeignAnswers` | `MaxCalls < TxMod => (Spec /\ []AnswersUnmistakable => []NoForeignAnswer)` |
| **The driver** (ModbusDriver_proofs) | |
| `DriverTypeCorrect` | `DriverSpec => []DriverTypeOK` |
| `WhatIsWrittenIsRead` | `DriverSpec => []ReadsBackWritten` |
| `DryRunIsHonest` | `DriverSpec => []PlanIsWritten` |
| `ReadsAreExact` | `DriverSpec => []ReadsTheCells` |
| `NamesTheirCells` | `DriverSpec => []NumbersNameOffsets` |
| **Commands** (Commands_proofs) | |
| `CommandsCallClient` | `CommandSpec => Spec` |
| `ConsentComesFirst` | `CommandSpec => []NothingWithoutConsent` |
| `DryRunIsOffline` | `CommandSpec => []DryRunNeverDials` |
| `EachInItsTurn` | `CommandSpec => []InOrderOnce` |
| `RefusalsAreTrue` | `CommandSpec => []RefusedMeansUndone` |
| `SuccessIsTrue` | `CommandSpec => []OkMeansDone` |
| `CommandsAreProcesses` | `CommandSpec => IsOtcatProcess` |
| **The watch loop** (WatchLoop_proofs) | |
| `LoopCallsClient` | `WatchSpec => Spec` |
| `BackoffBounded` | `WatchSpec => []BackoffInBounds` |
| `CountIsExact` | `WatchSpec => []CountExact` |
| `ValuesAreOwn` | `WatchSpec => []ValueIsOwn`, the part of `EmitsOwnAnswer` that holds for every device |
| `OnlyOwnValues` | `MaxCalls < TxMod /\ ReadsOnly /\ ReadingsUnmistakable => (WatchSpec => []EmitsOwnAnswer)` |
| `ShortReadingsAreOwn` | `MaxCalls < TxMod /\ MaxCalls < 770 /\ ShortReads => (WatchSpec => []EmitsOwnAnswer)` |
| `LoopIsWatchProcess` | `WatchSpec => IsWatchProcess` |
| **The mock device** (MockServer_proofs) | |
| `ServerInvariance` | `ServerSpec => []ServerIInv` |
| `CloseLeavesNothing` | `ServerSpec => []NothingAfterClose` |
| `CloseGoesOn` | `ServerSpec => []CloseIsNotStuck` |
| `ServerIsAtomic` | `ServerSpec => ServesAtomically` |
| **Python** (PyConsumers_proofs, PyAudit_proofs) | |
| `PyWatchInvariance` | `PyWatchSpec => []PyWatchIInv` |
| `ExhaustedComplete` | `PyWatchSpec => []ExhaustedIsComplete` |
| `ProcessesEndWithGenerator` | `PyWatchSpec => []NoProcessLeft` |
| `CallTellsTheTruth` | `AuditSpec => []OutcomeIsTrue` |
| `ProcessesEndWithCall` | `AuditSpec => []NoProcessLeftOver` |
| `MarginSuffices` | `Slack <= 1 => (AuditSpec => []TimeoutMeansAsked)` |
| `SweepIsTrue` | `AuditSpec => []ReportIsTrue` |
| `FingerprintTrue` | `AuditSpec => []FingerprintIsTrue` |
| `AlertTypeCorrect` | `AlertSpec => []AlertTypeOK` |
| `AlarmsFollow` | `AlertSpec => []AlarmFollowsSignal` |
| `CallsInTurn` | `AlertSpec => []CallbacksInTurn` |

**The client.** The central property is `OwnAnswer`: on a connection on which no
sent call has failed, an answer is what the device answered to this call. It is
not inductive: that the PDU just read is the device's answer depends on what was
on the stream. The strengthening is

    IInv == TypeOK /\ RequestsFaithful /\ InProgress /\ CleanExchange /\ OwnAnswer

`CleanExchange` says that on a clean connection there is nothing between calls,
and during a call one of four things: the request just as it was sent; nothing,
because the device hung up or stays silent; a prefix of the frame of `answer` while the header
is awaited; a prefix of `answer`, `pduLen` bytes long, while the PDU is. A
prefix, because a drop may lose the tail. `Serve` needs the frames at the
device to be encodings of calls (`RequestsFaithful`: what it decodes is what
was encoded, on any connection, also abandoned ones, since the call in progress
is the only one with its number), and that an answer fits a frame
(`InProgress`), or else the length in its header would not be its length.
WireLemmas has the facts about bytes this rests on: a header decodes to what
was encoded, frames are sequences of bytes, a prefix of a frame with seven
bytes has the frame's header, responses of `Dispatch` are within the limit and
never empty. The proof has one lemma per action; an action that leaves
everything on the connection alone is covered by one lemma for all of those.

**What an exchange means.** `ExchangeMeans` follows a call of each of the eight
kinds through encoding, `Dispatch` and `Interpret` and ends in `Meant(m, c)`,
which is what RegisterBank does. Packing bits into bytes and taking them apart
again, and words into pairs of bytes, are lemmas of their own. With it,
`MInv` says of the states what the refinement needs: a request at the device
has a number of its own and that of a call made (`OwnNumber`, `Distinct`), the
answer to the call in progress is what the call meant to some tables there have
been (`AnswerMeant`), a caller that dials anew is on a clean connection during
a call (`KeptClean`), and no framing check fires. The steps then map one by
one: `SendRequest` issues, `Serve` and `AnswerLost` carry out, the end of a call
returns or fails; reads of a header, drops, lost requests and dials are stutters. `ReuseAfterError`
is excluded because there the statement takes more: that caller goes on with a
connection that may hold what a failed call left over, and what keeps it from
taking that for an answer is the subject of the next paragraph.

**After a failure.** A caller that keeps its connection after a call has failed
(`watch` does) reads next what that call left over, from wherever the last read
stopped: after a deadline in the middle of a header that is the middle of a
frame, and what is then read as a header is a piece of an answer. It may also be
answered: when the device swallowed the request that failed, nothing is left
over, and the next call is in step. `NoForeignAnswers` says that whatever
happened before, an answer a call returns is the device's answer to that call, on
two conditions.

* `MaxCalls < TxMod`: no number is used twice. With `TxMod` 2 in ClientReuse.cfg
  TLC shows an answer that came late for one call being taken by the call two
  after it. In the code the modulus is 65536, so it takes as many calls on one
  connection.
* `AnswersUnmistakable`: no answer the device could give now has, where a reader
  out of step would look for a header, the number of a call with the zeros and
  the length of a header behind it. With five registers that hold 3, 0, 3, 387 and 512,
  TLC shows a third call reading register values as its header and
  returning an exception the device never raised. It is a condition on
  the data and not on the code: `do` has no other way to tell a header. TLC finds
  that it holds on the memory of `client_reuse`.

`NoForeignAnswer` is not inductive. What makes it so is `AInv`, in its main part
`AfterFailure`: on a connection a call has failed on, the reader is in one of four
places. `Between` two calls, what is on the stream, or comes when the device
serves what is left, has only numbers of calls made. `Waiting` for a header, the
request just sent is still with the device, and whatever is before its answer
is old. `Behind`, what is at the front of the stream has some other number, and
this call will end without an answer: its own is further back, or was lost.
`InStep`, the reader has caught up with the device, and all there is on the
connection is the answer to this call. A header that begins in one frame and ends
in the next one is the hard case: it would have to put the first bytes of a frame,
number, protocol and length, where a header has its zeros and its length, and a
frame's sixth byte is never zero, so `MayBeHeader` follows pieces of headers to the
end of what is there (`OnlyOldSoFar`), and one lemma joins that with the frame
that comes next. `AnswerPlain` keeps the answers unmistakable, `NumbersGrow` the
numbers apart; `WholeWhileOpen` says that while the link is open an answer on a
clean connection is there to its last byte, and `HungUpEmpty` that a device that
has hung up has nothing left to serve.

**The driver.** All of it holds for every size of a byte, so also for the code's
256, which TLC cannot reach; for every memory, numeral, count and list of values. The
bottom is numbers of two digits (`Digits`, `TwoDigits`, `Joined`): swapping the
bytes of a register twice gives it back, a signed value is recovered from its
remainder, and hence `DecodeEncode` and `EncodeDecode`, for each type under each
of the four orders; `GroupOfRegisters` and `RegistersOfGroup` carry them from one value
to lists. `DriverInv` then says of each phase that its result is the one its
inputs determine, with the exchange replaced by its meaning (`Carried`, by
`ExchangeMeans`; the calls of a write and of a read are shown to be ones
`ExchangeMeans` is about), and that registers are numbers of two bytes (`Sound`),
without which a byte order cannot be undone when bytes are small. What is read
back is then a slice of what was overwritten.

**Commands.** `CommandsCallClient` lets the invariants of the client be used
as they are. `CInv` adds, in parts: where the command is and whether it has
dialled (`Route`); that nothing has happened before consent (`Quiet`); that the
calls made are in order, that of the lines called, acknowledged and carried out
only the last may differ, that what is still on its way is that last one and
was not carried out yet, and that the tables hold what was carried out
(`Books`); how far the input is taken (`Reading`, `Planning`); what the state of
the call says of the device (`Settled`: an answer on the way means carried out,
an exception on the way means not); and what the exit code then says
(`Verdict`). `Books` with `Settled` is what makes it inductive: whether the last
line was carried out is known only through `answer` and `clean`. That a command
dials once, so that a clean connection is the only one, is part of `Route`. The
refinement of OtcatProcess maps each step of the command, the client and the
device; counting the call lines needs that a sequence `InOrder` is at most as
long as there are call lines.

**The watch loop.** `CountExact` needs that a round makes one call and emits at
most one value (`OneCallPerRound`) and that the count is not reached before the
loop sees it (`BelowCount`). `BackoffBounded` is about every interval and ceiling a
duration can hold: whatever the product in fullJitterBackoff wraps to, the sleep
after a failure is neither above the ceiling nor above the product, and the
+1 before Int63n wraps, and the process panics, only if the ceiling is the longest
duration there is and the product reaches it. `EmitsOwnAnswer` on a connection no
read has failed on is `ValueIsOwn` and holds for every device (`ValuesAreOwn`); on
any other connection it follows from `NoForeignAnswers`, under its conditions. A loop that only reads never changes the tables
(`ReadsChangeNothing`), so the condition on answers becomes one on the tables it
starts from, `OnlyOwnValues`. For a loop that reads one register or up to eight
coils there is none left: an answer of four bytes has room for a number in one
place, where the function code and the count make it 770 or more, so up to 769
readings are safe whatever the tables hold (`ShortReadingsAreOwn`).

**The mock device.** `Counted` is why Close is right: the wait group is the
number of handlers alive plus one while serve runs; with `Admitted` (a
connection is taken from a listener that is open) and `Closing` (when serve is
gone nobody listens) zero means nothing is left. The same parts give `CloseGoesOn`:
above zero there is serve, with its listener closed, or a handler, which has its
connection or a reply to go on with, or wants the mutex, which is free or with a worker
that needs nothing else (`Mutex`). That, for any number of connections, is the half of `CloseReturns`
that is not about fairness; its guards are those of the actions. For atomicity, `Mutex` and
`TasksOK` say that only the holder has touched a part of the block; a request is
mapped to the instant at which it takes the mutex, and each touch of a register
leaves `BlockNow` and `EffectNow` as they are.

**Python.** `PyWatchIInv` keeps the books of the pipe: what the consumer was
given and what is still in the pipe are the values emitted, counted from one.
`CallIInv` ties the state of the call to that of its OtcatProcess; `InTime`
bounds the clock in each phase by what the program's own deadlines allow, which
is why the watchdog never wins: dial, request and `Slack` are under `Timeout` + 5
when `Slack` is at most one. For `scan_range` and `fingerprint`, `AuditIInv` adds what
the report says so far of the reads so far. Alerting looks at a counter and not
at samples, so `AlertIInv` adds `Counted`: the counter is the length of the run
of breaching samples at the end of the history, and the rule is active exactly
when it has reached what is needed. `Paced` says that a rule counts at most once
a round, which keeps the counter in its range. `AlarmsFollow` is then immediate.
For `CallsInTurn` the invariant is `Telling`, which is `CallbacksInTurn` rule by
rule; that a sample keeps it has two cases, one in which nothing is told
(`ToldQuietly`) and one in which the call made is the next in turn (`ToldAloud`).

**Only model-checked**, and why:

* The liveness properties (`InterruptReturns`, `CommandReturns`, `CloseReturns`,
  `ProbeEnds`, `ClosingEnds`, `ProcessEnds`, `AuditEnds`): liveness under
  fairness is out of the prover's reach.
* `NoForeignAnswer` and `EmitsOwnAnswer` have theorems, on the conditions above;
  without them they are false, and the runs check them where they hold.
* What a recursive function computes for every input, as far as it would take
  an induction over data.

## 5. Where the code and its documents differ

Three are runs that TLC ends with a counterexample.

* `watch_recovery`: docs/backoff.md promises at most one delay per transient
  failure. Neither the loop nor the client redials or resynchronises. After one late
  response the reads stay out of step with a device that answers every request,
  each meeting what the one before left over; after a hang-up none succeeds. (A device that
  swallows the request instead costs one failure, as promised.)
* `py_watch_stuck`: the documentation of `Timeout` in exceptions.py names a watch
  generator that produced no value for longer than expected. There is no such
  timeout, and the generator never reads the pipe of standard error it made:
  when a device is away long enough for the retry messages to fill it, otcat
  stops in the middle of one, and the generator waits for ever, also once the
  device is back.
* `alert_clear`: alerting.py:94-97 debounces on_clear as it does on_trigger;
  `_evaluate` calls it at the first sample that does not breach. `AlarmFollowsSignal`
  and `CallbacksInTurn` leave the sample open at which an active rule is called off.

Others came up while the models were written and have no run:

* The usage text (flags.go:82) promises that --dry-run touches no network. The flag
  package stops at the first word that belongs to no flag, and parseArgs does
  not look at what is left, so with `--write ... --confirm true --dry-run` otcat
  connects to the device. `CommandLines` has such a command line (`lost`), and
  Commands takes it for one without --dry-run, as the program does.
* docs/backoff.md:65-67 promises that --max-backoff keeps otcat checking
  indefinitely. With the longest duration there is as --max-backoff, and an interval
  whose product reaches it, the +1 of poller.go:112 wraps and Int63n panics at a
  failed read (`Panics` in WatchLoop, which `watch` reaches; `BackoffInBounds` says
  that it takes no less). A Go panic exits with status 2, the status of a
  connection failure (cliapp.go:29).
* client.go:88-90 calls a wrapped transaction number a non-issue because there is
  never more than one request in flight. After a timeout there is: a response left
  over from a call that timed out is accepted by the call that gets its number
  again, the first of the two conditions of `NoForeignAnswers`.
* README.md:232 gives exit code 5 one cause, a broken output pipe. classifyErr
  gives it to every error it does not know, among them a device that closes the
  connection and a quantity over the client's limit. In Python that is an
  IOFailureError, which scan_range does not catch: one such address, and the
  report so far is lost (audit.py:99).
* driver.go:176-177 says that ExplainWrite performs every step of Write but the
  sending; it leaves out the client's quantity check.
* The docstring of AlertEngine speaks of one otcat process per unique spec; every
  rule starts one of its own in every round.
* client.py:26-28 recommends confirm=False to get the stricter default and its
  WriteAbortedError. With standard input a terminal otcat prompts instead, into a
  pipe: nobody sees the question, and the call ends in Timeout, or in a write if
  the next line typed happens to be y.
* A sweep of `coil` from 0 reads coil 0 and coil 1, which are the same cell in
  classic notation, as are the probe addresses of a fingerprint; results are
  labelled with the numeral.
* otcat-latencyprobe -n 0 panics after the measurement (main.go:106). A Go panic
  exits with status 2, which the Python client takes for a ConnectionError.
* A dry run of a stream that cannot print ends with code 1 and not 5.

## 6. What is left out

* A partial `conn.Write`.
* How the operating system reports a closed output to a command. `EmitFails` and
  `PrintFails` are writes that return an error; on standard output a broken
  pipe ends a Go program by SIGPIPE before it can classify anything, which is
  `BrokenPipe` of PyWatch.
* Spelling: digits, hexadecimal literals, formats of output, decimal floats,
  JSON, the usage text. `--count` is converted from uint to int; counts of 2^63
  and more are left out.
* The distribution of the jitter; its range is kept. Latencies and statistics of
  the audit and of the probe; their number and the percentiles' places are kept.
* Time shorter than a second in PyCall; that the rest of a process takes at
  most `Slack` is an assumption, and `MarginSuffices` says how much of it there may be.
* The tank process, which is arithmetic on reals, and writes to the mock device
  like any other owner; the encoders, which format one value; exception.go, which
  words error messages; models.py, pandas_ext.py and _binary.py, which convert
  data; the main functions of otcat and otc, which are os.Exit around Run.
  None of them keeps state that another part depends on.

## 7. Plan

Done, in the order of importance: the client with its abstract specification;
the two kinds of callers, from the command line on; the driver; alerting; the
mock device's goroutines; the Python clients over the processes the commands
were shown to be; the audit; and the proofs of section 4, the four refinements
among them.

Next:

1. The arguments behind the other liveness properties as far as they are safety: that
   some step is possible until the end is reached, as `CloseGoesOn` says of Close.
2. How often readings of more than one register can hold a header: a bound on
   `ReadingsUnmistakable` for blocks of a given length.
