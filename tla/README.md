# Formal model of remote-mfi

remote-mfi puts an Apple MFi authentication chip, attached through a CH341
USB-to-I2C stick, behind an HTTP interface: clients fetch its certificate and
have challenges signed. The project models the whole way from an HTTP request
to the bytes on the I2C bus, and the process around it: what decides whether
that is done right when many clients, a slow chip and an unreliable bus meet.

## Inventory

| Part | Source | State | Operations | Model |
| --- | --- | --- | --- | --- |
| Service | `internal/biz/service.go` | gate (a one-slot channel, a holder name), signature cache, certificate pointer | Sign, Certificate, Probe, Reset; read-only Health, Diagnostics, Runtime | `Service` |
| Driver | `internal/chip/driver.go` | none of its own; locals of one operation | ProtocolMajor, ReadCertificate, SignChallenge | `Driver` |
| Session layer | `internal/transport/ch341.go`, `transport.go` | `ioMu`, `sessionMu`, `session`, `closed` | Transaction, InspectUSB, Close | `Transport` |
| Stream execution | `internal/transport/ch341.go` (`execute` and below) | none of its own; the bridge's unread answer | packets, answers, status bytes | `Stream` |
| Stream encoder | `internal/transport/ch341_encoder.go` | the stream being built | encodeTransaction, encodeConfiguration | `Encoder` |
| Handlers, server | `internal/httpapi/handlers.go`, `server.go` | status and note of each request | authentication, decoding, error mapping, observation | `HttpApi` |
| Recent requests | `internal/httpapi/recent.go` | a ring | add, listNewestFirst | `RecentStore`, in `HttpApi` |
| Lifecycle | `cmd/remote-mfi-for-xcertplay/main.go` | signal, listener, transport | probe, graceful shutdown, deferred Close | `Lifecycle` |
| Configuration | `internal/config/config.go`, `main` | none at run time | Parse, the constructors | `Startup` |
| Version, templates, build | `internal/ver`, templates, `Makefile`, ... | none | - | not modelled |

How they interact: every HTTP request is a goroutine. A handler calls the
service; the service lets one goroutine at a time past its gate and calls the
driver from there, with a context that ignores the client's cancellation; the
driver turns an operation into I2C transactions and repeats the failed ones;
the transport runs one transaction at a time on the current USB session.
Health checks and the diagnostics page go from the service straight to
`InspectUSB`, past the gate, so they meet transactions only at `sessionMu`. At
shutdown `main` calls `Close`, possibly while both are in progress.

What is hard: goroutines that looked up a cache before they waited for the
gate; waits that time out or are cancelled just as the slot becomes free; a
client that retries while its first request still runs; a stick that is
unplugged under an open session; writes that failed but reached the chip, and
writes that were reported as done and did not; nested deadlines; the edges of
lengths, packets and register numbers; a shutdown that meets all of it.
`PROJECT.json` lists each hazard at its line with
the properties that would notice it.

What makes the parts correct:

- Service: driver calls never overlap and the slot is never lost or freed
  twice; the displayed holder is the real one; a requestId is signed at most
  once per cache lifetime; a signature that was produced stays available for
  its lifetime; nobody gets a signature of another challenge or requestId; all
  clients see one certificate; every call returns.
- Driver: a read finds the register that was selected for it; a signature
  belongs to its challenge; a certificate is complete and in order; every
  operation ends within the sum of its deadlines.
- Session layer: no handle is used after it was closed and none leaks; only
  one goroutine at a time has the stick claimed; after Close no session is
  opened again; a session that an error discredited is dropped; the two locks
  never wedge.
- Stream: the packets mean the transaction, for every length, and one that
  breaks off has done no more than a beginning of it; the data that are
  returned are the slave's; a reported refusal is an error.
- HTTP: nobody gets past a missing token; every business request is recorded
  once, with what really happened to it; the list is that of the last requests.
- Lifecycle: a signal ends the process; a shutdown that reports success cut
  nobody off; the stick is released on every way out.
- Startup: what the parser accepts the constructors accept, unaltered.

## Modules

### Service

Each goroutine has a program counter (`pc`), the request it serves (`call`),
one local (`local`: `protocolMajor` of Certificate, `entry` of Sign) and its
`result`. A step is one critical section, channel operation, atomic access or
driver call:

| Action | Code |
| --- | --- |
| `CallSign`, `SignLookup`, `SignRecheck`, `SignAnswered`, `StoreEntry` | `Sign`, from validation to `cache.put` |
| `CallCertificate`, `CertificateLookup`, `CertificateRecheck`, `MajorAnswered`, `ReadAnswered` | `Certificate`; `MajorAnswered` also `Probe` |
| `DriverFails` | the error returns after a driver call, through `normalizeHardwareError` |
| `SendToken`, `SetHolder`, `WaitEnds` | `chipGate.acquire`: the `select`, then the holder under `mu` |
| `ClearHolder`, `ReceiveToken` | the deferred release |
| `Reset`, `Deliver` | `Reset`; the handler takes the result |
| `Tick`, `SwapDevice` | the clock; the stick is replaced (external) |

`SendToken` and `WaitEnds` are both possible while the slot is free, because a
Go `select` picks any ready case; the timer may fire at any moment after the
wait began, so no clock is needed for the 8 s. The signature cache is a
function from requestIds to entries; `get` deletes the entry it finds expired,
and an entry is valid at its last instant (`now > expiresAt` is expired).
SHA-256 is a symbolic injection. Chip bytes are symbolic: a signature names
its challenge and a serial number, so that two signings of one challenge
differ; `signed` records the signings with their times. A successful signing
takes place, for the clock, when `entry.expiresAt` is computed.

### Driver

One operation at a time, as the gate guarantees. `pc` names the register
access in progress and `phase` its half (select, read); a transaction is a
step that takes 0..`TxTicks`. `TransactionFails` covers a transaction that the
transport reports as failed, whether or not it reached the chip; `WriteOK` and
`SelectOK` one it reports as done, which the chip has missed in the `Disturb`
case (`bulkReadAtMost` accepts a missing status, `allowEmpty`). `Retry` is
`retryIO`: its deadline is looked at after a failure, and a retry starts with
the select again. `WithStatus` and `PollAgain` are the polling loop, in which a
failed register access counts as "not yet". `WithWindow` is the body of the
certificate loop; the register sent is `register % 256`, as `byte(register)`.
`windows` keeps, for each window, the register it came from, its offset and
its size, which stand for the bytes.

The chip is external: the selected register, the challenge registers, the
state of the last authentication. A stale success status and the previous
signature stay readable until a new start, as the driver must expect. It
forgets everything when it is plugged again (`Replug`).

### Transport

Each goroutine is a worker (`Transaction`), an inspector (`InspectUSB`) or the
closer (`Close`). Both mutexes are explicit. Opening is several steps under
`sessionMu`: `Ensure`, `OpenDevice` and `NothingOpened` are the loop over
`usbIDs`, `ClaimConfig`, `ClaimInterface` and `FindEndpoints` are `openSession`,
each with its own error return and what that gives back, and `GiveUp` is the
loop's `device.Close` after such an error. `Execute` is the end of a transfer
under `ioMu`, `InvalidateSession` a critical section of its own under both.

`EnumerateUSB` and `DescribeDevice` are `enumerateUSB`, before any lock. For
`/healthz` it only lists descriptors. For `/debug/usb` (`includeDeviceStrings`)
the callback of `OpenDevices` opens every device, the stick included, whoever
is using it, and the loop after it closes them one by one; `looking` has the
ones that are still open. Nothing in the code keeps such handles from existing
next to a session, or after `Close`. `OneOpenHandle` and `ClosedForGood`
therefore except them, by what they are (`Listed`): open in an enumeration in
progress, with nothing claimed. Whether the operating system lets an open
device be opened again is its business; the model allows it.

A gousb handle is a record of the resources it holds, of the VID:PID it was
opened for and of whether its device is attached; a device is not closed while
a configuration of it is claimed (`DeviceClosed`), as gousb has it.
A handle is reused only when nobody refers to it, as a Go object would be, so
the pointer comparison in `invalidateSession` is faithful. `Execute` on a dead
handle ends with an error of the kinds gousb reports for it; `execute` starts
with a bulk write, so such an error comes before any quiet-timeout rule.

### Encoder and Stream

`Encoder` is a set of operators on byte sequences, one for each function of
`ch341_encoder.go`: `encodeLegacyTransaction` for what fits one packet, the
record `[result, segment]` with `room`, `instruction`, `startAndWrite`, `read`,
`finish` for `segmentedStream`. Its loops are recursive functions. The other
half of the module is the way back: `Instructions` walks through a packet as
`instructionLengths` does and as the bridge has to, `writtenBytes` and
`dataBytes` are the sums it returns, `Perform` the bus events of the
instructions. `Meaning` states independently what a transaction means on the
bus.

`Stream` extends it. `Transaction`, `Configure`, `SendSegment`,
`Receive` and `Complete` are `execute`: the speed, then packet after packet of
32 bytes, each followed by the read that `instructionLengths` calls for.
`Receive` contains `bulkReadAtMost` with its rule that only a packet without
data may stay unanswered, `checkStatusBytes`, and the split of what came into
status bytes and data.

The bridge is external and modelled from what `instructionLengths` expects of
it: it runs the instructions of a packet up to END, keeps a record of the bus
events (`bus`), answers a one-byte write with a status byte and a counted write
with none. Faults: the slave refuses a byte (`nack`), a transfer fails
(`transfer`), status bytes or the whole answer stay out (`mute`), or come after
the quiet timeout (`late`, then `Arrive`). A write that fails may have reached
the bridge, which then runs the packet and has an answer that nobody reads
(`RunsUnnoticed`); a packet is one USB packet, so it arrives whole or not at
all. `Expected` is the speed followed by the transaction's `Meaning`.

`stray` says that an answer byte was late, or stayed in the bridge when a
transfer failed. Nothing in the code drains the endpoint, so from then on
`execute` may take it for the next answer: `OwnAnswer` and `NackReported` hold
as long as that has not happened, and say nothing afterwards. `BusMatches`,
`HealthySucceeds` and `NeverBeyond` have no such proviso: what is written does
not depend on what was read but for the decision to stop.

### RecentStore, RequestLog and HttpApi

`RequestLog` is the list of the last `Capacity` requests, `RecentStore` the ring
that stands for it (`RingIsLog`, by refinement with `listNewestFirst` as the
log). `HttpApi` extends `RecentStore`: every request is a goroutine that goes
through `observe`, the mux, `withAuth` and its handler. Its steps end where it
meets shared state: the call of the service (`CallService`, then
`ServiceAnswers`, `ServiceFails`, `handleReset` or `handlePage`) and the ring
(`Add`). `NotFound`, `Unauthorized`, `requireMethod` and `BadBody` are the early
returns in their order. The service gives any of its results;
`serviceErrorResponse` and `defaultNote` are the code's switches. `why` is a
history of what really happened, against which notes and statuses are checked.
Bodies are classes, tokens are compared as wholes.

### Lifecycle and Startup

`Lifecycle` begins where `run` starts its goroutines. `ShutdownRequested` and
`ServerErrorSeen` are the `select`; `Shutdown`, `Drained`, `DeadlinePasses` the
graceful shutdown with its 10 s; `Cancel`, `Close`, `Exit` the deferred calls in
their order and the end of the process, which cuts off whatever still runs.
Requests may do I2C transactions (`LockIO`, `LockSession`, `Opened`, `EndIO`:
`ioMu`, then the session under `sessionMu`, then the transfers) and health
checks, which enumerate the bus without a lock and then take `sessionMu` alone
(`BeginEnumerate`, `EndEnumerate`, `LockSession`, `Opened`), as often and as
long as they like. `Close` takes the two mutexes one after the other
(`CloseLocksIO`, `Close`). If an enumeration has devices open then, gousb
refuses to close the context; `run` drops that error and the process ends.
`Kill` is a signal after the handler was removed.
`Startup` is the way there: `config.Parse` with its conversions, the exit codes
of `main`, and the constructors, each of which checks its arguments again. Those
of the service and of the handler only refuse nil arguments and templates that
do not parse; `run` passes neither, so they always succeed (`NewHandler`).

### IdempotentSigner and ServiceRefinement

`IdempotentSigner` is what `POST /mfi/sign` promises: a requestId names one
signature for `TTL` from the moment it was made; meanwhile nobody makes another
(`Make`), the same challenge gets it and another one is told of the reuse
(`Repeat`), and the client it was made for gets it (`HandOver`).
`ServiceRefinement` maps `Service` to it: the request is the goroutine's call,
the signature is in hand between the driver's answer and the cache, the answer
is the goroutine's result.

### Relation between the modules

The driver interface of `Service` (an operation takes a while, then fails or
answers for the device attached at that moment) is what `Driver` does in
detail; the transaction of `Driver` (done, failed, done but lost) is what
`Transport` does, whose `Execute` is `Stream` in one step; the service of
`HttpApi` is `Service`; `Lifecycle` has of `Transport` what its `Close` races
with. `HttpApi` includes `RecentStore`, and `Service` implements
`IdempotentSigner`; the other modules share no variables, and their composition
is argued here, not checked.

## Runs

| Run | Instance | Shows |
| --- | --- | --- |
| `service_sign` | 2 handlers and the probe, one requestId, 2 challenges, 2 devices, TTL 1, clock to 2, 2 signings | `TypeOK`, `ChipExclusive`, `SlotAccounted`, `HolderTruthful`, `SignedOncePerWindow`, `SignedIsCached`, `NoCrosstalk`, `OneCertificate`, and the refinement `SignIsIdempotent` |
| `service_live` | 2 handlers and the probe, a malformed requestId, an oversized challenge, fair scheduling | `EveryCallReturns`, `GateIsReleased` |
| `driver_protocol` | challenges of 1, 128 and 129 bytes, certificates of 0, 1, 128, 129 and 65526 bytes, one disturbance per operation | `TypeOK`, `ReadsWhatItSelected`, `SignatureMatches`, `WithinDeadlines`, `CertificateComplete` |
| `driver_wrap` | certificate length 26497 | violation, see Findings |
| `transport_session` | 2 workers, an inspector, the closer, 2 identities, 4 handles | `TypeOK`, `UsedHandleIsOpen`, `OneOpenHandle`, `ClosedForGood`, `FailedSessionDropped` |
| `transport_live` | 1 worker, an inspector, the closer, 3 handles, fair scheduling | `EveryCallReturns`, `StaleSessionIsDropped` |
| `transport_check` | as above, without fairness | violation, see Findings |
| `stream` | 15 write lengths with 13 read lengths and three invalid requests; two in a row of 3 with 2 lengths, with up to 2 faults of every kind | `BusMatches`, `HealthySucceeds`, `OwnAnswer`, `NeverBeyond`, `NackReported` |
| `stream_nack` | a refused byte, reads of 1 and 33 bytes | violation, see Findings |
| `http` | 2 handlers, 3 requests out of 10 kinds, a ring of 2 | `UnauthorizedStaysOut`, `RecordsAreTruthful`, `RecordedOnce`, `RingIsLog` |
| `lifecycle` | 3 requests and the probe, fair scheduling of `run` | `GracefulAnswersAll`, `ContextUsedWhileOpen`, `ReleasedOnExit`, `SignalEndsProcess` |
| `startup` | identity lists of up to three parts; every other flag at its boundaries | `AcceptedStarts`, `ServesAsWritten` |

Bounds. Two handlers make every race over a requestId: one signs while the
other has looked up the cache and waits, or expires the entry, or comes back
with another challenge; handlers serve any number of requests, and the
theorems cover more of them, and more requestIds. With `TTL = 1` an entry is hit both when it is new
and at its last instant, and `MaxTime = 2` with `MaxSignings = 2` lets it expire
and be signed again. `MaxSignings` and `MaxTime` are the only bounds of
`Service` that cut behaviours off; at `MaxSignings` a driver call can still
fail, so nothing blocks. Two devices suffice for a swap, two identities for the
loop to go on after a failure. Four handles are as many as can be referred to
at once with one leaked: two in an enumeration, one that a goroutine opens or
has just lost, and one more; with three, where there is one worker, no open
waits for a handle either. In `Driver` (`MaxDisturbed`) the times are units of a sleep, with
deadlines of one and two units and transactions that may take one: shorter and
longer than the deadline both happen. In `Stream` the lengths lie on both sides
of every limit: of the one-packet form, of a packet that has just room for an
instruction, END or STOP, of a read block and its last byte; writes fill up to
four packets, and the theorems cover all other lengths. (The limit of 63 bytes
of a counted write is never the one that decides: a write of 14 bytes no longer
fits the one-packet form.) `Disturbed`,
`MaxFaults` and `MaxCalls` confine the faults to requests of one and of several
packets, two of them in a row, since a fault concerns a packet and its
neighbour, not the length of the whole. In `HttpApi`, `MaxRequests = 3` is one
more than the ring holds; the kinds of requests reach every early return. The
ring is proved for every capacity.

Handlers are interchangeable, as are devices, workers and handles, and the
safety runs use that symmetry (the mappings of `SignIsIdempotent` and
`RingIsLog` treat all of them alike, and both are safety properties); the runs
with fairness use none. Deadlock is checked in the service, driver and
transport runs. The others end: `Stream` and `HttpApi` at their bounds,
`Lifecycle` and `Startup` with the process.

Fairness. `Service`: weak fairness of every goroutine's own steps. Go's
scheduler runs runnable goroutines, `acquire`'s timer ends a wait, and driver
calls end because their loops have deadlines (`WithinDeadlines`). Nothing is
assumed of clients, of the clock or of the stick. `Transport`: in addition
strong fairness of taking a lock, because `sync.Mutex` hands over to the
longest waiter after 1 ms of starvation. `StaleSessionIsDropped` supposes that
transactions keep being made, which is its premise and not a fairness
assumption: the code notices an unplugged stick only by using it. `Lifecycle`:
weak fairness of the goroutine of `run` and of the end of a transaction and of
opening (USB transfers have timeouts, the loop over identities is finite),
strong fairness of taking `sessionMu` and of the two locks of `Close` for the
same reason as above. Nothing is assumed of requests, which may hang or go on for ever.

## Theorems

All of them hold for every value of the constants that satisfies the named
assumptions; one has a hypothesis, which the table names.

| Theorem | Module | Property |
| --- | --- | --- |
| `TypeCorrect` | `ServiceProofs` | `TypeOK` |
| `SlotIsAccounted` | `ServiceProofs` | `SlotAccounted` |
| `ChipIsExclusive` | `ServiceProofs` | `ChipExclusive` |
| `HolderIsTruthful` | `ServiceProofs` | `HolderTruthful` |
| `AtMostOneSigningPerWindow` | `ServiceProofs` | `SignedOncePerWindow` |
| `ProducedSignaturesAreCached` | `ServiceProofs` | `SignedIsCached` |
| `ClientsAreNotMixedUp` | `ServiceProofs` | `NoCrosstalk` |
| `CertificateIsUnique` | `ServiceProofs` | `OneCertificate` |
| `ServiceImplementsSigner` | `ServiceProofs` | `SignIsIdempotent` |
| `TypeCorrect` | `DriverProofs` | `TypeOK` |
| `ReadsTheRegister` | `DriverProofs` | `ReadsWhatItSelected` |
| `SignaturesMatch` | `DriverProofs` | `SignatureMatches` |
| `OperationsEnd` | `DriverProofs` | `WithinDeadlines` |
| `CertificatesComplete` | `DriverProofs` | `CertificateComplete`, under `FewWindows` |
| `TypeCorrect` | `TransportProofs` | `TypeOK` |
| `InUseIsOpen` | `TransportProofs` | `UsedHandleIsOpen` |
| `NeverClaimedTwice` | `TransportProofs` | `OneOpenHandle` |
| `NoSessionAfterClose` | `TransportProofs` | `ClosedForGood` |
| `DroppedAfterFailure` | `TransportProofs` | `FailedSessionDropped` |
| `EncodedAsMeant` | `EncoderProofs` | the encoder, for all requests |
| `BusAsMeant` | `StreamProofs` | `BusMatches` |
| `WorkingBridgesSucceed` | `StreamProofs` | `HealthySucceeds` |
| `AnswersAreOwn` | `StreamProofs` | `OwnAnswer` |
| `BusNeverBeyond` | `StreamProofs` | `NeverBeyond` |
| `RefusalsReported` | `StreamProofs` | `NackReported` |
| `RingImplementsLog` | `HttpProofs` | `RingIsLog` of the ring alone |
| `HandlersImplementLog` | `HttpProofs` | `RingIsLog` with the handlers |
| `TokenRequired` | `HttpProofs` | `UnauthorizedStaysOut` |
| `TruthfulRecords` | `HttpProofs` | `RecordsAreTruthful` |
| `EachRecordedOnce` | `HttpProofs` | `RecordedOnce` |
| `GracefulShutdown` | `LifecycleProofs` | `GracefulAnswersAll` |
| `NoUseAfterClose` | `LifecycleProofs` | `ContextUsedWhileOpen` |
| `StickReleased` | `LifecycleProofs` | `ReleasedOnExit` |
| `AcceptedCommandLinesStart` | `StartupProofs` | `AcceptedStarts` |
| `ServedAsWritten` | `StartupProofs` | `ServesAsWritten` |

`ServiceProofs` rests on `ServiceAssumption`: the probe is not a handler, the
empty string is no UUID, lengths and times are natural numbers, and `Nil` is no
certificate. The refinement also uses `RefinementAssumption`: `Nil` is neither a
signature nor a request. `HttpProofs` rests on `RecentAssumption`, a capacity of
at least 1 (`config.go` gives 20), and on `HttpAssumption`: the number of
requests is a bound, and the records of `observe` are entries of the ring.
`DriverAssumption`: lengths fit in 16 bits, times are natural numbers, and a
signature is longer than the two bytes of a number, so that no length is read
for one. `TransportAssumption`: the identities form a sequence that is not
empty, the goroutines of the three kinds are distinct from one another and, like
the handles and identities, from `Nil`. `StreamAssumption`: requests are what the types of
`Transaction`'s parameters admit (a byte, a slice of bytes, an integer) and the
speed is one of the four. `LifecycleAssumption`: the probe is no handler, the
goroutine of `run` is neither, and `Nil` is none of them. `CommandLinesAssumption`: a list of identities is what
splitting a text at commas and colons yields, so it has at least one part.

`FewWindows`, the hypothesis of `CertificatesComplete`, says that the register
numbers of every accepted certificate fit in a byte; `driver_wrap` shows what
happens otherwise.

Statements about loops (the encoder's, the parser's, the sums) need induction
over data. The prover has no induction rule that it can instantiate with a
formula, so those proofs use sets: the set of the numbers for which a statement
holds contains 0 and with each number the next, hence all of them
(`RoundByRound` in `EncoderProofs`, from the least number that is not in the set).

- `TypeInv` adds to `TypeOK` what the local holds at the statements that use
  it (`LocalsOK`); without it the store step could put anything in the cache.
- `GateInv` is `SlotAccounted` with `HolderTruthful`. They are inductive
  together: that a goroutine may set or clear the name rests on its having the
  slot alone. `ChipExclusive` follows, as driver calls lie inside the slot.
- `WindowInv` says why a requestId is signed once per window. A fresh
  signature is in the cache or its goroutine is about to store it
  (`FreshHeld`), and that goroutine has exactly this signature (`StorerHasIt`);
  whoever is inside the driver's signing has seen, inside the gate, that there
  is no fresh one (`SignerIsFirst`); no signing is in the future
  (`NotFuture`). `SignedOncePerWindow` alone is not inductive, since it says
  nothing of the goroutine that is about to sign. `SignerIsFirst` is
  established at the second lookup, where `GateInv` excludes a goroutine about
  to store, and kept by the clock, under which signatures only age.
- `PhaseInv` relates a goroutine's place to its request and its result: before
  it has an answer the result is empty, afterwards it is not.
- `IssuedInv` is the provenance behind `NoCrosstalk`: every cache entry, and the
  entry of a goroutine about to store one, stems from a signing under its
  requestId (`CacheIssued`, `StoreIssued`), with the digest of that signing's
  challenge; hence so does every answer (`OwnSignature`).
- `CertificateInv` adds to `OneCertificate` that whoever reads the certificate
  from the chip found none inside the gate, and that none was stored since
  (`ReaderIsFirst`, from `GateInv`).
- `ServiceImplementsSigner` has one lemma per kind of step. That a driver's
  answer is a `Make`, which wants no live signature, is `SignerIsFirst`; that a
  cache hit is a `Repeat` of a live one is `CacheIssued`; that a goroutine
  without an answer waits in the abstraction is `PhaseInv`. Everything else is
  a stutter or an error.
- `RingImplementsLog`: the ring is well formed (`RingInv`); an add shifts every
  offset by one and either lengthens the list or overwrites its last entry.
- `HttpInv`, for the handlers: types and the program counter's route
  (`HttpTypes`); what a request's answer says of its cause (`AnswerInv`), from
  which the note in the ring is read long after; the request numbers, which no
  two handlers share (`NumberInv`); and that the list holds no request twice,
  only requests that are done, and as many of them as the ring has room for
  (`ListInv`). `RecordedOnce` alone is not inductive:
  that an add brings a new number rests on `NumberInv`. `HandlersImplementLog`
  follows because each step is an `add` or leaves the ring alone.
- `SessionInv`, for the session layer: each goroutine is at statements of its
  kind (`Roles`); a lock is taken exactly at the statements between its lock and
  unlock (`LockInv`); whoever executes has the current session, and whoever opens
  holds exactly what `openSession` has claimed up to there (`UseInv`); what an enumeration has open is a device with nothing claimed that
  no one else refers to (`LookInv`); whatever else is open is the session or the
  handle in the hands of the goroutine that opens (`OpenInv`). They are inductive together
  only: that an invalidation does not close another's handle rests on `ioMu`,
  that `Close` leaves no session on both locks and on `closed`, which `Ensure`
  looks at under `sessionMu`, and that an enumeration, which has no lock, does
  not touch the session's handle on `LookInv`.
- `TypeInv` of the driver has `FlowInv` in it: which operation is at which
  access, what its locals are there, and that only `ReadCertificate` moves the
  offset. `ReadsWhatItSelected` is inductive on top of it: every failure goes back
  to the select (`FailureEffect`), and a read leaves the chip alone.
- `SignInv` says, from one write to the next, what the chip holds of the
  challenge, and that from the start command on a success can only be that of
  this challenge; a stale success is excluded because the start cleared it.
- `TimeInv` gives each access the latest time it can begin at (`Latest`):
  an access ends at most one sleep and one or two transactions after its
  deadline, the polling loop's last pass begins at most one tick after
  `authDeadline`. `WithinDeadlines` is the sum, for any number of windows.
- `CertInv`: the windows read so far are the first ones of the certificate, and
  offset and register those of the next; `LastWindow` is the arithmetic of the
  last one.
- `EncodedAsMeant`. Bytes are `Filled` with some instructions when a walk
  through any packet that begins with them finds exactly these instructions and
  goes on right behind them. The stream under construction
  `Denotes` bus events and a number of data bytes when its full packets and the
  one being filled amount to them, with room for an END; each operation of
  `segmentedStream` adds those of its instruction, in the packet or, behind
  padding, in the next (`Holding` is the same for the one-packet form). A
  finished stream is then `Carried`: cut every 32 bytes it has only sound
  packets, and their events and data bytes add up to those of the transaction
  (`Carries`, with the sums after each packet as functions).
- `StreamInv`: what remains to be sent leads from what is on the bus to what is
  expected, and from the data received to as many as were asked for (`OnItsWay`,
  with `Leads` from `EncoderProofs`; `LeadsAfter` is one packet). That is
  `BusMatches` when nothing remains, for any bridge: faults end a transaction,
  they do not alter packets. `NeverBeyond` is proved on top of it, step by step
  (`BeyondStep`): a packet that `Leads` on from a beginning leads to a beginning
  (`LeadsFrom`), whether the host saw it sent or not (`UnnoticedBytes`), and
  after a failure nothing is sent. As long as no byte was late, nothing is left to
  read between two packets, the response is what the slave sent so far, and an
  answer about to be read is complete, without its status bytes, or missing
  (`Awaiting`, in `Matched`); without a fault it is complete and refuses
  nothing, so none of `execute`'s error returns is taken (`Healthy`).
- `EndInv`, for the lifecycle: what the state of `run` says of the listener, of
  requests that are still running and of the transport, statement by statement:
  a transaction has `ioMu`, whoever opens has `sessionMu`, and `Close` has the
  one while it waits for the other, so that neither is left when it closes.
- `StartInv`, for the start: at every constructor the configuration is that of
  an accepted command line, whose values satisfy what the constructors ask.
  `Kept`, for the loop over the identities: after each part the list has the
  identities of the parts so far, each once, in the order of their first
  listing.

Only model-checked: all liveness (`EveryCallReturns` of the service and of the
session layer, `GateIsReleased`, `StaleSessionIsDropped`, `SignalEndsProcess`),
which is outside the prover's reach with `ENABLED`, and the three violations.
Every safety property that a passing run checks is stated by a theorem. The
inductive invariants were checked by TLC on the instances of the runs before
they were proved, but for those of the encoder and `OnItsWay`, which quantify
over all ways to split a stream; their consequences (`BusMatches`,
`HealthySucceeds`) are what the run `stream` checks.

## Findings

- `transport_check`: `enumerateUSB` drops the error of `OpenDevices`
  (`ch341.go:493`), so a failed check of the bus is reported as `missing`,
  where `docs/01-api-contract.md:100` says `error`.
- `driver_wrap`: `ReadCertificate` accepts up to 65525 bytes (`driver.go:99`),
  as `docs/01-api-contract.md:10` states, but the register number of a window
  is sent as a byte (`driver.go:242`) and wraps after 207 windows, that is
  from 26497 bytes on.
- `stream_nack`: in a transaction of several packets the address byte of the
  read is sent as a counted write (`ch341_encoder.go:141`), for which the bridge
  reports no status (`ch341.go:375`). A chip that refuses it goes unnoticed, and
  a read of more than 32 bytes succeeds with whatever the idle bus yields, where
  `docs/01-api-contract.md:116` lists an I2C NACK as an error.

Weaknesses that are visible in the models without contradicting a promise:

- A start command that was reported as done and lost leaves the previous
  success status in place, and SignChallenge then returns the previous
  signature; `SignatureMatches` is stated for operations without such a loss.
- A certificate read during a swap of the stick may combine one device's
  protocol version with another's data, once for all clients.
- Answer bytes that come after the quiet timeout, or stay in the bridge after a
  transfer that failed, are read as the beginning of the next transaction's
  answer, because nothing drains the endpoint. `OwnAnswer` and `NackReported`
  are stated for behaviours without such bytes (`~stray`).
- The diagnostics page opens the stick a second time while it is in use, and
  may do so, without a lock, up to and after `Close` (`ch341.go:504`).
- The time of a recent request is read before the ring's mutex is taken
  (`recent.go:37`), so neighbours in the list may have times in the other order.
- After the deadline of the graceful shutdown a health check may enumerate the
  bus on a context that `Close` has closed, in the moment before the process
  ends (`ContextUsedWhileOpen` says when), and a second signal during `Close`
  ends the process with the stick claimed.

## Not modelled

Version constants, HTML templates, response texts, logging, durations shown on
the diagnostics page, and build and release files: no state that other parts
depend on. The read-only operations of the service (Health, Diagnostics,
Runtime) appear in `Transport` as `InspectUSB` and otherwise read what other
properties constrain (`HolderTruthful`). The lengths of the USB timeouts are
left out; that one passes is a step. net/http, os/signal, libusb, the bridge and
the chip appear as the code uses them. Restarts need no model: nothing is
persisted, and `Init` is the restart.

## Plan

All components are modelled, and every safety property of the passing runs is
proved. What is left is to carry the argument across modules: that `Execute` of
`Transport` is `Stream` in one step, and that the driver of `Service` is
`Driver`, are argued in this file and could be stated as refinements.
