# Verification of cb-event-forwarder

This directory holds TLA+ specifications of the Carbon Black event forwarder, the TLC
configurations that model-check them, and proofs checked by TLAPS.

## The system

The forwarder is a Go daemon. It consumes events from the EDR server's RabbitMQ exchange (or from
an audit log file), converts each message to JSON or LEEF, and writes the result to one output.

    broker -> amqp.go -> deliveries -> input workers -> outputChan -> output goroutine -> service
                                                        (1,000,000)      ^
                                            main: signals -> outputSignals

A second program, go-serviced, is a small web server that starts, stops and restarts the forwarder.
A status page (`static/js/bundle.js`) is packaged with the forwarder and polls its metrics.

### Inventory

| Component | State it keeps | Operations | Interacts with | What makes it correct |
|---|---|---|---|---|
| Bundled output (`outputs/bundled_output.go`) | live temp file, buffer, size, bundle queue, upload goroutines | Initialize, output, rollOver, uploadOne, Go | forwarder (channel, signals), file output, upload behaviors, disk | an event that reached the disk is delivered or kept, whatever fails; a bundle has one uploader; SIGTERM loses nothing that a `-check` run does not |
| File output (`outputs/file_output.go`) | open file, buffer, last flush, last rollover | Initialize, output, flushOutput, rollOverFile, closeFile, Go | forwarder, bundled output, disk | no event is overwritten by a rollover; a clean stop writes everything |
| Upload behaviors (`http_behavior.go`, `http_util.go`, `s3_behavior.go`, `splunk_hec_behavior.go`) | counters | Upload | remote service | success is reported only when the whole bundle was taken |
| Forwarder (`forwarder/forwarder.go`) | channels, wait group, condition variable, connection status | Startup, MessageProcessingLoop, RunUntilExit | broker, workers, output | it reconnects for ever; a stop request ends the process |
| Input worker (`forwarder/input_worker.go`) | none | consume, processMessage, outputMessage | deliveries, processors, outputChan | every delivery gives its events or counts an error |
| AMQP consumer (`rabbitmq/amqp.go`) | connection, channel | Connect, Shutdown | broker | a failed connect leaves nothing behind |
| New S3 output (`outputs/ng_s3_output.go`) | chunks, chunk workers, upload workers | publisher, chunk worker, upload worker | S3 uploader | an outage does not stop it; Stop ends it with all chunks sent |
| Net and syslog outputs (`net_output.go`, `syslog_output.go`) | connection, time of the next attempt, counters | Initialize, output, Go | remote service | reconnect after a failure, with an address that stays valid; an event is sent or its loss is reported |
| Kafka output (`kafka_output.go`) | producer, topic, counters | Initialize, output, Go, goroutines that count answers | broker library | an event is sent or counted as failed; Close ends |
| go-serviced (`cmd/go-serviced/main.go`) | state file, pid file | start, stop, restart, status, upload | the forwarder process | at most one instance, and go-serviced keeps track of it; a forwarder that ends is started again |
| Status page (`static/js/bundle.js`, the application at its end) | data, error, timer, requests in flight | componentDidMount, refreshData, render | `/debug/vars` of the forwarder | it comes to show what the forwarder last said |
| JSON processor, protobuf processors, LEEF encoder | none | one function of a message | input worker | pure conversions |
| Configuration (`config/config.go`) | Configuration | ParseConfig, MoveFileToDebug | all | pure parsing, apart from MoveFileToDebug |

### What is hard here

Everything concurrent rests on Go channels, one condition variable and the file system, with no
persisted protocol state other than the names of files: which file may be renamed, uploaded or
removed is decided by what its name says and by which goroutine runs first. Failures come from the
file system, the remote service, the broker, signals and a killed process. The list of hazards is
in `PROJECT.json`.

## Modules

| Module | Models | Proofs | Runs |
|---|---|---|---|
| `EventCustody` | what a store-and-forward output promises about each event | | |
| `OutputPromise` | what the process relies on in an output: it takes events only in its loop, and broadcasts its exit with empty hands | | |
| `BundledOutput` | `bundled_output.go` with the file output it spools through | `BundledOutputProofs` | `bundled*` |
| `FileOutput` | `file_output.go` in its own loop | `FileOutputProofs` | `file` |
| `DirectOutput` | the net (TCP and UDP), syslog and Kafka outputs, which keep nothing on disk | `DirectOutputProofs` | `direct` |
| `Forwarder` | the process around an output | `ForwarderProofs` | `forwarder*` |
| `S3Chunking` | the new S3 output in the loop of `BaseOutput.Go` | `S3ChunkingProofs` | `s3*` |
| `Serviced` | go-serviced and the processes it starts | `ServicedProofs` | `serviced*` |
| `Dashboard` | the status page and the forwarder's metrics as it sees them | `DashboardProofs` | `dashboard` |

The `MC` modules hold values for the constants and nothing else. `PROJECT.json` maps every
definition to the lines it stands for. Definitions named as mutants in their comment are plausible
bugs of the definition below them; no specification uses them.

### BundledOutput

The temp directory (`exists`, `data`, `framed`) survives the process; everything else that belongs
to it is lost in a `Crash`. The contents of a file are the set of events in it; `framed` says whether
a compressor has written its header. A start is `StartRenames` (a live file of an earlier process),
`Start` (the new one) and `ListBundles` (`queueStragglers`), and may end after the first. The Go loop
is `loop`: `ReceiveMessage` and `Tick` start a step, `WriteMessage` ends one, and a rollover is
`CloseFile`, `RenameFile`, `RenameOld` if there is a live file again, `CreateFile` on the way, because
a kill, a failing call (`RenameFails`, `CreateFails`) or another process may come between them; `after`
says where the loop goes on. `CheckRenames` and `CheckCreates` are a second process started with
`-check`, whose Initialize renames the live file of the first and creates another: a rollover of the
first that falls in between finds no file, and one that has just renamed finds one again. Either error
ends the loop and drops the message in hand.

`tasks` are the `uploadOne` goroutines: `OpenBundle`, then `UploadOk`, `UploadBad` or `UploadErr`,
then the loop takes the result (`TakeOk`, `TakeErr`, or `TakeBad` and `MoveFails`, the rename to the
debug store that works or does not), then `RemoveBundle`. An `UploadErr` may come after the service
has taken the bundle. A loop that returns goes through its deferred calls one by one
(`DeferredFlush`, `DeferredClose`, `SignalExit`), each flush of which may fail. `Bytes` is the sum of
the lengths of a set of events, given to the proofs by its two laws (`BundleLengths`) and to TLC by
its definition; `FileSize` adds the newlines, which `currentFileSize` does not count.

Three assumptions are constants. With `FreshStamps` two rollovers never fall into one millisecond;
file times are names (`Stamp`). `LongLine` are events longer than the 640 KB line buffer of
`convertFileIntoTemplate`. With `QuietStart` no `-check` run begins between the creation of the live
file by a start and its listing of the directory. What happens without each is in the table of
configurations below.

`EventCustody` is the abstract specification. The refinement mapping (`StatusOf`) says of each event
who has it, and `KeepsCustody` is that every step hands events over only in permitted ways: only
memory may be lost, a file never. `KeepsPromise` is the refinement of `OutputPromise`, for which `base`
remembers how many calls had failed when the process was started. `LostOnlyToChecks` is what is true
of a clean stop: without a `-check` run nothing is lost, and with one an event at most.

### FileOutput

The directory outlives the process, and so does what the operating system has taken from it; the
buffer does not. A rollover goes through the steps of `rollOverFile` (close with flush, rename,
create), any of which can fail or be the last before a kill. `lastRolledOver` and the clock are in
milliseconds, a day being `DayLength` of them: the daily roll names the old file by its day, SIGHUP
and a start name it by the millisecond. A start that finds a live file renames it first, and
so does a second process run with `-check`, under the feet of the first, which goes on writing to the
renamed file; `fd` is the name that file has, `NoName` if another was renamed onto it. Nothing removes
a file, so the only way to lose what is on disk is such a rename. `KeepsCustody` is the refinement of
`EventCustody`, `KeepsPromise` that of `OutputPromise`.

### DirectOutput

One module for five kinds of output, since they share the loop and differ in what a failed write
does: net over TCP and UDP, syslog over a stream and over UDP, and Kafka. `kind` is chosen in Init, and
what became of each event is its `fate`. Net and syslog: a write may fail, or vanish in the kernel's
buffers, once the peer has gone; the output then closes the connection and dials again on a tick five
seconds later. A datagram socket is dialled without a peer. The syslog output adds `:514` to an address
without a port, and its reconnection parses what `String` made of the result: `ConnectedMeansOpen`
has every reconnection dial the address of the first. The net output lets an event of a failed write
go without counting it (`net_output.go:148`), the syslog output counts it as dropped; a UDP write
that is too long closes a healthy socket. `Write` has no deadline: a peer that stalls (`PeerStalls`)
keeps its connection and may hold the loop in `Write` for ever (`Blocked`); then SIGTERM is not taken,
and `StopEnds` names this as its only exception.

Kafka: `output` hands the event to the library, goroutines count the answers, and `Close` takes
answers in competition with them, so that some are counted by nobody; errors in that rest end the
process with `log.Fatalln` before the exit is broadcast. An event whose message has no type is skipped
uncounted when the topic is to be its type.

`LossesReported` is the ledger: the dropped event count against every loss the output can see,
Kafka's skipped events among them, with exactly the exceptions above. `KeepsPromise` is the refinement
of `OutputPromise`.

### Dashboard

`bundle.js` is a webpack bundle of 39,151 lines: React, axios, moment and numeral, with about 340
lines of the application (44-65 and 21479-21800), which alone are modelled. The state of its
component is `data`, `error` and the timer; `flight` are the requests under way. Answers may come in
any order and any answer replaces the state. The interval is set in the handler of a successful
answer if there is none, so a page whose first request failed never asks again. The forwarder's side
is what `forwarder.go` publishes in `/debug/vars`; `connection_status` is registered in go-metrics
as an `expvar.Func`, a type the registry ignores, and is never published although the repository's
README shows it (`README.md:286`). The page is packaged (`Makefile:73`); no handler in the Go code
serves it. `App.handleClick` is not used.

### Forwarder

One action per step of each goroutine: the AMQP loop (`amqp`: `NewConsumer`, `OpenChannel`,
`Subscribe`, `ConnectFails`, `Serve`, `ReadError`, `LeaveServe`, `WorkersExited`, `Retry`), the workers
(`TakeDelivery`, `TakePoison`, `OutputMessage`, `WorkerExits`), the output as `BaseOutput.Go` and the
outputs' `Go` methods look from outside, the signal goroutine (`sig`) and the goroutine that runs
`Shutdown` (`closer`), and main (`HookSignals`, `SpawnSignalLoop`, `AwaitOutputDone`). Connect is three
steps, because the connection can be lost between them: `OpenChannel` (dial and channel), `Subscribe`
(queue, bindings, `Consume`) and `Serve` (`NotifyClose`, and what the loop does with the result). A
connection lost before `NotifyClose` closes `ConnectionErrors` without an error (`unheard`): the loop
leaves it with `IsConnected` still set. `HealthNotStale` says that this is the only way the health check
can be wrong; `HealthTruthful`, which does not except it, is violated. `consumer` distinguishes a
consumer that is nil and one whose channel is nil, since `handleExit` uses it unasked. A message is
converted to the events `EventsOf[m]`; a `Poison` message makes `reportBundleDetails` panic. The
condition variable has no predicate in the code and has none here: `Broadcast` wakes main only if it
waits.

### S3Chunking

`out` is the output goroutine, `wk[w]` the chunk workers, `up[u]` the upload workers. A chunk is a
pipe: closing it needs a reader (`CanClose`), a write to a finished one fails or vanishes in the
compressor. A roll is done by the worker for a full chunk (`WorkerCloses`, `WorkerRolls`,
`WorkerSends`) and by the output goroutine on a tick (`OutputCloses`, `OutputRolls`, `OutputSends`),
both under the chunker's lock. Goroutines begin when they are scheduled (`StartWorker`,
`StartUploader`), and `wg.Add` runs in them: `early` records the chunk workers that had not begun
when Stop was called. `KeepsPromise` is the refinement of `OutputPromise`: an event is held until it
is uploaded or in an upload that failed, and a panic ends the process without a broadcast.

### Serviced

`StartService` is `AlreadyRunning`, or `Launch` and, three seconds later, `FinishStart`, with the
mutex kept in between; `StopService` is `AlreadyStopped`, or `Kill` and `FinishStop`. The status
check without the mutex is two steps, `BeginCheck` and `EndCheck`, because `kill` runs in a process of
its own; `servicePid` is read twice in it. `Tick`, `Wait`, `Reap`, `ReadAgain`, `ReleaseProcess` are
`ensureServiceIsRunning`. A killed forwarder is a zombie until somebody waits for it, and `kill -0`
finds zombies. The processes are external: they write the pid file some time after they start, and
end when they like (`Dies`). `Interrupt` is SIGINT; main then stops the service and, in `Shutdown`, takes no
more requests and gives those under way five seconds, in which one may start a forwarder again.

`Prompt` says that what is begun before a launch (the start of the forwarder up to its pid file, a
status check) ends in the three seconds `StartService` sleeps, and that the forwarder has written its
pid by then: `handlePidFile` only warns when it cannot (`cb-event-forwarder/main.go:103-106`), and a
forwarder that runs on without a pid file is not modelled. The code relies on all of this; without it
`OneInstance` fails.

## Runs

| Run | Expectation | What it shows |
|---|---|---|
| `bundled` | pass | Custody of every event on disk through a crash at any point, a failed file system call or a `-check` run, a refused bundle and lost answers; one uploader per bundle; a refused bundle is not sent again by its process; a clean stop loses at most one event for each `-check` run; a bundle exceeds the maximum by its newlines at most; it implements `OutputPromise` |
| `bundled_live` | pass | every accepted event leaves the machine in the end, is set aside or is lost from memory in a failure |
| `forwarder` | pass | nothing lost or doubled between broker and output, at the end of the process too; the health check not stale once the loop has heard of a loss |
| `forwarder_live` | pass | SIGTERM ends the process, a lost connection is replaced, events reach the output |
| `s3` | pass | no event unaccounted for, one reader per chunk, Stop uploads all that was accepted, no send on a closed channel by a worker that had begun; it implements `OutputPromise` |
| `s3_live` | pass | while uploads succeed Stop returns and every event is uploaded |
| `s3_outage` | violation | one failed upload ends a chunk worker for good, and without workers the output takes no more events |
| `file` | pass | custody of every event in a file through rollovers, failing calls, kills, a restart and a `-check` run; a clean stop writes all; what is buffered reaches the disk; it implements `OutputPromise` |
| `direct` | pass | losses are reported; no write to a closed socket; a lost connection is replaced, at the same address; SIGTERM ends the output unless a stalled peer holds it in `Write`; it implements `OutputPromise` |
| `dashboard` | pass | after a first answer the page catches up with the forwarder, whatever order answers and errors come in |
| `serviced` | pass | at most one forwarder, known to go-serviced; the state file is truthful; every request is answered |
| `serviced_unwatched` | violation | a zombie's pid in the pid file keeps the forwarder from being started again |

### Bounds, and why they are enough

- `bundled`: three events of lengths 1, 2 and 2 and a maximum of 3: the first and another fill a bundle
  exactly, the two others overflow it, so that rollovers for size and for time occur and bundles hold
  one event or two. Two starts, so that one process finds what another left; three upload goroutines,
  enough for a straggler, a fresh bundle and a retry at once; six names, more than can be in use, so
  that no rollover waits for one. A behaviour has a `-check` run, or a failing call and a refused
  bundle; the third event comes in the first process and without such a failure; beside a `-check` run
  or after the third event there is one upload at a time (`OneTrouble`): all of it together is beyond
  the time limit. Kills are limited by `MaxStarts` only.
- `bundled_live`: two events and a maximum of 2, two goroutines and four names, without faults and `-check` runs; a
  fault that repeats for ever keeps an event on disk for ever, and no property could hold of it.
- `forwarder`: two workers (symmetric), a message of two events, one of one and one that panics; a
  channel of size 1, so that workers block; two lost connections, so that
  one is lost while the loop recovers from another, and a cancelled consumer; two signals
  for a signal channel of size 1, so that one is dropped. The constants of the code (a channel of
  1,000,000) only make the full channel rarer. The proofs hold for all sizes.
- `s3`: two chunk and two upload workers, two events, five chunks (the assumption `S3Sizes`:
  each chunk worker has a current chunk, each upload worker one that is closed, and one is new). With
  one failed upload the output may stand still for ever (`s3_outage`), therefore
  `CHECK_DEADLOCK FALSE`; `s3_live` checks for deadlock.
- `file`: two events, three days of length 1 (two midnights, so that a second daily roll meets the
  file of the first, and stamps that coincide with days), two starts, a SIGHUP and one trouble (a
  failing call or a `-check`).
- `direct`: three events: an ordinary one, one without a type and one longer than a datagram; room for
  one event in the library, so that the output waits; two outages (the peer goes or stalls), so
  that a reconnection is lost again; all five kinds and both forms of address from Init.
- `dashboard`: three requests in flight, so that answers overtake each other, two changes of what the
  forwarder says, two failures. `CHECK_DEADLOCK FALSE` because a page whose first request failed does
  nothing more.
- `serviced`: two requests that each start, stop or ask, the boot and the crash check, one crash,
  seven pids. `CHECK_DEADLOCK FALSE` because go-serviced rests while the forwarder runs and main
  waits for it.

### Fairness

- Go schedules goroutines, and `select` takes a case that is ready again and again; a mutex or an
  unbuffered channel is in the end given to everyone who waits. This is weak fairness of a
  goroutine's steps and strong fairness of what competes for a lock, a channel or a select.
- Tickers tick.
- `bundled_live` assumes that an upload tried again and again succeeds or is refused, and that a
  process that is down is started again. The latter is not the code's: go-serviced, systemd or an
  operator does it. An output that fails ends the process with status 0, which systemd's
  `on-failure` does not restart.
- `forwarder_live` assumes that a broker tried again and again answers (`SF(OpenChannel)` and
  `SF(Subscribe)`).
- `direct` assumes that `Dial` returns, that `Write` does unless its peer has stalled, of which nothing is
  assumed, that the Kafka library answers, and that a peer that is gone comes back, so that a dial tried
  again and again succeeds.
- `file` assumes that the ticker ticks and the clock runs.
- `dashboard` assumes that a request ends, and that the browser's timer fires.
- `serviced` assumes that a forwarder that runs writes its pid file (see `Prompt`), and nothing of crashes.

### Configurations outside the runs

The passing runs fix configurations in which the properties hold. These others were tried with TLC;
each makes the property named fail, by what the code does. Properties that no run checks are defined in
the module with the others; they state what a comment or a document of the repository says:

| Configuration | Property | Why |
|---|---|---|
| `bundled` as it is | `CleanStopLosesNothing` | a rollover between the rename and the creation of a `-check` run finds no file, drops the message in hand and ends the output; the flag is described as "Check the configuration file and exit" (`cb-event-forwarder/main.go:29`) |
| `QuietStart = FALSE` in `bundled` | `KeepsCustody` | a `-check` run between the creation of the live file and the listing of the directory has the open file queued, uploaded and removed |
| `DebugFlag = FALSE` in `bundled` | `RefusedForGood` | a refused bundle stays in the directory and the next start sends it again; the comment says "don't try to upload it again" (`bundled_output.go:271-272`). With the flag on a failing rename does the same |
| `LongLine = {e1}` in `bundled` | `RemovedOnlyAfterSuccess` | the scanner stops at the line without an error that is looked at, and the bundle is removed although the service has not got all of it; "only remove the old file if there was no error" (`bundled_output.go:93`) |
| `bundled` as it is | `BundleWithinMaximum` | the newlines are not counted; "Set the maximum file size" (`conf/cb-event-forwarder.example.ini:379`) |
| `FreshStamps = FALSE` in `bundled` | `KeepsCustody` | two bundles of one millisecond have one name, and rename replaces |
| `MaxChecks = 1`, six names in `bundled_live` | `EveryEventLeaves` | what the process had open is in a file only the next start queues |
| `Monotonic = FALSE` in `file` | `CleanStopLosesNothing`, `KeepsCustody` | a clock set back over midnight makes a second daily roll of one day, which renames onto the first's file |
| `FreshStamps = FALSE` in `file` | `KeepsCustody` | a restart and a `-check` within one millisecond rename to one name |
| `forwarder` as it is | `HealthTruthful` | a connection lost between `Consume` and `NotifyClose` leaves the health check at "connected" (`cb-event-forwarder/main.go:139-142`) |
| `Poison = {}` in `forwarder` | `StopIsGraceful` | SIGTERM while there is no consumer or no channel makes `Shutdown` panic; "handle exit gracefully" (`output_handler.go:81`) |
| `AutomaticAcking = FALSE` in `forwarder` | `SettledWhenReceived` | `Consume` asks for automatic acknowledgement whatever the configuration says (`amqp.go:140`, `conf/cb-event-forwarder.example.ini:82-83`) |
| `PromptMain = FALSE` in `forwarder_live` | `StopEnds` | an output that stops before main waits broadcasts to nobody |
| `MaxErrors = 1`, two events in `s3_live` | `StopEnds` | the new chunk of a worker that has ended is never closed |
| `Prompt = FALSE` in `serviced` | `OneInstance` | a forwarder that has not written its pid within three seconds is not known, and a slow check clears the pid of a later one |

## Proofs

TLAPS proves the following for every value of the constants (any number of events, names,
goroutines, workers, requests, faults and crashes), from the assumptions named in the modules.

**BundledOutput.** `TypeCorrect`. All other theorems assume `QuietStart`; the table
above shows why. `CustodyKept` (the refinement of `EventCustody`) also assumes
`FreshStamps` and `LongLine = {}`, and fails without. It rests on the inductive invariant `IInv`
(`Invariance`): `NamesApart` (the file being written, the name the next bundle gets and the bundles
being uploaded are different names; without it a rename could replace a bundle or an uploader remove
the file being written), `UploadsFaithful` (what an upload sends is what the file still holds, and a
file about to be removed holds only what the service has) and `NothingInvented`.

`CleanStop`, from the same assumptions, proves `LostOnlyToChecks`. It adds `CleanInv`: what is lost,
and one more while a rollover ahead may miss a `-check` run (`MissAhead`), are no more than the runs so
far; memory is empty once the loop has returned. `OneUploader` and `RefusedOnce` assume `FreshStamps` and
nothing of lines. They rest on `UploaderInv` (names apart, and a process leaves nothing but files to
the next, `NothingLeft`) and `RefusedGone` (a bundle in the debug store is out of the directory, so
that the next start cannot queue it, and no name of a refused bundle is used again). `RefusedOnce` needs
no debug flag: it says of a bundle that stayed only that its process does not send it again.

Three theorems assume nothing of names or lines. `OpenFileSafe` rests on the half of `NamesApart` that
is about the open file (`OpenFileApart`); the other half (`StampApart`) is the one that needs fresh
names. `BundlesBounded` rests on `SizeInv`: while no call has failed, the open file and the buffer
together hold at most `currentFileSize` bytes without newlines, and a message is written only where
there is room for it or nothing else (`SizeFollows`); files hold finitely many events from the channel
(`ContentsFinite`), so that `Bytes` grows by at most the length of each. `PromiseKept`, the refinement of
`OutputPromise`, assumes that `dry_run` is off (with it the loop goes on without a file) and rests on
`PromiseInv`: in a process none of whose calls has failed a closed file means an empty buffer, and the
loop returns with no message in hand (`CleanProcess`). The fault is counted from the start of the
process: an earlier process that failed excuses nothing.

**Forwarder.** `TypeCorrect`, `PipelineKeepsEvents`, `PipelineDuplicatesNothing` and `HealthReported`, from
one `IInv`: a worker leaves only when it holds nothing and the deliveries are closed and empty, so that
the workers of two connections never overlap (`WorkersLeaveNothing`), only what was delivered is in the
pipeline (`NothingInvented`), and the state of the connection fits the place of the loop
(`ClosedForAReason`). The accounting of `PipelineKeepsEvents` does not stop at the exit: what is not
written then is on `outputChan`, with a worker, or waits for one. `HealthReported` excepts the
connections lost before `NotifyClose`, which the code goes on reporting.

**Serviced.** `TypeCorrect`, and assuming `Prompt`, `OneForwarder` and `StoppedMeansStopped`, from
`IInv`: the mutex is with whoever is inside (`MutexHeld`), the one that runs is known by `servicePid`
or, during the sleep, will be by the pid file (`InstanceKnown`), and a check without the mutex cannot
clear the pid of a later forwarder (`ChecksRecent`).

**FileOutput.** `TypeCorrect`; assuming `Monotonic` and `FreshStamps`, `CleanStop`, `CustodyKept` (the
refinement of `EventCustody`) and `PromiseKept` (that of `OutputPromise`). Both assumptions are needed
(see the table above). The invariant is `DaysArePast` (the files named by a day are of days before the
current one, and before the day of the open file: a daily roll finds its name free), `FilesHaveNames`
(no rename has taken the open file's name), `BufferAccounted` (where the loop is when the buffer may
hold something) and `NothingInvented`.

**DirectOutput.** `TypeCorrect`, `ConnectionSound`, `LossesCounted` and `PromiseKept` for all five
kinds, without further assumptions. The invariant adds `ConnectionAgrees` (in which places of the
code there can be a connection, and which address was dialled) and `ProducerAgrees` (only Kafka has
events in the producer, and errors of Close are met by no orderly stop); the ledger `LossesReported`
is inductive with these.

**S3Chunking.** `NothingLost`, `SingleReader`, `StopComplete`, `NoLateSend` and `PromiseKept` (the
refinement of `OutputPromise`), for any number of chunk and upload workers. The invariant is `LocksHeld` (a worker in a write or a roll has its
chunker's lock, the output goroutine in a roll has that of the chunker it rolls), `ChunksRead` (a
sent chunk has a reader until it is done; only sent chunks are closed), `CurrentUsable` (a current
chunk is open and sent except in a roll, so that a write finds a reader), `HandsAccounted` and
`StopWaited` (what is left of the workers in each phase of Stop). `FreshChunk` shows by counting
that a roll always finds an unused chunk, so the bound on chunks hides nothing.

**Dashboard.** `Stranding`: a page without a timer and without a request under way shows the same for
ever (`StrandedForGood`), which is what becomes of a page whose first request failed.

Each of these invariants was checked with TLC first. With the `PromiseKept` of four modules every
output of the repository is shown to implement `OutputPromise`. Every invariant and every action
property of the runs is proved; only model-checked is what is out of the prover's reach, the liveness
properties (`EveryEventLeaves`, `StopEnds`, `Reconnects`, `EventsReachOutput`, `EventsUploaded`,
`RequestsEnd`, `BufferReachesDisk`, `EventuallyCurrent`). The violations of the runs that expect one are TLC's
too.

## Not modelled

- The audit log tailers: one more producer for `outputChan`. Following a file is a library's, and
  `NewFileConsumer` and `tailFile` swallow every error, so that nothing but "lines become events" is
  left to model.
- JSON, protobuf and LEEF conversion: functions of one message, here `EventsOf`.
- The libraries in `bundle.js`, and what the page makes of the numbers (units, relative times).
- Configuration parsing, logging, utilities, generated code, metrics and the debug server.
- In go-serviced the handlers that read or write configuration and certificates, a state file that
  cannot be written, and a pid file without a number.
- A connection that `Connect` leaves open when it fails after dialling.
- A pid file that the forwarder cannot write, of which it only warns.
- Power failure as different from the death of a process: nothing is synced to disk, and what a write
  has given to the operating system counts as in the file.
- In `DirectOutput`, a Kafka broker or a dial that never answers.

## What is left

1. `Conversion`: the legacy and the new protobuf processor are two implementations of one function
   (which event type and which fields a message gives, and which messages are filtered). Both as
   operators over small attribute sets, compared with each other; the JSON processor's splitting of
   one message into events, and the framing of bundles, against reference definitions.
2. Composition: all outputs are shown to behave as `OutputPromise` says. What is left is `Forwarder`
   over `OutputPromise` in place of its own view of an output.
