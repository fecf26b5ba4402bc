# Roku Dev Studio: formal models

TLA+ models of the parts of Roku Dev Studio where the order of events decides
whether the program is right, TLC configurations that check them on small
instances, and TLAPS proofs of what matters most for every instance. Paths
below are relative to the repository.

Tools: `tlc -config X.cfg M` for a run, `tlapm M.tla` for the proofs.
`PROJECT.json` lists the components, the runs, which lines each definition
models, a fault for every property that makes it fail, the hazards of the code
and the theorems.

## 1. The system

An Electron desktop application (`apps/roku-dev-studio`) and the Node packages
it is built from (`packages/`). It talks to Roku devices on the local network
or in a cloud lab (RCE): ECP over HTTP, the 8085 console and the 8081 debug
port over TCP, the RALE tracker over TCP, WebSockets and Janus signalling for
RCE. An MCP server (`roku-dev-studio-mcp`) gives agents the same operations
through a bridge in the main process, so one device is shared by the user's
windows and by agents. Everything runs on event loops: there are no data races,
but every `await`, timer and socket event is a point where another task of the
same object may run, and several tasks share each connection.

### Inventory

| Component | State it keeps | Operations | What must hold |
|---|---|---|---|
| **Debugger, attached session** `packages/roku-dev-studio-api/lib/debugger` | client: socket, receive buffer, `isStopped`, `pending` requests; controller: `state`, `lastStop`, `resumeGeneration`, `entryHandled`, breakpoint cache | continue, step, pause, inspect, add and remove breakpoints, detach; stop handlers on device events | a stop is never lost behind the resume it follows; nothing that needs a halt reaches a running channel; a breakpoint is registered once; every call ends |
| **Debugger, attaching** same files | `sessions`, `attaching`, one client per attempt; the device's single 8081 slot | attach (joined if one is in flight), retry until a deadline, detach, device end | one connection at a time; no session left behind a detach; no socket outlives its client |
| **Console pool** `apps/.../main/ipc/telnet-handlers.ts`, `held-console-pool.ts` | 8085 clients per device, their holders, connects in flight | connect, disconnect, hold, release, bounce | one console client per device; closed when the last holder leaves |
| **Worker pool** `packages/roku-dev-studio-platform/worker-pool.ts` | workers, queue, running task of each, timers | run, worker message, worker error or exit, timeout, terminate | each task settles once; a result goes to the task that asked; a dead worker's task fails and the queue moves on |
| **Sideload relay** `apps/.../main/sideload-relay` | emulator, last run and its results, the tap of a local target's console, the timers that end the IDE's session | upload, fan out, signal the launch, end the session, reconfigure | the end is not emitted into an open tap; an installed build's session ends, although fan-outs overlap |
| **RALE session** `packages/roku-dev-studio-api/rale-direct.ts` | one socket per device, a promise chain, the response being awaited | connect, command, close, idle close | a response answers the command that asked; commands of a device are serial |
| **RCE** `packages/roku-dev-studio-rce` | one video session per device: lookup, signalling client, Janus session, keepalive, retry timer | start, stop, look up, negotiate, keepalive, reconnect | a stopped session leaves nothing behind; a session has one attempt under way; it goes on after a loss |
| **Remote server** `packages/roku-dev-studio-remote-server` | 8085 sessions, their WebSocket clients and gap buffers | connect, attach, detach, print, clear, close | each line reaches a client or waits for the next one, once and in order |
| **Network inspector** `packages/roku-dev-studio-network-inspector` | capture engine, proxies, certificates, session list, detail store on disk | start, stop, capture, throttle, rewrite, evict | stop leaves no listener; details of evicted sessions are released |
| **Script runner** `packages/roku-dev-studio-api/lib/script-runner.ts` and action-script files | variables, step cursor, waits with timeouts, cancellation | run, cancel, wait for a console line or a network request, loops, conditions | a wait answers once, by match or by timeout; a cancelled run starts no step |
| **MCP bridge** `apps/.../main/mcp-bridge.ts`, `mcp-rate-limit.ts`, `console-spill.ts` | sessions, token, rate limiter windows, spilled consoles | tool calls, attach, console reads with a cursor | no line is skipped or repeated by a reader; a limited call is not executed |
| **Platform helpers** `ttl-cache.ts`, `async-patterns.ts` | entries with expiry; calls in flight by key | get, set, sweep; singleFlight, coalesce | one call per key in flight; an expired entry is never returned |
| **Device registry, discovery, ECP, digest, plug-in install** `packages/roku-dev-studio-api` | device list, HTTP digest nonces | scan, add, remove, keypress, sideload | mostly one request, one answer |
| **Main-process services** auto-updater, secret store, settings, log-file index, static analysis | files, settings, downloads | load, save, migrate, update | settings survive a failed write |
| **Renderer, preload, strings** `apps/.../renderer` | views | user interaction | presentation |
| **BrightScript components, docs, build scripts** | none | none | none |

### How they interact

* Calls and callbacks. The renderer calls the main process over IPC; agents
  call it through the MCP bridge. Both reach the same `DebugSessionController`
  and the same console pool, so a session has at least two independent callers.
* Events. The controller emits state and stop events to the renderer; the bridge
  polls (`getStop`, console cursors) since an agent cannot be called back.
* Shared devices. The debug port and the console accept one client: a second
  connection is refused or takes the slot over, so two tasks that each connect
  destroy each other's session.
* Shared in-flight work. `singleFlight` (platform) joins equal calls; attach,
  console connects and RALE connects depend on it.

### What is hard

1. The answer to a request and an unrelated update arrive in one TCP read and
   are dispatched synchronously, before the continuation of the caller that
   awaited the answer runs (debugger, RALE, RCE).
2. State read before an `await` and used after it: the entry handler's 600 ms
   sleep, `flushBreakpoints`, `detach`, every retry loop.
3. A resource with one slot (8081, 8085) and several tasks that want it; the
   relay's one set of results and timers, shared by fan-outs that overlap.
4. Timeouts that race a late answer, and a retry of what already happened.
5. Sessions that end from outside (channel exit, socket error) between two
   steps of a handler.

## 2. Plan

In order of how much depends on the behaviour and how hard it is to test:

| Module | Models | Status |
|---|---|---|
| `DebugSession` | one attached session with its callers and the device | done: 4 runs, and `Application` |
| `DebugSessionProofs` | types, soundness of the client's belief, what is shown | done |
| `DebugBreakpointProofs` | the breakpoint cache and the device's registrations | done |
| `DebugAttach` | attach, retry, detach and end over the single 8081 slot; composed with the session only through "attached" and "ended" | done: `Application`, and a run for a finding |
| `WorkerPool`, refining the abstract `TaskPool` (each submitted task settles once) | `worker-pool.ts` | done: 1 run |
| `RaleSession` | sockets that supersede each other, a chain of commands, late answers | done: 2 runs |
| `ConsolePool`, `HeldPool` | shared consoles: leases, dials, bounces, late closes, the Ports window | done: `Application`, and a run each for a finding |
| `RelayConsole`, `RceVideo`, `SideloadRelay`, `DetailStore` | the parts named so in section 7 | done: `Application`, and a run for a finding |
| `MCApplication`, over `MCServices` | all of these parts in one run, one of them at work in a behaviour | done: `Application` |
| `DebugAttachProofs`, `WorkerPoolProofs`, `RaleSessionProofs` | types, invariants and step properties of their modules | done |
| `ConsolePoolsProofs`, `RelayConsoleProofs`, `ServicesProofs` | the same for the shared services, alone and composed | done |
| `ConsoleSpill` | spill files: append chain, cursors, clear, eviction | planned |
| reconfiguration of the relay, waits of action scripts | overlapping `setConfig`; match, timeout and cancellation | planned |

Every invariant and every action property that a passing run checks is a
theorem; the planned modules will bring theirs.

## 3. The debug session (`DebugSession`)

### State and actions

The module holds the state of `DebugProtocolClient` (`open`: the control socket
is connected; `isStopped`; `pending`; the two byte streams as sequences of
messages; `reading`: `onData` is in its loop), of `DebugSessionController`
(`live`: the session is in `sessions`; `state`; `lastStop`; `entryHandled`; the
breakpoint cache as `cached`, `sent`, `bpId`), the position of each task (`pc`,
`answer`, `batch`), and an external device.

*Tasks.* A caller is one awaiting user of the controller; a handler is the
coroutine that `wireEvents` starts for a `suspend` or `runtime-error`. A task
awaits one request at a time, so a request is identified by the task that
awaits it, which replaces request ids.

*The event loop.* An action guarded by `~Busy` is a macrotask: a call, a timer,
a chunk of the socket. `NextMessage` dispatches one message and sets `reading`
while the chunk holds more, so several messages may be dispatched before any
continuation runs; this is how an acknowledgement and the next stop arrive
"in the same TCP read". A continuation is a step of a task whose `answer` has
arrived; ready continuations run in any order before the next macrotask.

*The resume race.* `resumeGeneration` only serves to compare a snapshot with
the present value, so the model keeps `fresh`, the callers whose snapshot is
still equal; `setState('stopped')` empties it.

*Snapshots.* `lastStop` is abstracted to whether it is of the latest stop
(`current`) or of an earlier one (`stale`).

*Calls.* `Continue`, `Step`, `Pause`, `Inspect`, `AddBreakpoints`,
`RemoveBreakpoints` and `Detach` are the controller's methods up to their first
`await`; `ResumeDone`, `StepDone`, `AddDone`, `CallDone` and `DetachDone` are
what follows it. `EntrySuspend`, `GraceOver`, `AutoContinue`, `EntryDone` are
`onSuspend` for the entry halt; `ReportStop`, `AskThreads`, `AskStack`,
`AskVariables`, `PublishStop` are `emitStopSnapshot`. `SessionEnd` is a closed
or failed socket with the `end` handler it triggers.

*The retry of `getVariables`.* On a protocol older than 3.1.0 (`LegacyCasing`)
an error answer is followed by a second `Variables` request. The first is sent
only while `isStopped` (`WhenHalted`), the second follows an `await` and does not
ask again (`debug-protocol-client.ts:519-527`): `CallAnswered` and
`VariablesAnswered`, which a caller's `Inspect` and the stop snapshot go through,
send it as `VariablesRetry`.

*The device* is external: it is modelled from what the code relies on. It
serves requests in order, announces each halt once, runs only when resumed,
accepts breakpoints while running without honouring them, and may answer with
an error. `LateAttach` lets a thread attach and stop while others are halted;
`Refusable` is the set of requests that it may refuse although it could serve
them; what needs a halt it also refuses while the channel runs.

### Runs

| Run | Instance | Shows |
|---|---|---|
| `DebugSessionCore` | two callers, two handlers, one location, symmetric; a device that may refuse to continue or step | the safety properties below |
| `Application` | one caller, one handler, an old protocol, a device that may refuse anything and fall silent; with threads that attach late and without | `EndSettles`, under the fairness below, and `HaltedUnlessLate` |
| `DebugSessionRefused` | one caller, two handlers, a device that may refuse a step | a violation: finding 1 |
| `DebugSessionPoll` | one caller, two handlers | a violation: finding 2 |
| `DebugSessionEntry` | one caller, two handlers | a violation: finding 3 |

* `HaltedAtReceipt`: the only request that needs a halted device and may be
  served by a running one is the retry of `getVariables` on an old protocol,
  after another task resumed the channel during its `await`. That exception is a
  real hazard (`debug-protocol-client.ts:520`); the device answers it with an error,
  and the code promises nothing about it. Without the exception TLC finds it
  violated at once. `HaltedUnlessLate` of `MCApplication` is the same invariant
  where the retry is sent, for the behaviours without late threads.
* `StopNotLost`: between macrotasks a halt the client knows of is shown as
  `stopped`, however the acknowledgement and the stop were interleaved.
* `NoDoubleRegister`: concurrent flushes and adds register no breakpoint more
  often than it was asked for.
* `NothingQueuedWhileStopped`: while stopped, no cached breakpoint is left unsent.
* `VerifiedIsRegistered`: a breakpoint that has an id is on the device under it.
* `EndSettles`: a session that is over does not stay so with a call or a stop
  handler under way.

*Bounds.* Two callers are enough for a call to run between another's request and
its answer, and two handlers for a stop to arrive while the snapshot of the one
before is being gathered. One location suffices because every property is about
one location at a time and the cache treats locations alike; `MaxAdds` bounds
how often it is added, since each add takes a new id. The streams need no bound:
each task has one request outstanding. Three larger instances of
`DebugSessionCore` were run by hand and pass, and take longer than a run that is
repeated with every change should: a location added twice with steps refused
(2.4 million states), an old protocol that refuses to continue, step and read
variables (2.7 million), and an old protocol that refuses everything (7.3
million). What one location added once does not show of breakpoints, the second
add after an answer, is covered for every bound by the theorems of
`DebugBreakpointProofs`. `Application` has the retry, and threads that attach
late, with one caller, one handler and no symmetry, since `EndSettles` is a
liveness property.

*Fairness.* `LoopFairness` says that the event loop runs ready continuations,
fires timers, and delivers what arrived. Nothing is assumed of the device or of
the callers: `EndSettles` does not need an answer, because ending the session
fails whatever is pending.

### Findings

1. `StoppedIsActionable` fails. `step` gives up `isStopped` before it sends, and
   a device that refuses the step answers with an error: the controller shows
   `stopped` again, but the client does not believe in the halt any more. Every
   later continue, step and inspection returns without sending anything, and a
   detach releases nothing, until the device announces another stop.
2. `PolledStopIsCurrent` fails. If a step's acknowledgement and the next stop
   are dispatched in one read, `markResumed` is skipped, and with it the only
   code that clears `lastStop`. Until the new snapshot is complete (a flush and
   three requests) a poller reads `stopped` with the stack of the stop before.
3. `OnlyEntryAutoContinued` fails. The entry handler sends its continue after
   600 ms and a flush, whatever the thread is halted at by then.

### Not covered, though real

The hazards of `PROJECT.json` with a note and no property were met while
modelling and hold no documented promise that a run could refute, or belong to
a module of the plan: the retry of `getVariables` reaches a channel that another
task resumed; an add that is answered with an error code is never sent again; a
breakpoint removed while its add is in flight stays on the device.

## 4. Attaching (`DebugAttach`)

One controller and one device. The state is the controller's `session` and
`attaching` (the entries of its two maps for this device), one record of each
client that was ever created (its socket, whether it was destroyed or its
session ended), the phase of the running attach, and the device's port with its
single slot. A client is a number; `MaxClients` bounds how many are made, and
with them the retries.

`StartAttach` is the call that is not joined to one in flight; `Refused`,
`Accepted`, `Handshake` and `AttemptTimeout` are the outcomes of one attempt's two awaits, `Retry`,
`DeadlinePassed` and `GiveUp` the rest of `runAttach`'s loop. `AttemptTimeout` may
happen while the socket is still being opened, because `withTimeout` abandons
the promise it races. `StartDetach` removes the session and sends its `continue`;
`FinishDetach` is what follows the answer. `Closed` is the end of a socket, which
may be delivered long after another session was installed. Device launches,
hang-ups and the freeing of the slot are external.

| Run | Instance | Shows |
|---|---|---|
| `Application` | two runs of attach, three clients | the properties below |
| `DebugAttachZombie` | the same | a violation: finding 4 |

* `OneLiveClient`: besides sessions on their way out there is one client at most.
* `SessionIsUsable`: the session in the map is connected and has not ended.
* `LateEndKeepsSession`: a session leaves the map by a detach or by its own end.
* `AttachSettles`: no attach is under way for good, also if the device says
  nothing.

*Bounds.* Two runs let one follow the other; three clients are an
old session whose end is late, a timed-out attempt and its successor.

*Fairness.* `TimerFairness`: timers fire, and the inquiry of `describeDevice`
before giving up ends (it has a timeout). Nothing is assumed of the device.

*Finding 4.* `DestroyedHoldsNoSlot` fails. A client destroyed by the attempt's
timeout while its socket is being opened has nothing to close yet; when the
connection is accepted the socket is installed all the same and holds the
device's only slot, which the next attempt needs.

## 5. The worker pool (`WorkerPool`, `TaskPool`)

`TaskPool` is the interface: `run` returns a promise that settles once, at once
if the pool is full or destroyed, and `destroy` rejects what is pending.
`WorkerPool` is `worker-pool.ts`: its variables are the ones of
`createWorkerPool` (`busy` and `taskId` belong to the entry of a worker), and
beside them each thread's life: what was posted to it (`hand`) and what the event
loop still has to deliver from it (`events`: answers, `error`, `exit`).

Every handler is one macrotask, so `Pump` is an operator used by `Run`,
`OnMessage`, `OnError`, `OnExit` and `Timeout` on the state they leave, not an
action. A thread that was replaced keeps its undelivered events. A death is
`error` then `exit`, or only `exit`; an answer posted before may be lost or
arrive after the `error`, which uses another port. A worker never exits with
code 0 by itself, so the early return for it is left out. `timed` (is there a
`taskTimeoutMs`) is chosen initially.

The run `WorkerPool` checks that it implements `TaskPool` (`Refines`: safety, and
that each promise settles), that tasks start in the order of their submission
and only while somebody waits (`StartsInOrder`), that no slot idles while a task
is queued (`NoIdleWhileQueued`), and that no slot is lost to a dead or stuck
worker (`NoSlotIsLost`).

*Bounds.* `PoolSize` 2, four tasks with at most three pending (so that one is
queued behind two busy slots and one is refused), one thread more than slots,
and `MaxCrashes` 1 beside the deaths that timeouts cause. A crash or a timeout
waits for a thread whose events are delivered, which only delays it.

*Fairness.* The event loop delivers events and timers fire. Without a timeout
the handler of a task must end, or its worker die: the pool cannot know better.

## 6. The RALE session (`RaleSession`)

One `connectionId` of `rale-direct.ts`: the entries of its three maps
(`connections`, `commandChains`, `recvBuffers`), the sockets that were dialled,
and the commands. `Connect` is `raleConnect` up to the dial, `Register`
`raleRegisterSocket`, `OnClose` the close handler, which deletes by id whichever
socket it belongs to. `Command` chains a command, `Start` is `runOne` up to the
wait, `Data` its listener for a chunk of one or more frames, `Timeout` its
timer. An answer is named by the command the device answers. `Unread` empties
what a destroyed or closed socket had still to deliver. `orphaned` is a history
variable: the open sockets that lost their registration while a command waited
on them.

*Scheduling.* A chained command starts in the microtask after its predecessor
settled, and the close event of a destroyed socket precedes the next I/O event:
`Busy` holds back everything else until both are done.

| Run | Instance | Shows |
|---|---|---|
| `RaleSession` | four sockets, three commands | the properties below |
| `RaleSessionLate` | three sockets, three commands | a violation: finding 5 |

* `CommandsAreSerial`: at most one command waits for frames of a socket.
* `AnswersStayOnSocket`: an answer crosses to another socket only from an
  orphaned one. It exempts that socket, so it does not say that a live socket
  keeps its registration: the code breaks that (below), and no line of the
  repository promises it.
* `MixedOnlyByTimeout`: on a socket where no command was given up, or answered
  from another socket, each answer is the command's own.
* `CommandsSettle`: every command ends, also if its socket closes.

*Why `orphaned` is there.* `rale-direct.ts:34` says of the stash of bytes that
commands are serialized, "so this can't interleave". They are, per chain; but the
close handler deletes by id (`:150-153`), so the close of an earlier socket
unregisters the one that replaced it. The next registration then finds nothing
to destroy (`:143`), and a command that still waits on the orphaned socket
stashes what its chunk leaves over (`:236`) under the id of the new socket, whose
next command is answered with it. The stronger invariant "no answer crosses" is
therefore false, although three sockets do not show it; the attempt to prove it
did.

*Bounds.* Four sockets are one that is superseded, one dialled beside it, the
one its close event orphans and one after; three commands are a late one, the
one it answers and the one that takes what is left over.

*Fairness.* Microtasks run, close events are delivered, timers fire; the device
need not answer.

*Finding 5.* `NoCrossContamination` fails: the answer of a command that timed
out is taken by the next one, because the uuid the device sends back is stripped
and not compared.

## 7. The shared services (`MCServices`, `MCApplication`)

Six parts that share no state with each other or with the sections above.
`MCServices` extends all six, and the variable `subject` says which of them a
behaviour is about while the others rest. `MCApplication` extends it, the debug
session and attaching, and adds `turn`: the services, the session, the session
without threads that attach late, or attaching. The parts do not call each
other, so interleaving two of them would only multiply states: one run,
`Application`, checks them all, and costs the sum of them. A part at rest keeps
one initial state. Fairness is that of each part while it is its turn. Deadlock
is checked: only a debug session that is over may stop (`SessionIsOver`).
TLC reports the step of this run as one action; that every action of every
part happens in it was read off the counts of its lines.
In each part, a handler is one macrotask with the continuations that run before
the next one.

**`ConsolePool`**: the 8085 console of one device (`telnet-handlers.ts`).
`connection` is its entry in `telnetConnections`, `leases` its holders, `dials`
and `joiners` the connect in flight (`singleFlight`) and who waits for it,
`bouncing` whether a bounce does; `window` is what the main window was told
last. A socket is unused, open, or closing (destroyed or hung up, its close
event still to come). `EnsureConnected`, `BounceOpen`/`BounceUnopened`,
`ReleaseShared`/`ReleaseLast`, `DisconnectIfUnheld` and `OnClose` are the
functions of those names.

* `NoOrphan`: an open socket is the one in the map.
* `WindowInStep`: what the window was told is true once nothing is under way.
* `LeaseHasConsole`: once nothing is under way, a lease has a socket. It does not
  say that a holder keeps its lease: a late close event deletes the leases of the
  socket that is being dialled by then.
* Finding 6, run `ConsolePoolRelease`: `LastReleaseCloses` fails. If the last
  lease is released while a bounce dials there is no entry to close, and the
  socket that opens afterwards is held by nobody.

**`HeldPool`**: one text console of `held-console-pool.ts` with the local TCP
transport, its one-shot consumers, and the Ports window (`port-terminal-window.ts`)
that holds it. `windowAsks` are the windows whose connect is in flight: the one
open now, or one closed since.

* `NoLineOrphaned`: an open socket is in the pool.
* `WindowHoldsItsLine`: a window whose connect was answered with the socket in
  the pool holds it, even if a consumer dialled it.
* Finding 7, run `HeldPoolWindow`: `HeldOnlyByOpenWindow` fails. A window closed
  while its connect is in flight releases what `heldPorts` lists, which is
  nothing yet; the dial then marks the console as held, and no consumer's
  disconnect closes it any more.

**`RelayConsole`**: the 8085 sessions of the LAN relay (`roku-remote-server.ts`).
A line is its number in the session; `gap` is the gap buffer, `received` what an
attached client got; `DetachClient` is a client that leaves. `forgone` records
what was given up on purpose: cleared by a user, cut off a full buffer, or
received by a client that left.

* `NoLineLost`, `NoLineTwice`, `NoClientLeftBehind`: every completed line is
  received or buffered, in order and in one place, and no client stays attached
  to a session that ended.

**`RceVideo`**: the video preview of one RCE device (`rce-video-handlers.ts` and
the socket side of `rce-video-signaling-client.ts`): sessions the user started,
lookups in flight, retry timers, and per signalling client how far `connect()`
is. A socket lost during negotiation is told to the session twice (its close
listener and the rejected `connect()`), hence `ScheduleReconnect(p, 2)`.

`lookupEnd` is a history variable, how a session's lookup ended it: `gone`, the
device was answered not to run (`LookupGone`), `failed`, the lookup did not
succeed (`LookupGone`: the code does not tell the two apart), or `threw`, it
threw on an answer of another shape (`LookupThrew`), which nobody catches and
which leaves a session with nothing under way.

* `StoppedLeavesNothing`, `OneAttempt`, `KeepaliveHasSession`, and
  `OnlyLookupEnds`: however a stream is lost, the preview comes back to a lookup,
  and it is only there, or by the user, that it ends.
* Finding 8, run `RceVideoLookup`: `StoppedIsConfirmed` fails. The comments promise
  retries "until an explicit Stop or a confirmed-stopped device"; one lookup that
  fails, say for want of a network, ends the preview for good, shown as stopped.

**`SideloadRelay`**: uploads of the IDE whose fan-outs overlap (`service.ts`,
`fanout.ts`, `debug-endpoints.ts`). `handleUpload` answers before its fan-out,
so a new upload takes the tap, the result map and the timers over while the old
fan-out still reports into them. `lostCaps` are cap timers that a second
fan-out overwrote without clearing.

* `EndsInSilence`: the session's end is emitted with the tap off.
* `InstalledRunEnds`: a session whose build was installed somewhere, with no
  fan-out under way, does not stay on for good, even if the device never reports
  that the channel is up.

**`DetailStore`**: the inspector's file of full events (`detail-store.ts`). A
record takes one place; `writing` is the drain loop's write, which lands in the
file some time before its callback; `clear` empties the file in between.

* `StoredIsFound`: a stored event is found, at its newest version.
* `ReadsOwnEvent`: a read never returns another event, unless a clear came.

`ServicesTypeOK` is the conjunction of the six type invariants; it also bounds
the gap buffer.

*Bounds.* Three sockets (`Consoles`, `Lines`) are one in use, one whose close
event is late, and one that a race would dial beside them; two holders and two
consumers let one leave while another stays or joins. Two relay sessions open
at once when connects race; three lines overflow a gap buffer of two. Two
previews are one and its replacement, three signalling clients one more than
both can need. Three uploads let a fan-out outlive two successors; two targets
are a tapped one and one that is not. Four versions of two events, on a file of
two records, let an event be stored again while it is queued and after a clear,
and the cap be reached. One reader is enough: reads do not disturb each other.
With the session and attaching, the run has 259 thousand states.

*Fairness.* `RelayRunFairness`: the timers that end a session fire. The other
five parts are checked for safety only; the session's and the attach's fairness
is that of sections 3 and 4.

*Not covered, though real.* The code makes no promise about these, or no
property states it: the relay signals a launch again if the session ended before
its fan-out resolved (`service.ts:603`); a run whose installs all fail while it
is tapped has no cap; a cap timer that was overwritten ends a later run; a
lookup that throws leaves a preview with nothing under way (`LookupThrew`); a
loss during negotiation advances the retry delay twice; a failed write of a newer version leaves the
older one indexed (`failed` excepts it); discarding a stale console drops the
window's hold without a word; overlapping `setConfig` calls. Left out as next to
unreachable: the `catch` of a fan-out that throws as a whole
(`service.ts:614-617`), which sets no cap, and a write that stores less than it
was given (`detail-store.ts:150` does not look at `bytesWritten`).

## 8. Proofs

TLAPS proves what follows for every value of the constants, under the `ASSUME`s
of the modules (distinct model values, natural bounds). Every invariant and
every action property of a passing run is among it (`HaltedUnlessLate` restates
`HaltedAtReceipt` for the composition).

The pattern is the same throughout: the property is seldom inductive, so a
stronger invariant is stated as a conjunction of named parts, and one lemma per
action (or per group of actions that treat a part alike) shows that it is kept.

**`DebugSessionProofs`**, for any sets of callers and handlers and any finite
set of locations. Finiteness is needed for the ids a device hands out to stay
natural numbers (`nextId + Cardinality(L)`).

* `TypeCorrect`.
* `HaltedAtReceiptHolds`, whatever the device refuses. The property speaks of
  the next request only. `HaltInv` counts tokens: the client's belief that a
  thread is halted, an announced stop still in the stream, and a resume not yet
  served. At most one exists at a time, a running device has none, and no
  request that needs a halt is queued behind a resume. Sending such a request
  needs the belief; sending a resume trades the belief for a resume in the
  stream; serving it starts the device; a halt turns into an announcement; its
  arrival turns that into the belief. The retry of `getVariables` is the one
  request that is sent without the belief, and the one that the property, and
  the invariant, except (`Excused`): on a protocol that does not retry there is
  no exception.
* `StopNotLostHolds`. `ShowInv` adds that nothing is resumed before the entry
  halt was handled (`EntryFirst`), that an announcement tells the state of the
  device (`StopTellsDevice`), and that while a halt is believed in no caller's
  snapshot is fresh (`HaltIsShown`), so no late `markResumed` can take `stopped`
  back.

All but the first are for a device that announces one stop per halt (`LateAttach
= FALSE`), and none assumes anything of what it refuses. This is an assumption
on the device, not on the program, and the one of the run `DebugSessionCore`. It
cannot be dropped: on the same instance TLC violates each of these properties,
and the two of `DebugBreakpointProofs` that need it, with `LateAttach = TRUE`. A
thread that attaches while a continue is in flight sets `isStopped`, which the
answer clears (a hazard in `PROJECT.json`).

**`DebugBreakpointProofs`**, under the same assumption on locations:

* `NothingQueuedWhileStoppedHolds` (one stop per halt). The stop that gives the
  client its belief sends all there is, an add while stopped sends what it
  caches, and only a rejected request takes the mark back, which a session with
  its socket has none of (`LiveInv`, `AllSent`).
* `VerifiedIsRegisteredHolds` (one stop per halt). `IdInv`: a device id is in one
  place at most. It is given out once; from then on it is in an answer that has
  not arrived, in the cache, or in a request that removes it, and up to that
  removal its breakpoint is registered.
* `NoDoubleRegisterHolds`, whatever the device does. `AddInv`: every add pays for
  one registration, which is used up by a breakpoint on the device, a request
  that carries it, or a cached entry without the mark (or about to lose it).

**`DebugAttachProofs`**, for any number of attach calls and attempts: the types,
`SessionIsUsable`, `OneLiveClient`, `LateEndKeepsSession`. They rest on there
being one run at most and none beside a session (`OneRun`), on clients not made
yet being unknown to everybody (`Unborn`), on what detach forgot being nobody's
client (`NotLeaving`), and on every live client being the session's, the present
attempt's or on its way out (`Accounted`).

**`WorkerPoolProofs`**, for any size of the pool, any threads and tasks: the
types, `NoIdleWhileQueued`, `NoSlotIsLost`, `StartsInOrder`, and
`WorkerPoolImplementsTaskPool`: each step is a step of `TaskPool` or leaves what
its callers see alone, which is the safety half of `Refines`. `WorkerInv` says
what is still to come from the worker in each slot: nothing while it idles, one
answer at most while it works, its exit once it is dead (`SlotsKept`).

**`RaleSessionProofs`**, for any number of sockets and commands: the types,
`CommandsAreSerial`, `AnswersStayOnSocket`, `MixedOnlyByTimeout`. Commands are
serial because each is chained to the last one before it on its socket
(`HeadOfChain`, `Links`, `Serial`); answers stay because what is stashed came
from the registered socket or an orphaned one (`Stash`, `Listened`); an answer
is the command's own because on a socket that was answered in full nothing is
under way but what the waiting command asked for (`CleanInStep`).

**`ConsolePoolsProofs`**: `NoOrphan`, `WindowInStep`, `LeaseHasConsole` of the
debug console. A second dial, or a dial beside an entry, would orphan a socket,
and a lease may outlive its socket for a while. `PoolInv` adds that there is one
dial at most and never beside an entry (`OneDial`), that the entry has not had
its close event (`EntryIsOpenOne`), and that leases and a "connected" that
outlive their socket have a bounce or a close event to come (`Settling`). For
the text consoles `NoLineOrphaned` and `WindowHoldsItsLine`: `HeldInv` adds the
same about dials, and that the window was told of no socket but the entry.

**`RelayConsoleProofs`**: `NoLineLost`, `NoLineTwice`, `NoClientLeftBehind`.
`RelayInv` adds that buffers and streams are in order and hold only completed
lines (`OfCompleted`), so that the next line to complete is newer than all of
them; that a line is not both buffered and received (`Apart`); and that a closed
session is empty, since its number is used again (`ClosedIsEmpty`).
`GrownFacts` is the lemma about cutting the buffer.

**`ServicesProofs`**, the other parts and the whole:

* the four properties of `RceVideo`. `VideoInv` pairs sessions with open clients
  (`Paired`), lets only the session in the map go (`OnlyPreviewGoes`), and gives
  a session four positions: resting, looking up, waiting, with a client
  (`Positions`);
* `EndsInSilence` of the relay, from: while the emission of the end is due, the
  tap is off; and its types, where the count of lost caps needs an argument
  (`CapsCounted`: each was lost by the end of a fan-out of its own);
* `StoredIsFound` and `ReadsOwnEvent` of the detail store. `StoreInv`: versions
  are queued in order (`QueueInOrder`), so the write that empties an event from
  memory is of its newest version; a version that is not coming any more is in
  the file at its event's place (`AllKept`); that place is settled, which means
  behind `writeOffset` and not the place of the write in flight (`Settled`), so
  neither that write nor a later one changes what a read relies on
  (`ReadsAreSafe`); and the write in flight landed where the index will point
  (`WriteIsPlaced`). `DrainTurn` is the lemma about the loop's next turn;
* `PartsAreParts`: the composition implements the specification of each part,
  since the parts share no variable; hence `ServicesTypeCorrect`, and every
  theorem about a part holds in the composition.

*Model-checked only.* All liveness, which is out of this prover's reach:
`EndSettles`, `AttachSettles`, `CommandsSettle`, `InstalledRunEnds`, and the
fairness half of `Refines`. The properties of the runs that end in a violation
are false and have nothing to prove.

## 9. Not modelled

Most of the repository's lines are presentation and data, where the order of
events decides little and a state machine would only restate the code:

* the renderer, its preloads and strings (more than half of the lines), and the
  BrightScript components, docs and build scripts;
* encoding, decoding and parsing: the debug protocol's packets, HTTP streams,
  TLS, certificates and rewriting in the inspector, the scans of BrightScript
  source, what devices answer over ECP and SSDP;
* requests with one answer each: device operations, the MCP tools, the relay
  server's HTTP routes, RCE management, updates, settings;
* within modelled components: the wire trace, the I/O port's output, exception
  breakpoints (a request that changes no state of the program), the transports
  of the consoles other than local TCP, the install of one target.

Of the program's own concurrency these are left: the console spill, the waits of
action scripts, and reconfiguration of the sideload relay (section 2).
`PROJECT.json` gives the reason and the extent for every component.
