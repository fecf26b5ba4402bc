--------------------------- MODULE DebugSession ---------------------------
(***************************************************************************)
(* One attached BrightScript debug session: the DebugProtocolClient on the *)
(* control port 8081, the DebugSessionController that drives it, and the   *)
(* callers (debug sidebar over IPC, MCP bridge) that share it.             *)
(*                                                                         *)
(* The program runs on one event loop.  A macrotask (a call, a timer, a    *)
(* socket event) starts only when no promise continuation is ready, so an  *)
(* action guarded by ~Busy is a macrotask and a step of a task whose       *)
(* answer has arrived is a microtask.  Ready microtasks run in any order:  *)
(* the number of ticks a chain of awaits takes is abstracted.  The device  *)
(* moves only between macrotasks, which loses nothing: it shares only the  *)
(* two byte streams with the program, and what it reads or appends during  *)
(* a macrotask it can as well read or append right after it.               *)
(*                                                                         *)
(* A task is a caller or a stop handler (the coroutine of one 'suspend' or *)
(* 'runtime-error' event).  It awaits at most one request at a time, and   *)
(* request ids are never reused, so a request is identified by its task.   *)
(***************************************************************************)
EXTENDS Naturals, Sequences, FiniteSets

CONSTANTS
  Callers,     \* the sidebar and the agent, each awaiting one call at a time
  Handlers,    \* slots for concurrent stop handlers (bound)
  Locs,        \* breakpoint locations, the controller's bpKey values
  MaxAdds,     \* bound: how often the callers add each location
  LateAttach,  \* whether a thread may attach (and stop) while others are halted
  Refusable,   \* requests the device may answer with an error code, halted or not
  LegacyCasing \* whether the device speaks a protocol older than 3.1.0

\* Requests the client sends only while it believes a thread is halted, and
\* those the device serves only while one is: the retry of getVariables is not
\* guarded.
Resumes   == {"Continue", "Step"}
Guarded   == Resumes \cup {"AddBreakpoints", "Threads", "StackTrace", "Variables", "Execute"}
NeedsHalt == Guarded \cup {"VariablesRetry"}
Commands  == NeedsHalt \cup {"Stop", "RemoveBreakpoints"}
Reasons   == {"suspend", "runtime-error", "other"}

ASSUME ConfigAssumption ==
  /\ Callers \cap Handlers = {}
  /\ Handlers # {}
  /\ IsFiniteSet(Handlers)
  /\ MaxAdds \in Nat
  /\ LateAttach \in BOOLEAN
  /\ Refusable \subseteq NeedsHalt
  /\ LegacyCasing \in BOOLEAN

Tasks == Callers \cup Handlers

VARIABLES
  \* DebugProtocolClient
  open,          \* the control socket is connected and the listeners are wired
  isStopped,     \* the client's belief that a thread is halted
  pending,       \* tasks whose request has no response yet
  toDevice,      \* requests written to the socket
  fromDevice,    \* responses and updates on their way back
  reading,       \* onData is still draining the chunk it was called with
  \* DebugSessionController
  live,          \* sessions.get(ip) is this session
  state,         \* session.state
  lastStop,      \* the retained snapshot: none, of the latest stop, or an older one
  entryHandled,
  cached,        \* locations in session.breakpoints ...
  sent,          \* ... those marked sent ...
  bpId,          \* ... and the device id of each (0: none)
  fresh,         \* resumers whose generation snapshot still is resumeGeneration
  latest,        \* the handler of the most recent stop
  \* tasks
  pc, answer,    \* where each task is, and the result its await resolved to
  batch,         \* entries a task is registering and holds a reference to
  \* device
  dev,           \* "entry", "running", "halted" or "silent" (halted, reason not shown)
  devBps,        \* breakpoints registered on the device, with their ids
  nextId,
  adds           \* history: how often the callers added each location

clientVars  == <<open, isStopped, pending, toDevice>>
sessionVars == <<live, state, lastStop, entryHandled, fresh, latest>>
bpVars      == <<cached, sent, bpId, adds>>
taskVars    == <<pc, answer, batch>>
devVars     == <<dev, devBps, nextId>>
vars == <<clientVars, fromDevice, reading, sessionVars, bpVars, taskVars, devVars>>

-----------------------------------------------------------------------------
Request == [cmd : Commands, by : Tasks, locs : SUBSET Locs, ids : SUBSET Nat]
Reply   == [kind : {"reply"}, to : Tasks, ok : BOOLEAN, ids : [Locs -> Nat]]
Stop    == [kind : {"stop"}, why : Reasons]

CallerPcs  == {"resume", "step", "pause", "add", "remove", "inspect", "vars", "retry", "detach"}
HandlerPcs == {"grace", "entryFlush", "entryContinue", "flush", "threads", "stack", "vars", "retry"}
Answers    == {"none", "ok", "error", "void", "reject"}

TypeOK ==
  /\ open \in BOOLEAN /\ isStopped \in BOOLEAN /\ reading \in BOOLEAN
  /\ pending \in SUBSET Tasks
  /\ toDevice \in Seq(Request)
  /\ fromDevice \in Seq(Reply \cup Stop)
  /\ live \in BOOLEAN /\ entryHandled \in BOOLEAN
  /\ state \in {"attached", "stopped", "running"}
  /\ lastStop \in {"none", "current", "stale"}
  /\ cached \in SUBSET Locs /\ sent \in SUBSET Locs
  /\ bpId \in [Locs -> Nat] /\ adds \in [Locs -> Nat]
  /\ fresh \in SUBSET Callers
  /\ latest \in Handlers
  /\ pc \in [Tasks -> {"idle"} \cup CallerPcs \cup HandlerPcs]
  /\ answer \in [Tasks -> Answers]
  /\ batch \in [Tasks -> SUBSET Locs]
  /\ dev \in {"entry", "running", "halted", "silent"}
  /\ devBps \in SUBSET [loc : Locs, id : Nat]
  /\ nextId \in Nat

\* The handshake has completed and the channel is halted on its first statement.
Init ==
  /\ open = TRUE /\ isStopped = FALSE /\ pending = {} /\ toDevice = <<>>
  /\ fromDevice = <<[kind |-> "stop", why |-> "suspend"]>> /\ reading = FALSE
  /\ live = TRUE /\ state = "attached" /\ lastStop = "none" /\ entryHandled = FALSE
  /\ cached = {} /\ sent = {}
  /\ bpId = [l \in Locs |-> 0] /\ adds = [l \in Locs |-> 0]
  /\ fresh = {} /\ latest \in Handlers
  /\ pc = [t \in Tasks |-> "idle"]
  /\ answer = [t \in Tasks |-> "none"]
  /\ batch = [t \in Tasks |-> {}]
  /\ dev = "entry" /\ devBps = {} /\ nextId = 1

Busy == reading \/ \E t \in Tasks : answer[t] # "none"

-----------------------------------------------------------------------------
\* DebugProtocolClient: sending.  A closed socket rejects; the id of a sent
\* request is pending until its response (or the end of the session).
Send(t, cmd, locs, ids) ==
  /\ toDevice' = IF open
                 THEN Append(toDevice, [cmd |-> cmd, by |-> t, locs |-> locs, ids |-> ids])
                 ELSE toDevice
  /\ pending' = IF open THEN pending \cup {t} ELSE pending
  /\ answer' = [answer EXCEPT ![t] = IF open THEN "none" ELSE "reject"]

\* The call returns without talking to the device.
Resolve(t, a) ==
  /\ answer' = [answer EXCEPT ![t] = a]
  /\ UNCHANGED <<toDevice, pending>>

\* threads, getStackTrace, getVariables, executeCommand: nothing unless halted
\* (for getVariables, its first request).
WhenHalted(t, cmd) ==
  IF isStopped THEN Send(t, cmd, {}, {}) ELSE Resolve(t, "void")

\* Fault: the belief is left to be dropped later.
ResumeRequestStale(t, cmd) == WhenHalted(t, cmd) /\ UNCHANGED isStopped

\* continue and step: the belief is dropped before the command is sent.
ResumeRequest(t, cmd) ==
  /\ WhenHalted(t, cmd)
  /\ isStopped' = FALSE

\* Fault: the pending requests are forgotten, not failed.
FailedForgotten(a) == a

\* endSession and destroy: every awaiting caller gets an error result.  What
\* the streams still held is of no further effect on the program.
Failed(a) == [t \in Tasks |-> IF t \in pending THEN "error" ELSE a[t]]

Destroy ==
  /\ open' = FALSE /\ reading' = FALSE
  /\ pending' = {} /\ toDevice' = <<>> /\ fromDevice' = <<>>
  /\ UNCHANGED isStopped

-----------------------------------------------------------------------------
\* Fault: a state outside SessionState.
SetStateUntyped(s) ==
  /\ state' = IF s = "running" THEN "resumed" ELSE s
  /\ lastStop' = IF s = "running" THEN "none" ELSE lastStop
  /\ fresh' = IF s = "stopped" THEN {} ELSE fresh

\* DebugSessionController: setState.  A stop moves resumeGeneration on, which
\* makes every snapshot a resumer took of it outdated.
SetState(s) ==
  /\ state' = s
  /\ lastStop' = IF s = "running" THEN "none" ELSE lastStop
  /\ fresh' = IF s = "stopped" THEN {} ELSE fresh

\* Fault: markResumed without the generation guard.
MarkResumedUnguarded(c) ==
  IF live THEN SetState("running") ELSE UNCHANGED <<state, lastStop, fresh>>

\* markResumed: the resume wins only if no stop has been handled since.
MarkResumed(c) ==
  IF live /\ c \in fresh THEN SetState("running") ELSE UNCHANGED <<state, lastStop, fresh>>

\* Fault: sent is not marked before the await.
StartFlushUnmarked(t, h) ==
  LET due == cached \ sent IN
  /\ UNCHANGED sent
  /\ IF h /\ due # {}
     THEN batch' = [batch EXCEPT ![t] = due] /\ Send(t, "AddBreakpoints", due, {})
     ELSE Resolve(t, "void") /\ UNCHANGED batch

\* Fault: whether the client is halted is not asked, or asked before the stop counts.
StartFlushAlways(t, h) ==
  LET due == cached \ sent IN
  IF due # {}
  THEN /\ sent' = sent \cup due
       /\ batch' = [batch EXCEPT ![t] = due]
       /\ Send(t, "AddBreakpoints", due, {})
  ELSE Resolve(t, "void") /\ UNCHANGED <<sent, batch>>
StartFlushEarly(t, h) ==
  IF isStopped THEN StartFlushAlways(t, h) ELSE Resolve(t, "void") /\ UNCHANGED <<sent, batch>>

\* flushBreakpoints up to its await, for a task t that calls it while the
\* client's halted getter reads h: mark sent, then send.
StartFlush(t, h) ==
  LET due == cached \ sent IN
  IF h /\ due # {}
  THEN /\ sent' = sent \cup due
       /\ batch' = [batch EXCEPT ![t] = due]
       /\ Send(t, "AddBreakpoints", due, {})
  ELSE /\ Resolve(t, "void")
       /\ UNCHANGED <<sent, batch>>

\* The rest of flushBreakpoints and addBreakpoints: only a rejection reverts.
FinishAdd(t) ==
  /\ sent' = IF answer[t] = "reject" THEN sent \ batch[t] ELSE sent
  /\ batch' = [batch EXCEPT ![t] = {}]

Goto(t, l) == pc' = [pc EXCEPT ![t] = l]

-----------------------------------------------------------------------------
\* Calls.  Each starts in a macrotask; a call without a session throws, which
\* changes nothing, so it is not an action.
CanCall(c) == ~Busy /\ live /\ pc[c] = "idle"

Continue(c) ==
  /\ CanCall(c)
  /\ fresh' = fresh \cup {c}
  /\ ResumeRequest(c, "Continue")
  /\ Goto(c, "resume")
  /\ UNCHANGED <<open, fromDevice, reading, live, state, lastStop, entryHandled, latest,
                 bpVars, batch, devVars>>

Step(c) ==
  /\ CanCall(c)
  /\ fresh' = fresh \cup {c}
  /\ ResumeRequest(c, "Step")
  /\ Goto(c, "step")
  /\ UNCHANGED <<open, fromDevice, reading, live, state, lastStop, entryHandled, latest,
                 bpVars, batch, devVars>>

Pause(c) ==
  /\ CanCall(c)
  /\ IF isStopped THEN Resolve(c, "void") ELSE Send(c, "Stop", {}, {})
  /\ Goto(c, "pause")
  /\ UNCHANGED <<open, isStopped, fromDevice, reading, sessionVars, bpVars, batch, devVars>>

\* variables, and (as one request) stackTrace and execute.
Inspect(c) ==
  /\ CanCall(c)
  /\ \/ WhenHalted(c, "Variables") /\ Goto(c, "vars")
     \/ WhenHalted(c, "Execute") /\ Goto(c, "inspect")
  /\ UNCHANGED <<open, isStopped, fromDevice, reading, sessionVars, bpVars, batch, devVars>>

\* addBreakpoints: cached always; sent now only if halted, else at the next stop.
AddBreakpoints(c, L) ==
  /\ CanCall(c)
  /\ \A l \in L : adds[l] < MaxAdds
  /\ adds' = [l \in Locs |-> IF l \in L THEN adds[l] + 1 ELSE adds[l]]
  /\ cached' = cached \cup L
  /\ IF isStopped
     THEN /\ sent' = sent \cup L
          /\ batch' = [batch EXCEPT ![c] = L]
          /\ Send(c, "AddBreakpoints", L, {})
          /\ Goto(c, "add")
     ELSE /\ sent' = sent \ L
          /\ UNCHANGED <<batch, toDevice, pending, answer, pc>>
  /\ UNCHANGED <<open, isStopped, fromDevice, reading, sessionVars, bpId, devVars>>

\* removeBreakpointsByLocation.  A deleted entry is out of reach of the tasks
\* that still hold a reference to it: what they do to it has no effect.
RemoveBreakpoints(c, L) ==
  LET ids == {bpId[l] : l \in L} \ {0} IN
  /\ CanCall(c)
  /\ cached' = cached \ L
  /\ sent' = sent \ L
  /\ bpId' = [l \in Locs |-> IF l \in L THEN 0 ELSE bpId[l]]
  /\ batch' = [t \in Tasks |-> batch[t] \ L]
  /\ IF ids = {}
     THEN UNCHANGED <<toDevice, pending, answer, pc>>
     ELSE Send(c, "RemoveBreakpoints", {}, ids) /\ Goto(c, "remove")
  /\ UNCHANGED <<open, isStopped, fromDevice, reading, sessionVars, adds, devVars>>

\* detach: forget the session, then release a halted thread, then hang up.
Detach(c) ==
  /\ CanCall(c)
  /\ live' = FALSE
  /\ ResumeRequest(c, "Continue")
  /\ Goto(c, "detach")
  /\ UNCHANGED <<open, fromDevice, reading, state, lastStop, entryHandled, fresh, latest,
                 bpVars, batch, devVars>>

-----------------------------------------------------------------------------
\* Continuations of the calls.
Ready(t) == ~reading /\ answer[t] # "none"

Return(c) ==
  /\ answer' = [answer EXCEPT ![c] = "none"]
  /\ Goto(c, "idle")
  /\ UNCHANGED <<clientVars, fromDevice, reading, live, entryHandled, latest, cached, bpId,
                 adds, devVars>>

ResumeDone(c) ==
  /\ Ready(c) /\ pc[c] = "resume"
  /\ IF answer[c] = "reject" THEN UNCHANGED <<state, lastStop, fresh>> ELSE MarkResumed(c)
  /\ UNCHANGED <<sent, batch>>
  /\ Return(c)

\* A refused step is announced as 'cannot-continue' while the listeners are wired.
StepDone(c) ==
  /\ Ready(c) /\ pc[c] = "step"
  /\ CASE answer[c] = "reject"         -> UNCHANGED <<state, lastStop, fresh>>
       [] answer[c] = "error" /\ open  -> SetState("stopped")
       [] OTHER                        -> MarkResumed(c)
  /\ UNCHANGED <<sent, batch>>
  /\ Return(c)

AddDone(c) ==
  /\ Ready(c) /\ pc[c] = "add"
  /\ FinishAdd(c)
  /\ UNCHANGED <<state, lastStop, fresh>>
  /\ Return(c)

\* The rest of getVariables, for a caller or a handler: on an old protocol an error
\* is followed by a second request, which does not ask for the halt again.
RetryDue(t) == LegacyCasing /\ pc[t] = "vars" /\ answer[t] = "error"
VariablesDone(t) == pc[t] \in {"vars", "retry"}

RetryVariables(t) ==
  /\ Ready(t)
  /\ Send(t, "VariablesRetry", {}, {})
  /\ Goto(t, "retry")
  /\ UNCHANGED <<open, isStopped, fromDevice, reading, sessionVars, bpVars, batch, devVars>>

CallDone(c) ==
  /\ Ready(c)
  /\ pc[c] \in {"pause", "remove", "inspect"} \/ VariablesDone(c)
  /\ UNCHANGED <<state, lastStop, fresh, sent, batch>>
  /\ Return(c)

CallAnswered(c) == IF RetryDue(c) THEN RetryVariables(c) ELSE CallDone(c)

\* The release was answered, or 1500 ms have passed.
DetachDone(c) ==
  /\ pc[c] = "detach"
  /\ Ready(c) \/ ~Busy
  /\ Destroy
  /\ answer' = [Failed(answer) EXCEPT ![c] = "none"]
  /\ Goto(c, "idle")
  /\ UNCHANGED <<sessionVars, bpVars, batch, devVars>>

-----------------------------------------------------------------------------
\* The receive loop: consumeOne dispatches the next message; the loop goes on
\* while the chunk holds more.
NextMessage ==
  /\ open /\ fromDevice # <<>> /\ (reading \/ ~Busy)
  /\ fromDevice' = Tail(fromDevice)
  /\ reading' \in {b \in BOOLEAN : b => Len(fromDevice) > 1}

\* recordBreakpointIds runs in the caller's continuation; nothing reads the ids
\* before it, so they are recorded as the response is dispatched.
RecordBreakpointIds(t, ids) ==
  bpId' = [l \in Locs |-> IF l \in batch[t] /\ ids[l] > 0 THEN ids[l] ELSE bpId[l]]

\* A response resolves its caller.
Response ==
  LET m == Head(fromDevice) IN
  /\ NextMessage /\ m.kind = "reply"
  /\ pending' = pending \ {m.to}
  /\ answer' = IF m.to \in pending
               THEN [answer EXCEPT ![m.to] = IF m.ok THEN "ok" ELSE "error"]
               ELSE answer
  /\ RecordBreakpointIds(m.to, m.ids)
  /\ UNCHANGED <<open, isStopped, toDevice, sessionVars, cached, sent, adds, pc, batch, devVars>>

\* handleUpdate for a stop whose reason the client does not report.
SilentStop ==
  /\ NextMessage /\ Head(fromDevice).kind = "stop" /\ Head(fromDevice).why = "other"
  /\ isStopped' = TRUE
  /\ UNCHANGED <<open, pending, toDevice, sessionVars, bpVars, taskVars, devVars>>

\* The first 'suspend' is the entry halt: onSuspend sleeps for the grace period.
EntrySuspend(h) ==
  /\ NextMessage /\ Head(fromDevice).kind = "stop" /\ Head(fromDevice).why = "suspend"
  /\ ~entryHandled /\ pc[h] = "idle"
  /\ isStopped' = TRUE
  /\ entryHandled' = TRUE
  /\ Goto(h, "grace")
  /\ UNCHANGED <<open, pending, toDevice, live, state, lastStop, fresh, latest, bpVars,
                 answer, batch, devVars>>

\* Any other stop: emitStopSnapshot sets 'stopped' and starts the flush.
ReportStop(h) ==
  /\ NextMessage /\ Head(fromDevice).kind = "stop" /\ pc[h] = "idle"
  /\ \/ Head(fromDevice).why = "runtime-error"
     \/ Head(fromDevice).why = "suspend" /\ entryHandled
  /\ isStopped' = TRUE
  /\ state' = "stopped" /\ fresh' = {}
  /\ lastStop' = IF lastStop = "none" THEN "none" ELSE "stale"
  /\ latest' = h
  /\ StartFlush(h, TRUE)
  /\ Goto(h, "flush")
  /\ UNCHANGED <<open, live, entryHandled, cached, bpId, adds, devVars>>

-----------------------------------------------------------------------------
\* Continuations of the stop handlers.
GraceOver(h) ==
  /\ ~Busy /\ pc[h] = "grace"
  /\ StartFlush(h, isStopped)
  /\ Goto(h, "entryFlush")
  /\ UNCHANGED <<open, isStopped, fromDevice, reading, sessionVars, cached, bpId, adds, devVars>>

AutoContinue(h) ==
  /\ Ready(h) /\ pc[h] = "entryFlush"
  /\ FinishAdd(h)
  /\ SetState("running")
  /\ ResumeRequest(h, "Continue")
  /\ Goto(h, "entryContinue")
  /\ UNCHANGED <<open, fromDevice, reading, live, entryHandled, latest, cached, bpId, adds,
                 devVars>>

AskThreads(h) ==
  /\ Ready(h) /\ pc[h] = "flush"
  /\ FinishAdd(h)
  /\ WhenHalted(h, "Threads")
  /\ Goto(h, "threads")
  /\ UNCHANGED <<open, isStopped, fromDevice, reading, sessionVars, cached, bpId, adds, devVars>>

AskStack(h) ==
  /\ Ready(h) /\ pc[h] = "threads"
  /\ WhenHalted(h, "StackTrace")
  /\ Goto(h, "stack")
  /\ UNCHANGED <<open, isStopped, fromDevice, reading, sessionVars, bpVars, batch, devVars>>

AskVariables(h) ==
  /\ Ready(h) /\ pc[h] = "stack"
  /\ WhenHalted(h, "Variables")
  /\ Goto(h, "vars")
  /\ UNCHANGED <<open, isStopped, fromDevice, reading, sessionVars, bpVars, batch, devVars>>

\* The snapshot is retained for pollers and emitted as Stopped.
PublishStop(h) ==
  /\ Ready(h) /\ VariablesDone(h)
  /\ lastStop' = IF latest = h THEN "current" ELSE "stale"
  /\ UNCHANGED <<state, fresh, sent, batch>>
  /\ Return(h)

VariablesAnswered(h) == IF RetryDue(h) THEN RetryVariables(h) ELSE PublishStop(h)

EntryDone(h) ==
  /\ Ready(h) /\ pc[h] = "entryContinue"
  /\ UNCHANGED <<state, lastStop, fresh, sent, batch>>
  /\ Return(h)

\* The socket closes or fails: the controller forgets the session.
SessionEnd ==
  /\ ~Busy /\ open
  /\ live' = FALSE
  /\ Destroy
  /\ answer' = Failed(answer)
  /\ UNCHANGED <<state, lastStop, entryHandled, fresh, latest, bpVars, pc, batch, devVars>>

-----------------------------------------------------------------------------
\* The device (external), as src/ relies on it: it answers requests in order,
\* halts at most once per run and announces it, and runs only when resumed.
StopsInFlight == {i \in DOMAIN fromDevice : fromDevice[i].kind = "stop"}

\* Bound: a handler slot is free for the stop the device is about to announce.
SpareHandler ==
  Cardinality({h \in Handlers : pc[h] = "idle"}) > Cardinality(StopsInFlight)

NoIds == [l \in Locs |-> 0]
ReplyTo(t, ok, ids) == [kind |-> "reply", to |-> t, ok |-> ok, ids |-> ids]

DeviceUnchanged ==
  UNCHANGED <<open, isStopped, pending, reading, sessionVars, bpVars, taskVars>>

\* A thread stops: the first, or one that attaches, and stops, while the others are
\* halted (ThreadAttached).
DeviceHalt(why) ==
  /\ ~Busy /\ open /\ SpareHandler
  /\ \/ dev = "running"
     \/ LateAttach /\ dev = "halted" /\ why = "suspend"
  /\ dev' = IF why = "other" THEN "silent" ELSE "halted"
  /\ fromDevice' = Append(fromDevice, [kind |-> "stop", why |-> why])
  /\ UNCHANGED <<toDevice, devBps, nextId>>
  /\ DeviceUnchanged

\* The oldest request is taken off the stream and served.
Serve(cmds) ==
  /\ ~Busy /\ open /\ toDevice # <<>> /\ Head(toDevice).cmd \in cmds
  /\ toDevice' = Tail(toDevice)
  /\ DeviceUnchanged

DeviceResume ==
  /\ Serve(Resumes) /\ dev # "running"
  /\ dev' = "running"
  /\ fromDevice' = Append(fromDevice, ReplyTo(Head(toDevice).by, TRUE, NoIds))
  /\ UNCHANGED <<devBps, nextId>>

\* An error code: the device refuses, or the request needs a halt it is not in.
DeviceRefuse ==
  /\ Serve(NeedsHalt)
  /\ \/ Head(toDevice).cmd \in Refusable
     \/ dev = "running" /\ Head(toDevice).cmd # "AddBreakpoints"
  /\ fromDevice' = Append(fromDevice, ReplyTo(Head(toDevice).by, FALSE, NoIds))
  /\ UNCHANGED devVars

DevicePause ==
  LET ack == ReplyTo(Head(toDevice).by, TRUE, NoIds) IN
  /\ Serve({"Stop"})
  /\ IF dev = "running" /\ SpareHandler
     THEN /\ dev' = "halted"
          /\ fromDevice' = Append(Append(fromDevice, ack), [kind |-> "stop", why |-> "suspend"])
     ELSE /\ fromDevice' = Append(fromDevice, ack)
          /\ UNCHANGED dev
  /\ UNCHANGED <<devBps, nextId>>

\* Breakpoints added while the channel runs are accepted but not honoured.
DeviceAdd ==
  LET L == Head(toDevice).locs IN
  /\ Serve({"AddBreakpoints"})
  /\ \E id \in [L -> nextId..(nextId + Cardinality(L) - 1)] :
       /\ \A l, m \in L : id[l] = id[m] => l = m
       /\ fromDevice' = Append(fromDevice, ReplyTo(Head(toDevice).by, TRUE,
                                 [l \in Locs |-> IF l \in L THEN id[l] ELSE 0]))
       /\ devBps' = IF dev = "running" THEN devBps
                    ELSE devBps \cup {[loc |-> l, id |-> id[l]] : l \in L}
  /\ nextId' = nextId + Cardinality(L)
  /\ UNCHANGED dev

DeviceRemove ==
  /\ Serve({"RemoveBreakpoints"})
  /\ devBps' = {b \in devBps : b.id \notin Head(toDevice).ids}
  /\ fromDevice' = Append(fromDevice, ReplyTo(Head(toDevice).by, TRUE, NoIds))
  /\ UNCHANGED <<dev, nextId>>

DeviceInspect ==
  /\ Serve(NeedsHalt \ (Resumes \cup {"AddBreakpoints"})) /\ dev # "running"
  /\ fromDevice' = Append(fromDevice, ReplyTo(Head(toDevice).by, TRUE, NoIds))
  /\ UNCHANGED devVars

-----------------------------------------------------------------------------
Call(c) ==
  \/ Continue(c) \/ Step(c) \/ Pause(c) \/ Inspect(c) \/ Detach(c)
  \/ \E L \in SUBSET Locs \ {{}} : AddBreakpoints(c, L) \/ RemoveBreakpoints(c, L)

CallerStep(c) ==
  \/ ResumeDone(c) \/ StepDone(c) \/ AddDone(c)
  \/ CallAnswered(c) \/ DetachDone(c)

HandlerStep(h) ==
  \/ GraceOver(h) \/ AutoContinue(h) \/ EntryDone(h)
  \/ AskThreads(h) \/ AskStack(h) \/ AskVariables(h) \/ VariablesAnswered(h)

Receive ==
  Response \/ SilentStop \/ \E h \in Handlers : EntrySuspend(h) \/ ReportStop(h)

Device ==
  \/ \E why \in Reasons : DeviceHalt(why)
  \/ DeviceResume \/ DeviceRefuse \/ DevicePause
  \/ DeviceAdd \/ DeviceRemove \/ DeviceInspect

Next ==
  \/ \E c \in Callers : Call(c) \/ CallerStep(c)
  \/ \E h \in Handlers : HandlerStep(h)
  \/ Receive
  \/ SessionEnd
  \/ Device

Spec == Init /\ [][Next]_vars

\* The event loop runs what is ready, fires its timers and drains what arrived.
\* Nothing is assumed of the callers or of the device.
LoopFairness ==
  /\ \A c \in Callers : WF_vars(CallerStep(c))
  /\ \A h \in Handlers : WF_vars(HandlerStep(h))
  /\ WF_vars(Receive)

FairSpec == Spec /\ LoopFairness

-----------------------------------------------------------------------------
\* The only request that needs a halted device and may reach a running one is
\* the retry of getVariables on an old protocol, after another task resumed the
\* channel.  A breakpoint is never added while the channel runs (it would be
\* accepted and not honoured), no thread is resumed or stepped a second time,
\* and no stack is read from a running channel.
HaltedAtReceipt ==
  toDevice # <<>> /\ Head(toDevice).cmd \in NeedsHalt /\ dev = "running" =>
    LegacyCasing /\ Head(toDevice).cmd = "VariablesRetry"

\* Between macrotasks a halt the client knows of is shown as 'stopped', however
\* the acknowledgement of the resume and the next stop were interleaved.
StopNotLost ==
  ~Busy /\ live /\ isStopped /\ dev = "halted" => state = "stopped"

\* Concurrent flushes and adds register no breakpoint more often than asked.
NoDoubleRegister ==
  \A l \in Locs :
    Cardinality({b \in devBps : b.loc = l})
      + Cardinality({i \in DOMAIN toDevice : l \in toDevice[i].locs}) <= adds[l]

\* A session that is over, which none leaves again, does not stay so with a call or a
\* stop handler under way.
EndSettles == []<>(open \/ \A t \in Tasks : pc[t] = "idle")

\* While the session is shown as 'stopped' and the thread is halted, nothing is
\* left queued: each breakpoint was sent at the stop or by the call that added it.
NothingQueuedWhileStopped ==
  ~Busy /\ live /\ state = "stopped" /\ isStopped /\ dev = "halted" => cached \subseteq sent

\* A breakpoint reported as verified (getBreakpoints: it has a device id) is
\* registered on the device under that id.
VerifiedIsRegistered ==
  \A l \in Locs : bpId[l] # 0 => [loc |-> l, id |-> bpId[l]] \in devBps

-----------------------------------------------------------------------------
\* Stated by the comments of the code, and violated by it.

\* "Resume execution from a halted state ... Only meaningful while `stopped`":
\* in a session shown as 'stopped' a resume finds the client believing that the
\* thread is halted, or another resume is on its way.
StoppedIsActionable ==
  ~Busy /\ live /\ state = "stopped" =>
    isStopped \/ \E c \in Callers : pc[c] \in {"resume", "step"}

\* "Cleared on resume": a poller that sees 'stopped' and a retained snapshot
\* (wait-for-stop of the MCP bridge) sees the snapshot of that stop.
PolledStopIsCurrent == live /\ state = "stopped" => lastStop # "stale"

\* "auto-continue it [the entry halt]; STOP statements always halt regardless":
\* the continue of the entry handler never releases a later stop.
OnlyEntryAutoContinued ==
  [][\A h \in Handlers :
       pc[h] = "entryFlush" /\ pc'[h] = "entryContinue" /\ h \in pending' => dev # "halted"]_vars
=============================================================================
