----------------------- MODULE DebugBreakpointProofs -----------------------
(***************************************************************************)
(* Theorems about the breakpoint cache of DebugSession and what the device *)
(* has of it, for any callers, handlers and locations.                     *)
(***************************************************************************)
EXTENDS DebugSessionProofs

-----------------------------------------------------------------------------
(***************************************************************************)
(* While the client believes in a halt of a session it still has, nothing  *)
(* in the cache is unsent.  The stop that gave it the belief sent all      *)
(* there was; an add sends what it caches; and only a rejected request,    *)
(* which a session with its socket has none of, takes the mark back.       *)
(***************************************************************************)
AllSent == live /\ isStopped /\ dev = "halted" => cached \subseteq sent

\* A continuation unmarks nothing while the session has its socket.
LEMMA MarkStays ==
  ASSUME LiveInv, live, NEW t \in Tasks, FinishAdd(t)
  PROVE  sent' = sent
BY DEF LiveInv, FinishAdd

LEMMA SentMonotone ==
  ASSUME AllSent, cached' \subseteq cached \cup (sent' \ sent), sent \subseteq sent',
         live' => live, isStopped' => isStopped, dev' = dev
  PROVE  AllSent'
BY DEF AllSent

LEMMA SentCall ==
  ASSUME TypeOK, AllSent, NEW c \in Callers, Call(c)
  PROVE  AllSent'
<1>1. CASE Continue(c) \/ Step(c) \/ Detach(c)
  BY <1>1 DEF Continue, Step, Detach, ResumeRequest, AllSent
<1>2. CASE Pause(c)
  BY <1>2, SentMonotone DEF Pause, sessionVars, bpVars, devVars
<1>2a. CASE Inspect(c)
  BY <1>2a, SentMonotone DEF Inspect, sessionVars, bpVars, devVars
<1>3. ASSUME NEW L \in SUBSET Locs, AddBreakpoints(c, L)
      PROVE  AllSent'
  <2>1. /\ cached' = cached \cup L /\ UNCHANGED <<live, isStopped, dev>>
        /\ isStopped => sent' = sent \cup L
    BY <1>3 DEF AddBreakpoints, sessionVars, devVars
  <2>2. QED BY <2>1 DEF AllSent
<1>4. ASSUME NEW L \in SUBSET Locs, RemoveBreakpoints(c, L)
      PROVE  AllSent'
  <2>1. cached' = cached \ L /\ sent' = sent \ L /\ UNCHANGED <<live, isStopped, dev>>
    BY <1>4 DEF RemoveBreakpoints, sessionVars, devVars
  <2>2. QED BY <2>1 DEF AllSent
<1>5. QED BY <1>1, <1>2, <1>2a, <1>3, <1>4 DEF Call

LEMMA FlushSends ==
  ASSUME NEW t, NEW b, StartFlush(t, b)
  PROVE  sent' = (IF b THEN sent \cup cached ELSE sent) \/ sent' = sent
BY DEF StartFlush

LEMMA SentTasks ==
  ASSUME TypeOK, LiveInv, AllSent,
         (\E c \in Callers : CallerStep(c)) \/ (\E h \in Handlers : HandlerStep(h))
  PROVE  AllSent'
<1> SUFFICES ASSUME live' PROVE AllSent'
  BY DEF AllSent
<1>1. live
  BY DEF CallerStep, HandlerStep, ResumeDone, StepDone, AddDone, CallDone, DetachDone, Return,
     CallAnswered, VariablesAnswered, RetryVariables, GraceOver, AutoContinue, EntryDone, AskThreads, AskStack, AskVariables,
     PublishStop, sessionVars
<1>1a. ASSUME NEW t, RetryVariables(t)
      PROVE  AllSent'
  BY <1>1a, SentMonotone DEF RetryVariables, sessionVars, bpVars, devVars
<1>2. ASSUME NEW c \in Callers, CallerStep(c)
      PROVE  AllSent'
  <2>0. c \in Tasks
    BY DEF Tasks
  <2>1. CASE AddDone(c)
    BY <1>1, <2>0, <2>1, MarkStays, SentMonotone DEF AddDone, Return, clientVars, devVars
  <2>2. CASE ResumeDone(c)
    BY <2>2, SentMonotone DEF ResumeDone, Return, clientVars, devVars
  <2>3. CASE StepDone(c)
    BY <2>3, SentMonotone DEF StepDone, Return, clientVars, devVars
  <2>4. CASE CallDone(c)
    BY <2>4, SentMonotone DEF CallDone, Return, clientVars, devVars
  <2>5. CASE DetachDone(c)
    BY <2>5, SentMonotone DEF DetachDone, Destroy, sessionVars, bpVars, devVars
  <2>6. QED BY <1>1a, <1>2, <2>1, <2>2, <2>3, <2>4, <2>5 DEF CallerStep, CallAnswered
<1>3. ASSUME NEW h \in Handlers, HandlerStep(h)
      PROVE  AllSent'
  <2>0. h \in Tasks
    BY DEF Tasks
  <2>1. CASE GraceOver(h)
    BY <2>1, FlushSends, SentMonotone DEF GraceOver, sessionVars, devVars
  <2>2. CASE AutoContinue(h)
    BY <2>2 DEF AutoContinue, ResumeRequest, AllSent
  <2>3. CASE EntryDone(h)
    BY <2>3, SentMonotone DEF EntryDone, Return, clientVars, devVars
  <2>4. CASE AskThreads(h)
    BY <1>1, <2>0, <2>4, MarkStays, SentMonotone DEF AskThreads, sessionVars, devVars
  <2>5. CASE AskStack(h)
    BY <2>5, SentMonotone DEF AskStack, sessionVars, bpVars, devVars
  <2>6. CASE AskVariables(h)
    BY <2>6, SentMonotone DEF AskVariables, sessionVars, bpVars, devVars
  <2>7. CASE PublishStop(h)
    BY <2>7, SentMonotone DEF PublishStop, Return, clientVars, devVars
  <2>8. QED BY <1>1a, <1>3, <2>1, <2>2, <2>3, <2>4, <2>5, <2>6, <2>7 DEF HandlerStep, VariablesAnswered
<1>4. QED BY <1>2, <1>3

\* A stop of a halted device is not the entry's, nor one whose reason is not shown.
LEMMA SentReceive ==
  ASSUME TypeOK, ShowInv, AllSent, Receive
  PROVE  AllSent'
<1> DEFINE m == Head(fromDevice)
<1>1. NextMessage
  BY DEF Receive, Response, SilentStop, EntrySuspend, ReportStop
<1>2. m.kind = "stop" /\ m.why = "other" => dev = "silent"
  BY <1>1, Received DEF ShowInv, StopTellsDevice, IsStop
<1>3. CASE Response
  BY <1>3, SentMonotone DEF Response, sessionVars, devVars
<1>4. CASE SilentStop
  BY <1>2, <1>4 DEF SilentStop, devVars, AllSent
<1>5. ASSUME NEW h \in Handlers, EntrySuspend(h) PROVE AllSent'
  BY <1>5 DEF EntrySuspend, devVars, AllSent, ShowInv, EntryFirst
<1>6. ASSUME NEW h \in Handlers, ReportStop(h) PROVE AllSent'
  <2>1. cached' = cached /\ StartFlush(h, TRUE)
    BY <1>6 DEF ReportStop
  <2>2. cached \subseteq sent'
    BY <2>1 DEF StartFlush
  <2>3. QED BY <2>1, <2>2 DEF AllSent
<1>7. QED BY <1>3, <1>4, <1>5, <1>6 DEF Receive

LEMMA SentDevice ==
  ASSUME TypeOK, HaltInv, AllSent, Device
  PROVE  AllSent'
<1>1. UNCHANGED <<live, isStopped, cached, sent>>
  BY DeviceLeaves DEF sessionVars, bpVars
<1>2. dev' = "halted" => dev = "halted" \/ dev = "running"
  BY DEF Device, DeviceHalt, DeviceResume, DeviceRefuse, DevicePause, DeviceAdd,
     DeviceRemove, DeviceInspect, devVars
<1>3. dev = "running" => ~isStopped
  BY DEF HaltInv, RunningHasNoToken
<1>4. QED BY <1>1, <1>2, <1>3 DEF AllSent

LEMMA SentNext ==
  ASSUME TypeOK, HaltInv, ShowInv, LiveInv, AllSent, [Next]_vars
  PROVE  AllSent'
<1>1. CASE \E c \in Callers : Call(c) \/ CallerStep(c)
  BY <1>1, SentCall, SentTasks
<1>2. CASE \E h \in Handlers : HandlerStep(h)
  BY <1>2, SentTasks
<1>3. CASE Receive
  BY <1>3, SentReceive
<1>4. CASE SessionEnd
  BY <1>4 DEF SessionEnd, AllSent
<1>5. CASE Device
  BY <1>5, SentDevice
<1>6. CASE UNCHANGED vars
  BY <1>6 DEF vars, clientVars, sessionVars, bpVars, devVars, AllSent
<1>7. QED BY <1>1, <1>2, <1>3, <1>4, <1>5, <1>6 DEF Next

\* While a halt is shown and believed in, every breakpoint of the cache has been sent,
\* whatever adds, removals and flushes overlap, if the device announces one stop per halt.
THEOREM NothingQueuedWhileStoppedHolds ==
  ASSUME IsFiniteSet(Locs), LateAttach = FALSE
  PROVE  Spec => []NothingQueuedWhileStopped
<1> DEFINE Inv == TypeOK /\ HaltInv /\ ShowInv /\ LiveInv /\ AllSent
<1>1. Init => Inv
  BY InitType, HaltInit, ShowInit, LiveInit DEF Init, AllSent
<1>2. Inv /\ [Next]_vars => Inv'
  BY NextType, HaltNext, ShowNext, LiveNext, SentNext
<1>3. Inv => NothingQueuedWhileStopped
  BY DEF AllSent, NothingQueuedWhileStopped
<1>4. QED BY <1>1, <1>2, <1>3, PTL DEF Spec

-----------------------------------------------------------------------------
(***************************************************************************)
(* A device id is in one place at most.  It is given out once; from then   *)
(* on it is in a reply that has not arrived, or in the cache, or in a      *)
(* request that removes it, and up to the removal its breakpoint is        *)
(* registered.  So no removal takes away what the cache shows as verified. *)
(***************************************************************************)
DeviceIds ==
  /\ nextId > 0
  /\ \A b \in devBps : b.id < nextId
  /\ \A a, b \in devBps : a.id = b.id => a = b

RequestIds ==
  \A j \in 1..Len(toDevice) : \A x \in toDevice[j].ids :
    x < nextId /\ \A l \in Locs : bpId[l] # 0 => bpId[l] # x

ReplyIds ==
  \A i \in 1..Len(fromDevice) : fromDevice[i].kind = "reply" =>
    \A l \in Locs : fromDevice[i].ids[l] > 0 =>
      /\ [loc |-> l, id |-> fromDevice[i].ids[l]] \in devBps
      /\ \A j \in 1..Len(toDevice) : fromDevice[i].ids[l] \notin toDevice[j].ids
      /\ \A m \in Locs : fromDevice[i].ids[l] # bpId[m]

RepliesApart ==
  \A i, j \in 1..Len(fromDevice) :
    i # j /\ fromDevice[i].kind = "reply" /\ fromDevice[j].kind = "reply" =>
      \A l, m \in Locs : fromDevice[i].ids[l] > 0 => fromDevice[i].ids[l] # fromDevice[j].ids[m]

IdInv == DeviceIds /\ RequestIds /\ ReplyIds /\ RepliesApart /\ VerifiedIsRegistered

\* A step that leaves the ids alone, and sends none and answers with none.
LEMMA IdQuiet ==
  ASSUME IdInv, UNCHANGED <<bpId, devBps, nextId>>,
         fromDevice' = fromDevice \/ Len(fromDevice') = 0,
         \A j \in 1..Len(toDevice') : toDevice'[j].ids # {} =>
           \E k \in 1..Len(toDevice) : toDevice'[j].ids = toDevice[k].ids
  PROVE  IdInv'
<1>1. /\ bpId' = bpId /\ devBps' = devBps /\ nextId' = nextId
  OBVIOUS
<1>2. DeviceIds' /\ VerifiedIsRegistered'
  BY <1>1 DEF IdInv, DeviceIds, VerifiedIsRegistered
<1>3. RequestIds'
  BY <1>1 DEF IdInv, RequestIds
<1>4. ReplyIds'
  BY <1>1 DEF IdInv, ReplyIds
<1>5. RepliesApart'
  BY DEF IdInv, RepliesApart
<1>6. QED BY <1>2, <1>3, <1>4, <1>5 DEF IdInv

\* What a request without ids does to the stream.
LEMMA SentWithout ==
  ASSUME TypeOK, NEW t \in Tasks,
         \/ \E cmd, L : Send(t, cmd, L, {})
         \/ \E a : Resolve(t, a)
         \/ \E cmd : WhenHalted(t, cmd)
         \/ \E b : StartFlush(t, b)
         \/ toDevice' = toDevice
  PROVE  \A j \in 1..Len(toDevice') : toDevice'[j].ids # {} =>
           \E k \in 1..Len(toDevice) : toDevice'[j].ids = toDevice[k].ids
<1>0. PICK S : toDevice \in Seq(S)
  BY DEF TypeOK
<1>1. ASSUME NEW r, r.ids = {}, toDevice' = Append(toDevice, r)
      PROVE  \A j \in 1..Len(toDevice') : toDevice'[j].ids # {} =>
               \E k \in 1..Len(toDevice) : toDevice'[j].ids = toDevice[k].ids
  BY <1>0, <1>1
<1>2. CASE toDevice' = toDevice
  BY <1>2
<1>3. ASSUME NEW cmd, NEW L, Send(t, cmd, L, {})
      PROVE  \/ toDevice' = toDevice
             \/ \E r : r.ids = {} /\ toDevice' = Append(toDevice, r)
  BY <1>3 DEF Send
<1>4. ASSUME NEW a, Resolve(t, a) PROVE toDevice' = toDevice
  BY <1>4 DEF Resolve
<1>5. ASSUME NEW cmd, WhenHalted(t, cmd)
      PROVE  \/ toDevice' = toDevice
             \/ \E r : r.ids = {} /\ toDevice' = Append(toDevice, r)
  BY <1>3, <1>4, <1>5 DEF WhenHalted
<1>6. ASSUME NEW b, StartFlush(t, b)
      PROVE  \/ toDevice' = toDevice
             \/ \E r : r.ids = {} /\ toDevice' = Append(toDevice, r)
  BY <1>3, <1>4, <1>6 DEF StartFlush
<1>7. QED BY <1>1, <1>2, <1>3, <1>4, <1>5, <1>6

LEMMA IdRemove ==
  ASSUME TypeOK, IdInv, NEW c \in Tasks, NEW L \in SUBSET Locs, RemoveBreakpoints(c, L)
  PROVE  IdInv'
<1> DEFINE ids == {bpId[l] : l \in L} \ {0}
<1>1. /\ fromDevice' = fromDevice /\ devBps' = devBps /\ nextId' = nextId
      /\ bpId' = [l \in Locs |-> IF l \in L THEN 0 ELSE bpId[l]]
  BY DEF RemoveBreakpoints, devVars
<1>2. \A x \in ids : x # 0 /\ \E l \in L : x = bpId[l] /\ [loc |-> l, id |-> x] \in devBps
  BY DEF IdInv, VerifiedIsRegistered
<1>3. \/ toDevice' = toDevice
      \/ \E r : r.ids = ids /\ toDevice' = Append(toDevice, r)
  BY DEF RemoveBreakpoints, Send
<1> HIDE DEF ids
<1>4. PICK S : toDevice \in Seq(S)
  BY DEF TypeOK
<1>5. \A j \in 1..Len(toDevice') :
        (j \in 1..Len(toDevice) /\ toDevice'[j] = toDevice[j]) \/ toDevice'[j].ids = ids
  BY <1>3, <1>4
<1>6. \A l \in Locs : bpId'[l] # 0 => l \notin L /\ bpId'[l] = bpId[l]
  BY <1>1
<1>7. DeviceIds' /\ VerifiedIsRegistered'
  BY <1>1, <1>6 DEF IdInv, DeviceIds, VerifiedIsRegistered
<1>8. \A x \in ids : x < nextId /\ \A l \in Locs : bpId'[l] # 0 => bpId'[l] # x
  <2> SUFFICES ASSUME NEW x \in ids
               PROVE  x < nextId /\ \A l \in Locs : bpId'[l] # 0 => bpId'[l] # x
    OBVIOUS
  <2>1. PICK k \in L : x = bpId[k] /\ [loc |-> k, id |-> x] \in devBps
    BY <1>2
  <2>2. x < nextId
    BY <2>1 DEF IdInv, DeviceIds
  <2>3. ASSUME NEW l \in Locs, bpId'[l] # 0, bpId'[l] = x PROVE FALSE
    <3>1. l \notin L /\ [loc |-> l, id |-> x] \in devBps
      BY <1>6, <2>3 DEF IdInv, VerifiedIsRegistered
    <3>2. [loc |-> l, id |-> x] = [loc |-> k, id |-> x]
      BY <2>1, <3>1 DEF IdInv, DeviceIds
    <3>3. QED BY <3>1, <3>2
  <2>4. QED BY <2>2, <2>3
<1>9. RequestIds'
  BY <1>1, <1>5, <1>6, <1>8 DEF IdInv, RequestIds
<1>10. ReplyIds'
  <2> SUFFICES ASSUME NEW i \in 1..Len(fromDevice), fromDevice[i].kind = "reply", NEW l \in Locs,
                      fromDevice[i].ids[l] > 0
               PROVE  /\ [loc |-> l, id |-> fromDevice[i].ids[l]] \in devBps
                      /\ \A j \in 1..Len(toDevice') : fromDevice[i].ids[l] \notin toDevice'[j].ids
                      /\ \A m \in Locs : fromDevice[i].ids[l] # bpId'[m]
    BY <1>1 DEF ReplyIds
  <2> DEFINE x == fromDevice[i].ids[l]
  <2>1. /\ [loc |-> l, id |-> x] \in devBps
        /\ \A j \in 1..Len(toDevice) : x \notin toDevice[j].ids
        /\ \A m \in Locs : x # bpId[m]
    BY DEF IdInv, ReplyIds
  <2>2. x \notin ids
    BY <1>2, <2>1
  <2>3. x # 0
    OBVIOUS
  <2> HIDE DEF x
  <2>4. \A m \in Locs : x # bpId'[m]
    BY <1>6, <2>1, <2>3
  <2>5. \A j \in 1..Len(toDevice') : x \notin toDevice'[j].ids
    BY <1>5, <2>1, <2>2
  <2>6. QED BY <2>1, <2>4, <2>5 DEF x
<1>11. RepliesApart'
  BY <1>1 DEF IdInv, RepliesApart
<1>12. QED BY <1>7, <1>9, <1>10, <1>11 DEF IdInv

\* The ids of a response go from the stream to the cache.
LEMMA IdResponse ==
  ASSUME TypeOK, IdInv, Response
  PROVE  IdInv'
<1> DEFINE m == Head(fromDevice)
<1>1. NextMessage /\ m.kind = "reply" /\ RecordBreakpointIds(m.to, m.ids)
      /\ toDevice' = toDevice /\ devBps' = devBps /\ nextId' = nextId
  BY DEF Response, devVars
<1>2. /\ Len(fromDevice) \in Nat /\ Len(fromDevice) > 0
      /\ Len(fromDevice') = Len(fromDevice) - 1
      /\ m = fromDevice[1]
      /\ \A i \in 1..Len(fromDevice') : fromDevice'[i] = fromDevice[i + 1]
      /\ \A i \in 1..Len(fromDevice') : i + 1 \in 1..Len(fromDevice)
  BY <1>1, Received
<1>3. \A l \in Locs : \/ bpId'[l] = bpId[l]
                      \/ bpId'[l] = m.ids[l] /\ m.ids[l] > 0
  BY <1>1 DEF RecordBreakpointIds
<1> HIDE DEF m
<1>4. 1 \in 1..Len(fromDevice)
  BY <1>2
<1>5. \A l \in Locs : m.ids[l] > 0 =>
        /\ [loc |-> l, id |-> m.ids[l]] \in devBps
        /\ \A j \in 1..Len(toDevice) : m.ids[l] \notin toDevice[j].ids
  BY <1>1, <1>2, <1>4 DEF IdInv, ReplyIds
<1>6. DeviceIds' /\ VerifiedIsRegistered'
  BY <1>1, <1>3, <1>5 DEF IdInv, DeviceIds, VerifiedIsRegistered
<1>7. RequestIds'
  <2> SUFFICES ASSUME NEW j \in 1..Len(toDevice), NEW x \in toDevice[j].ids
               PROVE  x < nextId /\ \A l \in Locs : bpId'[l] # 0 => bpId'[l] # x
    BY <1>1 DEF RequestIds
  <2>1. x < nextId /\ \A l \in Locs : bpId[l] # 0 => bpId[l] # x
    BY DEF IdInv, RequestIds
  <2>2. \A l \in Locs : m.ids[l] > 0 => m.ids[l] # x
    BY <1>5
  <2>3. QED BY <2>1, <2>2, <1>3
<1>8. RepliesApart'
  BY <1>2 DEF IdInv, RepliesApart
<1>9. ReplyIds'
  <2> SUFFICES ASSUME NEW i \in 1..Len(fromDevice'), fromDevice'[i].kind = "reply", NEW l \in Locs,
                      fromDevice'[i].ids[l] > 0
               PROVE  /\ [loc |-> l, id |-> fromDevice'[i].ids[l]] \in devBps'
                      /\ \A j \in 1..Len(toDevice') : fromDevice'[i].ids[l] \notin toDevice'[j].ids
                      /\ \A k \in Locs : fromDevice'[i].ids[l] # bpId'[k]
    BY DEF ReplyIds
  <2>1. fromDevice'[i] = fromDevice[i + 1] /\ i + 1 \in 1..Len(fromDevice) /\ i + 1 # 1
    BY <1>2
  <2>2. /\ [loc |-> l, id |-> fromDevice'[i].ids[l]] \in devBps
        /\ \A j \in 1..Len(toDevice) : fromDevice'[i].ids[l] \notin toDevice[j].ids
        /\ \A k \in Locs : fromDevice'[i].ids[l] # bpId[k]
    BY <2>1 DEF IdInv, ReplyIds
  <2>3. \A k \in Locs : fromDevice'[i].ids[l] # m.ids[k]
    BY <1>1, <1>2, <1>4, <2>1 DEF IdInv, RepliesApart
  <2>4. QED BY <1>1, <1>3, <2>2, <2>3
<1>10. QED BY <1>6, <1>7, <1>8, <1>9 DEF IdInv

\* A stop is taken off.
LEMMA IdReceived ==
  ASSUME TypeOK, IdInv, NextMessage, UNCHANGED <<bpId, devBps, nextId>>,
         \A j \in 1..Len(toDevice') : toDevice'[j].ids # {} =>
           \E k \in 1..Len(toDevice) : toDevice'[j].ids = toDevice[k].ids
  PROVE  IdInv'
<1>1. /\ bpId' = bpId /\ devBps' = devBps /\ nextId' = nextId
  OBVIOUS
<1>2. DeviceIds' /\ VerifiedIsRegistered'
  BY <1>1 DEF IdInv, DeviceIds, VerifiedIsRegistered
<1>3. RequestIds'
  BY <1>1 DEF IdInv, RequestIds
<1>4. /\ Len(fromDevice) \in Nat
      /\ \A i \in 1..Len(fromDevice') : fromDevice'[i] = fromDevice[i + 1]
      /\ \A i \in 1..Len(fromDevice') : i + 1 \in 1..Len(fromDevice)
      /\ \A i, j \in 1..Len(fromDevice') : i # j => i + 1 # j + 1
  BY Received
<1>5. ReplyIds'
  <2> SUFFICES ASSUME NEW i \in 1..Len(fromDevice'), fromDevice'[i].kind = "reply", NEW l \in Locs,
                      fromDevice'[i].ids[l] > 0
               PROVE  /\ [loc |-> l, id |-> fromDevice'[i].ids[l]] \in devBps'
                      /\ \A j \in 1..Len(toDevice') : fromDevice'[i].ids[l] \notin toDevice'[j].ids
                      /\ \A k \in Locs : fromDevice'[i].ids[l] # bpId'[k]
    BY DEF ReplyIds
  <2>1. /\ [loc |-> l, id |-> fromDevice'[i].ids[l]] \in devBps
        /\ \A j \in 1..Len(toDevice) : fromDevice'[i].ids[l] \notin toDevice[j].ids
        /\ \A k \in Locs : fromDevice'[i].ids[l] # bpId[k]
    BY <1>4 DEF IdInv, ReplyIds
  <2>2. QED BY <1>1, <2>1
<1>6. RepliesApart'
  BY <1>4 DEF IdInv, RepliesApart
<1>7. QED BY <1>2, <1>3, <1>5, <1>6 DEF IdInv

\* The device answers with no ids, and drops at most what it was asked to remove.
LEMMA IdServed ==
  ASSUME IdInv, NEW gone, UNCHANGED <<bpId, nextId>>,
         devBps' = {b \in devBps : b.id \notin gone},
         \A x \in gone : \E k \in 1..Len(toDevice) : x \in toDevice[k].ids,
         \A j \in 1..Len(toDevice') : \E k \in 1..Len(toDevice) : toDevice'[j] = toDevice[k],
         \A i \in 1..Len(fromDevice') :
           \/ i \in 1..Len(fromDevice) /\ fromDevice'[i] = fromDevice[i]
           \/ fromDevice'[i].kind = "reply" => \A l \in Locs : fromDevice'[i].ids[l] = 0
  PROVE  IdInv'
<1>1. bpId' = bpId /\ nextId' = nextId
  OBVIOUS
<1>2. DeviceIds'
  BY <1>1 DEF IdInv, DeviceIds
<1>3. VerifiedIsRegistered'
  <2> SUFFICES ASSUME NEW l \in Locs, bpId[l] # 0 PROVE [loc |-> l, id |-> bpId[l]] \in devBps'
    BY <1>1 DEF VerifiedIsRegistered
  <2>1. [loc |-> l, id |-> bpId[l]] \in devBps
    BY DEF IdInv, VerifiedIsRegistered
  <2>2. bpId[l] \notin gone
    BY DEF IdInv, RequestIds
  <2>3. QED BY <2>1, <2>2
<1>4. RequestIds'
  BY <1>1 DEF IdInv, RequestIds
<1>5. ReplyIds'
  <2> SUFFICES ASSUME NEW i \in 1..Len(fromDevice'), fromDevice'[i].kind = "reply", NEW l \in Locs,
                      fromDevice'[i].ids[l] > 0
               PROVE  /\ [loc |-> l, id |-> fromDevice'[i].ids[l]] \in devBps'
                      /\ \A j \in 1..Len(toDevice') : fromDevice'[i].ids[l] \notin toDevice'[j].ids
                      /\ \A k \in Locs : fromDevice'[i].ids[l] # bpId'[k]
    BY DEF ReplyIds
  <2> DEFINE x == fromDevice'[i].ids[l]
  <2>1. i \in 1..Len(fromDevice) /\ fromDevice'[i] = fromDevice[i]
    OBVIOUS
  <2>2. /\ [loc |-> l, id |-> x] \in devBps
        /\ \A j \in 1..Len(toDevice) : x \notin toDevice[j].ids
        /\ \A k \in Locs : x # bpId[k]
    BY <2>1 DEF IdInv, ReplyIds
  <2> HIDE DEF x
  <2>3. x \notin gone
    BY <2>2
  <2>4. [loc |-> l, id |-> x] \in devBps'
    BY <2>2, <2>3
  <2>5. \A j \in 1..Len(toDevice') : x \notin toDevice'[j].ids
    BY <2>2
  <2>6. QED BY <1>1, <2>2, <2>4, <2>5 DEF x
<1>6. RepliesApart'
  <2> SUFFICES ASSUME NEW i \in 1..Len(fromDevice'), NEW j \in 1..Len(fromDevice'), i # j,
                      fromDevice'[i].kind = "reply", fromDevice'[j].kind = "reply",
                      NEW l \in Locs, NEW m \in Locs, fromDevice'[i].ids[l] > 0
               PROVE  fromDevice'[i].ids[l] # fromDevice'[j].ids[m]
    BY DEF RepliesApart
  <2>1. i \in 1..Len(fromDevice) /\ fromDevice'[i] = fromDevice[i]
    OBVIOUS
  <2>2. CASE fromDevice'[j].ids[m] = 0
    BY <2>2
  <2>3. CASE j \in 1..Len(fromDevice) /\ fromDevice'[j] = fromDevice[j]
    BY <2>1, <2>3 DEF IdInv, RepliesApart
  <2>4. QED BY <2>2, <2>3
<1>7. QED BY <1>2, <1>3, <1>4, <1>5, <1>6 DEF IdInv

\* What one or two appended messages without ids look like.
Plain(m) == m.kind = "reply" => \A l \in Locs : m.ids[l] = 0

LEMMA PlainAppended ==
  ASSUME TypeOK, NEW m, NEW n, Plain(m), Plain(n),
         fromDevice' = Append(fromDevice, m) \/ fromDevice' = Append(Append(fromDevice, m), n)
  PROVE  \A i \in 1..Len(fromDevice') :
           \/ i \in 1..Len(fromDevice) /\ fromDevice'[i] = fromDevice[i]
           \/ Plain(fromDevice'[i])
<1>1. PICK S : fromDevice \in Seq(S)
  BY DEF TypeOK
<1>2. CASE fromDevice' = Append(fromDevice, m)
  BY <1>1, <1>2
<1>3. CASE fromDevice' = Append(Append(fromDevice, m), n)
  <2>1. /\ Len(fromDevice) \in Nat /\ Len(fromDevice') = Len(fromDevice) + 2
        /\ \A i \in 1..Len(fromDevice) : fromDevice'[i] = fromDevice[i]
        /\ fromDevice'[Len(fromDevice) + 1] = m
        /\ fromDevice'[Len(fromDevice) + 2] = n
    BY <1>1, <1>3
  <2>2. QED BY <2>1
<1>4. QED BY <1>2, <1>3

LEMMA PlainMessages ==
  /\ \A t, ok : Plain(ReplyTo(t, ok, NoIds))
  /\ \A why : Plain([kind |-> "stop", why |-> why])
BY DEF Plain, ReplyTo, NoIds

\* The device accepts breakpoints: each gets an id that was never given before.
LEMMA IdAdd ==
  ASSUME TypeOK, HaltInv, IdInv, IsFiniteSet(Locs), DeviceAdd
  PROVE  IdInv'
<1> DEFINE L == Head(toDevice).locs
           by == Head(toDevice).by
<1>1. toDevice # <<>> /\ toDevice' = Tail(toDevice) /\ Head(toDevice).cmd = "AddBreakpoints"
      /\ bpId' = bpId /\ nextId' = nextId + Cardinality(L)
  BY DEF DeviceAdd, Serve, DeviceUnchanged, bpVars
<1>2. dev # "running"
  <2>1. HaltedAtReceipt
    BY HaltInvImplies
  <2>2. QED BY <1>1, <2>1 DEF HaltedAtReceipt, NeedsHalt, Guarded
<1>3. PICK id \in [L -> nextId..(nextId + Cardinality(L) - 1)] :
        /\ \A l, m \in L : id[l] = id[m] => l = m
        /\ fromDevice' = Append(fromDevice, ReplyTo(by, TRUE,
                                  [l \in Locs |-> IF l \in L THEN id[l] ELSE 0]))
        /\ devBps' = IF dev = "running" THEN devBps
                     ELSE devBps \cup {[loc |-> l, id |-> id[l]] : l \in L}
  BY DEF DeviceAdd
<1> DEFINE new == [l \in Locs |-> IF l \in L THEN id[l] ELSE 0]
           reply == ReplyTo(by, TRUE, new)
           n == Len(fromDevice)
<1>4. L \in SUBSET Locs
  <2>1. Head(toDevice) \in Request
    BY <1>1 DEF TypeOK
  <2>2. QED BY <2>1 DEF Request
<1>5. Cardinality(L) \in Nat
  BY <1>4, FS_Subset, FS_CardinalityType
<1>6. nextId \in Nat /\ nextId > 0
  BY DEF TypeOK, IdInv, DeviceIds
<1>7. devBps' = devBps \cup {[loc |-> l, id |-> id[l]] : l \in L}
  BY <1>2, <1>3
<1>8. /\ \A l \in L : id[l] >= nextId /\ id[l] < nextId'
      /\ \A l \in Locs : new[l] > 0 => l \in L /\ new[l] = id[l]
      /\ \A l \in Locs : new[l] = 0 \/ new[l] >= nextId
      /\ nextId' >= nextId /\ nextId' \in Nat
  BY <1>1, <1>3, <1>4, <1>5, <1>6
<1>8a. \A l \in L : id[l] \in Nat
  BY <1>3, <1>5, <1>6
<1>9. /\ n \in Nat /\ Len(fromDevice') = n + 1
      /\ \A i \in 1..n : fromDevice'[i] = fromDevice[i]
      /\ fromDevice'[n + 1] = reply /\ reply.ids = new /\ reply.kind = "reply"
  <2>1. PICK S : fromDevice \in Seq(S)
    BY DEF TypeOK
  <2>2. reply.ids = new /\ reply.kind = "reply"
    BY DEF ReplyTo
  <2> HIDE DEF new, reply
  <2>3. fromDevice' = Append(fromDevice, reply)
    BY <1>3 DEF new, reply
  <2>4. QED BY <2>1, <2>2, <2>3
<1>10. \A j \in 1..Len(toDevice') : j + 1 \in 1..Len(toDevice) /\ toDevice'[j] = toDevice[j + 1]
  BY <1>1, Served
<1> HIDE DEF new, reply, n, L, by
<1>11. devBps \in SUBSET [loc : Locs, id : Nat] /\ bpId \in [Locs -> Nat]
  BY DEF TypeOK
<1>12. \A b \in devBps : b.id < nextId /\ b.id \in Nat
  BY <1>11 DEF IdInv, DeviceIds
<1>13. \A l \in Locs : bpId[l] < nextId
  BY <1>6, <1>11, <1>12 DEF IdInv, VerifiedIsRegistered
<1>14. DeviceIds'
  <2>1. nextId' > 0 /\ \A b \in devBps' : b.id < nextId'
    BY <1>6, <1>7, <1>8, <1>12
  <2>2. ASSUME NEW a \in devBps', NEW b \in devBps', a.id = b.id PROVE a = b
    <3>1. CASE a \in devBps /\ b \in devBps
      BY <2>2, <3>1 DEF IdInv, DeviceIds
    <3>2. ASSUME NEW l \in L, NEW c \in devBps PROVE id[l] # c.id
      BY <1>6, <1>8, <1>8a, <1>12
    <3>3. CASE a \notin devBps /\ b \notin devBps
      <4>1. PICK l \in L : a = [loc |-> l, id |-> id[l]]
        BY <1>7, <3>3
      <4>2. PICK m \in L : b = [loc |-> m, id |-> id[m]]
        BY <1>7, <3>3
      <4>3. QED BY <1>3, <2>2, <4>1, <4>2
    <3>4. CASE a \in devBps /\ b \notin devBps
      <4>1. PICK m \in L : b = [loc |-> m, id |-> id[m]]
        BY <1>7, <3>4
      <4>2. QED BY <2>2, <3>2, <3>4, <4>1
    <3>5. CASE a \notin devBps /\ b \in devBps
      <4>1. PICK m \in L : a = [loc |-> m, id |-> id[m]]
        BY <1>7, <3>5
      <4>2. QED BY <2>2, <3>2, <3>5, <4>1
    <3>6. QED BY <3>1, <3>3, <3>4, <3>5
  <2>3. QED BY <2>1, <2>2 DEF DeviceIds
<1>15. VerifiedIsRegistered'
  BY <1>1, <1>7 DEF IdInv, VerifiedIsRegistered
<1>16. \A j \in 1..Len(toDevice) : \A x \in toDevice[j].ids : x < nextId /\ x \in Nat
  <2>1. \A j \in 1..Len(toDevice) : toDevice[j] \in Request
    BY DEF TypeOK
  <2>2. QED BY <2>1 DEF IdInv, RequestIds, Request
<1>17. RequestIds'
  <2> SUFFICES ASSUME NEW j \in 1..Len(toDevice'), NEW x \in toDevice'[j].ids
               PROVE  x < nextId' /\ \A l \in Locs : bpId'[l] # 0 => bpId'[l] # x
    BY DEF RequestIds
  <2>1. j + 1 \in 1..Len(toDevice) /\ x \in toDevice[j + 1].ids
    BY <1>10
  <2>2. x < nextId /\ x \in Nat /\ \A l \in Locs : bpId[l] # 0 => bpId[l] # x
    BY <1>16, <2>1 DEF IdInv, RequestIds
  <2>3. QED BY <1>1, <1>6, <1>8, <2>2
<1>18. ReplyIds'
  <2> SUFFICES ASSUME NEW i \in 1..Len(fromDevice'), fromDevice'[i].kind = "reply", NEW l \in Locs,
                      fromDevice'[i].ids[l] > 0
               PROVE  /\ [loc |-> l, id |-> fromDevice'[i].ids[l]] \in devBps'
                      /\ \A j \in 1..Len(toDevice') : fromDevice'[i].ids[l] \notin toDevice'[j].ids
                      /\ \A k \in Locs : fromDevice'[i].ids[l] # bpId'[k]
    BY DEF ReplyIds
  <2>1. CASE i \in 1..n
    <3>1. /\ [loc |-> l, id |-> fromDevice'[i].ids[l]] \in devBps
          /\ \A j \in 1..Len(toDevice) : fromDevice'[i].ids[l] \notin toDevice[j].ids
          /\ \A k \in Locs : fromDevice'[i].ids[l] # bpId[k]
      BY <1>9, <2>1 DEF IdInv, ReplyIds, n
    <3>2. QED BY <1>1, <1>7, <1>10, <3>1
  <2>2. CASE i = n + 1
    <3>1. fromDevice'[i].ids[l] = new[l] /\ l \in L /\ new[l] = id[l] /\ new[l] >= nextId
          /\ new[l] \in Nat
      <4>1. fromDevice'[i].ids[l] = new[l] /\ l \in L /\ new[l] = id[l]
        BY <1>8, <1>9, <2>2
      <4>2. QED BY <1>8, <1>8a, <4>1
    <3>2. [loc |-> l, id |-> new[l]] \in devBps'
      BY <1>7, <3>1
    <3>3. ASSUME NEW j \in 1..Len(toDevice'), new[l] \in toDevice'[j].ids PROVE FALSE
      <4>1. j + 1 \in 1..Len(toDevice) /\ new[l] \in toDevice[j + 1].ids
        BY <1>10, <3>3
      <4>2. new[l] < nextId
        BY <1>16, <4>1
      <4>3. QED BY <1>6, <3>1, <4>2
    <3>4. \A k \in Locs : new[l] # bpId'[k]
      BY <1>1, <1>6, <1>11, <1>13, <3>1
    <3>5. QED BY <3>1, <3>2, <3>3, <3>4
  <2>3. QED BY <1>9, <2>1, <2>2
<1>19. RepliesApart'
  <2>1. \A i \in 1..n : fromDevice[i].kind = "reply" =>
          fromDevice[i].ids \in [Locs -> Nat] /\ \A l \in Locs : fromDevice[i].ids[l] < nextId
    <3>1. \A i \in 1..n : fromDevice[i] \in Reply \cup Stop
      BY DEF n, TypeOK
    <3>2. \A i \in 1..n : fromDevice[i].kind = "reply" => fromDevice[i].ids \in [Locs -> Nat]
      BY <3>1 DEF Reply, Stop
    <3>3. ASSUME NEW i \in 1..n, fromDevice[i].kind = "reply", NEW l \in Locs
          PROVE  fromDevice[i].ids[l] < nextId
      <4>1. fromDevice[i].ids[l] \in Nat
        BY <3>2, <3>3
      <4>2. CASE fromDevice[i].ids[l] > 0
        <5>1. [loc |-> l, id |-> fromDevice[i].ids[l]] \in devBps
          BY <3>3, <4>2 DEF IdInv, ReplyIds, n
        <5>2. QED BY <1>12, <5>1
      <4>3. QED BY <1>6, <4>1, <4>2
    <3>4. QED BY <3>2, <3>3
  <2> SUFFICES ASSUME NEW i \in 1..Len(fromDevice'), NEW j \in 1..Len(fromDevice'), i # j,
                      fromDevice'[i].kind = "reply", fromDevice'[j].kind = "reply",
                      NEW l \in Locs, NEW m \in Locs, fromDevice'[i].ids[l] > 0
               PROVE  fromDevice'[i].ids[l] # fromDevice'[j].ids[m]
    BY DEF RepliesApart
  <2>2. CASE i \in 1..n /\ j \in 1..n
    BY <1>9, <2>2 DEF IdInv, RepliesApart, n
  <2>3. CASE i \in 1..n /\ j = n + 1
    <3>1. fromDevice'[i].ids[l] < nextId /\ fromDevice'[i].ids[l] \in Nat
      BY <1>9, <2>1, <2>3
    <3>2. fromDevice'[j].ids[m] = new[m]
      BY <1>9, <2>3
    <3>3. QED BY <1>6, <1>8, <3>1, <3>2
  <2>4. CASE i = n + 1 /\ j \in 1..n
    <3>1. fromDevice'[j].ids[m] < nextId /\ fromDevice'[j].ids[m] \in Nat
      BY <1>9, <2>1, <2>4
    <3>2. fromDevice'[i].ids[l] = new[l] /\ new[l] > 0
      BY <1>9, <2>4
    <3>3. QED BY <1>6, <1>8, <3>1, <3>2
  <2>5. QED BY <1>9, <2>2, <2>3, <2>4
<1>20. QED BY <1>14, <1>15, <1>17, <1>18, <1>19 DEF IdInv

LEMMA IdDevice ==
  ASSUME TypeOK, HaltInv, IdInv, IsFiniteSet(Locs), Device
  PROVE  IdInv'
<1>0. bpId' = bpId
  BY DeviceLeaves DEF bpVars
<1> DEFINE Same == devBps' = {b \in devBps : b.id \notin {}} /\ nextId' = nextId
           OneOf == \A j \in 1..Len(toDevice') : \E k \in 1..Len(toDevice) : toDevice'[j] = toDevice[k]
           OnlyPlain == \A i \in 1..Len(fromDevice') :
                          \/ i \in 1..Len(fromDevice) /\ fromDevice'[i] = fromDevice[i]
                          \/ Plain(fromDevice'[i])
<1>1. ASSUME Same, OneOf, OnlyPlain PROVE IdInv'
  BY <1>0, <1>1, IdServed DEF Plain
<1>2. ASSUME NEW cmds, Serve(cmds)
      PROVE  OneOf /\ 1 \in 1..Len(toDevice) /\ Head(toDevice) = toDevice[1]
  <2>1. toDevice # <<>> /\ toDevice' = Tail(toDevice)
    BY <1>2 DEF Serve
  <2>2. QED BY <2>1, Served
<1>3. ASSUME NEW m, Plain(m), fromDevice' = Append(fromDevice, m) PROVE OnlyPlain
  BY <1>3, PlainAppended
<1>4. devBps' = devBps /\ nextId' = nextId => Same
  OBVIOUS
<1>5. toDevice' = toDevice => OneOf
  OBVIOUS
<1> HIDE DEF Same, OneOf, OnlyPlain
<1>6. ASSUME NEW why \in Reasons, DeviceHalt(why) PROVE IdInv'
  BY <1>1, <1>3, <1>4, <1>5, <1>6, PlainMessages DEF DeviceHalt
<1>8. CASE DeviceResume
  BY <1>1, <1>2, <1>3, <1>4, <1>8, PlainMessages DEF DeviceResume
<1>9. CASE DeviceRefuse
  BY <1>1, <1>2, <1>3, <1>4, <1>9, PlainMessages DEF DeviceRefuse, devVars
<1>10. CASE DevicePause
  <2>1. OneOf /\ Same
    BY <1>2, <1>4, <1>10 DEF DevicePause
  <2>2. OnlyPlain
    BY <1>10, PlainMessages, PlainAppended DEF DevicePause, OnlyPlain
  <2>3. QED BY <1>1, <2>1, <2>2
<1>11. CASE DeviceAdd
  BY <1>11, IdAdd
<1>12. CASE DeviceRemove
  <2> DEFINE gone == Head(toDevice).ids
  <2>1. OneOf /\ 1 \in 1..Len(toDevice) /\ gone = toDevice[1].ids
    BY <1>2, <1>12 DEF DeviceRemove
  <2>2. OnlyPlain
    BY <1>3, <1>12, PlainMessages DEF DeviceRemove
  <2>3. devBps' = {b \in devBps : b.id \notin gone} /\ nextId' = nextId
    BY <1>12 DEF DeviceRemove
  <2> HIDE DEF gone
  <2>4. \A x \in gone : \E k \in 1..Len(toDevice) : x \in toDevice[k].ids
    BY <2>1
  <2>5. QED BY <1>0, <2>1, <2>2, <2>3, <2>4, IdServed DEF OneOf, OnlyPlain, Plain
<1>13. CASE DeviceInspect
  BY <1>1, <1>2, <1>3, <1>4, <1>13, PlainMessages DEF DeviceInspect, devVars
<1>14. QED BY <1>6, <1>8, <1>9, <1>10, <1>11, <1>12, <1>13 DEF Device

LEMMA IdCall ==
  ASSUME TypeOK, IdInv, NEW c \in Callers, Call(c)
  PROVE  IdInv'
<1>0. c \in Tasks
  BY DEF Tasks
<1>1. CASE Continue(c)
  BY <1>0, <1>1, SentWithout, IdQuiet DEF Continue, ResumeRequest, bpVars, devVars
<1>2. CASE Step(c)
  BY <1>0, <1>2, SentWithout, IdQuiet DEF Step, ResumeRequest, bpVars, devVars
<1>3. CASE Pause(c)
  BY <1>0, <1>3, SentWithout, IdQuiet DEF Pause, bpVars, devVars
<1>4. CASE Inspect(c)
  BY <1>0, <1>4, SentWithout, IdQuiet DEF Inspect, bpVars, devVars
<1>5. CASE Detach(c)
  BY <1>0, <1>5, SentWithout, IdQuiet DEF Detach, ResumeRequest, bpVars, devVars
<1>6. ASSUME NEW L \in SUBSET Locs, AddBreakpoints(c, L)
      PROVE  IdInv'
  BY <1>0, <1>6, SentWithout, IdQuiet DEF AddBreakpoints, devVars
<1>7. ASSUME NEW L \in SUBSET Locs, RemoveBreakpoints(c, L)
      PROVE  IdInv'
  BY <1>0, <1>7, IdRemove
<1>8. QED BY <1>1, <1>2, <1>3, <1>4, <1>5, <1>6, <1>7 DEF Call

LEMMA IdTasks ==
  ASSUME TypeOK, IdInv,
         (\E c \in Callers : CallerStep(c)) \/ (\E h \in Handlers : HandlerStep(h))
  PROVE  IdInv'
<1>1. ASSUME NEW t \in Tasks, Return(t), UNCHANGED <<sent, batch>> \/ FinishAdd(t)
      PROVE  IdInv'
  BY <1>1, SentWithout, IdQuiet DEF Return, clientVars, devVars
<1>1a. ASSUME NEW t \in Tasks, RetryVariables(t)
      PROVE  IdInv'
  BY <1>1a, SentWithout, IdQuiet DEF RetryVariables, bpVars, devVars
<1>2. ASSUME NEW c \in Callers, CallerStep(c)
      PROVE  IdInv'
  <2>0. c \in Tasks
    BY DEF Tasks
  <2>1. CASE DetachDone(c)
    <3>1. Len(fromDevice') = 0 /\ Len(toDevice') = 0 /\ UNCHANGED <<bpId, devBps, nextId>>
      BY <2>1 DEF DetachDone, Destroy, bpVars, devVars
    <3>2. QED BY <3>1, IdQuiet
  <2>2. CASE ~DetachDone(c)
    BY <1>1, <1>1a, <1>2, <2>0, <2>2 DEF CallerStep, CallAnswered, ResumeDone, StepDone, AddDone, CallDone
  <2>3. QED BY <2>1, <2>2
<1>3. ASSUME NEW h \in Handlers, HandlerStep(h)
      PROVE  IdInv'
  <2>0. h \in Tasks
    BY DEF Tasks
  <2>1. CASE GraceOver(h)
    BY <2>0, <2>1, SentWithout, IdQuiet DEF GraceOver, devVars
  <2>2. CASE AutoContinue(h)
    BY <2>0, <2>2, SentWithout, IdQuiet DEF AutoContinue, ResumeRequest, devVars
  <2>3. CASE EntryDone(h) \/ PublishStop(h)
    BY <1>1, <2>0, <2>3 DEF EntryDone, PublishStop
  <2>4. CASE AskThreads(h)
    BY <2>0, <2>4, SentWithout, IdQuiet DEF AskThreads, devVars
  <2>5. CASE AskStack(h)
    BY <2>0, <2>5, SentWithout, IdQuiet DEF AskStack, bpVars, devVars
  <2>6. CASE AskVariables(h)
    BY <2>0, <2>6, SentWithout, IdQuiet DEF AskVariables, bpVars, devVars
  <2>7. QED BY <1>1a, <1>3, <2>0, <2>1, <2>2, <2>3, <2>4, <2>5, <2>6 DEF HandlerStep, VariablesAnswered
<1>4. QED BY <1>2, <1>3

LEMMA IdReceive ==
  ASSUME TypeOK, IdInv, Receive
  PROVE  IdInv'
<1>1. CASE Response
  BY <1>1, IdResponse
<1>2. CASE SilentStop
  BY <1>2, IdReceived DEF SilentStop, bpVars, devVars
<1>3. ASSUME NEW h \in Handlers, EntrySuspend(h) PROVE IdInv'
  BY <1>3, IdReceived DEF EntrySuspend, bpVars, devVars
<1>4. ASSUME NEW h \in Handlers, ReportStop(h) PROVE IdInv'
  <2>1. h \in Tasks /\ NextMessage /\ StartFlush(h, TRUE) /\ UNCHANGED <<bpId, devBps, nextId>>
    BY <1>4 DEF ReportStop, Tasks, devVars
  <2>2. QED BY <2>1, SentWithout, IdReceived
<1>5. QED BY <1>1, <1>2, <1>3, <1>4 DEF Receive

LEMMA IdNext ==
  ASSUME TypeOK, HaltInv, IdInv, IsFiniteSet(Locs), [Next]_vars
  PROVE  IdInv'
<1>1. CASE \E c \in Callers : Call(c) \/ CallerStep(c)
  BY <1>1, IdCall, IdTasks
<1>2. CASE \E h \in Handlers : HandlerStep(h)
  BY <1>2, IdTasks
<1>3. CASE Receive
  BY <1>3, IdReceive
<1>4. CASE SessionEnd
  <2>1. Len(fromDevice') = 0 /\ Len(toDevice') = 0 /\ UNCHANGED <<bpId, devBps, nextId>>
    BY <1>4 DEF SessionEnd, Destroy, bpVars, devVars
  <2>2. QED BY <2>1, IdQuiet
<1>5. CASE Device
  BY <1>5, IdDevice
<1>6. CASE UNCHANGED vars
  BY <1>6, IdQuiet DEF vars, clientVars, bpVars, devVars
<1>7. QED BY <1>1, <1>2, <1>3, <1>4, <1>5, <1>6 DEF Next

LEMMA IdInit == ASSUME Init PROVE IdInv
<1>1. DeviceIds /\ VerifiedIsRegistered
  BY DEF Init, DeviceIds, VerifiedIsRegistered
<1>2. RequestIds /\ ReplyIds /\ RepliesApart
  BY DEF Init, RequestIds, ReplyIds, RepliesApart
<1>3. QED BY <1>1, <1>2 DEF IdInv

\* A breakpoint shown as verified is registered on the device under the id the cache
\* holds, whatever adds, removals, flushes and answers overlap, if the device
\* announces one stop per halt (so that nothing is added while the channel runs).
THEOREM VerifiedIsRegisteredHolds ==
  ASSUME IsFiniteSet(Locs), LateAttach = FALSE
  PROVE  Spec => []VerifiedIsRegistered
<1> DEFINE Inv == TypeOK /\ HaltInv /\ IdInv
<1>1. Init => Inv
  BY InitType, HaltInit, IdInit
<1>2. Inv /\ [Next]_vars => Inv'
  BY NextType, HaltNext, IdNext
<1>3. Inv => VerifiedIsRegistered
  BY DEF IdInv
<1>4. QED BY <1>1, <1>2, <1>3, PTL DEF Spec

-----------------------------------------------------------------------------
(***************************************************************************)
(* Every add pays for one registration.  A location uses it up when it is  *)
(* on the device, or on its way there, or due: cached and not marked sent, *)
(* or about to lose its mark because its request was rejected.  No step    *)
(* but an add makes the three sum up to more.                              *)
(***************************************************************************)
Registrations(l) == {b \in devBps : b.loc = l}
OnTheWay(l) == {i \in DOMAIN toDevice : l \in toDevice[i].locs}

Due(l) == \/ l \in cached \ sent
          \/ \E t \in Tasks : answer[t] = "reject" /\ l \in batch[t]

Registered ==
  \A l \in Locs :
    /\ IsFiniteSet(Registrations(l))
    /\ Cardinality(Registrations(l)) + Cardinality(OnTheWay(l)) + (IF Due(l) THEN 1 ELSE 0)
         <= adds[l]

\* Only the tasks that register something hold references to entries, and an open
\* socket has rejected nothing.
BatchInFlush == \A t \in Tasks : batch[t] # {} => pc[t] \in {"flush", "entryFlush", "add"}
OpenAccepts  == open => \A t \in Tasks : answer[t] # "reject"

AddInv == Registered /\ BatchInFlush /\ OpenAccepts

\* The requests on the stream are finitely many; one more counts at most once more.
LEMMA PlacesFinite ==
  ASSUME NEW S, NEW s \in Seq(S), NEW l
  PROVE  LET places == {i \in DOMAIN s : l \in s[i].locs}
         IN  IsFiniteSet(places) /\ Cardinality(places) \in Nat
<1> DEFINE places == {i \in DOMAIN s : l \in s[i].locs}
<1>1. Len(s) \in Nat /\ DOMAIN s = 1..Len(s)
  OBVIOUS
<1>2. IsFiniteSet(1..Len(s))
  BY <1>1, FS_Interval
<1>3. places \in SUBSET (1..Len(s))
  BY <1>1
<1>4. IsFiniteSet(places)
  BY <1>2, <1>3, FS_Subset
<1>5. Cardinality(places) \in Nat
  BY <1>4, FS_CardinalityType
<1>6. QED BY <1>4, <1>5

LEMMA OnTheWayFinite ==
  ASSUME TypeOK, NEW l
  PROVE  IsFiniteSet(OnTheWay(l)) /\ Cardinality(OnTheWay(l)) \in Nat
<1>1. toDevice \in Seq(Request)
  BY DEF TypeOK
<1>2. QED BY <1>1, PlacesFinite DEF OnTheWay

LEMMA OnTheWayAppended ==
  ASSUME TypeOK, NEW l, NEW r, toDevice' = Append(toDevice, r)
  PROVE  /\ l \notin r.locs => OnTheWay(l)' = OnTheWay(l)
         /\ Cardinality(OnTheWay(l)') <= Cardinality(OnTheWay(l)) + 1
         /\ Cardinality(OnTheWay(l)') \in Nat
<1> DEFINE n == Len(toDevice)
<1>1. PICK S : toDevice \in Seq(S)
  BY DEF TypeOK
<1>2. /\ n \in Nat /\ DOMAIN toDevice = 1..n /\ DOMAIN toDevice' = 1..(n + 1)
      /\ \A i \in 1..n : toDevice'[i] = toDevice[i]
      /\ toDevice'[n + 1] = r
  BY <1>1
<1> HIDE DEF n
<1>3. OnTheWay(l)' = IF l \in r.locs THEN OnTheWay(l) \cup {n + 1} ELSE OnTheWay(l)
  BY <1>2 DEF OnTheWay
<1>4. IsFiniteSet(OnTheWay(l)) /\ Cardinality(OnTheWay(l)) \in Nat
  BY OnTheWayFinite
<1>5. Cardinality(OnTheWay(l) \cup {n + 1}) =
        IF n + 1 \in OnTheWay(l) THEN Cardinality(OnTheWay(l)) ELSE Cardinality(OnTheWay(l)) + 1
  BY <1>4, FS_AddElement
<1>6. QED BY <1>3, <1>4, <1>5

LEMMA OnTheWayServed ==
  ASSUME TypeOK, toDevice # <<>>, toDevice' = Tail(toDevice), NEW l
  PROVE  Cardinality(OnTheWay(l)') + (IF l \in Head(toDevice).locs THEN 1 ELSE 0)
           <= Cardinality(OnTheWay(l))
<1> DEFINE n == Len(toDevice)
           rest == OnTheWay(l) \ {1}
           f == [i \in OnTheWay(l)' |-> i + 1]
<1>1. /\ n \in Nat /\ n > 0 /\ DOMAIN toDevice = 1..n /\ DOMAIN toDevice' = 1..(n - 1)
      /\ Head(toDevice) = toDevice[1]
      /\ \A i \in 1..(n - 1) : toDevice'[i] = toDevice[i + 1] /\ i + 1 \in 1..n
  <2>1. DOMAIN toDevice = 1..n /\ DOMAIN toDevice' = 1..Len(toDevice')
    BY DEF TypeOK
  <2>2. QED BY <2>1, Served
<1> HIDE DEF n
<1>2. \A i \in OnTheWay(l)' : i \in Nat /\ i + 1 \in rest
  BY <1>1 DEF OnTheWay
<1>3. f \in Injection(OnTheWay(l)', rest)
  <2>1. f \in [OnTheWay(l)' -> rest]
    BY <1>2
  <2>2. \A a, b \in OnTheWay(l)' : f[a] = f[b] => a = b
    BY <1>2
  <2>3. DOMAIN f = OnTheWay(l)'
    OBVIOUS
  <2> HIDE DEF f
  <2>4. QED BY <2>1, <2>2, <2>3 DEF Injection, IsInjective
<1>4. IsFiniteSet(OnTheWay(l)) /\ Cardinality(OnTheWay(l)) \in Nat
  BY OnTheWayFinite
<1>5. /\ IsFiniteSet(rest)
      /\ Cardinality(rest) =
           IF 1 \in OnTheWay(l) THEN Cardinality(OnTheWay(l)) - 1 ELSE Cardinality(OnTheWay(l))
  BY <1>4, FS_RemoveElement
<1>6. 1 \in OnTheWay(l) <=> l \in Head(toDevice).locs
  BY <1>1 DEF OnTheWay
<1> HIDE DEF f, rest
<1>7. IsFiniteSet(OnTheWay(l)') /\ Cardinality(OnTheWay(l)') <= Cardinality(rest)
  BY <1>3, <1>5, FS_Injection
<1>8. Cardinality(OnTheWay(l)') \in Nat
  BY <1>7, FS_CardinalityType
<1>9. QED BY <1>4, <1>5, <1>6, <1>7, <1>8

\* What a task that registers nothing leaves of the other tasks and of the stream.
LEMMA AskLeaves ==
  ASSUME TypeOK, NEW t \in Tasks,
         \/ \E cmd, I : Send(t, cmd, {}, I)
         \/ \E a \in {"void", "none"} : Resolve(t, a)
         \/ \E cmd : WhenHalted(t, cmd)
  PROVE  /\ \A u \in Tasks \ {t} : answer'[u] = answer[u]
         /\ open => answer'[t] # "reject"
         /\ \A l \in Locs : OnTheWay(l)' = OnTheWay(l)
<1>0. \A a : answer' = [answer EXCEPT ![t] = a] =>
        (\A u \in Tasks \ {t} : answer'[u] = answer[u]) /\ answer'[t] = a
  BY DEF TypeOK
<1>2. ASSUME NEW cmd, NEW I, Send(t, cmd, {}, I)
      PROVE  \A l \in Locs : OnTheWay(l)' = OnTheWay(l)
  <2>1. ASSUME NEW l \in Locs PROVE OnTheWay(l)' = OnTheWay(l)
    <3> DEFINE r == [cmd |-> cmd, by |-> t, locs |-> {}, ids |-> I]
    <3>1. toDevice' = toDevice \/ toDevice' = Append(toDevice, r)
      BY <1>2 DEF Send
    <3>2. l \notin r.locs
      OBVIOUS
    <3> HIDE DEF r
    <3>3. CASE toDevice' = Append(toDevice, r)
      BY <3>2, <3>3, OnTheWayAppended
    <3>4. CASE toDevice' = toDevice
      BY <3>4 DEF OnTheWay
    <3>5. QED BY <3>1, <3>3, <3>4
  <2>2. QED BY <2>1
<1>3. ASSUME NEW cmd, NEW I, Send(t, cmd, {}, I)
      PROVE  /\ \A u \in Tasks \ {t} : answer'[u] = answer[u]
             /\ open => answer'[t] # "reject"
  <2>1. answer' = [answer EXCEPT ![t] = IF open THEN "none" ELSE "reject"]
    BY <1>3 DEF Send
  <2>2. answer'[t] = (IF open THEN "none" ELSE "reject")
        /\ \A u \in Tasks \ {t} : answer'[u] = answer[u]
    BY <1>0, <2>1
  <2>3. QED BY <2>2
<1>4. ASSUME NEW a \in {"void", "none"}, Resolve(t, a)
      PROVE  /\ \A u \in Tasks \ {t} : answer'[u] = answer[u]
             /\ open => answer'[t] # "reject"
             /\ \A l \in Locs : OnTheWay(l)' = OnTheWay(l)
  <2>1. toDevice' = toDevice
    BY <1>4 DEF Resolve
  <2>2. QED BY <1>0, <1>4, <2>1 DEF Resolve, OnTheWay
<1>5. ASSUME NEW cmd, WhenHalted(t, cmd)
      PROVE  Send(t, cmd, {}, {}) \/ Resolve(t, "void")
  BY <1>5 DEF WhenHalted
<1>6. QED BY <1>2, <1>3, <1>4, <1>5

\* What one location takes up on the way and due.
Load(l) == Cardinality(OnTheWay(l)) + (IF Due(l) THEN 1 ELSE 0)

LEMMA LoadQuiet ==
  ASSUME TypeOK, NEW l \in Locs, Due(l)' => Due(l),
         OnTheWay(l)' = OnTheWay(l) \/ Cardinality(OnTheWay(l)') = 0
  PROVE  Load(l)' <= Load(l)
<1>1. Cardinality(OnTheWay(l)) \in Nat
  BY OnTheWayFinite
<1>2. CASE OnTheWay(l)' = OnTheWay(l)
  BY <1>1, <1>2 DEF Load
<1>3. CASE Cardinality(OnTheWay(l)') = 0
  BY <1>1, <1>3 DEF Load
<1>4. QED BY <1>2, <1>3

\* A task's step makes nothing due but what its own rejected request brings back.
LEMMA DueQuiet ==
  ASSUME NEW t \in Tasks, NEW l \in Locs,
         \A u \in Tasks \ {t} : answer'[u] = answer[u] /\ batch'[u] \subseteq batch[u],
         l \in cached' \ sent' => Due(l),
         answer'[t] = "reject" /\ l \in batch'[t] => Due(l)
  PROVE  Due(l)' => Due(l)
BY DEF Due

LEMMA OthersStay ==
  ASSUME BatchInFlush, OpenAccepts, NEW t \in Tasks, open' => open,
         \A u \in Tasks \ {t} : answer'[u] = answer[u] /\ batch'[u] \subseteq batch[u]
                                /\ pc'[u] = pc[u],
         open' => answer'[t] # "reject",
         batch'[t] # {} => pc'[t] \in {"flush", "entryFlush", "add"}
  PROVE  BatchInFlush' /\ OpenAccepts'
<1>1. BatchInFlush'
  BY DEF BatchInFlush
<1>2. OpenAccepts'
  BY DEF OpenAccepts
<1>3. QED BY <1>1, <1>2

\* A flush: what it marks as sent it puts on the way, or gets back as rejected.
LEMMA FlushLeaves ==
  ASSUME TypeOK, AddInv, NEW t \in Tasks, NEW b \in BOOLEAN, StartFlush(t, b),
         cached' = cached, open' = open, batch[t] = {}
  PROVE  /\ \A l \in Locs : Load(l)' <= Load(l)
         /\ \A u \in Tasks \ {t} : answer'[u] = answer[u] /\ batch'[u] \subseteq batch[u]
         /\ open => answer'[t] # "reject"
<1> DEFINE due == cached \ sent
<1>1. CASE b /\ due # {}
  <2>1. /\ sent' = sent \cup due
        /\ batch' = [batch EXCEPT ![t] = due]
        /\ Send(t, "AddBreakpoints", due, {})
    BY <1>1 DEF StartFlush
  <2>2. /\ answer' = [answer EXCEPT ![t] = IF open THEN "none" ELSE "reject"]
        /\ answer'[t] = IF open THEN "none" ELSE "reject"
        /\ batch'[t] = due
        /\ \A u \in Tasks \ {t} : answer'[u] = answer[u] /\ batch'[u] = batch[u]
    BY <2>1 DEF Send, TypeOK
  <2>3. ASSUME NEW l \in Locs, open PROVE Load(l)' <= Load(l)
    <3> DEFINE r == [cmd |-> "AddBreakpoints", by |-> t, locs |-> due, ids |-> {}]
    <3>1. toDevice' = Append(toDevice, r) /\ r.locs = due
      BY <2>1, <2>3 DEF Send
    <3> HIDE DEF r
    <3>2. \A u \in Tasks : answer[u] # "reject" /\ answer'[u] # "reject"
      BY <2>2, <2>3 DEF AddInv, OpenAccepts
    <3>3. ~Due(l)'
      BY <2>1, <3>2 DEF Due
    <3>4. CASE l \in due
      <4>1. Due(l)
        BY <3>4 DEF Due
      <4>2. Cardinality(OnTheWay(l)') <= Cardinality(OnTheWay(l)) + 1
            /\ Cardinality(OnTheWay(l)') \in Nat
        BY <3>1, OnTheWayAppended
      <4>3. Cardinality(OnTheWay(l)) \in Nat
        BY OnTheWayFinite
      <4>4. Load(l)' = Cardinality(OnTheWay(l)') /\ Load(l) = Cardinality(OnTheWay(l)) + 1
        BY <3>3, <4>1, <4>2 DEF Load
      <4>5. QED BY <4>2, <4>3, <4>4
    <3>5. CASE l \notin due
      <4>1. OnTheWay(l)' = OnTheWay(l)
        BY <3>1, <3>5, OnTheWayAppended
      <4>2. QED BY <3>3, <4>1, LoadQuiet
    <3>6. QED BY <3>4, <3>5
  <2>4. ASSUME NEW l \in Locs, ~open PROVE Load(l)' <= Load(l)
    <3>1. OnTheWay(l)' = OnTheWay(l)
      BY <2>1, <2>4 DEF Send, OnTheWay
    <3>2. Due(l)' => Due(l)
      <4>1. l \in due => Due(l)
        BY DEF Due
      <4>2. QED BY <2>1, <2>2, <4>1, DueQuiet
    <3>3. QED BY <3>1, <3>2, LoadQuiet
  <2>5. QED BY <2>2, <2>3, <2>4
<1>2. CASE ~(b /\ due # {})
  <2>1. Resolve(t, "void") /\ UNCHANGED <<sent, batch>>
    BY <1>2 DEF StartFlush
  <2>2. /\ \A u \in Tasks \ {t} : answer'[u] = answer[u]
        /\ open => answer'[t] # "reject"
        /\ \A l \in Locs : OnTheWay(l)' = OnTheWay(l)
    BY <2>1, AskLeaves
  <2>3. ASSUME NEW l \in Locs PROVE Due(l)' => Due(l)
    <3>1. l \in cached \ sent => Due(l)
      BY DEF Due
    <3>2. QED BY <2>1, <2>2, <3>1, DueQuiet
  <2>4. QED BY <2>1, <2>2, <2>3, LoadQuiet
<1>3. QED BY <1>1, <1>2

\* A step that adds nothing and registers nothing.
LEMMA AddQuiet ==
  ASSUME TypeOK, TypeOK', Registered, UNCHANGED <<adds, devBps>>,
         \A l \in Locs : Load(l)' <= Load(l)
  PROVE  Registered'
<1> SUFFICES ASSUME NEW l \in Locs
             PROVE  /\ IsFiniteSet(Registrations(l)')
                    /\ Cardinality(Registrations(l)') + Cardinality(OnTheWay(l)')
                         + (IF Due(l)' THEN 1 ELSE 0) <= adds'[l]
  BY DEF Registered
<1>1. Registrations(l)' = Registrations(l) /\ adds' = adds
  BY DEF Registrations
<1>2. IsFiniteSet(Registrations(l)) /\ Cardinality(Registrations(l)) \in Nat
  BY FS_CardinalityType DEF Registered
<1>3. Cardinality(OnTheWay(l)) \in Nat
  BY OnTheWayFinite
<1>4. Cardinality(OnTheWay(l)') \in Nat
  <2>1. toDevice' \in Seq(Request)
    BY DEF TypeOK
  <2>2. QED BY <2>1, PlacesFinite DEF OnTheWay
<1>5. /\ Cardinality(Registrations(l)) + Cardinality(OnTheWay(l)) + (IF Due(l) THEN 1 ELSE 0)
           <= adds[l]
      /\ adds[l] \in Nat
  BY DEF Registered, TypeOK
<1>6. /\ Load(l) = Cardinality(OnTheWay(l)) + (IF Due(l) THEN 1 ELSE 0)
      /\ Load(l)' = Cardinality(OnTheWay(l)') + (IF Due(l)' THEN 1 ELSE 0)
  BY DEF Load
<1>7. Load(l)' <= Load(l)
  OBVIOUS
<1>8. QED BY <1>1, <1>2, <1>3, <1>4, <1>5, <1>6, <1>7

\* A task that asks for something else than a registration, or returns.
LEMMA AddAsk ==
  ASSUME TypeOK, TypeOK', AddInv, NEW t \in Tasks, batch'[t] = {},
         \/ \E cmd, I : Send(t, cmd, {}, I)
         \/ \E a \in {"void", "none"} : Resolve(t, a)
         \/ \E cmd : WhenHalted(t, cmd)
         \/ answer' = [answer EXCEPT ![t] = "none"] /\ UNCHANGED toDevice,
         \A u \in Tasks \ {t} : batch'[u] \subseteq batch[u] /\ pc'[u] = pc[u],
         \A l \in Locs : l \in cached' \ sent' => Due(l),
         UNCHANGED <<open, adds, devBps>>
  PROVE  AddInv'
<1>1. /\ \A u \in Tasks \ {t} : answer'[u] = answer[u]
      /\ open => answer'[t] # "reject"
      /\ \A l \in Locs : OnTheWay(l)' = OnTheWay(l)
  <2>1. CASE answer' = [answer EXCEPT ![t] = "none"] /\ UNCHANGED toDevice
    BY <2>1 DEF TypeOK, OnTheWay
  <2>2. CASE ~(answer' = [answer EXCEPT ![t] = "none"] /\ UNCHANGED toDevice)
    BY <2>2, AskLeaves
  <2>3. QED BY <2>1, <2>2
<1>2. BatchInFlush' /\ OpenAccepts'
  BY <1>1, OthersStay DEF AddInv
<1>3. ASSUME NEW l \in Locs PROVE Load(l)' <= Load(l)
  <2>1. Due(l)' => Due(l)
    BY <1>1, DueQuiet
  <2>2. QED BY <1>1, <2>1, LoadQuiet
<1>4. Registered'
  BY <1>3, AddQuiet DEF AddInv
<1>5. QED BY <1>2, <1>4 DEF AddInv

\* Where the marks of the cache stay as they are, nothing becomes due.
LEMMA StillMarked ==
  ASSUME UNCHANGED <<cached, sent>>
  PROVE  \A l \in Locs : l \in cached' \ sent' => Due(l)
BY DEF Due

\* Elsewhere is a task that has just been told where to go.
LEMMA Went2 ==
  ASSUME TypeOK, NEW t \in Tasks, NEW k, Goto(t, k)
  PROVE  pc'[t] = k /\ \A u \in Tasks \ {t} : pc'[u] = pc[u]
BY DEF TypeOK, Goto

LEMMA AddAddBreakpoints ==
  ASSUME TypeOK, TypeOK', LiveInv, AddInv, NEW c \in Callers, NEW L \in SUBSET Locs,
         AddBreakpoints(c, L)
  PROVE  AddInv'
<1>0. c \in Tasks
  BY DEF Tasks
<1>1. /\ live /\ open /\ open' /\ devBps' = devBps /\ pc[c] = "idle"
      /\ \A u \in Tasks : answer[u] # "reject"
  BY DEF AddBreakpoints, CanCall, LiveInv, devVars
<1>2. /\ adds' = [l \in Locs |-> IF l \in L THEN adds[l] + 1 ELSE adds[l]]
      /\ cached' = cached \cup L
  BY DEF AddBreakpoints
<1>3. batch[c] = {}
  BY <1>0, <1>1 DEF AddInv, BatchInFlush
<1>4. CASE isStopped
  <2> DEFINE r == [cmd |-> "AddBreakpoints", by |-> c, locs |-> L, ids |-> {}]
  <2>1. /\ sent' = sent \cup L
        /\ batch' = [batch EXCEPT ![c] = L]
        /\ Send(c, "AddBreakpoints", L, {})
        /\ Goto(c, "add")
    BY <1>4 DEF AddBreakpoints
  <2>2. toDevice' = Append(toDevice, r) /\ r.locs = L /\ answer' = [answer EXCEPT ![c] = "none"]
    BY <1>1, <2>1 DEF Send
  <2> HIDE DEF r
  <2>3. /\ \A u \in Tasks : answer'[u] # "reject"
        /\ \A u \in Tasks \ {c} : batch'[u] = batch[u] /\ pc'[u] = pc[u] /\ answer'[u] = answer[u]
        /\ pc'[c] = "add"
    BY <1>0, <1>1, <2>1, <2>2, Went2 DEF TypeOK
  <2>4. BatchInFlush' /\ OpenAccepts'
    BY <1>0, <1>1, <2>3, OthersStay DEF AddInv
  <2>5. ASSUME NEW l \in Locs
        PROVE  /\ Due(l)' => Due(l) /\ l \notin L
               /\ Cardinality(OnTheWay(l)') <= Cardinality(OnTheWay(l)) + (IF l \in L THEN 1 ELSE 0)
               /\ Cardinality(OnTheWay(l)') \in Nat
               /\ Cardinality(OnTheWay(l)) \in Nat
    <3>1. Due(l)' => Due(l) /\ l \notin L
      BY <1>2, <2>1, <2>3 DEF Due
    <3>2. /\ l \notin L => OnTheWay(l)' = OnTheWay(l)
          /\ Cardinality(OnTheWay(l)') <= Cardinality(OnTheWay(l)) + 1
          /\ Cardinality(OnTheWay(l)') \in Nat
      BY <2>2, OnTheWayAppended
    <3>3. Cardinality(OnTheWay(l)) \in Nat
      BY OnTheWayFinite
    <3>4. QED BY <3>1, <3>2, <3>3
  <2>6. Registered'
    <3> SUFFICES ASSUME NEW l \in Locs
                 PROVE  /\ IsFiniteSet(Registrations(l)')
                        /\ Cardinality(Registrations(l)') + Cardinality(OnTheWay(l)')
                             + (IF Due(l)' THEN 1 ELSE 0) <= adds'[l]
      BY DEF Registered
    <3>1. Registrations(l)' = Registrations(l)
      BY <1>1 DEF Registrations
    <3>2. IsFiniteSet(Registrations(l)) /\ Cardinality(Registrations(l)) \in Nat
      BY FS_CardinalityType DEF AddInv, Registered
    <3>3. /\ Cardinality(Registrations(l)) + Cardinality(OnTheWay(l)) + (IF Due(l) THEN 1 ELSE 0)
               <= adds[l]
          /\ adds[l] \in Nat
          /\ adds'[l] = IF l \in L THEN adds[l] + 1 ELSE adds[l]
      BY <1>2 DEF AddInv, Registered, TypeOK
    <3>4. QED BY <2>5, <3>1, <3>2, <3>3
  <2>7. QED BY <2>4, <2>6 DEF AddInv
<1>5. CASE ~isStopped
  <2>1. sent' = sent \ L /\ UNCHANGED <<batch, toDevice, answer, pc>>
    BY <1>5 DEF AddBreakpoints
  <2>2. BatchInFlush' /\ OpenAccepts'
    BY <1>1, <2>1 DEF AddInv, BatchInFlush, OpenAccepts
  <2>3. Registered'
    <3> SUFFICES ASSUME NEW l \in Locs
                 PROVE  /\ IsFiniteSet(Registrations(l)')
                        /\ Cardinality(Registrations(l)') + Cardinality(OnTheWay(l)')
                             + (IF Due(l)' THEN 1 ELSE 0) <= adds'[l]
      BY DEF Registered
    <3>1. Registrations(l)' = Registrations(l) /\ OnTheWay(l)' = OnTheWay(l)
      BY <1>1, <2>1 DEF Registrations, OnTheWay
    <3>2. IsFiniteSet(Registrations(l)) /\ Cardinality(Registrations(l)) \in Nat
      BY FS_CardinalityType DEF AddInv, Registered
    <3>3. /\ Cardinality(Registrations(l)) + Cardinality(OnTheWay(l)) + (IF Due(l) THEN 1 ELSE 0)
               <= adds[l]
          /\ adds[l] \in Nat
          /\ adds'[l] = IF l \in L THEN adds[l] + 1 ELSE adds[l]
      BY <1>2 DEF AddInv, Registered, TypeOK
    <3>4. l \notin L => (Due(l)' => Due(l))
      BY <1>2, <2>1 DEF Due
    <3>5. Cardinality(OnTheWay(l)) \in Nat
      BY OnTheWayFinite
    <3>6. QED BY <3>1, <3>2, <3>3, <3>4, <3>5
  <2>4. QED BY <2>2, <2>3 DEF AddInv
<1>6. QED BY <1>4, <1>5

LEMMA AddCall ==
  ASSUME TypeOK, TypeOK', LiveInv, AddInv, NEW c \in Callers, Call(c)
  PROVE  AddInv'
<1>0. c \in Tasks
  BY DEF Tasks
<1>1. pc[c] = "idle" /\ live /\ open /\ \A u \in Tasks : answer[u] # "reject"
  BY DEF Call, CanCall, Continue, Step, Pause, Inspect, Detach, AddBreakpoints, RemoveBreakpoints,
     LiveInv
<1>2. batch[c] = {}
  BY <1>0, <1>1 DEF AddInv, BatchInFlush
<1>3. CASE Continue(c)
  BY <1>0, <1>2, <1>3, AddAsk, StillMarked, Went2 DEF Continue, ResumeRequest, bpVars, devVars
<1>4. CASE Step(c)
  BY <1>0, <1>2, <1>4, AddAsk, StillMarked, Went2 DEF Step, ResumeRequest, bpVars, devVars
<1>5. CASE Pause(c)
  BY <1>0, <1>2, <1>5, AddAsk, StillMarked, Went2 DEF Pause, bpVars, devVars
<1>6. CASE Inspect(c)
  BY <1>0, <1>2, <1>6, AddAsk, StillMarked, Went2 DEF Inspect, bpVars, devVars
<1>7. CASE Detach(c)
  BY <1>0, <1>2, <1>7, AddAsk, StillMarked, Went2 DEF Detach, ResumeRequest, bpVars, devVars
<1>8. ASSUME NEW L \in SUBSET Locs, AddBreakpoints(c, L)
      PROVE  AddInv'
  BY <1>8, AddAddBreakpoints
<1>9. ASSUME NEW L \in SUBSET Locs, RemoveBreakpoints(c, L)
      PROVE  AddInv'
  <2> DEFINE ids == {bpId[l] : l \in L} \ {0}
  <2>1. /\ cached' = cached \ L /\ sent' = sent \ L /\ UNCHANGED <<open, adds, devBps>>
        /\ batch' = [t \in Tasks |-> batch[t] \ L]
    BY <1>9 DEF RemoveBreakpoints, devVars
  <2>2. batch'[c] = {} /\ \A u \in Tasks \ {c} : batch'[u] \subseteq batch[u]
    BY <1>0, <1>2, <2>1
  <2>3. \A l \in Locs : l \in cached' \ sent' => Due(l)
    BY <2>1 DEF Due
  <2>4. CASE ids = {}
    <3>1. UNCHANGED <<toDevice, answer, pc>>
      BY <1>9, <2>4 DEF RemoveBreakpoints
    <3>2. answer' = answer /\ toDevice' = toDevice /\ pc' = pc
      BY <3>1
    <3>3. BatchInFlush' /\ OpenAccepts'
      BY <2>1, <3>2 DEF AddInv, BatchInFlush, OpenAccepts
    <3>4. ASSUME NEW l \in Locs PROVE Load(l)' <= Load(l)
      <4>1. Due(l)' => Due(l)
        BY <1>1, <2>3, <3>2 DEF Due
      <4>2. OnTheWay(l)' = OnTheWay(l)
        BY <3>2 DEF OnTheWay
      <4>3. QED BY <4>1, <4>2, LoadQuiet
    <3>5. Registered'
      BY <2>1, <3>4, AddQuiet DEF AddInv
    <3>6. QED BY <3>3, <3>5 DEF AddInv
  <2>5. CASE ids # {}
    <3>1. Send(c, "RemoveBreakpoints", {}, ids) /\ Goto(c, "remove")
      BY <1>9, <2>5 DEF RemoveBreakpoints
    <3> HIDE DEF ids
    <3>2. QED BY <1>0, <2>1, <2>2, <2>3, <3>1, AddAsk, Went2
  <2>6. QED BY <2>4, <2>5
<1>10. QED BY <1>3, <1>4, <1>5, <1>6, <1>7, <1>8, <1>9 DEF Call

\* A registration that is over: only what was rejected comes back as due.
LEMMA FinishLeaves ==
  ASSUME TypeOK, NEW t \in Tasks, FinishAdd(t), UNCHANGED cached
  PROVE  /\ batch'[t] = {}
         /\ \A u \in Tasks \ {t} : batch'[u] \subseteq batch[u]
         /\ \A l \in Locs : l \in cached' \ sent' => Due(l)
BY DEF FinishAdd, TypeOK, Due

LEMMA AddReturn ==
  ASSUME TypeOK, TypeOK', AddInv, NEW t \in Tasks, Return(t),
         FinishAdd(t) \/ (UNCHANGED <<sent, batch>> /\ batch[t] = {})
  PROVE  AddInv'
<1>1. /\ answer' = [answer EXCEPT ![t] = "none"] /\ Goto(t, "idle")
      /\ UNCHANGED <<toDevice, open, cached, adds, devBps>>
  BY DEF Return, clientVars, devVars
<1>2. /\ batch'[t] = {}
      /\ \A u \in Tasks \ {t} : batch'[u] \subseteq batch[u]
      /\ \A l \in Locs : l \in cached' \ sent' => Due(l)
  BY <1>1, FinishLeaves, StillMarked
<1>3. \A u \in Tasks \ {t} : batch'[u] \subseteq batch[u] /\ pc'[u] = pc[u]
  BY <1>1, <1>2, Went2
<1>4. QED BY <1>1, <1>2, <1>3, AddAsk

\* The streams are gone; a call that waited gets an error, which takes no mark back.
LEMMA AddDestroy ==
  ASSUME TypeOK, TypeOK', AddInv, Destroy, UNCHANGED <<cached, sent, adds, devBps, batch>>,
         \A u \in Tasks : answer'[u] = "reject" => answer[u] = "reject",
         \A u \in Tasks : pc'[u] = pc[u] \/ batch[u] = {}
  PROVE  AddInv'
<1>1. BatchInFlush' /\ OpenAccepts'
  BY DEF AddInv, BatchInFlush, OpenAccepts, Destroy
<1>2. ASSUME NEW l \in Locs PROVE Load(l)' <= Load(l)
  <2>1. Due(l)' => Due(l)
    BY DEF Due
  <2>2. OnTheWay(l)' = {}
    BY DEF Destroy, OnTheWay
  <2>3. QED BY <2>1, <2>2, FS_EmptySet, LoadQuiet
<1>3. QED BY <1>1, <1>2, AddQuiet DEF AddInv

LEMMA AddTasks ==
  ASSUME TypeOK, TypeOK', AddInv,
         (\E c \in Callers : CallerStep(c)) \/ (\E h \in Handlers : HandlerStep(h))
  PROVE  AddInv'
<1>0. \A t \in Tasks : pc[t] \notin {"flush", "entryFlush", "add"} => batch[t] = {}
  BY DEF AddInv, BatchInFlush
<1>0a. ASSUME NEW t \in Tasks, RetryDue(t), RetryVariables(t)
      PROVE  AddInv'
  <2>1. pc[t] = "vars" /\ Send(t, "VariablesRetry", {}, {}) /\ Goto(t, "retry")
    BY <1>0a DEF RetryVariables, RetryDue
  <2>2. QED BY <1>0, <1>0a, <2>1, AddAsk, StillMarked, Went2 DEF RetryVariables, bpVars, devVars
<1>1. ASSUME NEW c \in Callers, CallerStep(c)
      PROVE  AddInv'
  <2>0. c \in Tasks
    BY DEF Tasks
  <2>1. CASE ResumeDone(c)
    BY <1>0, <2>0, <2>1, AddReturn DEF ResumeDone
  <2>2. CASE StepDone(c)
    BY <1>0, <2>0, <2>2, AddReturn DEF StepDone
  <2>3. CASE AddDone(c)
    BY <2>0, <2>3, AddReturn DEF AddDone
  <2>4. CASE CallDone(c)
    BY <1>0, <2>0, <2>4, AddReturn DEF CallDone, VariablesDone
  <2>5. CASE DetachDone(c)
    <3>1. /\ pc[c] = "detach" /\ Destroy /\ UNCHANGED <<cached, sent, adds, devBps, batch>>
          /\ answer' = [Failed(answer) EXCEPT ![c] = "none"] /\ Goto(c, "idle")
      BY <2>5 DEF DetachDone, bpVars, devVars
    <3>2. \A u \in Tasks : answer'[u] = "reject" => answer[u] = "reject"
      BY <3>1 DEF Failed
    <3>3. \A u \in Tasks : pc'[u] = pc[u] \/ batch[u] = {}
      BY <1>0, <2>0, <3>1, Went2
    <3>4. QED BY <3>1, <3>2, <3>3, AddDestroy
  <2>6. QED BY <1>0a, <1>1, <2>0, <2>1, <2>2, <2>3, <2>4, <2>5 DEF CallerStep, CallAnswered
<1>2. ASSUME NEW h \in Handlers, HandlerStep(h)
      PROVE  AddInv'
  <2>0. h \in Tasks
    BY DEF Tasks
  <2>1. CASE GraceOver(h)
    <3>1. /\ StartFlush(h, isStopped) /\ Goto(h, "entryFlush") /\ batch[h] = {}
          /\ isStopped \in BOOLEAN
          /\ UNCHANGED <<open, cached, adds, devBps>>
      BY <1>0, <2>0, <2>1 DEF GraceOver, devVars, TypeOK
    <3>2. /\ \A l \in Locs : Load(l)' <= Load(l)
          /\ \A u \in Tasks \ {h} : answer'[u] = answer[u] /\ batch'[u] \subseteq batch[u]
          /\ open => answer'[h] # "reject"
      BY <2>0, <3>1, FlushLeaves
    <3>3. BatchInFlush' /\ OpenAccepts'
      BY <2>0, <3>1, <3>2, OthersStay, Went2 DEF AddInv
    <3>4. QED BY <3>1, <3>2, <3>3, AddQuiet DEF AddInv
  <2>2. CASE AutoContinue(h)
    <3>1. FinishAdd(h) /\ UNCHANGED <<cached, open, adds, devBps>> /\ WhenHalted(h, "Continue")
          /\ Goto(h, "entryContinue")
      BY <2>2 DEF AutoContinue, ResumeRequest, devVars
    <3>2. QED BY <2>0, <3>1, FinishLeaves, Went2, AddAsk
  <2>3. CASE EntryDone(h)
    BY <1>0, <2>0, <2>3, AddReturn DEF EntryDone
  <2>4. CASE AskThreads(h)
    <3>1. FinishAdd(h) /\ UNCHANGED <<cached, open, adds, devBps>> /\ WhenHalted(h, "Threads")
          /\ Goto(h, "threads")
      BY <2>4 DEF AskThreads, devVars
    <3>2. QED BY <2>0, <3>1, FinishLeaves, Went2, AddAsk
  <2>5. CASE AskStack(h)
    BY <1>0, <2>0, <2>5, AddAsk, StillMarked, Went2 DEF AskStack, bpVars, devVars
  <2>6. CASE AskVariables(h)
    BY <1>0, <2>0, <2>6, AddAsk, StillMarked, Went2 DEF AskVariables, bpVars, devVars
  <2>7. CASE PublishStop(h)
    BY <1>0, <2>0, <2>7, AddReturn DEF PublishStop, VariablesDone
  <2>8. QED BY <1>0a, <1>2, <2>0, <2>1, <2>2, <2>3, <2>4, <2>5, <2>6, <2>7 DEF HandlerStep, VariablesAnswered
<1>3. QED BY <1>1, <1>2

LEMMA AddReceive ==
  ASSUME TypeOK, TypeOK', AddInv, Receive
  PROVE  AddInv'
<1>1. CASE Response
  <2>1. UNCHANGED <<open, toDevice, cached, sent, adds, devBps, pc, batch>>
    BY <1>1 DEF Response, devVars
  <2>2. \A u \in Tasks : answer'[u] = "reject" => answer[u] = "reject"
    BY <1>1 DEF Response, TypeOK
  <2>3. BatchInFlush' /\ OpenAccepts'
    BY <2>1, <2>2 DEF AddInv, BatchInFlush, OpenAccepts
  <2>4. ASSUME NEW l \in Locs PROVE Load(l)' <= Load(l)
    <3>1. Due(l)' => Due(l)
      BY <2>1, <2>2 DEF Due
    <3>2. OnTheWay(l)' = OnTheWay(l)
      BY <2>1 DEF OnTheWay
    <3>3. QED BY <3>1, <3>2, LoadQuiet
  <2>5. QED BY <2>1, <2>3, <2>4, AddQuiet DEF AddInv
<1>2. CASE SilentStop
  <2>1. UNCHANGED <<open, toDevice, cached, sent, adds, devBps, pc, batch, answer>>
    BY <1>2 DEF SilentStop, devVars, bpVars, taskVars
  <2>2. BatchInFlush' /\ OpenAccepts'
    BY <2>1 DEF AddInv, BatchInFlush, OpenAccepts
  <2>3. ASSUME NEW l \in Locs PROVE Load(l)' <= Load(l)
    BY <2>1, LoadQuiet DEF Due, OnTheWay
  <2>4. QED BY <2>1, <2>2, <2>3, AddQuiet DEF AddInv
<1>3. ASSUME NEW h \in Handlers, EntrySuspend(h) PROVE AddInv'
  <2>1. /\ UNCHANGED <<open, toDevice, cached, sent, adds, devBps, batch, answer>>
        /\ Goto(h, "grace") /\ pc[h] = "idle" /\ h \in Tasks
    BY <1>3 DEF EntrySuspend, devVars, bpVars, Tasks
  <2>2. BatchInFlush' /\ OpenAccepts'
    BY <2>1, Went2 DEF AddInv, BatchInFlush, OpenAccepts
  <2>3. ASSUME NEW l \in Locs PROVE Load(l)' <= Load(l)
    BY <2>1, LoadQuiet DEF Due, OnTheWay
  <2>4. QED BY <2>1, <2>2, <2>3, AddQuiet DEF AddInv
<1>4. ASSUME NEW h \in Handlers, ReportStop(h) PROVE AddInv'
  <2>0. h \in Tasks
    BY DEF Tasks
  <2>1. /\ StartFlush(h, TRUE) /\ Goto(h, "flush") /\ pc[h] = "idle"
        /\ UNCHANGED <<open, cached, adds, devBps>>
    BY <1>4 DEF ReportStop, devVars
  <2>2. batch[h] = {}
    BY <2>0, <2>1 DEF AddInv, BatchInFlush
  <2>3. /\ \A l \in Locs : Load(l)' <= Load(l)
        /\ \A u \in Tasks \ {h} : answer'[u] = answer[u] /\ batch'[u] \subseteq batch[u]
        /\ open => answer'[h] # "reject"
    BY <2>0, <2>1, <2>2, FlushLeaves
  <2>4. BatchInFlush' /\ OpenAccepts'
    BY <2>0, <2>1, <2>3, OthersStay, Went2 DEF AddInv
  <2>5. QED BY <2>1, <2>3, <2>4, AddQuiet DEF AddInv
<1>5. QED BY <1>1, <1>2, <1>3, <1>4 DEF Receive

\* The device moves: a registration is paid for by the request it serves.
LEMMA AddMoves ==
  ASSUME TypeOK, TypeOK', AddInv, UNCHANGED <<open, adds, cached, sent, pc, answer, batch>>,
         NEW L \in SUBSET Locs,
         \A l \in Locs : Cardinality(OnTheWay(l)') + (IF l \in L THEN 1 ELSE 0)
                           <= Cardinality(OnTheWay(l)),
         \A l \in Locs \ L : Registrations(l)' \subseteq Registrations(l),
         \A l \in L : \E b : Registrations(l)' \subseteq Registrations(l) \cup {b}
  PROVE  AddInv'
<1>1. BatchInFlush' /\ OpenAccepts'
  BY DEF AddInv, BatchInFlush, OpenAccepts
<1>2. SUFFICES ASSUME NEW l \in Locs
               PROVE  /\ IsFiniteSet(Registrations(l)')
                      /\ Cardinality(Registrations(l)') + Cardinality(OnTheWay(l)')
                           + (IF Due(l)' THEN 1 ELSE 0) <= adds'[l]
  BY <1>1 DEF AddInv, Registered
<1>3. IsFiniteSet(Registrations(l)) /\ Cardinality(Registrations(l)) \in Nat
  BY FS_CardinalityType DEF AddInv, Registered
<1>4. /\ IsFiniteSet(Registrations(l)')
      /\ Cardinality(Registrations(l)') \in Nat
      /\ Cardinality(Registrations(l)')
           <= Cardinality(Registrations(l)) + (IF l \in L THEN 1 ELSE 0)
  <2>1. CASE l \notin L
    <3>1. Registrations(l)' \in SUBSET Registrations(l)
      BY <2>1
    <3>2. /\ IsFiniteSet(Registrations(l)')
          /\ Cardinality(Registrations(l)') <= Cardinality(Registrations(l))
      BY <1>3, <3>1, FS_Subset
    <3>3. Cardinality(Registrations(l)') \in Nat
      BY <3>2, FS_CardinalityType
    <3>4. QED BY <1>3, <2>1, <3>2, <3>3
  <2>2. CASE l \in L
    <3>1. PICK b : Registrations(l)' \subseteq Registrations(l) \cup {b}
      BY <2>2
    <3> DEFINE more == Registrations(l) \cup {b}
    <3>2. IsFiniteSet(more) /\ Cardinality(more) =
            IF b \in Registrations(l) THEN Cardinality(Registrations(l))
            ELSE Cardinality(Registrations(l)) + 1
      BY <1>3, FS_AddElement
    <3>3. Registrations(l)' \in SUBSET more
      BY <3>1
    <3> HIDE DEF more
    <3>4. /\ IsFiniteSet(Registrations(l)')
          /\ Cardinality(Registrations(l)') <= Cardinality(more)
      BY <3>2, <3>3, FS_Subset
    <3>5. Cardinality(Registrations(l)') \in Nat
      BY <3>4, FS_CardinalityType
    <3>6. QED BY <1>3, <2>2, <3>2, <3>4, <3>5
  <2>3. QED BY <2>1, <2>2
<1>5. Cardinality(OnTheWay(l)) \in Nat
  BY OnTheWayFinite
<1>6. Cardinality(OnTheWay(l)') \in Nat
  <2>1. toDevice' \in Seq(Request)
    BY DEF TypeOK
  <2>2. QED BY <2>1, PlacesFinite DEF OnTheWay
<1>7. Due(l)' <=> Due(l)
  BY DEF Due
<1>8. /\ Cardinality(Registrations(l)) + Cardinality(OnTheWay(l)) + (IF Due(l) THEN 1 ELSE 0)
           <= adds[l]
      /\ adds[l] \in Nat /\ adds' = adds
  BY DEF AddInv, Registered, TypeOK
<1>9. Cardinality(OnTheWay(l)') + (IF l \in L THEN 1 ELSE 0) <= Cardinality(OnTheWay(l))
  OBVIOUS
<1>10. QED BY <1>3, <1>4, <1>5, <1>6, <1>7, <1>8, <1>9

\* The same for a device that registers nothing.
LEMMA AddRests ==
  ASSUME TypeOK, TypeOK', AddInv, UNCHANGED <<open, adds, cached, sent, pc, answer, batch>>,
         \A l \in Locs : Cardinality(OnTheWay(l)') <= Cardinality(OnTheWay(l)),
         devBps' \subseteq devBps
  PROVE  AddInv'
<1> DEFINE none == {}
<1>1. none \in SUBSET Locs /\ \A l \in Locs : l \notin none
  OBVIOUS
<1>2. ASSUME NEW l \in Locs
      PROVE  Cardinality(OnTheWay(l)') + (IF l \in none THEN 1 ELSE 0) <= Cardinality(OnTheWay(l))
  <2>1. toDevice' \in Seq(Request)
    BY DEF TypeOK
  <2>2. Cardinality(OnTheWay(l)') \in Nat
    BY <2>1, PlacesFinite DEF OnTheWay
  <2>3. QED BY <1>1, <2>2
<1>3. \A l \in Locs : Registrations(l)' \subseteq Registrations(l)
  BY DEF Registrations
<1>4. \A l \in none : \E b : Registrations(l)' \subseteq Registrations(l) \cup {b}
  OBVIOUS
<1> HIDE DEF none
<1>5. QED BY <1>1, <1>2, <1>3, <1>4, AddMoves

LEMMA AddDevice ==
  ASSUME TypeOK, TypeOK', AddInv, Device
  PROVE  AddInv'
<1>1. UNCHANGED <<open, adds, cached, sent, pc, answer, batch>>
  BY DeviceLeaves DEF bpVars, taskVars
<1>2. ASSUME devBps' \subseteq devBps, UNCHANGED toDevice
      PROVE  AddInv'
  <2>1. \A l \in Locs : OnTheWay(l)' = OnTheWay(l)
    BY <1>2 DEF OnTheWay
  <2>2. \A l \in Locs : Cardinality(OnTheWay(l)') <= Cardinality(OnTheWay(l))
    BY <2>1, OnTheWayFinite
  <2>3. QED BY <1>1, <1>2, <2>2, AddRests
<1>3. ASSUME devBps' \subseteq devBps, NEW cmds, Serve(cmds)
      PROVE  AddInv'
  <2>1. toDevice # <<>> /\ toDevice' = Tail(toDevice)
    BY <1>3 DEF Serve
  <2>2. ASSUME NEW l \in Locs
        PROVE  Cardinality(OnTheWay(l)') <= Cardinality(OnTheWay(l))
    <3>1. Cardinality(OnTheWay(l)') + (IF l \in Head(toDevice).locs THEN 1 ELSE 0)
            <= Cardinality(OnTheWay(l))
      BY <2>1, OnTheWayServed
    <3>2. Cardinality(OnTheWay(l)) \in Nat
      BY OnTheWayFinite
    <3>3. Cardinality(OnTheWay(l)') \in Nat
      <4>1. toDevice' \in Seq(Request)
        BY DEF TypeOK
      <4>2. QED BY <4>1, PlacesFinite DEF OnTheWay
    <3>4. QED BY <3>1, <3>2, <3>3
  <2>3. QED BY <1>1, <1>3, <2>2, AddRests
<1>4. ASSUME NEW why \in Reasons, DeviceHalt(why) PROVE AddInv'
  BY <1>2, <1>4 DEF DeviceHalt
<1>6. CASE DeviceResume
  BY <1>3, <1>6 DEF DeviceResume
<1>7. CASE DeviceRefuse
  BY <1>3, <1>7 DEF DeviceRefuse, devVars
<1>8. CASE DevicePause
  BY <1>3, <1>8 DEF DevicePause
<1>9. CASE DeviceRemove
  BY <1>3, <1>9 DEF DeviceRemove
<1>10. CASE DeviceInspect
  BY <1>3, <1>10 DEF DeviceInspect, devVars
<1>11. CASE DeviceAdd
  <2> DEFINE L == Head(toDevice).locs
  <2>1. toDevice # <<>> /\ toDevice' = Tail(toDevice)
    BY <1>11 DEF DeviceAdd, Serve
  <2>2. L \in SUBSET Locs
    <3>1. Head(toDevice) \in Request
      BY <2>1 DEF TypeOK
    <3>2. QED BY <3>1 DEF Request
  <2>3. PICK id : \/ devBps' = devBps
                  \/ devBps' = devBps \cup {[loc |-> l, id |-> id[l]] : l \in L}
    BY <1>11 DEF DeviceAdd
  <2>4. \A l \in Locs : Cardinality(OnTheWay(l)') + (IF l \in L THEN 1 ELSE 0)
                          <= Cardinality(OnTheWay(l))
    BY <2>1, OnTheWayServed
  <2> HIDE DEF L
  <2>5. ASSUME NEW l \in Locs
        PROVE  /\ l \notin L => Registrations(l)' \subseteq Registrations(l)
               /\ Registrations(l)' \subseteq Registrations(l) \cup {[loc |-> l, id |-> id[l]]}
    BY <2>3 DEF Registrations
  <2>6. \A l \in Locs \ L : Registrations(l)' \subseteq Registrations(l)
    BY <2>5
  <2>7. \A l \in L : \E b : Registrations(l)' \subseteq Registrations(l) \cup {b}
    BY <2>2, <2>5
  <2>8. QED BY <1>1, <2>2, <2>4, <2>6, <2>7, AddMoves
<1>12. QED BY <1>4, <1>6, <1>7, <1>8, <1>9, <1>10, <1>11 DEF Device

LEMMA AddNext ==
  ASSUME TypeOK, TypeOK', LiveInv, AddInv, [Next]_vars
  PROVE  AddInv'
<1>1. CASE \E c \in Callers : Call(c) \/ CallerStep(c)
  BY <1>1, AddCall, AddTasks
<1>2. CASE \E h \in Handlers : HandlerStep(h)
  BY <1>2, AddTasks
<1>3. CASE Receive
  BY <1>3, AddReceive
<1>4. CASE SessionEnd
  <2>1. /\ Destroy /\ UNCHANGED <<cached, sent, adds, devBps, batch, pc>>
        /\ answer' = Failed(answer)
    BY <1>4 DEF SessionEnd, bpVars, devVars
  <2>2. \A u \in Tasks : answer'[u] = "reject" => answer[u] = "reject"
    BY <2>1 DEF Failed
  <2>3. QED BY <2>1, <2>2, AddDestroy
<1>5. CASE Device
  BY <1>5, AddDevice
<1>6. CASE UNCHANGED vars
  <2>1. UNCHANGED <<open, toDevice, cached, sent, adds, devBps, pc, batch, answer>>
    BY <1>6 DEF vars, clientVars, bpVars, taskVars, devVars
  <2>2. BatchInFlush' /\ OpenAccepts'
    BY <2>1 DEF AddInv, BatchInFlush, OpenAccepts
  <2>3. ASSUME NEW l \in Locs PROVE Load(l)' <= Load(l)
    BY <2>1, LoadQuiet DEF Due, OnTheWay
  <2>4. QED BY <2>1, <2>2, <2>3, AddQuiet DEF AddInv
<1>7. QED BY <1>1, <1>2, <1>3, <1>4, <1>5, <1>6 DEF Next

LEMMA AddInit == ASSUME Init PROVE AddInv
<1>1. BatchInFlush /\ OpenAccepts
  BY DEF Init, BatchInFlush, OpenAccepts
<1>2. \A l \in Locs : Registrations(l) = {} /\ OnTheWay(l) = {} /\ ~Due(l) /\ adds[l] = 0
  BY DEF Init, Registrations, OnTheWay, Due
<1>3. Registered
  BY <1>2, FS_EmptySet DEF Registered
<1>4. QED BY <1>1, <1>3 DEF AddInv

LEMMA AddInvImplies == ASSUME TypeOK, AddInv PROVE NoDoubleRegister
<1> SUFFICES ASSUME NEW l \in Locs
             PROVE  Cardinality(Registrations(l)) + Cardinality(OnTheWay(l)) <= adds[l]
  BY DEF NoDoubleRegister, Registrations, OnTheWay
<1>1. Cardinality(Registrations(l)) \in Nat
  BY FS_CardinalityType DEF AddInv, Registered
<1>2. Cardinality(OnTheWay(l)) \in Nat
  BY OnTheWayFinite
<1>3. /\ Cardinality(Registrations(l)) + Cardinality(OnTheWay(l)) + (IF Due(l) THEN 1 ELSE 0)
           <= adds[l]
      /\ adds[l] \in Nat
  BY DEF AddInv, Registered, TypeOK
<1>4. QED BY <1>1, <1>2, <1>3

\* No location is on the device and on its way more often than the callers added it,
\* however adds, removals, flushes, rejections and the end of the session overlap.
THEOREM NoDoubleRegisterHolds ==
  ASSUME IsFiniteSet(Locs)
  PROVE  Spec => []NoDoubleRegister
<1> DEFINE Inv == TypeOK /\ LiveInv /\ AddInv
<1>1. Init => Inv
  BY InitType, LiveInit, AddInit
<1>2. Inv /\ [Next]_vars => Inv'
  BY NextType, LiveNext, AddNext
<1>3. Inv => NoDoubleRegister
  BY AddInvImplies
<1>4. QED BY <1>1, <1>2, <1>3, PTL DEF Spec
=============================================================================
